------------------------------- MODULE Shutdown -------------------------------
(***************************************************************************)
(* xcwm_context_close: the main thread asks each listed window to close    *)
(* and takes the list apart, node by node and without a lock, and only     *)
(* then cancels the event thread, which until that takes effect goes on    *)
(* looking windows up, adding and removing them.  The memory of nodes and  *)
(* windows and the walk of xcwm_window_request_close are ContextList's.    *)
(***************************************************************************)
EXTENDS ContextList

CONSTANT MaxEvents    \* bound: events about windows

VARIABLES
  phase,    \* main thread: running, loop, asking, unlinked, freed, cancelling, closed
  mine,     \* head, its local variable
  thread,   \* event thread: waiting, looking, creating, found, removed or dead
  wants,    \* what its handler means to do with the window: add or remove it
  evCurr, evSought,  \* curr and window_id of its lookup
  events,   \* the bound's counter
  listed,   \* history: windows in the list when the close began
  asked,    \* history: windows asked to close by it
  gone,     \* history: windows removed since
  overlap   \* history: was the event thread at work on the list meanwhile?

main == <<phase, mine, listed, asked>>
event == <<thread, wants, evCurr, evSought, events, gone, overlap>>
shVars == <<vars, main, event>>

Broken == at = "freed"
InLoop == phase \in {"loop", "asking", "unlinked", "freed"}

\* A store to, or a free of, memory that is not allocated.
Break == at' = "freed" /\ UNCHANGED <<memory, closing, target, curr, sought, stayed>>

----------------------------------------------------------------------------
(* The main thread *)

\* applicationWillTerminate
BeginClose ==
  /\ ~Broken /\ phase = "running"
  /\ phase' = "loop" /\ mine' = head
  /\ listed' = {window[n] : n \in nodes} /\ asked' = {}
  /\ gone' = {} /\ overlap' = (thread # "waiting")
  /\ UNCHANGED <<vars, thread, wants, evCurr, evSought, events>>

\* xcwm_window_request_close(head->window)
Ask ==
  /\ ~Broken /\ phase = "loop" /\ mine # Null
  /\ phase' = "asking"
  /\ \/ /\ mine \notin nodes \/ window[mine] \notin objs
        /\ Break
     \/ /\ mine \in nodes /\ window[mine] \in objs
        /\ target' = window[mine] /\ sought' = windowId[window[mine]]
        /\ curr' = head /\ at' = "walking"
        /\ UNCHANGED <<memory, closing, stayed>>
  /\ UNCHANGED <<mine, listed, asked, event>>

\* The walk and the request itself, as in ContextList.
RequestStep ==
  /\ phase = "asking"
  /\ \/ (Walk \/ WalkEnds) /\ UNCHANGED asked
     \/ SendClose /\ asked' = asked \cup {target}
  /\ UNCHANGED <<phase, mine, listed, event>>

\* Seeded fault: the head of the list is left where it is.
Advance_Stays ==
  /\ phase = "asking" /\ at = "idle"
  /\ phase' = "unlinked"
  /\ IF mine \in nodes THEN UNCHANGED vars ELSE Break
  /\ UNCHANGED <<mine, listed, asked, event>>

\* _xcwm_window_list_head = head->next
Advance ==
  /\ phase = "asking" /\ at = "idle"
  /\ phase' = "unlinked"
  /\ \/ mine \notin nodes /\ Break
     \/ /\ mine \in nodes
        /\ head' = next[mine]
        /\ UNCHANGED <<nodes, next, prev, window, objs, windowId, dying, order, walk, stayed>>
  /\ UNCHANGED <<mine, listed, asked, event>>

\* free(head); the window itself is never freed.
FreeNode ==
  /\ ~Broken /\ phase = "unlinked"
  /\ phase' = "freed"
  /\ \/ mine \notin nodes /\ Break
     \/ /\ nodes' = nodes \ {mine}
        /\ \E i \in DOMAIN order : order[i] = mine /\ order' = Without(order, i)
        /\ UNCHANGED <<head, next, prev, window, objs, windowId, dying, walk, stayed>>
  /\ UNCHANGED <<mine, listed, asked, event>>

\* Seeded fault: the local variable is not moved on.
NextNode_Stays ==
  /\ ~Broken /\ phase = "freed"
  /\ phase' = "loop"
  /\ UNCHANGED <<vars, mine, listed, asked, event>>

\* head = _xcwm_window_list_head
NextNode ==
  /\ ~Broken /\ phase = "freed"
  /\ phase' = "loop" /\ mine' = head
  /\ UNCHANGED <<vars, listed, asked, event>>

\* Seeded fault: the loop ends with one window left.
StopLoop_OneLeft ==
  /\ ~Broken /\ phase = "loop"
  /\ \/ mine = Null
     \/ mine \in nodes /\ next[mine] = Null
  /\ phase' = "cancelling"
  /\ UNCHANGED <<vars, mine, listed, asked, event>>

\* _xcwm_event_stop_loop: pthread_cancel asks the event thread to end.
StopLoop ==
  /\ ~Broken /\ phase = "loop" /\ mine = Null
  /\ phase' = "cancelling"
  /\ UNCHANGED <<vars, mine, listed, asked, event>>

\* Seeded fault: the event thread is waited for.
Disconnect_Joins ==
  /\ ~Broken /\ phase = "cancelling" /\ thread = "dead"
  /\ phase' = "closed"
  /\ UNCHANGED <<vars, mine, listed, asked, event>>

\* xcb_disconnect, whether or not the event thread has ended.
Disconnect ==
  /\ ~Broken /\ phase = "cancelling"
  /\ phase' = "closed"
  /\ UNCHANGED <<vars, mine, listed, asked, event>>

MainStep ==
  \/ BeginClose \/ Ask \/ RequestStep \/ Advance \/ FreeNode \/ NextNode
  \/ StopLoop \/ Disconnect

----------------------------------------------------------------------------
(* The event thread *)

\* An event about a window: its handler starts from the head of the list.
Look(id, purpose) ==
  /\ ~Broken /\ thread = "waiting" /\ events < MaxEvents
  /\ thread' = "looking" /\ wants' = purpose
  /\ evSought' = id /\ evCurr' = head
  /\ events' = events + 1
  /\ overlap' = (overlap \/ InLoop)
  /\ UNCHANGED <<vars, main, gone>>

\* One node of the lookup; where it ends, the handler is done or goes on.
LookStep ==
  /\ ~Broken /\ thread = "looking"
  /\ \/ /\ evCurr = Null
        /\ thread' = IF wants = "add" THEN "creating" ELSE "waiting"
        /\ UNCHANGED <<vars, evCurr>>
     \/ /\ evCurr \in nodes /\ IdOf(evCurr) = evSought
        /\ thread' = IF wants = "add" THEN "waiting" ELSE "found"
        /\ UNCHANGED <<vars, evCurr>>
     \/ /\ evCurr \in nodes /\ IdOf(evCurr) # evSought
        /\ evCurr' = next[evCurr]
        /\ UNCHANGED <<vars, thread>>
     \/ /\ evCurr \notin nodes \cup {Null}
        /\ Break /\ UNCHANGED <<thread, evCurr>>
  /\ UNCHANGED <<main, wants, evSought, events, gone, overlap>>

\* _xcwm_window_create has its replies; _xcwm_add_window writes to the first node.
Create(n, o) ==
  /\ ~Broken /\ thread = "creating"
  /\ n \notin nodes /\ o \notin objs
  /\ thread' = "waiting"
  /\ \/ head \notin nodes \cup {Null} /\ Break
     \/ /\ head \in nodes \cup {Null}
        /\ objs' = objs \cup {o} /\ windowId' = [windowId EXCEPT ![o] = evSought]
        /\ Link(n, o)
        /\ UNCHANGED <<dying, walk, stayed>>
  /\ UNCHANGED <<main, wants, evCurr, evSought, events, gone, overlap>>

\* _xcwm_remove_window_node, whose own lookup is not told apart from the first:
\* both neighbours of the node are written to.
RemoveNode ==
  /\ ~Broken /\ thread = "found"
  /\ thread' = "removed"
  /\ \/ /\ {evCurr, next[evCurr], prev[evCurr]} \ {Null} \subseteq nodes
        /\ Unlink(evCurr)
        /\ dying' = window[evCurr] /\ gone' = gone \cup {window[evCurr]}
        /\ UNCHANGED <<objs, windowId, walk, stayed>>
     \/ /\ ~({evCurr, next[evCurr], prev[evCurr]} \ {Null} \subseteq nodes)
        /\ Break /\ UNCHANGED gone
  /\ UNCHANGED <<main, wants, evCurr, evSought, events, overlap>>

\* The DESTROY callback has returned.
ReleaseWindow ==
  /\ ~Broken /\ thread = "removed"
  /\ Release
  /\ thread' = "waiting"
  /\ UNCHANGED <<main, wants, evCurr, evSought, events, gone, overlap>>

\* The request to end is heeded where the thread waits or prints, sooner or later.
Die ==
  /\ ~Broken /\ phase \in {"cancelling", "closed"}
  /\ thread \in {"waiting", "creating", "removed"}
  /\ thread' = "dead"
  /\ UNCHANGED <<vars, main, wants, evCurr, evSought, events, gone, overlap>>

EventStep ==
  \/ \E id \in Ids, purpose \in {"add", "remove"} : Look(id, purpose)
  \/ LookStep
  \/ \E n \in Nodes, o \in Objs : Create(n, o)
  \/ RemoveNode \/ ReleaseWindow \/ Die

----------------------------------------------------------------------------
ShInit ==
  /\ Init
  /\ phase = "running" /\ mine = Null
  /\ thread = "waiting" /\ wants = "add" /\ evCurr = Null /\ evSought = Null
  /\ events = 0
  /\ listed = {} /\ asked = {} /\ gone = {} /\ overlap = FALSE

ShNext == MainStep \/ EventStep

----------------------------------------------------------------------------
(* Properties *)

\* Type invariant: unless the event thread is at work meanwhile, the head of the
\* list is never left on memory that is freed.
ShTypeOK ==
  /\ phase \in {"running", "loop", "asking", "unlinked", "freed", "cancelling", "closed"}
  /\ mine \in Nodes \cup {Null}
  /\ thread \in {"waiting", "looking", "creating", "found", "removed", "dead"}
  /\ wants \in {"add", "remove"}
  /\ evCurr \in Nodes \cup {Null} /\ evSought \in Ids \cup {Null}
  /\ listed \subseteq Objs /\ asked \subseteq Objs /\ gone \subseteq Objs
  /\ nodes \subseteq Nodes /\ objs \subseteq Objs
  /\ overlap \/ head \in nodes \cup {Null}

\* Closing the context uses no freed memory and frees none twice, nor does the
\* event thread, before and after, unless the event thread works on the list
\* between the first and the last step of the loop.
SafeIfQuiet == Broken => overlap

\* Every window in the list when the close began is asked to close or has been
\* removed by the event thread meanwhile, whatever that thread adds or removes, if
\* no freed memory is used.
CloseAsksAll ==
  ~Broken /\ phase \in {"cancelling", "closed"} => listed \subseteq asked \cup gone

\* Whatever the event thread does meanwhile, the close ends, or uses freed memory:
\* no links left by it lead the main thread round in a circle.
CloseFinishes == phase = "loop" ~> phase = "closed" \/ Broken
=============================================================================
