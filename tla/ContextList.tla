----------------------------- MODULE ContextList -----------------------------
(***************************************************************************)
(* The doubly linked list of managed windows (context_list.c), as memory:  *)
(* nodes and xcwm_window_t are allocated, freed and allocated again.  The  *)
(* event thread adds and removes windows.  A dispatch queue of the window  *)
(* manager meanwhile runs xcwm_window_request_close, which walks the list  *)
(* node by node and takes no lock.  Its loads and the stores of the event  *)
(* thread are taken to be sequentially consistent.                         *)
(***************************************************************************)
EXTENDS Naturals, Sequences

CONSTANTS Ids,      \* XIDs of windows
          Root,     \* XID of the root window
          Nodes,    \* addresses malloc may return for a _xcwm_window_node
          Objs,     \* addresses malloc may return for an xcwm_window_t
          Null,
          MaxClose  \* bound: requests to close queued at a time

ASSUME NullAssumption == Null \notin Nodes \cup Objs \cup Ids \cup {Root}
ASSUME RootAssumption == Root \notin Ids

VARIABLES
  head,     \* _xcwm_window_list_head
  nodes,    \* nodes allocated
  next, prev, window,  \* the fields of each node
  objs,     \* windows allocated
  windowId, \* window_id of each window
  dying,    \* window off the list whose DESTROY callback is running
  closing,  \* dispatch queue: windows the user wants closed
  at,       \* the dispatch queue is idle, walking, found or has used freed memory
  target,   \* the window it was asked to close
  curr,     \* the node it has reached
  sought,   \* the XID it looks for
  order,    \* history: the nodes in the list, the one added last first
  stayed    \* history: has sought been in the list ever since the walk began?

memory == <<head, nodes, next, prev, window, objs, windowId, dying, order>>
walk == <<closing, at, target, curr, sought>>
vars == <<memory, walk, stayed>>

IdOf(n) == windowId[window[n]]
Listed(id) == \E n \in nodes : IdOf(n) = id

Without(s, i) ==
  [j \in 1 .. Len(s) - 1 |-> IF j < i THEN s[j] ELSE s[j + 1]]

----------------------------------------------------------------------------
(* The event thread *)

\* Seeded fault: the node that was first keeps no way back.
Link_OneWay(n, o) ==
  /\ nodes' = nodes \cup {n}
  /\ window' = [window EXCEPT ![n] = o]
  /\ next' = [next EXCEPT ![n] = head]
  /\ prev' = [prev EXCEPT ![n] = Null]
  /\ head' = n
  /\ order' = <<n>> \o order

\* _xcwm_add_window puts a new node before the first.
Link(n, o) ==
  /\ nodes' = nodes \cup {n}
  /\ window' = [window EXCEPT ![n] = o]
  /\ next' = [next EXCEPT ![n] = head]
  /\ prev' = [m \in Nodes |-> IF m = n THEN Null ELSE
                              IF m = head THEN n ELSE prev[m]]
  /\ head' = n
  /\ order' = <<n>> \o order

\* Seeded fault: a window that is in the list is added again.
Add_Unchecked(id, n, o) ==
  /\ dying = Null
  /\ n \notin nodes /\ o \notin objs
  /\ objs' = objs \cup {o}
  /\ windowId' = [windowId EXCEPT ![o] = id]
  /\ Link(n, o)
  /\ UNCHANGED <<dying, walk, stayed>>

\* _xcwm_window_create: only a window that is not in the list is added.
Add(id, n, o) ==
  /\ dying = Null
  /\ ~Listed(id)
  /\ n \notin nodes /\ o \notin objs
  /\ objs' = objs \cup {o}
  /\ windowId' = [windowId EXCEPT ![o] = id]
  /\ Link(n, o)
  /\ UNCHANGED <<dying, walk, stayed>>

\* Seeded fault: the head is left on a node that is freed.
Unlink_HeadKept(n) ==
  /\ prev' = [m \in Nodes |-> IF m = next[n] THEN prev[n] ELSE prev[m]]
  /\ next' = [m \in Nodes |-> IF m = prev[n] THEN next[n] ELSE next[m]]
  /\ nodes' = nodes \ {n}
  /\ \E i \in DOMAIN order : order[i] = n /\ order' = Without(order, i)
  /\ UNCHANGED <<head, window>>

\* _xcwm_remove_window_node unlinks a node and frees it.
Unlink(n) ==
  /\ prev' = [m \in Nodes |-> IF m = next[n] THEN prev[n] ELSE prev[m]]
  /\ next' = [m \in Nodes |-> IF m = prev[n] THEN next[n] ELSE next[m]]
  /\ head' = IF prev[n] = Null THEN next[n] ELSE head
  /\ nodes' = nodes \ {n}
  /\ \E i \in DOMAIN order : order[i] = n /\ order' = Without(order, i)
  /\ UNCHANGED window

\* _xcwm_window_remove finds the node that holds the XID.
Remove(id) ==
  /\ dying = Null
  /\ \E n \in nodes : /\ IdOf(n) = id
                      /\ Unlink(n)
                      /\ dying' = window[n]
  /\ stayed' = (stayed /\ id # sought)
  /\ UNCHANGED <<objs, windowId, walk>>

\* Seeded fault: the window is not freed.
Release_Leak ==
  /\ dying # Null
  /\ dying' = Null
  /\ UNCHANGED <<head, nodes, next, prev, window, objs, windowId, order, walk, stayed>>

\* The DESTROY callback has returned.
Release ==
  /\ dying # Null
  /\ objs' = objs \ {dying}
  /\ dying' = Null
  /\ UNCHANGED <<head, nodes, next, prev, window, windowId, order, walk, stayed>>

----------------------------------------------------------------------------
(* The user and the dispatch queue *)

\* windowShouldClose: the user can click on any window still on the screen,
\* which it is until its DESTROY callback has returned.
RequestClose(o) ==
  /\ o \in objs /\ windowId[o] # Root
  /\ Len(closing) < MaxClose
  /\ closing' = Append(closing, o)
  /\ UNCHANGED <<memory, at, target, curr, sought, stayed>>

\* Seeded fault: the walk passes over the first node.
StartWalk_AfterHead ==
  /\ at = "idle" /\ closing # <<>>
  /\ closing' = Tail(closing)
  /\ LET o == Head(closing) IN
       /\ target' = o
       /\ \/ /\ o \in objs
             /\ sought' = windowId[o]
             /\ stayed' = Listed(windowId[o])
             /\ curr' = next[head]
             /\ at' = "walking"
          \/ o \notin objs /\ at' = "freed" /\ UNCHANGED <<curr, sought, stayed>>
  /\ UNCHANGED memory

\* window->window_id and _xcwm_window_list_head are read.
StartWalk ==
  /\ at = "idle" /\ closing # <<>>
  /\ closing' = Tail(closing)
  /\ LET o == Head(closing) IN
       /\ target' = o
       /\ \/ /\ o \in objs
             /\ sought' = windowId[o]
             /\ stayed' = Listed(windowId[o])
             /\ curr' = head
             /\ at' = "walking"
          \/ o \notin objs /\ at' = "freed" /\ UNCHANGED <<curr, sought, stayed>>
  /\ UNCHANGED memory

\* curr->window->window_id is compared, then curr->next followed.
Walk ==
  /\ at = "walking" /\ curr # Null
  /\ \/ curr \notin nodes /\ at' = "freed" /\ UNCHANGED curr
     \/ curr \in nodes /\ IdOf(curr) = sought /\ at' = "found" /\ UNCHANGED curr
     \/ curr \in nodes /\ IdOf(curr) # sought /\ curr' = next[curr] /\ UNCHANGED at
  /\ UNCHANGED <<memory, closing, target, sought, stayed>>

\* The window is not in the list: nothing is sent.
WalkEnds ==
  /\ at = "walking" /\ curr = Null
  /\ at' = "idle"
  /\ UNCHANGED <<memory, closing, target, curr, sought, stayed>>

\* wm_delete_set of the window decides how it is closed.
SendClose ==
  /\ at = "found"
  /\ at' = IF target \in objs THEN "idle" ELSE "freed"
  /\ UNCHANGED <<memory, closing, target, curr, sought, stayed>>

----------------------------------------------------------------------------
\* xcwm_context_open has added the root window, which no one removes.
Init ==
  \E n \in Nodes, o \in Objs :
    /\ head = n /\ nodes = {n} /\ order = <<n>>
    /\ next = [m \in Nodes |-> Null] /\ prev = [m \in Nodes |-> Null]
    /\ window = [m \in Nodes |-> IF m = n THEN o ELSE Null]
    /\ objs = {o}
    /\ windowId = [x \in Objs |-> IF x = o THEN Root ELSE Null]
    /\ dying = Null
    /\ closing = <<>> /\ at = "idle"
    /\ target = Null /\ curr = Null /\ sought = Null
    /\ stayed = FALSE

Next ==
  \/ \E id \in Ids, n \in Nodes, o \in Objs : Add(id, n, o)
  \/ \E id \in Ids : Remove(id)
  \/ Release
  \/ \E o \in Objs : RequestClose(o)
  \/ StartWalk \/ Walk \/ WalkEnds \/ SendClose

Spec == Init /\ [][Next]_vars

----------------------------------------------------------------------------
(* Properties *)

\* Type invariant: the head, too, is never left on a node that is freed.
TypeOK ==
  /\ nodes \subseteq Nodes /\ head \in nodes
  /\ next \in [Nodes -> Nodes \cup {Null}]
  /\ prev \in [Nodes -> Nodes \cup {Null}]
  /\ window \in [Nodes -> Objs \cup {Null}]
  /\ objs \subseteq Objs
  /\ windowId \in [Objs -> Ids \cup {Root, Null}]
  /\ dying \in objs \cup {Null}
  /\ closing \in Seq(Objs)
  /\ at \in {"idle", "walking", "found", "freed"}
  /\ target \in Objs \cup {Null} /\ curr \in Nodes \cup {Null}
  /\ sought \in Ids \cup {Root, Null} /\ stayed \in BOOLEAN
  /\ order \in Seq(Nodes)

NodeAt(i) == IF i \in DOMAIN order THEN order[i] ELSE Null

\* Through every order of additions and removals and every reuse of memory,
\* the links from the head pass once through every allocated node, the newest
\* first, and back the same way: what unlinking a node relies on.
Links ==
  /\ nodes = {order[i] : i \in DOMAIN order}
  /\ \A i, j \in DOMAIN order : order[i] = order[j] => i = j
  /\ head = NodeAt(1)
  /\ \A i \in DOMAIN order : /\ next[order[i]] = NodeAt(i + 1)
                             /\ prev[order[i]] = NodeAt(i - 1)

\* A window is allocated exactly as long as one node owns it or its DESTROY
\* callback runs, and no two windows in the list have the same XID.
Owned ==
  /\ objs = {window[n] : n \in nodes} \cup ({dying} \ {Null})
  /\ \A n \in nodes : window[n] # dying /\ IdOf(n) \in Ids \cup {Root}
  /\ \A m, n \in nodes : IdOf(m) = IdOf(n) => m = n

\* A walk without a lock, if it touches no freed memory, never passes by a
\* window that has been in the list all the time, even when the node it is on
\* is unlinked, freed and put in front again: a close is not lost.
NotMissed == at = "walking" /\ curr = Null => ~stayed

\* The list is the stack of windows WindowStack describes.
Stack == INSTANCE WindowStack
           WITH stack <- [i \in DOMAIN order |-> IdOf(order[i])]
StackHolds == Stack!Spec

\* xcwm_window_request_close makes sure that the window is in the list before
\* it uses it; no memory that has been freed is used.
NoUseAfterFree == at # "freed"
=============================================================================
