------------------------------ MODULE ContextLife ------------------------------
(***************************************************************************)
(* The life of a context: the process Self opens it, among others that     *)
(* want the same display (Startup), and closes it in the end (Shutdown).   *)
(***************************************************************************)
EXTENDS Shutdown, Startup

CONSTANTS Self,
          Apart   \* bound: do others act only where no events about windows come?

ASSUME SelfAssumption == Self \in Managers /\ Apart \in BOOLEAN

lifeVars == <<shVars, stVars>>

Alone == /\ \A m \in Managers \ {Self} : stage[m] = "idle"
         /\ \A c \in Compositors : compositor[c] = "off"

OpenSelf == Opening(Self) /\ UNCHANGED shVars

Others ==
  /\ Apart => events = 0
  /\ \/ \E m \in Managers \ {Self} :
          Opening(m) \/ ReleaseAtoms(m) \/ CloseConnection(m) \/ Killed(m)
     \/ Compositing
  /\ UNCHANGED shVars

\* The rest of xcwm_context_close, from the point where the list is empty.
EndSelf == \/ StopLoop /\ ReleaseAtoms(Self)
           \/ Disconnect /\ CloseConnection(Self)

\* The user quits: the loop over the list begins, and goes on.
CloseList ==
  /\ stage[Self] = "open"
  /\ BeginClose \/ Ask \/ RequestStep \/ Advance \/ FreeNode \/ NextNode
  /\ UNCHANGED stVars

Events ==
  /\ stage[Self] \in {"open", "released", "closed"}
  /\ EventStep
  /\ Apart => Alone
  /\ UNCHANGED stVars

LifeInit == ShInit /\ StInit
LifeNext == OpenSelf \/ CloseList \/ EndSelf \/ Events \/ Others

\* The main thread is never held up for good; the user quits at some time or never.
LifeSpec == /\ LifeInit /\ [][LifeNext]_lifeVars
            /\ WF_lifeVars(phase # "running" /\ (CloseList \/ EndSelf))
=============================================================================
