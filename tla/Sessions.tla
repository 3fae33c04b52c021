------------------------------ MODULE Sessions -------------------------------
(***************************************************************************)
(* What the simulator promises about a simulated user, without sockets,    *)
(* slots or queues: it goes through the phases of a Jabber session in      *)
(* order, it is thrown back to the start at any time, and no more users    *)
(* than there are connection slots are on line together.                   *)
(***************************************************************************)
EXTENDS Naturals, FiniteSets

CONSTANTS Users, Capacity

VARIABLE phase

Phases == {"offline", "dialing", "opened", "logging", "online"}

OnLine == {u \in Users : phase[u] # "offline"}

Init == phase = [u \in Users |-> "offline"]

Move(u, from, to) == phase[u] = from /\ phase' = [phase EXCEPT ![u] = to]

Dial(u) == Cardinality(OnLine) < Capacity /\ Move(u, "offline", "dialing")
StreamOpens(u) == Move(u, "dialing", "opened")
SignOn(u) == Move(u, "opened", "logging")
Accepted(u) == Move(u, "logging", "online")
Drop(u) == phase[u] # "offline" /\ phase' = [phase EXCEPT ![u] = "offline"]

Next ==
  \E u \in Users :
    Dial(u) \/ StreamOpens(u) \/ SignOn(u) \/ Accepted(u) \/ Drop(u)

Spec == Init /\ [][Next]_phase

(* A user whose stream is open signs on or loses the connection. *)
FairSpec == Spec /\ \A u \in Users : WF_phase(SignOn(u))
=============================================================================
