------------------------------ MODULE EventLog ------------------------------
(***************************************************************************)
(* What the event protocol of pmuxd promises (docs/control-plane.md): the  *)
(* changes of one incarnation of the daemon form one sequence, and what a  *)
(* follower knows of them is always a prefix without gaps, which only      *)
(* grows while that incarnation runs.                                      *)
(***************************************************************************)
EXTENDS Naturals

CONSTANT Followers

VARIABLES
    epoch,     \* incarnation of the daemon
    sequence,  \* number of its changes so far
    view       \* the changes <<epoch, n>> each follower knows of

vars == <<epoch, sequence, view>>

(* The first n changes of incarnation e. *)
Prefix(e, n) == {e} \X (1..n)

Init ==
    /\ epoch = 0
    /\ sequence = 0
    /\ view = [c \in Followers |-> {}]

Change ==
    /\ sequence' = sequence + 1
    /\ UNCHANGED <<epoch, view>>

(* A follower never forgets a change of the running incarnation.            *)
Learn(c) ==
    /\ \E n \in 0..sequence :
        /\ \A v \in view[c] : v[1] = epoch => v[2] <= n
        /\ view' = [view EXCEPT ![c] = Prefix(epoch, n)]
    /\ UNCHANGED <<epoch, sequence>>

Restart ==
    /\ epoch' = epoch + 1
    /\ sequence' = 0
    /\ UNCHANGED view

Next == Change \/ Restart \/ \E c \in Followers : Learn(c)

Spec == Init /\ [][Next]_vars
=============================================================================
