------------------------------- MODULE Mirror -------------------------------
(***************************************************************************)
(* What a log replica promises (docs/mux-cli.md, "Host attach panes are    *)
(* log replicas"): it shows what the pane showed at some moment.  While    *)
(* one daemon runs it never goes back and never has a hole or a            *)
(* repetition; only the restart of a daemon can make it start again.       *)
(***************************************************************************)
EXTENDS Naturals, Sequences, SequencesExt

VARIABLES
    screen,  \* what the pane shows: all frames fed to it
    past,    \* what it showed when an earlier daemon ended
    shown    \* what the replica shows

Init ==
    /\ screen = <<>>
    /\ past = {}
    /\ shown = <<>>

Grow ==
    /\ Len(screen') = Len(screen) + 1
    /\ SubSeq(screen', 1, Len(screen)) = screen
    /\ UNCHANGED <<past, shown>>

Restart ==
    /\ past' = past \cup {screen}
    /\ UNCHANGED shown

(* The replica follows one of the daemons. *)
Show ==
    /\ \E s \in past \cup {screen} :
        /\ IsPrefix(shown', s)
        /\ IsPrefix(shown, s) => IsPrefix(shown, shown')
    /\ UNCHANGED <<screen, past>>

Clear ==
    /\ past # {}
    /\ shown' = <<>>
    /\ UNCHANGED <<screen, past>>

Next == Grow \/ Restart \/ Show \/ Clear

Spec == Init /\ [][Next]_<<screen, past, shown>>
=============================================================================
