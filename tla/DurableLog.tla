----------------------------- MODULE DurableLog -----------------------------
(***************************************************************************)
(* What the checkpoints of the pane logs promise: the file always holds,   *)
(* whole and readable, screens that panes of the daemon have shown, never  *)
(* goes back to an older screen of a pane, and the panes of a daemon that  *)
(* starts show what the file holds.  A hole, a repetition or frames of two *)
(* panes in one screen, and a file that cannot be read, are all excluded.  *)
(***************************************************************************)
EXTENDS Naturals, Sequences, SequencesExt

VARIABLES
    up,      \* a daemon runs
    screen,  \* what each pane shows: all frames fed to it
    saved    \* the screens in the file

(* One stretch of a screen. *)
IsPart(now, part) ==
    \E m \in 0..(Len(now) - Len(part)) : part = SubSeq(now, m + 1, m + Len(part))

(* A saved screen is whole, or its beginning was lost when no snapshot of   *)
(* the emulator could be taken.                                             *)
IsPast(now, past) ==
    IF past.whole THEN IsPrefix(past.frames, now) ELSE IsPart(now, past.frames)

NewestSeq(frames) == IF frames = <<>> THEN 0 ELSE frames[Len(frames)].seq

Extends(new, old) ==
    /\ Len(new) = Len(old) + 1
    /\ SubSeq(new, 1, Len(old)) = old

Init ==
    /\ up = TRUE
    /\ \A p \in DOMAIN screen : screen[p] = <<>>
    /\ saved = {}

Grow ==
    /\ up /\ UNCHANGED up
    /\ LET old == screen
           new == screen'
       IN \E p \in DOMAIN old :
            /\ Extends(new[p], old[p])
            /\ new = [old EXCEPT ![p] = new[p]]
    /\ UNCHANGED saved

Publishes ==
    LET old == saved
        shown == screen
    IN \A new \in saved' :
        \E p \in DOMAIN shown :
            /\ IsPast(shown[p], new)
            /\ \A past \in old :
                IsPast(shown[p], past) => NewestSeq(past.frames) <= NewestSeq(new.frames)

Publish == up /\ UNCHANGED <<up, screen>> /\ saved' # saved /\ Publishes

Stop ==
    /\ up
    /\ up' = FALSE
    /\ Publishes \/ UNCHANGED saved
    /\ UNCHANGED screen

Start ==
    /\ ~up
    /\ up' = TRUE
    /\ LET new == screen'
           kept == saved
       IN /\ DOMAIN new = DOMAIN screen
          /\ \A p \in DOMAIN new :
                new[p] = <<>> \/ \E past \in kept : Extends(new[p], past.frames)
    /\ UNCHANGED saved

Next == Grow \/ Publish \/ Stop \/ Start

Spec == Init /\ [][Next]_<<up, screen, saved>>
=============================================================================
