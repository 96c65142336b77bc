------------------------------ MODULE PaneLog -------------------------------
(***************************************************************************)
(* The log of one pane (pane_log.rs): numbered frames in a ring that is    *)
(* bounded by the bytes of its payloads.  Every frame costs one unit here, *)
(* so the ring holds `cap` of them; the newest frame is kept whatever it   *)
(* costs.                                                                  *)
(***************************************************************************)
EXTENDS Naturals, Sequences

NewLog == [next |-> 1, frames |-> <<>>]

CurrentSeq(log) == log.next - 1

OldestSeq(log) == IF log.frames = <<>> THEN 1 ELSE log.frames[1].seq

(* The newest n frames. *)
Retained(frames, n) ==
    IF Len(frames) <= n THEN frames
    ELSE SubSeq(frames, Len(frames) - n + 1, Len(frames))

Newer(frames, seq) ==
    LET newer[n \in 0..Len(frames)] ==
            IF n = 0 THEN <<>>
            ELSE IF frames[n].seq > seq THEN Append(newer[n - 1], frames[n])
            ELSE newer[n - 1]
    IN newer[Len(frames)]

(* append: the oldest frames go until the new one fits. *)
Record(log, frame, cap) ==
    [next |-> log.next + 1, frames |-> Append(Retained(log.frames, cap - 1), frame)]

(* from_frames: the log of a restored pane keeps its sequence numbers. *)
FromFrames(frames, cap) ==
    [next |-> IF frames = <<>> THEN 1 ELSE frames[Len(frames)].seq + 1,
     frames |-> Retained(frames, cap)]

(* catch_up: a reader that has everything through `from`. *)
CatchUp(log, from) ==
    CASE from > CurrentSeq(log) -> [kind |-> "ahead"]
      [] from <= CurrentSeq(log) /\ from + 1 < OldestSeq(log) -> [kind |-> "gap"]
      [] OTHER -> [kind |-> "events", frames |-> Newer(log.frames, from)]
=============================================================================
