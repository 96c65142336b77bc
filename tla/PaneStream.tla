----------------------------- MODULE PaneStream -----------------------------
(***************************************************************************)
(* A pane of pmuxd and its log replica in the host: the log and the        *)
(* SubscribePane thread of the daemon (control.rs, pane_log.rs), the       *)
(* reader thread of the host with its reconnects (attach_log.rs), and the  *)
(* host thread that applies what the reader sends it (mux.rs).             *)
(*                                                                         *)
(* Abstracted: a frame is its number and the daemon that made it; a state  *)
(* and a batch cost one unit of memory per frame; a repaint after a gap    *)
(* shows the screen but cannot bring back the rows that scrolled off;      *)
(* connecting succeeds within the retries of the reader.  Frames have no   *)
(* length: any batch or repaint may be too large for the wire, also a      *)
(* batch of one frame, which in the code is one read and never is.         *)
(***************************************************************************)
EXTENDS PaneLog, SequencesExt

CONSTANTS
    None,         \* an absent value
    Capacity,     \* frames in the ring of the log
    Batch,        \* MAX_PANE_LOG_BATCH
    Budget,       \* HOST_EVENT_BUDGET_BYTES
    Window,       \* responses the connection holds
    MaxFrames,    \* bound on the frames of the pane
    MaxRestarts,  \* bound on the restarts of the daemon
    MaxDrops      \* bound on the lost connections

ASSUME StreamAssumption ==
    /\ {Capacity, Batch, Budget, Window} \subseteq Nat \ {0}
    /\ {MaxFrames, MaxRestarts, MaxDrops} \subseteq Nat
    /\ None \notin Nat

VARIABLES
    epoch,    \* incarnation of the daemon
    pane,     \* the pane: screen, log, whether its parser is at a boundary
    past,     \* what the pane showed at the end of each earlier daemon
    wire,     \* the connection of the reader and the daemon's thread of it
    reader,   \* the reader thread
    queue,    \* messages to the host thread
    replica,  \* the host's copy
    drops     \* connections lost so far

daemon == <<epoch, pane, past>>
vars == <<daemon, wire, reader, queue, replica, drops>>

Closed == [open |-> FALSE, stream |-> None, replies |-> <<>>]
Opened == [Closed EXCEPT !.open = TRUE]

-----------------------------------------------------------------------------
(* The daemon. *)

(* A chunk of output. *)
Output ==
    /\ pane.there
    /\ Len(pane.screen) < MaxFrames
    /\ \E boundary \in BOOLEAN :
        LET frame == [epoch |-> epoch, seq |-> pane.log.next] IN
        pane' = [pane EXCEPT !.screen = Append(@, frame),
                             !.log = Record(@, frame, Capacity),
                             !.boundary = boundary]
    /\ UNCHANGED <<epoch, past, wire, reader, queue, replica, drops>>

ClosePane ==
    /\ pane.there
    /\ pane' = [pane EXCEPT !.there = FALSE]
    /\ UNCHANGED <<epoch, past, wire, reader, queue, replica, drops>>

(* The pane of the new daemon shows what was saved, at most what was shown, *)
(* and one frame that resets the input modes; or nothing.  What the old one *)
(* has written to a connection can still be read.                           *)
Restart ==
    /\ epoch < MaxRestarts
    /\ epoch' = epoch + 1
    /\ past' = Append(past, pane.screen)
    /\ \/ \E n \in 1..Len(pane.screen) :
            LET saved == SubSeq(pane.screen, 1, n)
                restored == FromFrames(Retained(saved, Capacity), Capacity)
                frame == [epoch |-> epoch', seq |-> restored.next]
            IN pane' = [there |-> pane.there, boundary |-> TRUE,
                        screen |-> Append(saved, frame),
                        log |-> Record(restored, frame, Capacity)]
       \/ pane' = [there |-> pane.there, boundary |-> TRUE, screen |-> <<>>, log |-> NewLog]
    /\ wire' = [wire EXCEPT !.open = FALSE, !.stream = None]
    /\ UNCHANGED <<reader, queue, replica, drops>>

-----------------------------------------------------------------------------
(* The daemon's thread of the connection: SubscribePane. *)

First(frames, n) == SubSeq(frames, 1, IF Len(frames) < n THEN Len(frames) ELSE n)

Respond(w, kind, frames, through, more) ==
    [w EXCEPT !.replies = Append(@, [kind |-> kind, epoch |-> epoch, frames |-> frames,
                                     through |-> through]),
              !.stream = IF more THEN through ELSE None]

(* write_response: what is larger than MAX_RESPONSE_BYTES goes out as an    *)
(* error, and the stream goes on behind it.                                 *)
Write(w, kind, frames, through, large) ==
    IF large THEN Respond(w, "error", <<>>, through, TRUE)
    ELSE Respond(w, kind, frames, through, TRUE)

(* Mutated Frames: a batch counts as all there is. *)
FramesThroughHead(w, n, large) ==
    LET catch == CatchUp(pane.log, n)
        head == CurrentSeq(pane.log)
    IN CASE catch.kind = "ahead" -> Respond(w, "ahead", <<>>, head, FALSE)
         [] catch.kind = "gap" -> Write(w, "gap", pane.screen, head, large)
         [] catch.kind = "events" /\ catch.frames = <<>> -> [w EXCEPT !.stream = n]
         [] OTHER -> Write(w, "frames", First(catch.frames, Batch), head, large)

(* subscribe_frame for a reader that has everything through n: the new      *)
(* frames, or a repaint and the head of the log.                            *)
Frames(w, n, large) ==
    LET catch == CatchUp(pane.log, n)
        head == CurrentSeq(pane.log)
        frames == First(catch.frames, Batch)
    IN CASE catch.kind = "ahead" -> Respond(w, "ahead", <<>>, head, FALSE)
         [] catch.kind = "gap" -> Write(w, "gap", pane.screen, head, large)
         [] catch.kind = "events" /\ catch.frames = <<>> -> [w EXCEPT !.stream = n]
         [] OTHER -> Write(w, "frames", frames, frames[Len(frames)].seq, large)

CanWrite == wire.stream # None /\ Len(wire.replies) < Window

(* subscribe_has_work. *)
HasWork == ~pane.there \/ wire.stream < CurrentSeq(pane.log)

(* The thread was woken by the log watch. *)
Push ==
    /\ CanWrite
    /\ HasWork
    /\ \E large \in BOOLEAN :
        wire' = IF pane.there THEN Frames(wire, wire.stream, large)
                ELSE Respond(wire, "done", <<>>, wire.stream, FALSE)
    /\ UNCHANGED <<daemon, reader, queue, replica, drops>>

(* timeout_ms has passed; work may have come at the last moment. *)
Idle ==
    /\ CanWrite
    /\ wire' = Respond(wire, "done", <<>>, wire.stream, FALSE)
    /\ UNCHANGED <<daemon, reader, queue, replica, drops>>

-----------------------------------------------------------------------------
(* The reader thread.  `from` is its cursor and `at` the daemon whose       *)
(* numbers it is in; `state` is a state on its way; `rebuilt` says that the *)
(* log turned out to be behind the cursor; `fell` that the last start had   *)
(* to do without a state, and `mixed` that it kept a cursor of an earlier   *)
(* daemon then.                                                             *)

NewReader == [pc |-> "restore", from |-> 0, at |-> 0, state |-> None,
              rebuilt |-> FALSE, fell |-> FALSE, mixed |-> FALSE]

Size(message) ==
    IF message.kind \in {"ready", "batch"} THEN Len(message.frames)
    ELSE IF message.kind = "gap" THEN 1 ELSE 0

Reserved ==
    LET sum[n \in 0..Len(queue)] == IF n = 0 THEN 0 ELSE sum[n - 1] + Size(queue[n])
    IN sum[Len(queue)]

Send(message) ==
    /\ Reserved + Size(message) <= Budget
    /\ queue' = Append(queue, message)

(* The thread returns, with or without an error message. *)
End(how) ==
    /\ reader' = [reader EXCEPT !.pc = how]
    /\ queue' = Append(queue, [kind |-> "ended"])
    /\ wire' = Closed

(* Mutated AskState: without RestoreReset. *)
AskStateOnly ==
    /\ reader.pc = "restore"
    /\ pane.there
    /\ pane.boundary
    /\ reader' = [reader EXCEPT !.pc = "transfer",
                                !.state = [epoch |-> epoch, frames |-> pane.screen]]
    /\ wire' = Opened
    /\ UNCHANGED <<daemon, queue, replica, drops>>

(* start_pane_reader: a new connection, RestoreReset, ReadPaneState.        *)
AskState ==
    /\ reader.pc = "restore"
    /\ pane.there
    /\ pane.boundary
    /\ reader' = [reader EXCEPT !.pc = "transfer",
                                !.state = [epoch |-> epoch, frames |-> pane.screen]]
    /\ queue' = Append(queue, [kind |-> "forget"])
    /\ wire' = Opened
    /\ UNCHANGED <<daemon, replica, drops>>

(* The state never was at a boundary: the log alone, from the cursor, or    *)
(* from its beginning after a Reset.                                        *)
FallBack ==
    /\ reader.pc = "restore"
    /\ pane.there
    /\ ~pane.boundary
    /\ LET cursor == IF reader.rebuilt THEN 0 ELSE reader.from IN
        reader' = [reader EXCEPT !.pc = "subscribe", !.from = cursor, !.at = epoch,
                                 !.rebuilt = FALSE, !.fell = TRUE,
                                 !.mixed = cursor > 0 /\ (@ \/ reader.at # epoch)]
    /\ queue' = queue \o <<[kind |-> "forget"]>>
                      \o (IF reader.rebuilt THEN <<[kind |-> "reset"]>> ELSE <<>>)
    /\ wire' = Opened
    /\ UNCHANGED <<daemon, replica, drops>>

PaneMissing ==
    /\ reader.pc = "restore"
    /\ ~pane.there
    /\ End("ended")
    /\ UNCHANGED <<daemon, replica, drops>>

(* The memory of a state is reserved chunk by chunk, and only the host      *)
(* gives it back.                                                           *)
TakeState ==
    /\ reader.pc = "transfer"
    /\ LET frames == reader.state.frames IN
        /\ Send([kind |-> "ready", frames |-> frames, through |-> Len(frames)])
        /\ reader' = [NewReader EXCEPT !.pc = "subscribe", !.from = Len(frames),
                                       !.at = reader.state.epoch]
    /\ UNCHANGED <<daemon, wire, replica, drops>>

(* The whole first answer of the daemon is computed under the plane lock.   *)
Subscribe ==
    /\ reader.pc = "subscribe"
    /\ wire.open
    /\ reader' = [reader EXCEPT !.pc = "wait"]
    /\ \E large \in BOOLEAN :
        wire' = IF pane.there THEN Frames(Opened, reader.from, large)
                ELSE Respond(Opened, "stale", <<>>, 0, FALSE)
    /\ UNCHANGED <<daemon, queue, replica, drops>>

Reply == Head(wire.replies)
Taken == [wire EXCEPT !.replies = Tail(@)]

Reads(kind) == reader.pc = "wait" /\ wire.replies # <<>> /\ Reply.kind = kind

ReadFrames ==
    /\ Reads("frames")
    /\ Send([kind |-> "batch", frames |-> Reply.frames, mixed |-> reader.mixed])
    /\ reader' = [reader EXCEPT !.from = Reply.through]
    /\ wire' = Taken
    /\ UNCHANGED <<daemon, replica, drops>>

(* Mutated ReadGap: the stream goes on. *)
ReadGapOnly ==
    /\ Reads("gap")
    /\ Send([kind |-> "gap", frames |-> Reply.frames])
    /\ reader' = [reader EXCEPT !.from = Reply.through, !.at = Reply.epoch, !.mixed = FALSE]
    /\ wire' = Taken
    /\ UNCHANGED <<daemon, replica, drops>>

(* Repaint, and fetch the rows that scrolled off. *)
ReadGap ==
    /\ Reads("gap")
    /\ Send([kind |-> "gap", frames |-> Reply.frames])
    /\ reader' = [reader EXCEPT !.pc = "restore", !.from = Reply.through,
                                !.at = Reply.epoch, !.mixed = FALSE]
    /\ wire' = Closed
    /\ UNCHANGED <<daemon, replica, drops>>

ReadDone ==
    /\ Reads("done")
    /\ reader' = [reader EXCEPT !.pc = "subscribe", !.from = Reply.through]
    /\ wire' = Taken
    /\ UNCHANGED <<daemon, queue, replica, drops>>

ReadAhead ==
    /\ Reads("ahead")
    /\ reader' = [reader EXCEPT !.pc = "restore", !.rebuilt = TRUE]
    /\ wire' = Closed
    /\ UNCHANGED <<daemon, queue, replica, drops>>

ReadStale ==
    /\ Reads("stale")
    /\ End("ended")
    /\ UNCHANGED <<daemon, replica, drops>>

(* An error that is neither of these nor a failed read is not retried. *)
ReadError ==
    /\ Reads("error")
    /\ End("failed")
    /\ UNCHANGED <<daemon, replica, drops>>

Reconnect ==
    /\ reader' = [reader EXCEPT !.pc = "restore", !.state = None]
    /\ wire' = Closed
    /\ UNCHANGED <<daemon, queue, replica>>

Connected == reader.pc \in {"transfer", "subscribe", "wait"}

(* The connection is lost, with what the daemon has written to it. *)
Drop ==
    /\ Connected
    /\ drops < MaxDrops
    /\ drops' = drops + 1
    /\ Reconnect

(* The daemon is gone and everything it wrote was read. *)
HangUp ==
    /\ reader.pc \in {"subscribe", "wait"}
    /\ ~wire.open
    /\ wire.replies = <<>>
    /\ UNCHANGED drops
    /\ Reconnect

-----------------------------------------------------------------------------
(* The host thread: drain_log.  `seq` is restore_state_seq; `patched` says  *)
(* that the rows above the screen may have a hole.                          *)

NewReplica == [frames |-> <<>>, seq |-> None, patched |-> FALSE, mixed |-> FALSE, ended |-> FALSE]

IsCurrent(through) == replica.seq = None \/ through >= replica.seq

Applied(message) ==
    CASE message.kind = "forget" -> [replica EXCEPT !.seq = None]
      [] message.kind = "ready" ->
            IF IsCurrent(message.through)
            THEN [NewReplica EXCEPT !.frames = message.frames, !.seq = message.through]
            ELSE replica
      [] message.kind = "batch" ->
            [replica EXCEPT !.frames = @ \o message.frames, !.mixed = message.mixed]
      [] message.kind = "gap" ->
            [replica EXCEPT !.frames = message.frames, !.patched = TRUE, !.mixed = FALSE]
      [] message.kind = "reset" -> NewReplica
      [] message.kind = "ended" -> [replica EXCEPT !.ended = TRUE]

Apply ==
    /\ queue # <<>>
    /\ replica' = Applied(Head(queue))
    /\ queue' = Tail(queue)
    /\ UNCHANGED <<daemon, wire, reader, drops>>

-----------------------------------------------------------------------------
Init ==
    /\ epoch = 0
    /\ pane = [there |-> TRUE, boundary |-> TRUE, screen |-> <<>>, log |-> NewLog]
    /\ past = <<>>
    /\ wire = Closed
    /\ reader = NewReader
    /\ queue = <<>>
    /\ replica = NewReplica
    /\ drops = 0

Starting == AskState \/ FallBack \/ PaneMissing
Reading == ReadFrames \/ ReadGap \/ ReadDone \/ ReadAhead \/ ReadStale \/ ReadError

Next ==
    \/ Output
    \/ ClosePane
    \/ Restart
    \/ Push
    \/ Idle
    \/ Starting
    \/ TakeState
    \/ Subscribe
    \/ Reading
    \/ Drop
    \/ HangUp
    \/ Apply

(* The threads of the daemon, of the reader and of the host go on. *)
Fairness ==
    /\ WF_vars(Push)
    /\ WF_vars(Starting \/ TakeState \/ Subscribe \/ Reading \/ HangUp)
    /\ WF_vars(Apply)

Spec == Init /\ [][Next]_vars /\ Fairness

-----------------------------------------------------------------------------
Epochs == 0..MaxRestarts
FrameSet == [epoch : Epochs, seq : Nat \ {0}]
Screens == Seq(FrameSet)
States == [epoch : Epochs, frames : Screens]
Replies == [kind : {"frames", "gap", "ahead", "done", "stale", "error"}, epoch : Epochs,
            frames : Screens, through : Nat]
Messages ==
    [kind : {"forget", "reset", "ended"}]
        \cup [kind : {"ready"}, frames : Screens, through : Nat]
        \cup [kind : {"batch"}, frames : Screens, mixed : BOOLEAN]
        \cup [kind : {"gap"}, frames : Screens]

Panes == [there : BOOLEAN, boundary : BOOLEAN, screen : Screens,
          log : [next : Nat, frames : Screens]]
Wires == [open : BOOLEAN, stream : Nat \cup {None}, replies : Seq(Replies)]
Readers == [pc : {"restore", "transfer", "subscribe", "wait", "ended", "failed"}, from : Nat,
            at : Epochs, state : States \cup {None},
            rebuilt : BOOLEAN, fell : BOOLEAN, mixed : BOOLEAN]
Replicas == [frames : Screens, seq : Nat \cup {None}, patched : BOOLEAN, mixed : BOOLEAN,
             ended : BOOLEAN]

(* Types of the pane, the connection, the reader and the replica. *)
TypeOK ==
    /\ epoch \in Epochs
    /\ pane \in Panes
    /\ past \in Seq(Screens)
    /\ wire \in Wires
    /\ reader \in Readers
    /\ queue \in Seq(Messages)
    /\ replica \in Replicas
    /\ drops \in 0..MaxDrops

(* What the replica will show when the host has applied all messages. *)
Promised ==
    LET then(r, message) ==
            IF message.kind \in {"ready", "gap"} THEN message.frames
            ELSE IF message.kind = "batch" THEN r \o message.frames
            ELSE IF message.kind = "reset" THEN <<>> ELSE r
        shown[n \in 0..Len(queue)] ==
            IF n = 0 THEN replica.frames ELSE then(shown[n - 1], queue[n])
    IN shown[Len(queue)]

(* "I have through this seq": the cursor the reader subscribes with names   *)
(* exactly what it has sent to the host, neither a frame more nor one less, *)
(* and while the daemon of that cursor runs it is the beginning of what the *)
(* pane shows.                                                              *)
CursorTellsReplica ==
    reader.pc \in {"subscribe", "wait"} /\ ~reader.mixed =>
        /\ Len(Promised) = reader.from
        /\ reader.at = epoch => IsPrefix(Promised, pane.screen)

Shadow == INSTANCE Mirror WITH
    screen <- pane.screen,
    past <- ToSet(past),
    shown <- IF replica.mixed THEN <<>> ELSE replica.frames

(* docs/mux-cli.md on log replicas: through gaps, lost connections, late    *)
(* responses and restarts the replica shows what the pane showed, and goes  *)
(* only forward.  (Except a reader that kept its cursor across a restart    *)
(* because the new daemon could not give it a state.)                       *)
ImplementsMirror == Shadow!Spec

(* A state, or a batch, that needs more memory than the reader may reserve: *)
(* the host has nothing left to give back.                                  *)
Overcommitted ==
    \/ reader.pc = "transfer" /\ Len(reader.state.frames) > Budget
    \/ Reads("frames") /\ Len(Reply.frames) > Budget

(* The replica shows the whole screen, with the rows above it unless the    *)
(* daemon could give no state; or it never will: the pane is gone, a reply  *)
(* was too large for the wire, or a state or a reply is for the budget.     *)
UpToDate ==
    \/ replica.ended /\ (~pane.there \/ reader.pc = "failed")
    \/ Overcommitted
    \/ reader.mixed
    \/ /\ replica.frames = pane.screen
       /\ replica.patched => reader.fell

(* Once output rests, the replica shows the whole screen of a pane that     *)
(* lives, with its history unless the daemon could give no state; only a    *)
(* state or a batch larger than the budget of the host, or a reply larger   *)
(* than MAX_RESPONSE_BYTES, stops it for good.                              *)
OnlyBoundsBlock == <>[]UpToDate
=============================================================================
