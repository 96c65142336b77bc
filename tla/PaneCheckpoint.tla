--------------------------- MODULE PaneCheckpoint ---------------------------
(***************************************************************************)
(* The checkpoints of the pane logs: the daemon captures its panes, one    *)
(* per maintenance tick (control.rs, live.rs), a worker thread writes what *)
(* was captured as a fresh file or as a transaction appended to it         *)
(* (pane_log_persist.rs), and a daemon that starts restores the panes of   *)
(* the saved workspace from the file, by position.                         *)
(*                                                                         *)
(* Abstracted: panes are the leaves of one session in layout order, so the *)
(* restore key (session, pane index) is the position in `layout`; the      *)
(* state of an emulator is the sequence of frames fed to it; title, cwd    *)
(* and the other side-channel frames are outputs; the cadence of two       *)
(* seconds is a choice of the tick; a journal is measured in transactions. *)
(***************************************************************************)
EXTENDS Naturals, Sequences, SequencesExt, Functions, PaneLog

CONSTANTS
    None,          \* an absent value
    Corrupt,       \* what reading a file gives that cannot be read
    MaxPanes,      \* bound on the pane ids given out
    FirstLayout,   \* the panes of the first start
    MaxFrames,     \* bound on the sequence numbers of each pane
    Capacity,      \* DEFAULT_PANE_LOG_BYTES, in frames
    JournalLimit,  \* JOURNAL_LIMIT, in transactions
    MaxChanges,    \* bound on the changes of the layout
    MaxFailures,   \* bound on the failed exports and writes
    MaxRestarts    \* bound on the starts after the first

ASSUME CheckpointAssumption ==
    /\ MaxPanes \in Nat \ {0}
    /\ FirstLayout \in Seq(1..MaxPanes)
    /\ IsInjective(FirstLayout)
    /\ Range(FirstLayout) = 1..Len(FirstLayout)
    /\ MaxFrames \in [1..MaxPanes -> Nat]
    /\ Capacity \in Nat \ {0}
    /\ JournalLimit \in Nat \ {0}
    /\ MaxChanges \in Nat
    /\ MaxFailures \in Nat
    /\ MaxRestarts \in Nat

PaneIds == 1..MaxPanes
Epochs == 0..MaxRestarts
Sizes == {1, 2}
Output == 0                  \* the event of a frame: output, or the new size
Events == {Output} \cup Sizes

Frames == [pane : PaneIds, born : Epochs, seq : Nat \ {0}, event : Events]
Screens == Seq(Frames)
Logs == [next : Nat \ {0}, frames : Screens]
LivePanes == [log : Logs, screen : Screens, size : Sizes]

Snapshots == [screen : Screens]
SavedRecords == [snapshotSeq : Nat, snapshot : Snapshots \cup {None}, size : Sizes, tail : Screens]
Entries == [id : PaneIds, index : Nat, record : SavedRecords \cup {None}, delta : Screens]
Jobs == Seq(Entries)
Signatures == [seq : Nat, index : Nat]
SignatureMaps == [PaneIds -> Signatures \cup {None}]
Copies == [index : Nat, record : SavedRecords]
Marks == Seq([pane : Nat, seq : Nat])
Captures == [layout : Seq(PaneIds), panes : Jobs, captured : SignatureMaps, mark : Marks]
Results == [ok : BOOLEAN, compact : BOOLEAN]

ASSUME AbsentAssumption ==
    /\ None \notin Snapshots \cup SavedRecords \cup Signatures \cup Copies
    /\ None \notin Jobs \cup Marks \cup Captures \cup Results
    /\ Corrupt \notin Seq(SavedRecords)

VARIABLES
    up,           \* the daemon runs
    epoch,        \* how often it was started again
    layout,       \* the panes in layout order
    nextPane,     \* Domain::next_pane
    pane,         \* LivePane: log, emulator and size of each pane
    capture,      \* pane_log_capture
    captured,     \* pane_log_captured
    pendingMark,  \* pane_log_pending_mark
    persistMark,  \* pane_log_persist_mark
    job,          \* the checkpoint on its way to or in the worker
    result,       \* the worker's answer
    cached,       \* the worker's copy of each record
    journaled,    \* its journal_bytes
    file,         \* the pane log file
    workspace,    \* the workspace file
    changes,      \* changes of the layout so far
    failures      \* failed exports and writes so far

topology == <<layout, nextPane>>
plane == <<capture, captured, pendingMark, persistMark>>
worker == <<job, result, cached, journaled>>
bounds == <<epoch, changes, failures>>
vars == <<up, topology, pane, plane, worker, file, workspace, bounds>>

-----------------------------------------------------------------------------
(* Panes. *)

Frame(p, seq, event, born) == [pane |-> p, born |-> born, seq |-> seq, event |-> event]

FreshPane == [log |-> NewLog, screen |-> <<>>, size |-> 1]

(* LivePane::record, with the event fed to the emulator before. *)
Feed(live, p, event, born) ==
    LET frame == Frame(p, live.log.next, event, born)
    IN [log |-> Record(live.log, frame, Capacity),
        screen |-> Append(live.screen, frame),
        size |-> IF event = Output THEN live.size ELSE event]

(* persist_mark: the restore keys and the sequence of each log. *)
Mark == [i \in DOMAIN layout |->
            [pane |-> layout[i], seq |-> CurrentSeq(pane[layout[i]].log)]]

Unmarked == <<[pane |-> 0, seq |-> 0]>>     \* the initial pane_log_persist_mark

-----------------------------------------------------------------------------
(* The file: a document of records and the lines of transactions appended  *)
(* to it, kept as what parse_persist_bytes makes of the complete lines, and *)
(* whether an incomplete line follows them, which a reader ignores.         *)

(* JournalTransaction::apply. *)
Apply(recs, txn) ==
    LET replaced == [i \in DOMAIN txn.replace \cup DOMAIN recs |->
                        IF i \in DOMAIN txn.replace THEN txn.replace[i] ELSE recs[i]]
    IN IF DOMAIN txn.append \cup txn.active \subseteq DOMAIN replaced
       THEN [i \in txn.active |->
                IF i \in DOMAIN txn.append
                THEN [replaced[i] EXCEPT !.tail = @ \o txn.append[i]]
                ELSE replaced[i]]
       ELSE Corrupt

(* A line that comes after an incomplete one is read as a part of it, and   *)
(* no reader gets past a complete line that is not a transaction.           *)
AppendLine(f, txn) ==
    IF f.recs = Corrupt \/ f.torn THEN [recs |-> Corrupt, torn |-> FALSE]
    ELSE [recs |-> Apply(f.recs, txn), torn |-> FALSE]

AppendPart(f) == [f EXCEPT !.torn = TRUE]

Document(recs) == [recs |-> recs, torn |-> FALSE]

Readable == file.recs # Corrupt
Records == IF Readable THEN file.recs ELSE <<>>

(* restore_emulator. *)
Screen(rec) ==
    (IF rec.snapshot = None THEN <<>> ELSE rec.snapshot.screen)
        \o Newer(rec.tail, rec.snapshotSeq)

-----------------------------------------------------------------------------
(* Capturing. *)

NotCaptured == [p \in PaneIds |-> None]

(* A full record, as in capture_persist and export_persist. *)
FullRecord(p, exported) ==
    [snapshotSeq |-> IF exported THEN CurrentSeq(pane[p].log)
                                 ELSE OldestSeq(pane[p].log) - 1,
     snapshot |-> IF exported THEN [screen |-> pane[p].screen] ELSE None,
     size |-> pane[p].size,
     tail |-> pane[p].log.frames]

Signature(p, i) == [seq |-> CurrentSeq(pane[p].log), index |-> i]

(* Mutated Delta: what is left after a gap is appended. *)
DeltaOverGap(p, i, previous) ==
    IF previous[p] # None /\ previous[p].index = i
    THEN [kind |-> "events", frames |-> Newer(pane[p].log.frames, previous[p].seq)]
    ELSE [kind |-> "none"]

(* What the frames since the previous capture allow to be appended. *)
Delta(p, i, previous) ==
    IF previous[p] # None /\ previous[p].index = i
    THEN CatchUp(pane[p].log, previous[p].seq)
    ELSE [kind |-> "none"]

Resizes(frames) == \E n \in DOMAIN frames : frames[n].event # Output

(* Mutated Pending: a resize is appended like output. *)
PendingResized(p, i, previous, exported) ==
    LET delta == Delta(p, i, previous)
    IN IF previous[p] = Signature(p, i)
       THEN [id |-> p, index |-> i, record |-> None, delta |-> <<>>]
       ELSE IF delta.kind = "events"
       THEN [id |-> p, index |-> i, record |-> None, delta |-> delta.frames]
       ELSE [id |-> p, index |-> i, record |-> FullRecord(p, exported), delta |-> <<>>]

(* capture_persist of one pane. *)
Pending(p, i, previous, exported) ==
    LET delta == Delta(p, i, previous)
    IN IF previous[p] = Signature(p, i)
       THEN [id |-> p, index |-> i, record |-> None, delta |-> <<>>]
       ELSE IF delta.kind = "events" /\ ~Resizes(delta.frames)
       THEN [id |-> p, index |-> i, record |-> None, delta |-> delta.frames]
       ELSE [id |-> p, index |-> i, record |-> FullRecord(p, exported), delta |-> <<>>]

(* The first part of maybe_persist_pane_logs: the worker's answer. *)
Answered == result # None /\ pendingMark # None

(* Mutated PersistMarkNow: a failed write counts as well. *)
PersistMarkNowFailed == IF Answered THEN pendingMark ELSE persistMark

PersistMarkNow == IF Answered /\ result.ok THEN pendingMark ELSE persistMark
PendingMarkNow == IF Answered THEN None ELSE pendingMark

(* Mutated CapturedNow: a failed write does not ask for a fresh base. *)
CapturedNowKept ==
    IF Answered /\ result.ok /\ result.compact THEN NotCaptured ELSE captured

CapturedNow ==
    IF Answered /\ (~result.ok \/ result.compact) THEN NotCaptured ELSE captured

TakeAnswer ==
    /\ result' = None
    /\ persistMark' = PersistMarkNow

TickUnchanged == UNCHANGED <<up, topology, pane, cached, journaled, file, workspace, epoch, changes>>

(* A write is under way, nothing changed, or the cadence has not passed.    *)
TickEarly ==
    /\ up
    /\ TakeAnswer
    /\ pendingMark' = PendingMarkNow
    /\ captured' = CapturedNow
    /\ pendingMark' # None \/ capture = None
    /\ UNCHANGED <<capture, job, failures>>
    /\ TickUnchanged

(* The layout changed since the capture was begun. *)
TickDiscard ==
    /\ up
    /\ TakeAnswer
    /\ PendingMarkNow = None
    /\ pendingMark' = None
    /\ captured' = CapturedNow
    /\ capture # None
    /\ capture.layout # layout
    /\ capture' = None
    /\ UNCHANGED <<job, failures>>
    /\ TickUnchanged

(* The emulator cannot be exported within a control sequence. *)
Exports(exported) ==
    IF exported THEN UNCHANGED failures
    ELSE failures < MaxFailures /\ failures' = failures + 1

NewCapture == [layout |-> layout, panes |-> <<>>, captured |-> NotCaptured, mark |-> Mark]

(* Begin a capture or go on with one: one pane per tick.  With the last one *)
(* the capture is submitted.                                                *)
TickCapture ==
    /\ up
    /\ TakeAnswer
    /\ PendingMarkNow = None
    /\ IF capture = None THEN Mark # PersistMarkNow ELSE capture.layout = layout
    /\ \E exported \in BOOLEAN :
        LET begun == IF capture = None THEN NewCapture ELSE capture
            i == Len(begun.panes) + 1
            more == i <= Len(layout)
            taken == IF ~more THEN begun
                     ELSE [begun EXCEPT
                        !.panes = Append(@, Pending(layout[i], i, CapturedNow, exported)),
                        !.captured = [@ EXCEPT ![layout[i]] = Signature(layout[i], i)]]
        IN
        /\ Exports(exported)
        /\ IF i < Len(layout)
           THEN /\ capture' = taken
                /\ captured' = CapturedNow
                /\ pendingMark' = None
                /\ UNCHANGED job
           ELSE /\ capture' = None
                /\ captured' = taken.captured
                /\ pendingMark' = taken.mark
                /\ job' = taken.panes
    /\ TickUnchanged

-----------------------------------------------------------------------------
(* The worker. *)

Ids == {job[n].id : n \in DOMAIN job}
Entry(p) == CHOOSE e \in Range(job) : e.id = p
IsFull == \A n \in DOMAIN job : job[n].record # None

(* The records after the job: replaced, or extended by the new frames.      *)
CachedNow ==
    [p \in PaneIds |->
        CASE p \in Ids /\ Entry(p).record # None ->
                [index |-> Entry(p).index, record |-> Entry(p).record]
          [] p \in Ids /\ Entry(p).record = None /\ cached[p] # None ->
                [cached[p] EXCEPT !.record.tail = @ \o Entry(p).delta]
          [] OTHER -> None]

Indexes(ids) == {CachedNow[p].index : p \in ids}
At(i) == CHOOSE p \in Ids : CachedNow[p].index = i

Base == [i \in Indexes(Ids) |-> CachedNow[At(i)].record]

Transaction ==
    [active |-> Indexes(Ids),
     replace |-> [i \in Indexes({p \in Ids : Entry(p).record # None}) |->
                     CachedNow[At(i)].record],
     append |-> [i \in Indexes({p \in Ids : Entry(p).delta # <<>>}) |-> Entry(At(i)).delta]]

Written == IF IsFull THEN Document(Base) ELSE AppendLine(file, Transaction)

(* The worker fails when its cache lacks a pane.                            *)
Complete == \A p \in Ids : CachedNow[p] # None

WorkUnchanged == UNCHANGED <<up, topology, pane, plane, workspace, epoch, changes>>

WorkDone ==
    /\ up
    /\ job # None
    /\ Complete
    /\ file' = Written
    /\ cached' = CachedNow
    /\ journaled' = IF IsFull THEN 0 ELSE journaled + 1
    /\ result' = [ok |-> TRUE, compact |-> journaled' >= JournalLimit]
    /\ job' = None
    /\ UNCHANGED failures
    /\ WorkUnchanged

(* A fresh file is written beside the old one and renamed: a failure leaves *)
(* the old one.  A failed append may leave a part of the line.              *)
WorkFailed ==
    /\ up
    /\ job # None
    /\ failures < MaxFailures
    /\ failures' = failures + 1
    /\ file' \in IF IsFull THEN {file} ELSE {file, AppendPart(file)}
    /\ cached' = CachedNow
    /\ result' = [ok |-> FALSE, compact |-> journaled >= JournalLimit]
    /\ job' = None
    /\ UNCHANGED journaled
    /\ WorkUnchanged

-----------------------------------------------------------------------------
(* Panes, the layout and the workspace file. *)

Busy(p, event) ==
    /\ up
    /\ p \in Range(layout)
    /\ CurrentSeq(pane[p].log) < MaxFrames[p]
    /\ pane' = [pane EXCEPT ![p] = Feed(@, p, event, epoch)]
    /\ UNCHANGED <<up, topology, plane, worker, file, workspace, bounds>>

Drain(p) == Busy(p, Output)
Resize(p) == \E size \in Sizes \ {pane[p].size} : Busy(p, size)

Rearrange(panes, next) ==
    /\ up
    /\ changes < MaxChanges
    /\ changes' = changes + 1
    /\ layout' = panes
    /\ nextPane' = next
    /\ UNCHANGED <<up, pane, plane, worker, file, workspace, epoch, failures>>

(* A split puts the new pane after its target, a window goes to the end.    *)
AddPane ==
    /\ nextPane <= MaxPanes
    /\ \E i \in 0..Len(layout) :
        /\ i = 0 => layout = <<>>
        /\ Rearrange(InsertAt(layout, i + 1, nextPane), nextPane + 1)

(* The log goes with the pane; it stays here for what is still being saved. *)
RemovePane == \E i \in DOMAIN layout : Rearrange(RemoveAt(layout, i), nextPane)

SwapPanes ==
    \E i, j \in DOMAIN layout :
        /\ i < j
        /\ Rearrange([layout EXCEPT ![i] = layout[j], ![j] = layout[i]], nextPane)

SaveWorkspace ==
    /\ up
    /\ workspace' = topology
    /\ UNCHANGED <<up, topology, pane, plane, worker, file, bounds>>

-----------------------------------------------------------------------------
(* The daemon ends and starts. *)

Stop ==
    /\ up
    /\ epoch < MaxRestarts
    /\ up' = FALSE
    /\ capture' = None
    /\ captured' = NotCaptured
    /\ pendingMark' = None
    /\ persistMark' = Unmarked
    /\ job' = None
    /\ result' = None
    /\ cached' = [p \in PaneIds |-> None]
    /\ journaled' = 0
    /\ UNCHANGED <<topology, pane, workspace, epoch, changes>>

(* It may be killed while it appends. *)
Crash ==
    /\ Stop
    /\ UNCHANGED failures
    /\ \/ UNCHANGED file
       \/ job # None /\ ~IsFull /\ file' = AppendPart(file)

(* flush_pane_logs: the worker ends with the checkpoint it has, then the    *)
(* whole state is written.  (If that fails the step is WorkDone or          *)
(* WorkFailed, and then Crash.)                                             *)
Flush ==
    /\ Stop
    /\ \E exported \in BOOLEAN :
        /\ Exports(exported)
        /\ file' = Document([i \in DOMAIN layout |-> FullRecord(layout[i], exported)])

(* restore_persist of one record; the last frame resets the input modes.    *)
Restored(p, rec, born) ==
    Feed([log |-> FromFrames(rec.tail, Capacity), screen |-> Screen(rec), size |-> rec.size],
         p, Output, born)

(* The domain of the saved workspace; fresh panes; the file by position.  A *)
(* file that cannot be read costs the history: the first pane says so       *)
(* (reset_first_pane_log).                                                  *)
Start ==
    /\ ~up
    /\ up' = TRUE
    /\ epoch' = epoch + 1
    /\ layout' = workspace[1]
    /\ nextPane' = workspace[2]
    /\ LET saved == Records
           from(p) == {i \in DOMAIN saved \cap DOMAIN layout' : layout'[i] = p}
           first == Min(Range(layout'))
       IN pane' = [p \in PaneIds |->
            IF from(p) # {} THEN Restored(p, saved[Min(from(p))], epoch')
            ELSE IF ~Readable /\ layout' # <<>> /\ p = first
            THEN Feed(FreshPane, p, Output, epoch')
            ELSE FreshPane]
    /\ UNCHANGED <<plane, worker, file, workspace, changes, failures>>

-----------------------------------------------------------------------------
Init ==
    /\ up = TRUE
    /\ epoch = 0
    /\ layout = FirstLayout
    /\ nextPane = Len(FirstLayout) + 1
    /\ pane = [p \in PaneIds |-> FreshPane]
    /\ capture = None
    /\ captured = NotCaptured
    /\ pendingMark = None
    /\ persistMark = Unmarked
    /\ job = None
    /\ result = None
    /\ cached = [p \in PaneIds |-> None]
    /\ journaled = 0
    /\ file = Document(<<>>)
    /\ workspace = topology
    /\ changes = 0
    /\ failures = 0

Next ==
    \/ TickEarly
    \/ TickDiscard
    \/ TickCapture
    \/ WorkDone
    \/ WorkFailed
    \/ \E p \in PaneIds : Drain(p) \/ Resize(p)
    \/ AddPane
    \/ RemovePane
    \/ SwapPanes
    \/ SaveWorkspace
    \/ Crash
    \/ Flush
    \/ Start

(* The maintenance thread ticks, the cadence passes, the worker works.      *)
Fairness == WF_vars(TickDiscard) /\ WF_vars(TickCapture) /\ WF_vars(WorkDone)

Spec == Init /\ [][Next]_vars /\ Fairness

-----------------------------------------------------------------------------
(* Types of the topology, the counters, the panes and what is saved of them. *)
TypeOK ==
    /\ up \in BOOLEAN
    /\ epoch \in Epochs
    /\ layout \in Seq(PaneIds)
    /\ nextPane \in 1..(MaxPanes + 1)
    /\ pane \in [PaneIds -> LivePanes]
    /\ capture \in Captures \cup {None}
    /\ captured \in SignatureMaps
    /\ pendingMark \in Marks \cup {None}
    /\ persistMark \in Marks
    /\ job \in Jobs \cup {None}
    /\ result \in Results \cup {None}
    /\ cached \in [PaneIds -> Copies \cup {None}]
    /\ journaled \in 0..JournalLimit
    /\ file \in [recs : Seq(SavedRecords) \cup {Corrupt}, torn : BOOLEAN]
    /\ workspace \in Seq(PaneIds) \X (1..(MaxPanes + 1))
    /\ changes \in 0..MaxChanges
    /\ failures \in 0..MaxFailures

Saved == [i \in DOMAIN Records |-> Screen(Records[i])]

(* What the file says: of each record whether it begins with a snapshot and *)
(* its screen.                                                              *)
SavedScreens ==
    LET recs == Records IN
    IF Readable
    THEN {[whole |-> recs[i].snapshot # None, frames |-> Screen(recs[i])] : i \in DOMAIN recs}
    ELSE {[whole |-> TRUE, frames |-> <<Corrupt>>]}

NewestSeq(frames) == IF frames = <<>> THEN 0 ELSE frames[Len(frames)].seq

Log == INSTANCE DurableLog WITH
    screen <- [p \in PaneIds |-> pane[p].screen],
    saved <- SavedScreens

(* docs/control-plane.md on recovery: whatever is captured, written, torn,  *)
(* retried or cut short by a crash, the file reads as screens the panes     *)
(* have shown, never older ones than before, and a start shows them again.  *)
ImplementsDurableLog == Log!Spec

(* The mark of the last checkpoint lets an unchanged daemon skip the next   *)
(* one: while none is under way, the file holds every pane of the mark, at  *)
(* its position, with all the frames the mark counts.                       *)
MarkIsSaved ==
    up /\ job = None /\ result = None /\ persistMark # Unmarked =>
        LET saved == Saved IN
        /\ DOMAIN saved = DOMAIN persistMark
        /\ \A i \in DOMAIN persistMark :
            /\ NewestSeq(saved[i]) >= persistMark[i].seq
            /\ Log!IsPart(pane[persistMark[i].pane].screen, saved[i])

(* restore_persist sizes the pane and its pty by the record and the         *)
(* emulator by replaying the tail: the two must agree.                      *)
RestoredSizeAgrees ==
    LET saved == Records IN
    \A i \in DOMAIN saved :
        LET replayed == Newer(saved[i].tail, saved[i].snapshotSeq)
        IN \A n \in DOMAIN replayed :
            /\ replayed[n].event # Output
            /\ \A m \in DOMAIN replayed : m > n => replayed[m].event = Output
            => replayed[n].event = saved[i].size

(* The file holds every pane of the layout, with all it has shown. *)
Settled ==
    LET saved == Saved IN
    /\ DOMAIN saved = DOMAIN layout
    /\ \A i \in DOMAIN layout :
         NewestSeq(saved[i]) = CurrentSeq(pane[layout[i]].log)

(* Once output and layout rest and no write fails any more, the file holds  *)
(* every pane of a running daemon whole.                                    *)
Settles == <>[](up => Settled)
=============================================================================
