# A verification project for pmuxd

Prismattyc is a terminal with a multiplexer. `pmuxd` owns sessions, windows and
panes, runs the shells in them, and serves clients (the graphical host,
`pmux-attach`, the `pmux` command, agents) over a local socket. These modules
model the parts of `pmuxd` whose correctness depends on the order in which its
threads, clients and restarts act. Paths below are relative to
`src/crates/prismattyc-mux/src` unless they say otherwise.

    tlc -workers 2 -config MailWait.cfg MailWait                  # any run
    tlapm MailWait_proofs.tla                                     # any proof

## 1. Inventory

| Component | State | Operations | Must be correct |
|---|---|---|---|
| Topology domain (`domain.rs`) | sessions, windows, panes, `pane_owner`, controller leases, Space bindings, id counters | create, split, move, close, destroy, leases, Space transfer | ownership is a tree over any sequence of calls; ids are never reissued; refusals are atomic |
| Control plane (`control.rs`) | the domain; `bounds`, `spawn`, `client_*` tables; `shutdown_pending` | one handler per request, all under one mutex | the tables follow the domain; leases only with registered clients; a Space change revokes; nothing after an idle shutdown |
| Event ring (`control.rs`) | `sequence`, bounded `events`, per-connection `snapshot_established` | `emit`, `emit_output_activity`, `events_after` | the ring is the gap-free end of the history; a follower never misses or mixes events |
| Followers (`bin/pmux-attach.rs`, `prismattyc-host/src/snapshot_client.rs`), player (`bin/pmux.rs`) | cursor, copied state | snapshot, batches, resnapshot | reflect a prefix; catch up |
| Mailbox addresses and store (`mailbox/store.rs`, `session_name.rs`, `control.rs`) | letters and forwards (SQLite), aliases, seats, agent bindings | hello, send, claim, commit, release, alias, broadcast, rename, transfer | a letter reaches and stays with its recipient |
| Mail watch (`mailbox/watch.rs`, `handle_mail_wait`) | watch mutex and condition variable beside the plane mutex | wait, ring | no lost wakeup, no deadlock, mail ends a wait |
| Mail doorbell (`gated_mail_inject`, `retry_mail_nudges`, `attention.rs`) | attention cells, queue revisions, injection records, nudges | arm, inject, retry, verify, clear | at most two writes per revision; lamp and nudge belong to mail that is there; a letter is rung in the end |
| Pane input (`WritePane`, `control/pane_write.rs`) | lease, write ledger, input queue of the writer thread | write, chunked write | no foreign bytes in a half-typed line; the ledger knows of every unsent line |
| Pane log (`pane_log.rs`, `pane_log_persist.rs`, `live.rs`) | frame ring, capture, worker, file with journal | record, capture, append, compact, flush, restore | the file never mixes, loses or reverts what a pane showed |
| Pane subscription and replica (`control.rs`, `prismattyc-host/src/attach_log.rs`, `mux.rs`) | responses on the wire, reader cursor, message queue, byte budget, replica | push, gap, reconnect, state transfer, apply | the replica shows what the pane showed, and catches up |
| Daemon life (`bin/pmuxd.rs`, `daemon_lock.rs`, `bin/pmux.rs`, `bin/pmux/lifecycle.rs`) | instance lock, socket, pidfile, stop marker, `ShutdownGate` | start, stop, restart when idle, supervise | one server; a start reports what it did; a stop is respected; an accepted shutdown ends |
| Window sizes (`remote_size.rs`, `client_viewports`) | viewports, latest client | resize, disconnect | not modelled: the size owner shows the window |
| Space autosave, plugins, activity feed | files, workers, a second log | | not modelled: later candidates |
| Terminal core, rendering, host, installation | | | not modelled: sequential or I/O |

The parts meet in four ways. A client thread per connection reads a request,
takes the **plane mutex**, runs the handler to its reply and lets go, so a
request is atomic and only the order of requests is free. `MailWait` and
`SubscribePane` are the exceptions: their threads park **outside** the plane on
a condition variable and take the plane again. A maintenance thread drains pane
output, retries nudges and captures pane logs in the same plane, and hands what
it captured to a worker that writes the file. Everything a client learns travels
in a response that can be lost with its connection. Several daemon processes
meet only in the file system: a lock, a socket path, a pidfile, a stop marker.
Hard behaviours are therefore lock order and wakeups, rollback in the middle of
a handler, cursors over a bounded ring and restarts, a file that lags behind the
state it saves, processes that act on what they read a moment ago, and tables
that must agree after long sequences of requests. The hazards, each at its line,
are in `PROJECT.json`.

## 2. The modules

| Module | Models | Source |
|---|---|---|
| `MuxDomain` | the `Domain` methods that change state, one operator each; the ownership invariants | `domain.rs` |
| `ControlPlane` (extends it), `MCControlPlane` | the requests that call them, and the plane's own tables | `control.rs` |
| `EventLog` | abstract: one sequence per daemon, followers know a prefix | `docs/control-plane.md` |
| `EventStream` | ring, handshake, connections, followers, player; implements `EventLog` | `control.rs`, clients |
| `MailRouting`, `MCMailRouting` | bindings, forwards, aliases, seats, letters | `control.rs`, `mailbox/store.rs` |
| `MailWait` | the two locks, waiters, ringing threads, rename | `mailbox/watch.rs`, `control.rs` |
| `MailDoorbell`, `MCMailDoorbell` | lamps, nudges, injections and the input of the pane they type into | `control.rs`, `control/pane_write.rs`, `live.rs` |
| `PaneLog` | the frame ring of a pane, as operators the next two share | `pane_log.rs` |
| `DurableLog` | abstract: the file holds screens that were shown and never goes back | `docs/control-plane.md` |
| `PaneCheckpoint`, `MCPaneCheckpoint` | capture, worker, journal, crash and restore; implements `DurableLog` | `control.rs`, `live.rs`, `pane_log_persist.rs`, `workspace.rs` |
| `Mirror` | abstract: a replica shows what the pane showed and only goes forward | `docs/mux-cli.md` |
| `PaneStream` | daemon thread, reader thread and host thread of one replica; implements `Mirror` | `control.rs`, `prismattyc-host/src/attach_log.rs`, `mux.rs` |
| `DaemonLife`, `MCDaemonLife` | daemons, commands and the supervisor around four files | `bin/pmuxd.rs`, `daemon_lock.rs`, `bin/pmux.rs`, `bin/pmux/lifecycle.rs` |
| `*_proofs` | theorems about the module they extend | |

**MuxDomain / ControlPlane.** A layout tree is its set of leaves: the requests
depend on which leaves a window has, not on where they are. `Domain*` operators
are the domain's methods; the requests of `ControlPlane` are conjunctions of
`Served` (the check of `shutdown_pending` in `handle`), the request's own guards,
one `Domain*` operator and the plane's tables. A request that is refused before
it changed anything is a stutter. A request that fails later and rolls back is
an action (`CreateSessionFails`, `CreateWindowFails`, `SplitFails`): its ids stay
consumed. `move_pane` restores a clone of the whole domain, and is then a
stutter. `DropWindow` is the shared tail of a destruction and of a move that
empties its source; `Freed` is the test that saves the moved leaf. The lease
checks of Split, Close and MovePane apply only to a request that names its
client; a request need not, so they do not restrict the model. The daemon starts
empty; its doorbell identity, which takes the first client id, is not among the
clients. The mail doorbell acquires and releases a lease within one request,
which no other request can see.

**EventStream.** `Emit` numbers the event and drops the oldest of a full ring;
`OutputActivity` emits only if the ring has no entry of that pane (otherwise the
code updates that entry in place, which changes no number). A response is
computed in one step under the plane and kept in `inbox` until the client reads
it or the connection is lost. `view` is what a follower's state reflects, as a
set of `<<epoch, number>>`: `resnapshot_state` replaces it, `drain_events` adds
to it. A follower may reconnect with an old cursor and ask for events first; the
server's guard then refuses. `Restart` starts a new daemon with an empty ring.

**MailRouting.** Each request resolves addresses through `alias` and `forward`
as the code does; a letter records the session whose binding its address named
when it was stored. `robbed` is a history variable: it becomes true when a
rename moves an address that was not the session's own. Letters alike in
mailbox, recipient session and state are one element of the set. `AddressOf`
stands for `agent_id_from_label`, which maps different labels to one address.
`Restart` keeps what SQLite keeps. `Disconnect` drops the client and leaves the
letters it claimed held; a transfer that takes the last pane of the source
session ends that session, and its label with it.

**MailWait.** A critical section that takes no further lock is one step. A lock
appears as held only where its holder waits for the other one: the waiter in
`check` (watch held, plane wanted) and the renaming thread in `ring` (plane held,
watch wanted). Between `Check` and `Park` the waiter keeps the watch: this is
what excludes the lost wakeup.

**MailDoorbell.** One session with its panes in layout order; its doorbell is
the first of them. `bell` holds what `attention.rs` and the plane keep for a
pane: revision, lamp, nudge and injection record. `tty` holds the pane as a
writer meets it: lease, ledger (`unsent`, `recent`), foreground, the room left in
the queue of the writer thread. `Gate` is the sequence of early returns of
`gated_mail_inject`; `Inject` splits a token into its writes, any of which may
find the queue full. `author`, `crossed`, `rings` and `disturbed` are history
variables: who has an unsent line in the pane, whether another's bytes entered
it, how often this revision was rung, and whether the lamp was changed by other
than a mail request. Time appears as what expires: `Silence` (a minute without
input and output), `HideEnds` (what the token caused is no longer hidden).

**PaneLog / PaneCheckpoint.** A screen is the sequence of frames fed to the
emulator, and a snapshot is a copy of it. `TickCapture` captures one pane and
builds a full record or the frames since the last capture; `TickDiscard` drops
captures of panes that have gone; `Work` is the worker with a fresh document or an
appended transaction, and each of its writes can fail half way, which leaves an
incomplete last line (`torn`). A file is kept as what the parser makes of its
complete lines. A crash can come between any two steps; `Restore` maps the saved
records to the panes of the saved workspace by position, as the code does. With
`Log == INSTANCE DurableLog WITH ...` a saved screen is what `restore_emulator`
would show.

**PaneStream.** `Push` and `Subscribe` compute a response under the plane,
`wire` holds it, and the reader takes it in a later step, so the pane can run on
or the daemon can be replaced in between. The reader is a program counter with
the cursor `from`; `at` (the daemon in whose numbers the cursor is) and `mixed`
(the cursor was kept into another daemon) are history. A message to the host
needs memory, which only the host gives back; `Reserved` is what is queued.
`Write` is `write_response`: a batch or a repaint over `MAX_RESPONSE_BYTES` (4 MiB)
goes out as an Internal error while the stream goes on, and the reader ends on
that error (`ReadError`) although the pane lives. Frames have no length here, so any
batch or repaint may be too large; in the code a batch of one frame never is.
`Applied` is `drain_log`.
With `Shadow == INSTANCE Mirror WITH ...` every step of the three threads is a
step of `Mirror` or a stutter.

**DaemonLife.** A process acts on what it read before, so a check and the act that
relies on it are separate steps and the files change in between: `up` probes the
socket in `Ask` and reads the pidfile in `ReadPid`, the supervisor looks for the
marker in `Decide` and starts a daemon in `Spawn`. Calls are one step only where
no other process can tell: `TakeLock` is the lock, the probe, the pid in the lock
file and the removal of the marker, the last two of which only the holder of the
lock writes; `Wake` the end of the wait and the marker; `ReadPid` and `FindPid`
the pidfile and the question whether that process lives; `Exit` the release of the
lock and the end of the process (a stop in that instant would signal a process
that runs no more code). `FindPid` also searches the processes in that step when
the pidfile names none. `lock` is the `flock` of `daemon_lock.rs`, which a death
releases, `owner` the pid in that file, `socket` the daemon whose listener is
bound to the path, `gate` the flag of `ShutdownGate`. A caller runs one command
(`pmux up`, `pmux stop` or the idle part of `pmux restart`, which goes on as an
`up`), `Supervisor` is `pmux login run`. A probe may miss a daemon that answers
slowly, and every wait may end by its deadline. `Crash` is a startup that fails or
a kill at any point, and is bounded by `MaxFaults`; `Die` is what the kernel does
then, and when a command kills a daemon: memory and lock go, the files stay.
`MCDaemonLife` leaves out plays that differ only in which caller runs which
command.

## 3. The runs

| Run | Instance | Result |
|---|---|---|
| `mail_wait` | 2 waiters, 2 clients with 2 requests each, 1 rename, 2 addresses, 2 letters | 67,740 states, holds |
| `mail_wait_cycle` | 1 client | `NoLockCycle` violated |
| `control_plane` | 2 sessions, 3 windows, 3 panes, 1 client, 2 Spaces | 95,397 states, holds |
| `control_plane_refusal` | 2 windows, 2 clients | `RefusalKeepsSessions` violated |
| `event_stream` | 1 follower, 1 player, 1 pane, ring of 3, limit 1, 6 events, 1 restart, 2 lost connections | 44,395 states, holds |
| `tutorial_play` | the same | `PlayerHearsDaemon` violated |
| `mail_routing` | 2 sessions, 3 labels of 2 addresses, 1 more address, 1 client, 2 letters | 550,548 states, holds |
| `mail_routing_theft` | 1 letter | `MailStaysWithOwner` violated |
| `pane_checkpoint` | 2 panes at first and 1 more, 2 frames of the first, ring of 1, journal of 2, 1 layout change, 1 failure, 1 restart | 97,524 states, holds |
| `mail_doorbell` | 2 panes, 2 clients typing in the first, token in 2 writes, input queue of 2, 1 letter, 2 revisions, 1 move | 340,509 states, holds |
| `pane_stream` | ring of 2, batch of 1, budget of 3, 1 response in flight, 3 frames, 1 restart, 1 lost connection | 685,376 states, holds |
| `daemon_life` | 3 daemons, 2 callers with any of `up`, `stop`, idle restart, supervisor or none, 1 crash | 530,914 states, holds |

What they show:

- `mail_wait`: `NoLostWakeup` (whoever is about to sleep or sleeps with mail in
  its box has a ring still to come), `OnlyCycleBlocks` (if a thread has work
  left and the lock cycle is not closed, some thread can run) and
  `MailEndsWait` (mail alone, without a timeout, ends every wait unless the cycle
  closed).
- `control_plane`: `ExclusiveOwnership` (sessions, windows and panes form a
  tree), `SideTablesTrackTopology` (`bounds`, `spawn`, `client_window_views`),
  `IdsNeverReissued`, `RefusalIsAtomic`, `IdleShutdownFinal`,
  `LeaseHolderRegistered`, `SpaceChangeRevokes`.
- `event_stream`: `RingIsRecentHistory`, `ActivityCoalesced`, `ViewIsPrefix`
  (what a follower that may read events knows is exactly the history up to its
  cursor), `ImplementsEventLog`, `CatchesUp`.
- `mail_routing`: `ForwardsFlat`, `AgentsExclusive`, and, as long as no rename
  took a foreign address, `BoundAgentReceives`, `LettersReachable` and
  `OwnerKeepsMail`.
- `pane_checkpoint`: `ImplementsDurableLog`; `MarkIsSaved` (what the plane
  believes to be saved is in the file), `RestoredSizeAgrees` (a saved screen and
  its saved size belong together), `Settles` (when the panes rest and failures
  end, the file holds what they show).
- `mail_doorbell`: `LinesNotCrossed` (no bytes of a client or of the doorbell enter
  a line another client has typed in the last moments), `LedgerKnowsLine`,
  `RingsAtMostTwice`, `NudgeIsCurrent` and `LampTellsMail` (nudge and lamp belong
  to the current revision and to letters that are there), `ReadyLetterRings` (no
  gate holds back a letter at a pane that is ready), `LettersRing` (a pane that
  stays ready does not let a letter wait for ever).
- `pane_stream`: `CursorTellsReplica` (the cursor a reader subscribes with names
  exactly what it sent to the host), `ImplementsMirror`, `OnlyBoundsBlock` (when
  output rests the replica shows the whole screen of a pane that lives, unless a
  state or a batch is larger than the budget or a reply larger than the wire takes).
- `daemon_life`: `OneServer` (two daemons never serve, and only the holder of the
  lock owns the socket), `PidfileNamesOwner`, `UpTellsTruth` (an `up` says
  "started" only of its own child, which holds the lock and has bound the socket,
  and leaves no child behind when it fails), `StopRespected` (a supervisor that
  saw a daemon answer does not go past its look for the marker after a stop on
  purpose), `HeardMoves` (a daemon that was asked to end never waits) and
  `AcceptedEnds` (a daemon whose accepted idle shutdown was answered ends).

Bounds. Two sessions, three windows and three panes are enough for a move to
empty a window and with it a session while another window of either session
stays, and for each id space to run out in the middle of a request: the largest
id stands for `u64::MAX`; `ControlPlane_proofs` covers any number of clients. A
ring of three with six events overflows, holds an activity entry beside two
mutations, and reaches the end of the sequence; `Limit = 1` makes every catch-up
take several batches. Three labels (`Build`, `build`, `test`) give two labels
with one address and a third address to go to. A pane log of one frame with two
frames of output makes every second capture meet a gap, and a journal of two
transactions a compaction; a third pane id lets the layout change put another
pane at a saved position. Two chunks and a queue of two reach every split of an
injection; the second pane is needed only to move the doorbell away. A stream with
a ring of two, three frames and one frame per batch has gaps, catch-ups in
several batches, and a restored daemon whose log is ahead of, behind and equal to
the cursor; a budget of three is less than a state and a batch together, and a restored
state of four (three frames and the reset) is more than it by itself. Three
daemons let a starting one meet one that serves and one that leaves. `Max*`
constants cap what the environment may do. `CHECK_DEADLOCK` is off where the
instance really ends: all waits answered, all ids used up after an accepted
shutdown, the pane closed, all daemons gone. Spaces and sessions are symmetric
where no liveness is checked.

Fairness. In `MailWait`, a thread that is in the middle of its work is
scheduled (`WF` on the waiter, on a client thread that has still to ring, and on
the rename's ring): these are OS threads. No request and no deadline is fair.
Weak fairness suffices although locks are contended, since lock holders are
themselves fair and the requests are bounded. In `EventStream` a follower that
can reconnect, ask or read does so: each has a loop that never gives up. The
player, lost connections, restarts and new events are not fair; the latter three
are bounded, as a follower of a ring that always overflows in time never catches
up. `MailDoorbell` assumes only that the maintenance tick retries a due nudge;
no client and no reader of mail is fair. `PaneCheckpoint` assumes the tick
(`TickDiscard`, `TickCapture`) and the worker (`WorkDone`). `PaneStream` assumes the
three threads (push, reader, host), each as one weakly fair choice of its steps,
and no output, timeout, restart or loss.
`DaemonLife` assumes the steps of a daemon and nothing of the commands: a user may
go away, an accepted shutdown ends all the same.

### Where the code and its documents disagree

Four are shown by a run:

1. `name_session` rings the mail watch under the plane lock (`control.rs:5647`).
   The comments at `control.rs:2473` and `:8356` rule this out because it
   deadlocks; `mail_wait_cycle` shows the deadlock.
2. A refused `CreateWindow` on a headless session destroys the session, as its
   rollback calls `destroy_window` on the session's only window
   (`control.rs:5969`); `docs/control-plane.md:56` calls the request atomic.
3. `name_session` of a session without an agent renames the address its label
   stands for, without asking who owns it (`control.rs:5578`), against the
   contract of `Store::rename` (`mailbox/store.rs:176`). Another session's
   letters move.
4. `pmux tutorial --play` asks for events before any snapshot
   (`bin/pmux.rs:1940`), is refused, and plays without the daemon;
   `docs/mux-cli.md:975` says its steps wait for real events.

These were met while modelling and have no run of their own. The models have them
as the code has, except synchronized input and `Resize`,
which are not modelled:

- A state larger than `HOST_EVENT_BUDGET_BYTES` (8 MiB, `attach_log.rs:62`; a state
  may have 256 MiB, `control.rs:52`) blocks the reader for good: it holds what it
  has reserved and waits for memory only the host could give back.
  `OnlyBoundsBlock` exempts it.
- `write_response` replaces a reply over 4 MiB by an Internal error
  (`control.rs:8518`), which the reader does not retry (`attach_log.rs:1356`): a
  batch of 256 full reads, or a repaint with many styles, ends the replica of a
  pane that lives. `OnlyBoundsBlock` exempts it too.
- A reader that falls back to the log without a state keeps a cursor in the
  numbers of an earlier daemon (`attach_log.rs:1514`) and mixes two histories:
  `pane_log.rs:3` says that sequence numbers are never reused, but a daemon that
  restores an older checkpoint numbers its frames again from there. `mixed` is
  that exception.
- `is_held` probes the instance lock by taking it (`daemon_lock.rs:43`), so two
  concurrent `pmux up` can make the daemon of one of them see a held lock and
  exit, and both report a failure; `docs/login-restore.md:40` has them wait for
  the owner of the lock.
- `pmux stop` removes the pidfile by its path after its probe; it may be that of a
  daemon that started in between, whose `up` then waits in vain and kills it.
- The reply to `ShutdownIdle` can be lost (`control.rs:8411`): the daemon then
  refuses every request and does not end.
- Supervision is to stop after an explicit stop (`docs/login-restore.md:21`). It
  does not when `pmux stop` had to fall back to a signal, came during the back-off
  of the supervisor, or fell, after a missed probe, between the supervisor's look
  for the marker (`pmux.rs:3876`) and its start of a daemon (`:3892`), which then
  removes the marker. `StopRespected` is about a stop by request, up to that look.
- `pmux up` probes the socket (`pmux.rs:1099`) and then reads the pidfile
  (`:1103`): a child that has begun to leave in between is still reported as
  started, while nothing answers any more. `UpTellsTruth` claims that it owns the
  instance.
- `docs/mux-cli.md:393` says a letter is injected once; the verification writes a
  second time. `docs/control-plane.md:149` lists a gate "pane not focused" the code
  has not. The second write of a revision is bounded (`RingsAtMostTwice`) because
  the record counts writes and is never reset within a revision.
- Lamp and nudge stay on the pane that was first when the letter came, though the
  doorbell is the first pane (`control.rs:3644`) and may be another one by now.
  `LampTellsMail` therefore speaks of states no layout change disturbed.
- Writes that synchronized input copies to sibling panes pass no gate
  (`control.rs:4674`, against the comment at `:4636`).
- Saved panes are matched by position, so a pane log can be restored into another
  pane than the one it was captured from, if the layout was saved in between.
- A `Resize` that is refused for its window or geometry has by then updated
  `client_viewports`, `host_viewports` and `latest_client` (`control.rs:4928`).

## 4. The proofs

All theorems are about the specifications themselves, for every value of the
constants that satisfies the named assumptions (ids and capacities positive,
thread and connection sets disjoint, `None` and `Corrupt` no element of the sets they
are used beside). Every proof has the same skeleton: an initial step, one step per
action, and a temporal conclusion.

- **MailWait_proofs.** `TypeCorrect`; `WakeupsKept` for `NoLostWakeup`. The
  inductive invariant adds `WatchHolder`: a waiter in `check` or `sleep` is the
  holder of the watch. A thread that makes mail appear moves to `fetch` or
  `ring` in that step, and a ring cannot complete before a waiter in `sleep` has
  parked, because both need the watch. `CycleAloneBlocks` is `OnlyCycleBlocks`
  with the guards of the steps written out in place of `ENABLED`: it adds
  `LocksInUse` (a lock between steps is held by a waiter in `check` or `sleep`, or
  by a rename in `ring`), and then looks at who holds which lock.
- **ControlPlane_proofs.** `DomainInv` is the domain's types,
  the ownership tree and: what is alive has an id that was given out (without
  it a fresh id could be that of a live pane). One lemma per domain operator
  says that it keeps `DomainInv`; `RequestKeepsDomain` puts the requests
  together. From it follow `OwnershipExclusive`, `TypeCorrect`, `ShutdownFinal`
  and `LeasesRegistered`. A second group of lemmas says what each operator does to
  the sets of live objects; with them `TablesFollow` (each request changes the
  tables exactly where it changes those sets), `NothingReissued` (what appears was
  minted in this step), `RefusalsAreAtomic` (which needs `LeaseHolderRegistered`:
  a rollback drops no lease of a client that is still there) and `ChangesRevoke`.
- **EventStream_proofs.** `RingRecent`, `OutputCoalesced`, `TypeCorrect`. For
  `FollowersSeePrefix` the invariant also describes the responses on their way:
  a snapshot in flight is a prefix, a batch in flight is exactly the next events
  after the cursor of its follower (`BatchIsNext`), and a view holds nothing of
  a later daemon. `LogImplemented` maps each step to a step of `EventLog` or a
  stutter: only the receipt of a response changes a view, and it is `Learn`.
- **MailRouting_proofs.** `TypeCorrect`, `ForwardsStayFlat`,
  `AgentsStayExclusive` are inductive as they stand. `BoundReceives` needs the
  stronger `BoundIsPlain` (a bound address is neither an alias nor a former
  address). `LettersStayReachable` rests on both, `OwnersKeepMail` on
  `AgentsExclusive`.
- **MailDoorbell_proofs.** What a request does to one pane is a function of its
  bell and its tty, so the invariant is one of a pair (bell, tty), and one lemma
  per function (`Arm`, `Clear`, `Typed`, `GatedInject`, `Retried`) says that it
  keeps it; the requests are then a matter of which panes they apply it to.
  `TwoRings` needs that the injection record of a revision counts its writes, so
  that a third try finds it spent. `LampIsTrue` also needs `FreshDark`: a pane id
  that was not given out has no lamp, so a new first pane does not bring one.
- **DaemonLife_proofs.** `LifeInv` is the types, `FilesInv` (who holds the lock,
  owns the socket and is named by the pidfile, and that the marker is there once
  the owner leaves: all read off the phases of the daemons) and `CommandInv` (what
  a command may conclude from the point it has reached: whether it has a child,
  whether that child was born or has ended). `OneServes` and `PidfileTrue` follow
  from `FilesInv`, `UpIsTrue` and `StopIsRespected` step by step from both.
- **PaneStream_proofs.** `past` and the screen of the running daemon are the
  history of what each daemon's pane has shown. `StreamInv` says that the pane's
  ring is the end of what it showed (`PaneOK`), that the responses on the wire
  form a chain which starts at the reader's cursor (`ChainOK`; `LinkOK` says where
  that cursor stands at each point of the reader's program, `ReaderOK` what it has
  reserved), and that the messages on their way to the host tell a story of views,
  from the one the replica shows to the one the cursor names (`StoryOK`). Lemmas
  about the ring say what it holds after a record and after a restore and which
  frames it answers a cursor with; that a story of any length goes only forward is
  shown with the least number of a set. From the invariant follow `CursorTold`,
  and `MirrorImplemented`: a response is computed from the pane of one moment and
  applied much later, and the story is what makes it a step of `Mirror` all the
  same.
- **PaneCheckpoint_proofs.** `CheckpointInv` is `TypeOK` with what ties the plane,
  the worker and the file to the panes. `PanesOK`: the frames of a pane's screen
  are numbered without a hole, its ring is the end of the screen, and the frames
  that this daemon recorded are the pane's own and the newest. `FileOK`: the file
  can be read, and what it holds of a pane of this daemon the pane has shown.
  `PlaneOK`: what was captured and what the worker has agree. With its next entry
  the worker will have a pane through the captured sequence number (`EntryOK`),
  between jobs it already has (`Synced`), its copies are the records of the file
  (`Copied`), and a mark that counts as saved is (`MarkSaved`). Its entries and
  records are stretches of a screen (`Within`, `Continues`), and nothing newer of
  a captured pane is in the file (`Newest`). `PhaseOK`: at most one checkpoint is
  under way, and a daemon that is down has none. `TopologyOK`: the layout and the
  saved one name no pane twice and only ids that were given out. None of the run's
  properties is inductive without these: `MarkIsSaved` needs to know that the
  captured tail continues the record the worker will append it to, and that in
  turn that both are stretches of one screen. `SizeAgrees` follows from the size
  every record keeps, `MarkSafe` from `PlaneOK`, whatever failed in between.
  `DurableLogImplemented` has one step per action: a write publishes the captured
  screens, each of which the pane showed and none of which is older than what the
  file held; a step that writes nothing is a stutter; a start shows again what the
  file reads as.

The type invariants of all modules with proofs are proved (`TypeCorrect`), for every
value of the constants; no run repeats them.

### Progress

The backends reason neither about `ENABLED` nor by induction under a temporal
operator, so a liveness property is split into what they can prove and one
remainder.

- **Two liveness properties are theorems, given an invariant with `ENABLED`.**
  `HeardEnds` is `Spec /\ []HeardMoves => AcceptedEnds`: the `WF1` argument along
  the stages of a daemon (ready, leaving, closing, closed), each of which only its
  own step or its death leaves. `LettersAnnounced` is `Spec /\ []ReadyLetterRings
  => LettersRing`: every attempt at a ready pane ends the waiting. The hypotheses
  are invariants which the runs check; and with the guards of the steps written
  out in place of `ENABLED` they are theorems, too (`HeardMayStep`,
  `ReadyLettersTried`). What is not proved is only that an action whose guard
  holds is `ENABLED`.
- **The others have a measure and a rest.** A theorem of the first kind says that
  the steps of the threads lower a natural number and that no other thread raises
  it; one of the second kind that, as long as the goal is not reached, the guard
  of one of these steps holds. What is not proved is the induction that puts them
  together; TLC checks the liveness property on the instance.

  | Property | Lowers a measure | Rests only at the goal |
  |---|---|---|
  | `CatchesUp` | `FollowersAdvance`: how far a follower is behind, through refusals, gaps and batches of any limit | `FollowersMayStep` |
  | `Settles` | `CheckpointsAdvance`: the checkpoints and panes still to capture or to write | `RestIsSaved` |
  | `MailEndsWait` | `MailMovesForward`: how far a waiter is from its answer | `NoneSleepsOn`, with `CycleAloneBlocks` |
  | `OnlyBoundsBlock` | none: an idle subscription ends and begins again for ever | `NeverStranded` |

  `FollowersMayStep` needs that a batch in flight for a cursor behind the ring's
  end carries at least one event. `RestIsSaved` uses the whole of `CheckpointInv`;
  on the way `WorkerComplete` shows that the worker always has the copy an
  increment is for, so that its error "missing checkpoint cache"
  (`pane_log_persist.rs:74`, `:89`, `:106`) does not occur. `NeverStranded` adds
  `RestInv` to `StreamInv`: a stream ends with a last word (`done`, `ahead` or
  `stale`) that the reader has yet to take, `stale` is said only of a pane that is
  gone and the reader ends without an error only then, the last message of a
  reader that ended or failed says so, and only a reader that fell back leaves a
  hole above the screen. It assumes nothing of the bounds (the budget can be set
  in the environment, `attach_log.rs:66`, also below one batch): a state or a
  batch over the budget and a reply over the wire are the named ends of
  `UpToDate`.

### What is only model-checked

`OnlyCycleBlocks`, `HeardMoves` and `ReadyLetterRings` in the form that uses `ENABLED`
(their forms with guards are theorems), and the liveness properties `MailEndsWait`,
`CatchesUp`, `Settles` and `OnlyBoundsBlock`, of which the theorems above give
everything but the induction. Every other property of a passing run is a theorem.

## 5. Not modelled

Split geometry, titles, order of sessions and windows, `spaces_owned`, view and
focus tables nothing else reads, the durable `session-agents.json` (written,
never read), SQLite errors (a failed store call is refused before the domain is
swapped), I/O of the PTYs, rendering, installation and plugins. In `EventStream`
the contents of events are left out beyond the pane of an activity entry; in
`MailRouting` sizes and texts of letters.

In `MailDoorbell`: windows with synchronized input (their copies pass no gate, see
above), the colours of tabs (`team_attention.rs`, `prompt_idle.rs`), how many
attempts remain beyond none. In `PaneCheckpoint`: the two-second cadence, which is
a choice of the tick, and a resize the session refuses (`live.rs:405`), which
leaves the columns of the pane changed without a frame in its log. In
`PaneStream`: resizes in a batch, the pieces in which a snapshot is fed, a state
that cannot be decoded (`mux.rs:2019` leaves a hole then), the 50 ms slices of
`PaneLogWatch`, the lengths of frames and replies, and other subscribers
(`pmux-attach`, `pmux pipe-pane`), which see the same responses. In `DaemonLife`:
sockets that are not the daemon's, errors of the file system,
`component_restart.rs` and the service files of `login.rs`. Window sizes are not
modelled (`remote_size.rs`, `control.rs:4565`, `:4895`, `:6579`): the rules are a
handful, but they read the viewports of every connection in every layout request.

The map covers a small share of the repository's lines: most of them draw, parse,
lay out or install, and are sequential. The modules are about the parts in which
several threads, clients or processes act on shared state.

## 6. Plan

1. `WindowSize`: viewports, `latest_client`, disconnect fallback, the refused
   `Resize`, and the several events of one `DisconnectClient`.
2. Extend `EventStream` with the revision of activity entries and with lease
   events (`emit_output_activity`, `revoke_space_controller`).
3. Synchronized input in `MailDoorbell`.
4. The activity feed with its webhook queue; `pmux pipe-pane` as a subscriber that
   does not reconnect.
