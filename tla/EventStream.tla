---------------------------- MODULE EventStream -----------------------------
(***************************************************************************)
(* The event ring of pmuxd and the connections that follow it.             *)
(*                                                                         *)
(* Server (control.rs): every mutation appends one numbered event to a     *)
(* bounded ring; pane output appends one too, unless the ring still holds  *)
(* one for that pane.  A connection reads batches with `Events`, and only  *)
(* after it took a `Snapshot` (handle_client_loop).  A request is handled  *)
(* under the plane lock in one step; its response travels on the socket    *)
(* and is lost when the connection is.                                     *)
(*                                                                         *)
(* Clients: a follower keeps a state that it replaces by a snapshot and    *)
(* updates from batches (pmux-attach drain_events, host SnapshotClient); a *)
(* player is the `pmux tutorial --play` client.                            *)
(***************************************************************************)
EXTENDS Naturals, Sequences, FiniteSets

CONSTANTS
    Followers,    \* connections of followers
    Players,      \* connections of tutorial players
    Panes,        \* panes whose output is published
    Capacity,     \* event_capacity
    Limit,        \* `limit` of an Events request
    MaxSequence,  \* u64::MAX of the event sequence
    MaxRestarts,  \* bound on the restarts of the daemon
    MaxDrops      \* bound on the connections lost otherwise

ASSUME ConnsAssumption == Followers \cap Players = {}

ASSUME BoundsAssumption ==
    /\ Capacity \in Nat \ {0}
    /\ Limit \in Nat \ {0}
    /\ MaxSequence \in Nat
    /\ MaxRestarts \in Nat
    /\ MaxDrops \in Nat

Conns == Followers \cup Players

VARIABLES
    epoch,        \* incarnation of the daemon
    sequence,     \* ControlPlane::sequence
    ring,         \* ControlPlane::events
    up,           \* connections that are open
    established,  \* of these, the ones with snapshot_established
    inbox,        \* the response on its way to each client
    mode,         \* what each client asks for next
    cursor,       \* after_sequence of each follower
    view,         \* the changes <<epoch, n>> each follower's state reflects
    drops         \* connections lost so far

server == <<epoch, sequence, ring>>
client == <<mode, cursor, view>>
vars == <<server, up, established, inbox, client, drops>>

Mutation == "mutation"      \* any event that is not OutputActivity
Envelope == [sequence : Nat, event : Panes \cup {Mutation}]

NoResponse == [kind |-> "none"]
Refused == [kind |-> "refused"]

Prefix(e, n) == {e} \X (1..n)

Init ==
    /\ epoch = 0
    /\ sequence = 0
    /\ ring = <<>>
    /\ up = {}
    /\ established = {}
    /\ inbox = [c \in Conns |-> NoResponse]
    /\ mode = [c \in Conns |-> "snapshot"]
    /\ cursor = [c \in Followers |-> 0]
    /\ view = [c \in Followers |-> {}]
    /\ drops = 0

-----------------------------------------------------------------------------
(* The ring. *)

(* Mutated Emit: the front goes one event too late. *)
EmitLate(event) ==
    /\ sequence < MaxSequence
    /\ sequence' = sequence + 1
    /\ ring' = Append(IF Len(ring) > Capacity THEN Tail(ring) ELSE ring,
                      [sequence |-> sequence + 1, event |-> event])
    /\ UNCHANGED <<epoch, up, established, inbox, client, drops>>

(* emit, after ensure_sequence_capacity. *)
Emit(event) ==
    /\ sequence < MaxSequence
    /\ sequence' = sequence + 1
    /\ ring' = Append(IF Len(ring) = Capacity THEN Tail(ring) ELSE ring,
                      [sequence |-> sequence + 1, event |-> event])
    /\ UNCHANGED <<epoch, up, established, inbox, client, drops>>

Mutate == Emit(Mutation)

(* Mutated OutputActivity: only the newest event is looked at. *)
OutputActivityLast(p) ==
    /\ ring # <<>> => ring[Len(ring)].event # p
    /\ Emit(p)

(* emit_output_activity.  An entry of the pane that the ring still holds is *)
(* updated in place, which changes no sequence number.                      *)
OutputActivity(p) ==
    /\ \A i \in DOMAIN ring : ring[i].event # p
    /\ Emit(p)

(* oldest_available_sequence. *)
Oldest == IF ring = <<>> THEN sequence + 1 ELSE ring[1].sequence

(* events_after: the retained events after `after`, the first Limit of them *)
(* (the sequence numbers in the ring increase, so an event is among those   *)
(* unless the one Limit places before it is also newer).                    *)
Newer(after) == {i \in DOMAIN ring : ring[i].sequence > after}
Batch(after) == {ring[i].sequence : i \in {j \in Newer(after) : j - Limit \notin Newer(after)}}
Through(after, batch) ==
    IF batch = {} THEN after ELSE CHOOSE n \in batch : \A m \in batch : m <= n

(* Mutated EventsResponse: the oldest event may be the one after next. *)
EventsResponseGap(c, after) ==
    IF c \notin established \/ after > sequence \/ after + 2 < Oldest
    THEN Refused
    ELSE [kind |-> "events", epoch |-> epoch, sequences |-> Batch(after),
          through |-> Through(after, Batch(after))]

(* Mutated EventsResponse: a connection need not take a snapshot first. *)
EventsResponseUnguarded(c, after) ==
    IF after > sequence \/ after + 1 < Oldest
    THEN Refused
    ELSE [kind |-> "events", epoch |-> epoch, sequences |-> Batch(after),
          through |-> Through(after, Batch(after))]

EventsResponse(c, after) ==
    IF c \notin established \/ after > sequence \/ after + 1 < Oldest
    THEN Refused
    ELSE [kind |-> "events", epoch |-> epoch, sequences |-> Batch(after),
          through |-> Through(after, Batch(after))]

-----------------------------------------------------------------------------
(* Connections. *)

(* A client that comes back may still hold a cursor, and may try it. *)
Connect(c) ==
    /\ c \notin up
    /\ up' = up \cup {c}
    /\ \E m \in {"snapshot", "events"} : mode' = [mode EXCEPT ![c] = m]
    /\ UNCHANGED <<server, established, inbox, cursor, view, drops>>

Drop(c) ==
    /\ c \in up
    /\ drops < MaxDrops
    /\ drops' = drops + 1
    /\ up' = up \ {c}
    /\ established' = established \ {c}
    /\ inbox' = [inbox EXCEPT ![c] = NoResponse]
    /\ UNCHANGED <<server, client>>

(* The daemon ends and a new one is started: its sequence starts again.     *)
Restart ==
    /\ epoch < MaxRestarts
    /\ epoch' = epoch + 1
    /\ sequence' = 0
    /\ ring' = <<>>
    /\ up' = {}
    /\ established' = {}
    /\ inbox' = [c \in Conns |-> NoResponse]
    /\ UNCHANGED <<client, drops>>

Asks(c, what) ==
    /\ c \in up
    /\ inbox[c] = NoResponse
    /\ mode[c] = what
    /\ UNCHANGED <<server, up, client, drops>>

(* Snapshot: a successful one sets snapshot_established. *)
AskSnapshot(c) ==
    /\ Asks(c, "snapshot")
    /\ established' = established \cup {c}
    /\ inbox' = [inbox EXCEPT ![c] =
                    [kind |-> "snapshot", epoch |-> epoch, sequence |-> sequence]]

(* Events: an error with resnapshot_required clears snapshot_established. *)
AskEvents(c, after) ==
    /\ Asks(c, "events")
    /\ inbox' = [inbox EXCEPT ![c] = EventsResponse(c, after)]
    /\ established' = IF EventsResponse(c, after) = Refused THEN established \ {c}
                                                            ELSE established

Receive(c, kind) ==
    /\ inbox[c].kind = kind
    /\ inbox' = [inbox EXCEPT ![c] = NoResponse]
    /\ UNCHANGED <<server, drops>>

-----------------------------------------------------------------------------
(* Followers. *)

(* resnapshot_state: the snapshot replaces the state and the cursor. *)
ReceiveSnapshot(c) ==
    /\ Receive(c, "snapshot")
    /\ UNCHANGED <<up, established>>
    /\ view' = [view EXCEPT ![c] = Prefix(inbox[c].epoch, inbox[c].sequence)]
    /\ cursor' = [cursor EXCEPT ![c] = inbox[c].sequence]
    /\ mode' = [mode EXCEPT ![c] = "events"]

(* drain_events: each event is applied, then the cursor is moved. *)
ReceiveEvents(c) ==
    /\ Receive(c, "events")
    /\ UNCHANGED <<up, established>>
    /\ view' = [view EXCEPT ![c] = @ \cup ({inbox[c].epoch} \X inbox[c].sequences)]
    /\ cursor' = [cursor EXCEPT ![c] = inbox[c].through]
    /\ UNCHANGED mode

(* Mutated ReceiveRefusal: the request is tried again as it was. *)
ReceiveRefusalRetries(c) ==
    /\ Receive(c, "refused")
    /\ UNCHANGED <<up, established, mode, cursor, view>>

(* EventGap, StaleSequence and SnapshotRequired lead to a fresh snapshot. *)
ReceiveRefusal(c) ==
    /\ Receive(c, "refused")
    /\ mode' = [mode EXCEPT ![c] = "snapshot"]
    /\ UNCHANGED <<up, established, cursor, view>>

FollowerStep(c) ==
    \/ Connect(c)
    \/ AskSnapshot(c)
    \/ AskEvents(c, cursor[c])
    \/ ReceiveSnapshot(c)
    \/ ReceiveEvents(c)
    \/ ReceiveRefusal(c)

-----------------------------------------------------------------------------
(* Players: cmd_tutorial_play. *)

PlayerConnect(c) ==
    /\ c \notin up
    /\ mode[c] = "snapshot"
    /\ up' = up \cup {c}
    /\ mode' = [mode EXCEPT ![c] = "events"]
    /\ UNCHANGED <<server, established, inbox, cursor, view, drops>>

(* The head request; any answer but a batch drops the connection, and the   *)
(* tutorial goes on as if there were no daemon.                             *)
PlayerHead(c) ==
    \E kind \in {"events", "refused"} :
        /\ Receive(c, kind)
        /\ mode' = [mode EXCEPT ![c] = IF kind = "events" THEN "online" ELSE "offline"]
        /\ up' = IF kind = "events" THEN up ELSE up \ {c}
        /\ UNCHANGED <<established, cursor, view>>

PlayerStep(c) == PlayerConnect(c) \/ AskEvents(c, 0) \/ PlayerHead(c)

-----------------------------------------------------------------------------
Next ==
    \/ Mutate
    \/ \E p \in Panes : OutputActivity(p)
    \/ Restart
    \/ \E c \in Conns : Drop(c)
    \/ \E c \in Followers : FollowerStep(c)
    \/ \E c \in Players : PlayerStep(c)

(* A follower reconnects, asks and reads what it is sent; the thread of its *)
(* connection answers.                                                      *)
Fairness == \A c \in Followers : WF_vars(FollowerStep(c))

Spec == Init /\ [][Next]_vars /\ Fairness

-----------------------------------------------------------------------------
Response ==
    [kind : {"none", "refused"}]
        \cup [kind : {"snapshot"}, epoch : Nat, sequence : Nat]
        \cup [kind : {"events"}, epoch : Nat, sequences : SUBSET Nat, through : Nat]

(* Types of the ring, the connections and the clients. *)
TypeOK ==
    /\ epoch \in 0..MaxRestarts
    /\ sequence \in 0..MaxSequence
    /\ ring \in Seq(Envelope)
    /\ up \subseteq Conns
    /\ established \subseteq up
    /\ inbox \in [Conns -> Response]
    /\ mode \in [Conns -> {"snapshot", "events", "online", "offline"}]
    /\ cursor \in [Followers -> Nat]
    /\ view \in [Followers -> SUBSET (Nat \X Nat)]
    /\ drops \in 0..MaxDrops

(* The ring holds the last events, numbered without a hole, up to the       *)
(* current sequence, and as many as it has room for.                        *)
RingIsRecentHistory ==
    /\ \A i \in DOMAIN ring : ring[i].sequence = sequence - Len(ring) + i
    /\ Len(ring) <= Capacity
    /\ Len(ring) < Capacity => Len(ring) = sequence

(* docs/control-plane.md: output activity is coalesced to at most one ring  *)
(* entry per pane, so a busy pane evicts nothing.                           *)
ActivityCoalesced ==
    \A i, j \in DOMAIN ring :
        ring[i].event = ring[j].event /\ ring[i].event # Mutation => i = j

(* A follower that the server lets read events reflects exactly the changes *)
(* of the running daemon up to its cursor: none is missed at a gap, a lost  *)
(* response or a restart, and none of an earlier daemon is mixed in.        *)
ViewIsPrefix ==
    \A c \in Followers :
        c \in established /\ mode[c] = "events" => view[c] = Prefix(epoch, cursor[c])

(* Every follower ends up with the whole state of the running daemon,       *)
(* whatever gaps, refusals, lost connections and restarts it went through.  *)
CatchesUp ==
    \A c \in Followers : <>[](c \in up /\ view[c] = Prefix(epoch, sequence))

(* The followers implement the abstract log. *)
Log == INSTANCE EventLog WITH epoch <- epoch, sequence <- sequence, view <- view
ImplementsEventLog == Log!Spec

(* docs/mux-cli.md on `pmux tutorial --play`: "mux_event steps wait for a   *)
(* real pmuxd control event", and only "with no daemon" they do not.  A     *)
(* player that a running daemon answered never takes it for absent.         *)
PlayerHearsDaemon == \A c \in Players : mode[c] # "offline"
=============================================================================
