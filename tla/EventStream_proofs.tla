------------------------- MODULE EventStream_proofs -------------------------
(***************************************************************************)
(* Proofs about EventStream, for any ring capacity, batch limit and number *)
(* of clients, restarts and lost connections.                              *)
(***************************************************************************)
EXTENDS EventStream, TLAPS

(* Types of the server. *)
ServerTypeOK ==
    /\ epoch \in Nat
    /\ sequence \in Nat
    /\ ring \in Seq(Envelope)

(* The ring cannot hold more events than there were. *)
RingInv == ServerTypeOK /\ RingIsRecentHistory /\ Len(ring) <= sequence

-----------------------------------------------------------------------------
(* Dropping the front of a full ring before an event is appended keeps the  *)
(* last Capacity events.                                                    *)
LEMMA EmitKeepsRing ==
    ASSUME RingInv, NEW event \in Panes \cup {Mutation}, Emit(event)
    PROVE  RingInv'
<1> USE BoundsAssumption
<1> DEFINE new == [sequence |-> sequence + 1, event |-> event]
           kept == IF Len(ring) = Capacity THEN Tail(ring) ELSE ring
<1>1. /\ ring \in Seq(Envelope) /\ sequence \in Nat /\ epoch \in Nat
      /\ \A i \in 1..Len(ring) : ring[i].sequence = sequence - Len(ring) + i
      /\ Len(ring) <= Capacity
      /\ Len(ring) < Capacity => Len(ring) = sequence
      /\ Len(ring) \in Nat /\ Capacity \in Nat \ {0}
      /\ Len(ring) <= sequence
  BY DEF RingInv, ServerTypeOK, RingIsRecentHistory
<1>2. new \in Envelope
  BY <1>1 DEF Envelope
<1>3. /\ kept \in Seq(Envelope)
      /\ Len(kept) < Capacity
      /\ Len(kept) <= sequence
      /\ \A i \in 1..Len(kept) : kept[i].sequence = sequence - Len(kept) + i
      /\ Len(kept) + 1 < Capacity => Len(kept) = sequence
  <2>1. CASE Len(ring) = Capacity
    <3>1. /\ kept = Tail(ring) /\ ring # <<>>
      BY <1>1, <2>1
    <3>2. /\ kept \in Seq(Envelope) /\ Len(kept) = Len(ring) - 1
          /\ \A i \in 1..Len(kept) : kept[i] = ring[i + 1]
      <4>1. ring \in Seq(Envelope) /\ Len(ring) \in Nat
        BY <1>1
      <4> QED BY <3>1, <4>1
    <3> HIDE DEF kept
    <3>3. \A i \in 1..Len(kept) : kept[i].sequence = sequence - Len(kept) + i
      <4> SUFFICES ASSUME NEW i \in 1..Len(kept)
                   PROVE  kept[i].sequence = sequence - Len(kept) + i
        OBVIOUS
      <4>1. i + 1 \in 1..Len(ring)
        BY <1>1, <3>2
      <4>2. ring[i + 1].sequence = sequence - Len(ring) + (i + 1)
        BY <1>1, <4>1
      <4> QED BY <1>1, <3>2, <4>2
    <3>4. Len(kept) = Capacity - 1
      BY <2>1, <3>2
    <3>5. Len(kept) <= sequence /\ Len(kept) < Capacity /\ ~(Len(kept) + 1 < Capacity)
      BY <1>1, <2>1, <3>4
    <3> QED BY <3>2, <3>3, <3>5
  <2>2. CASE Len(ring) # Capacity
    <3>1. kept = ring
      BY <2>2
    <3> HIDE DEF kept
    <3>2. Len(ring) < Capacity
      BY <1>1, <2>2
    <3> QED BY <1>1, <3>1, <3>2
  <2> QED BY <2>1, <2>2
<1>4. ring' = Append(kept, new) /\ sequence' = sequence + 1 /\ epoch' = epoch
  BY DEF Emit
<1> HIDE DEF kept
<1>5. /\ ring' \in Seq(Envelope) /\ Len(ring') = Len(kept) + 1
      /\ \A i \in 1..Len(kept) : ring'[i] = kept[i]
      /\ ring'[Len(kept) + 1] = new
  BY <1>2, <1>3, <1>4
<1>6. \A i \in 1..Len(ring') : ring'[i].sequence = sequence' - Len(ring') + i
  <2> SUFFICES ASSUME NEW i \in 1..Len(ring')
               PROVE  ring'[i].sequence = sequence' - Len(ring') + i
    OBVIOUS
  <2>0. Len(kept) \in Nat
    BY <1>3
  <2>1. CASE i \in 1..Len(kept)
    BY <1>1, <1>3, <1>4, <1>5, <2>0, <2>1
  <2>2. CASE i = Len(kept) + 1
    BY <1>1, <1>4, <1>5, <2>0, <2>2
  <2> QED BY <1>5, <2>0, <2>1, <2>2
<1> QED
  BY <1>1, <1>3, <1>4, <1>5, <1>6 DEF RingInv, ServerTypeOK, RingIsRecentHistory

(* Every step keeps the ring. *)
LEMMA StepKeepsRing ==
    ASSUME RingInv, [Next]_vars
    PROVE  RingInv'
<1>1. CASE Mutate \/ \E p \in Panes : OutputActivity(p)
  BY <1>1, EmitKeepsRing DEF Mutate, OutputActivity
<1>2. CASE Restart
  <2>1. epoch' = epoch + 1 /\ sequence' = 0 /\ ring' = <<>>
    BY <1>2 DEF Restart
  <2> QED
    BY <2>1, BoundsAssumption DEF RingInv, ServerTypeOK, RingIsRecentHistory
<1>3. CASE UNCHANGED server
  BY <1>3 DEF server, RingInv, ServerTypeOK, RingIsRecentHistory
<1>4. CASE UNCHANGED vars
  BY <1>3, <1>4 DEF vars
<1>5. ASSUME NEW c \in Conns, Drop(c) PROVE RingInv'
  BY <1>3, <1>5 DEF Drop
<1>6. ASSUME NEW c \in Followers, FollowerStep(c) PROVE RingInv'
  BY <1>3, <1>6 DEF FollowerStep, Connect, AskSnapshot, AskEvents, Asks, Receive,
                    ReceiveSnapshot, ReceiveEvents, ReceiveRefusal
<1>7. ASSUME NEW c \in Players, PlayerStep(c) PROVE RingInv'
  BY <1>3, <1>7 DEF PlayerStep, PlayerConnect, AskEvents, Asks, Receive, PlayerHead
<1> QED BY <1>1, <1>2, <1>4, <1>5, <1>6, <1>7 DEF Next

LEMMA RingInvariant == Spec => []RingInv
<1>1. Init => RingInv
  BY BoundsAssumption DEF Init, RingInv, ServerTypeOK, RingIsRecentHistory
<1> QED BY <1>1, StepKeepsRing, PTL DEF Spec

(* The ring is the last Capacity events, without a hole, after any sequence *)
(* of mutations, output and restarts.                                       *)
THEOREM RingRecent == Spec => []RingIsRecentHistory
<1>1. RingInv => RingIsRecentHistory
  BY DEF RingInv
<1> QED BY <1>1, RingInvariant, PTL

(* Output activity is coalesced: emit_output_activity appends an entry only *)
(* for a pane that has none, and an eviction adds none.                     *)
LEMMA EmitKeepsCoalesced ==
    ASSUME RingInv, ActivityCoalesced, NEW event \in Panes \cup {Mutation}, Emit(event),
           event = Mutation \/ \A i \in DOMAIN ring : ring[i].event # event
    PROVE  ActivityCoalesced'
<1> DEFINE new == [sequence |-> sequence + 1, event |-> event]
           kept == IF Len(ring) = Capacity THEN Tail(ring) ELSE ring
<1>1. /\ ring \in Seq(Envelope) /\ Len(ring) \in Nat /\ Capacity \in Nat \ {0}
      /\ DOMAIN ring = 1..Len(ring) /\ new \in Envelope /\ new.event = event
  BY BoundsAssumption DEF RingInv, ServerTypeOK, Envelope
<1>2. PICK k \in {0, 1} :
         /\ kept \in Seq(Envelope) /\ Len(kept) = Len(ring) - k
         /\ \A i \in 1..Len(kept) : i + k \in 1..Len(ring) /\ kept[i] = ring[i + k]
  <2>1. CASE Len(ring) = Capacity
    <3>1. kept = Tail(ring) /\ ring # <<>>
      BY <1>1, <2>1
    <3>2. /\ kept \in Seq(Envelope) /\ Len(kept) = Len(ring) - 1
          /\ \A i \in 1..Len(kept) : kept[i] = ring[i + 1]
      <4>1. ring \in Seq(Envelope) /\ Len(ring) \in Nat
        BY <1>1
      <4> QED BY <3>1, <4>1
    <3> HIDE DEF kept
    <3>3. \A i \in 1..Len(kept) : i + 1 \in 1..Len(ring)
      BY <1>1, <3>2
    <3> QED BY <3>2, <3>3
  <2>2. CASE Len(ring) # Capacity
    <3>1. kept = ring
      BY <2>2
    <3> HIDE DEF kept
    <3>2. /\ kept \in Seq(Envelope) /\ Len(kept) = Len(ring) - 0
          /\ \A i \in 1..Len(kept) : i + 0 \in 1..Len(ring) /\ kept[i] = ring[i + 0]
      BY <1>1, <3>1
    <3> QED BY <3>2
  <2> QED BY <2>1, <2>2
<1>3. ring' = Append(kept, new)
  BY DEF Emit
<1> HIDE DEF kept, new
<1>4. /\ DOMAIN ring' = 1..(Len(kept) + 1) /\ Len(kept) \in Nat
      /\ \A i \in 1..Len(kept) : ring'[i] = kept[i]
      /\ ring'[Len(kept) + 1] = new
  BY <1>1, <1>2, <1>3
<1> SUFFICES ASSUME NEW i \in DOMAIN ring', NEW j \in DOMAIN ring',
                    ring'[i].event = ring'[j].event, ring'[i].event # Mutation
             PROVE  i = j
  BY DEF ActivityCoalesced
<1>5. ASSUME NEW n \in DOMAIN ring', n # Len(kept) + 1
      PROVE  n \in 1..Len(kept) /\ n + k \in DOMAIN ring /\ ring'[n].event = ring[n + k].event
  <2>1. n \in 1..Len(kept)
    BY <1>4, <1>5
  <2> QED BY <1>1, <1>2, <1>4, <2>1
<1>6. CASE i = Len(kept) + 1 /\ j = Len(kept) + 1
  BY <1>6
<1>7. CASE i = Len(kept) + 1 /\ j # Len(kept) + 1
  <2>1. ring'[i].event = event
    BY <1>1, <1>4, <1>7
  <2> QED BY <1>5, <1>7, <2>1
<1>8. CASE i # Len(kept) + 1 /\ j = Len(kept) + 1
  <2>1. ring'[j].event = event
    BY <1>1, <1>4, <1>8
  <2> QED BY <1>5, <1>8, <2>1
<1>9. CASE i # Len(kept) + 1 /\ j # Len(kept) + 1
  <2>1. i + k = j + k
    BY <1>5, <1>9 DEF ActivityCoalesced
  <2> QED BY <1>2, <1>4, <2>1
<1> QED BY <1>6, <1>7, <1>8, <1>9

(* A pane has one output entry in the ring at most. *)
THEOREM OutputCoalesced == Spec => []ActivityCoalesced
<1>1. Init => ActivityCoalesced
  BY DEF Init, ActivityCoalesced
<1>2. ASSUME RingInv, ActivityCoalesced, [Next]_vars
      PROVE  ActivityCoalesced'
  <2>1. CASE Mutate
    BY <1>2, <2>1, EmitKeepsCoalesced DEF Mutate
  <2>2. ASSUME NEW p \in Panes, OutputActivity(p) PROVE ActivityCoalesced'
    BY <1>2, <2>2, EmitKeepsCoalesced DEF OutputActivity
  <2>3. CASE Restart
    <3>1. ring' = <<>>
      BY <2>3 DEF Restart
    <3> QED BY <3>1 DEF ActivityCoalesced
  <2>4. CASE ring' = ring
    BY <1>2, <2>4 DEF ActivityCoalesced
  <2>5. ASSUME NEW c \in Conns, Drop(c) PROVE ActivityCoalesced'
    BY <2>4, <2>5 DEF Drop, server
  <2>6. ASSUME NEW c \in Followers, FollowerStep(c) PROVE ActivityCoalesced'
    BY <2>4, <2>6 DEF FollowerStep, Connect, AskSnapshot, AskEvents, Asks, Receive,
                      ReceiveSnapshot, ReceiveEvents, ReceiveRefusal, server
  <2>7. ASSUME NEW c \in Players, PlayerStep(c) PROVE ActivityCoalesced'
    BY <2>4, <2>7 DEF PlayerStep, PlayerConnect, AskEvents, Asks, Receive, PlayerHead, server
  <2>8. CASE UNCHANGED vars
    BY <2>4, <2>8 DEF vars, server
  <2> QED BY <1>2, <2>1, <2>2, <2>3, <2>5, <2>6, <2>7, <2>8 DEF Next
<1> QED BY <1>1, <1>2, RingInvariant, PTL DEF Spec

-----------------------------------------------------------------------------
(* events_after: what a request past its guards is answered is the numbers  *)
(* right after its cursor, without a hole, up to `through_sequence`.        *)
LEMMA BatchIsNext ==
    ASSUME RingInv, NEW after \in Nat, after <= sequence, ~(after + 1 < Oldest)
    PROVE  /\ Through(after, Batch(after)) \in after..sequence
           /\ Batch(after) = (after + 1)..Through(after, Batch(after))
           /\ after < sequence => after < Through(after, Batch(after))
<1> USE BoundsAssumption
<1> DEFINE L == Len(ring)
           k == after - (sequence - L)
           top == IF k + Limit < L THEN k + Limit ELSE L
           m == after + (top - k)
<1>1. /\ ring \in Seq(Envelope) /\ sequence \in Nat /\ L \in Nat /\ DOMAIN ring = 1..L
      /\ \A i \in 1..L : ring[i].sequence = sequence - L + i
      /\ L <= sequence
  BY DEF RingInv, ServerTypeOK, RingIsRecentHistory
<1>2. k \in 0..L
  <2>1. CASE ring = <<>>
    BY <1>1, <2>1 DEF Oldest
  <2>2. CASE ring # <<>>
    <3>1. 1 \in 1..L /\ Oldest = sequence - L + 1
      BY <1>1, <2>2 DEF Oldest
    <3> QED BY <1>1, <3>1
  <2> QED BY <2>1, <2>2
<1>3. /\ sequence - L \in Nat /\ after = k + (sequence - L) /\ Limit \in Nat \ {0}
      /\ top \in k..L /\ m \in after..sequence /\ m = top + (sequence - L)
  BY <1>1, <1>2
<1>4. Newer(after) = (k + 1)..L
  <2> HIDE DEF k
  <2>1. ASSUME NEW i \in 1..L PROVE ring[i].sequence > after <=> i > k
    <3>1. ring[i].sequence = sequence - L + i
      BY <1>1
    <3> HIDE DEF L, top, m
    <3>2. k \in Nat /\ i \in Nat /\ sequence - L \in Nat /\ after = k + (sequence - L)
      BY <1>1, <1>2, <1>3
    <3>3. ring[i].sequence = (sequence - L) + i
      BY <1>1, <3>1, <3>2
    <3> QED BY <3>2, <3>3
  <2>2. Newer(after) = {i \in 1..L : i > k}
    BY <1>1, <2>1 DEF Newer
  <2> HIDE DEF L
  <2> QED BY <1>1, <1>2, <2>2
<1>5. {j \in Newer(after) : j - Limit \notin Newer(after)} = (k + 1)..top
  <2>1. \A j \in (k + 1)..L : j - Limit \notin (k + 1)..L <=> j <= top
    <3> HIDE DEF k, L
    <3> QED BY <1>1, <1>2, <1>3
  <2>2. {j \in Newer(after) : j - Limit \notin Newer(after)} = {j \in (k + 1)..L : j <= top}
    BY <1>4, <2>1
  <2> HIDE DEF k, L, top
  <2> QED BY <1>1, <1>2, <1>3, <2>2
<1>6. Batch(after) = {sequence - L + i : i \in (k + 1)..top}
  <2>1. Batch(after) = {ring[i].sequence : i \in (k + 1)..top}
    BY <1>5 DEF Batch
  <2> HIDE DEF k, top, L
  <2>2. \A i \in (k + 1)..top : ring[i].sequence = sequence - L + i
    BY <1>1, <1>2, <1>3
  <2> QED BY <2>1, <2>2
<1>7. Batch(after) = (after + 1)..m
  <2> HIDE DEF k, top, L, m
  <2>1. ASSUME NEW n \in Batch(after) PROVE n \in (after + 1)..m
    BY <1>1, <1>2, <1>3, <1>6, <2>1
  <2>2. ASSUME NEW n \in (after + 1)..m PROVE n \in Batch(after)
    <3>1. n - (sequence - L) \in (k + 1)..top
      BY <1>1, <1>2, <1>3, <2>2
    <3>2. n = sequence - L + (n - (sequence - L))
      BY <1>1, <1>3, <2>2
    <3> QED BY <1>6, <3>1, <3>2
  <2> QED BY <2>1, <2>2
<1>8. Through(after, Batch(after)) = m
  <2> HIDE DEF k, top, L, m
  <2>1. m \in Nat /\ after <= m
    BY <1>1, <1>3
  <2>2. CASE m = after
    <3>1. Batch(after) = {}
      BY <1>7, <2>2
    <3> QED BY <2>2, <3>1 DEF Through
  <2>3. CASE m # after
    <3>1. m \in Batch(after) /\ \A n \in Batch(after) : n <= m
      BY <1>7, <2>1, <2>3
    <3>2. \A n \in Batch(after) : (\A x \in Batch(after) : x <= n) => n = m
      BY <1>7, <2>1, <3>1
    <3> QED BY <3>1, <3>2 DEF Through
  <2> QED BY <2>2, <2>3
<1>9. after < sequence => after < m
  <2> HIDE DEF L
  <2>1. after < sequence => k < L
    BY <1>1
  <2> HIDE DEF k
  <2>2. k < L => k < top
    BY <1>1, <1>2, <1>3
  <2> QED BY <1>1, <1>2, <1>3, <2>1, <2>2
<1> QED BY <1>3, <1>7, <1>8, <1>9

-----------------------------------------------------------------------------
(* A connection that was refused must take a snapshot again. *)
RefusedInv == \A c \in Conns : inbox[c].kind = "refused" => c \notin established

(* A follower that may read events has the changes up to its cursor; an     *)
(* answer on its way continues them, and a snapshot on its way is not older *)
(* than what the follower knows of the running daemon.                      *)
FollowerInv(c) ==
    /\ inbox[c].kind = "snapshot" =>
        /\ inbox[c].epoch = epoch
        /\ inbox[c].sequence <= sequence
        /\ \A v \in view[c] : v[1] = epoch => v[2] <= inbox[c].sequence
    /\ inbox[c].kind = "events" =>
        /\ c \in established
        /\ mode[c] = "events"
        /\ inbox[c].epoch = epoch
        /\ inbox[c].through \in cursor[c]..sequence
        /\ inbox[c].sequences = (cursor[c] + 1)..inbox[c].through
    /\ c \in established /\ mode[c] = "snapshot" => inbox[c].kind = "snapshot"
    /\ c \in established /\ mode[c] = "events" =>
        view[c] = Prefix(epoch, cursor[c]) /\ cursor[c] <= sequence
    /\ \A v \in view[c] : v[1] <= epoch /\ (v[1] = epoch => v[2] <= sequence)

IInv == TypeOK /\ RingInv /\ RefusedInv /\ \A c \in Followers : FollowerInv(c)

(* What an Events request is answered has its type, and is a refusal unless *)
(* it continues the cursor.                                                 *)
LEMMA ResponseContinues ==
    ASSUME RingInv, NEW c, NEW after \in Nat
    PROVE  /\ EventsResponse(c, after) \in Response
           /\ EventsResponse(c, after) = Refused \/
                /\ EventsResponse(c, after) # Refused
                /\ EventsResponse(c, after).kind = "events"
                /\ c \in established
                /\ EventsResponse(c, after).epoch = epoch
                /\ EventsResponse(c, after).through \in after..sequence
                /\ EventsResponse(c, after).sequences
                     = (after + 1)..EventsResponse(c, after).through
<1>0. epoch \in Nat /\ sequence \in Nat
  BY DEF RingInv, ServerTypeOK
<1>1. CASE c \notin established \/ after > sequence \/ after + 1 < Oldest
  <2>1. EventsResponse(c, after) = Refused
    BY <1>1 DEF EventsResponse
  <2> QED BY <2>1 DEF Refused, Response
<1>2. CASE ~(c \notin established \/ after > sequence \/ after + 1 < Oldest)
  <2> DEFINE through == Through(after, Batch(after))
             answer == [kind |-> "events", epoch |-> epoch, sequences |-> Batch(after),
                        through |-> through]
  <2>1. EventsResponse(c, after) = answer
    BY <1>2 DEF EventsResponse
  <2>2. through \in after..sequence /\ Batch(after) = (after + 1)..through
    BY <1>0, <1>2, BatchIsNext
  <2>3. answer.kind = "events" /\ answer # Refused
    <3>1. answer.kind # Refused.kind
      BY DEF Refused
    <3> QED BY <3>1
  <2> HIDE DEF through
  <2>4. answer \in Response
    <3>1. through \in Nat /\ Batch(after) \in SUBSET Nat
      BY <1>0, <2>2
    <3> QED BY <1>0, <3>1 DEF Response
  <2> QED BY <1>2, <2>1, <2>2, <2>3, <2>4
<1> QED BY <1>1, <1>2

(* The invariant of a follower that a step leaves alone. *)
LEMMA FollowerUntouched ==
    ASSUME RingInv, RingInv', NEW c \in Followers, FollowerInv(c),
           epoch' = epoch, sequence <= sequence',
           inbox'[c] = inbox[c], mode'[c] = mode[c],
           cursor'[c] = cursor[c], view'[c] = view[c], TypeOK,
           c \in established' <=> c \in established
    PROVE  FollowerInv(c)'
<1>1. sequence \in Nat /\ sequence' \in Nat /\ cursor[c] \in Nat
  BY DEF RingInv, ServerTypeOK, TypeOK
<1>2. inbox[c] \in Response /\ view[c] \subseteq Nat \X Nat
  BY DEF TypeOK, Conns
<1>3. inbox[c].kind = "snapshot" => inbox[c].sequence \in Nat
  BY <1>2 DEF Response
<1>4. inbox[c].kind = "events" => inbox[c].through \in Nat
  BY <1>2 DEF Response
<1>5. \A v \in view[c] : v[2] \in Nat
  BY <1>2
<1> QED BY <1>1, <1>3, <1>4, <1>5 DEF FollowerInv, Prefix

(* Steps of the server. *)
LEMMA EmitKeeps ==
    ASSUME IInv, RingInv', NEW event \in Panes \cup {Mutation}, Emit(event)
    PROVE  IInv'
<1>1. sequence \in Nat /\ sequence' = sequence + 1 /\ sequence' \in 0..MaxSequence
  BY BoundsAssumption DEF Emit, IInv, RingInv, ServerTypeOK, TypeOK
<1>2. UNCHANGED <<epoch, up, established, inbox, client, drops>>
  BY DEF Emit
<1>3. TypeOK'
  BY <1>1, <1>2 DEF IInv, TypeOK, RingInv, ServerTypeOK, client
<1>4. \A c \in Followers : FollowerInv(c)'
  BY <1>1, <1>2, FollowerUntouched DEF IInv, client
<1> QED BY <1>2, <1>3, <1>4 DEF IInv, RefusedInv

LEMMA RestartKeeps ==
    ASSUME IInv, RingInv', Restart
    PROVE  IInv'
<1>1. /\ epoch' = epoch + 1 /\ epoch \in Nat /\ epoch' \in 0..MaxRestarts
      /\ sequence' = 0 /\ sequence' \in 0..MaxSequence
      /\ established' = {} /\ up' = {}
      /\ inbox' = [c \in Conns |-> NoResponse]
      /\ UNCHANGED <<client, drops>>
  BY BoundsAssumption DEF Restart, IInv, TypeOK
<1>2. NoResponse \in Response /\ NoResponse.kind = "none"
  BY DEF NoResponse, Response
<1>3. TypeOK'
  BY <1>1, <1>2 DEF IInv, TypeOK, RingInv, ServerTypeOK, client
<1>4. ASSUME NEW c \in Followers PROVE FollowerInv(c)'
  <2>1. view'[c] = view[c] /\ view[c] \subseteq Nat \X Nat
    BY <1>1 DEF IInv, TypeOK, client
  <2>2. \A v \in view[c] : v[1] \in Nat /\ v[1] <= epoch
    BY <2>1 DEF IInv, FollowerInv
  <2>3. inbox'[c].kind = "none"
    BY <1>1, <1>2 DEF Conns
  <2> QED BY <1>1, <2>1, <2>2, <2>3 DEF FollowerInv
<1>5. RefusedInv'
  BY <1>1 DEF RefusedInv
<1> QED BY <1>3, <1>4, <1>5 DEF IInv

LEMMA DropKeeps ==
    ASSUME IInv, RingInv', NEW c \in Conns, Drop(c)
    PROVE  IInv'
<1>1. /\ established' = established \ {c} /\ up' = up \ {c} /\ drops' \in 0..MaxDrops
      /\ inbox' = [inbox EXCEPT ![c] = NoResponse]
      /\ UNCHANGED <<server, client>>
  BY BoundsAssumption DEF Drop, IInv, TypeOK
<1>2. NoResponse \in Response /\ NoResponse.kind = "none"
  BY DEF NoResponse, Response
<1>3. TypeOK'
  BY <1>1, <1>2 DEF IInv, TypeOK, server, client
<1>4. inbox'[c].kind = "none" /\ \A d \in Conns \ {c} : inbox'[d] = inbox[d]
  BY <1>1, <1>2 DEF IInv, TypeOK
<1>5. RefusedInv'
  BY <1>1, <1>4 DEF IInv, RefusedInv
<1>6. ASSUME NEW d \in Followers PROVE FollowerInv(d)'
  <2>1. CASE d = c
    BY <1>1, <1>4, <2>1 DEF IInv, FollowerInv, server, client
  <2>2. CASE d # c
    <3>1. sequence \in Nat
      BY DEF IInv, RingInv, ServerTypeOK
    <3> QED
      BY <1>1, <1>4, <2>2, <3>1, FollowerUntouched DEF IInv, server, client, Conns
  <2> QED BY <2>1, <2>2
<1> QED BY <1>3, <1>5, <1>6 DEF IInv

(* A step of connection c that leaves the other connections and the server  *)
(* alone.                                                                   *)
LEMMA OthersUntouched ==
    ASSUME IInv, RingInv', NEW c \in Conns, UNCHANGED server,
           \A d \in Conns \ {c} : inbox'[d] = inbox[d] /\ mode'[d] = mode[d],
           \A d \in Followers \ {c} : cursor'[d] = cursor[d] /\ view'[d] = view[d],
           \A d \in Conns \ {c} : d \in established' <=> d \in established,
           TypeOK',
           inbox'[c].kind = "refused" => c \notin established',
           c \in Followers => FollowerInv(c)'
    PROVE  IInv'
<1>1. RefusedInv'
  BY DEF IInv, RefusedInv
<1>2. ASSUME NEW d \in Followers PROVE FollowerInv(d)'
  <2>1. CASE d = c
    BY <2>1
  <2>2. CASE d # c
    <3>1. sequence \in Nat /\ d \in Conns
      BY DEF IInv, RingInv, ServerTypeOK, Conns
    <3>2. /\ inbox'[d] = inbox[d] /\ mode'[d] = mode[d]
          /\ cursor'[d] = cursor[d] /\ view'[d] = view[d]
          /\ d \in established' <=> d \in established
      BY <2>2, <3>1
    <3> QED BY <3>1, <3>2, FollowerUntouched DEF IInv, server
  <2> QED BY <2>1, <2>2
<1> QED BY <1>1, <1>2 DEF IInv

(* Steps of a connection. *)
LEMMA FollowerStepKeeps ==
    ASSUME IInv, RingInv', NEW c \in Followers, FollowerStep(c)
    PROVE  IInv'
<1> USE DEF server, client
<1>0. /\ TypeOK /\ RingInv /\ c \in Conns /\ FollowerInv(c) /\ RefusedInv
      /\ sequence \in Nat /\ epoch \in Nat /\ cursor[c] \in Nat
      /\ inbox[c] \in Response /\ view[c] \subseteq Nat \X Nat
  BY DEF IInv, TypeOK, RingInv, ServerTypeOK, Conns
<1>1. CASE Connect(c)
  <2>1. TypeOK'
    BY <1>0, <1>1 DEF Connect, TypeOK
  <2>2. c \notin established' /\ inbox' = inbox
    BY <1>0, <1>1 DEF Connect, TypeOK
  <2>3. FollowerInv(c)'
    BY <1>0, <1>1, <2>2 DEF Connect, FollowerInv
  <2>4. \A d \in Conns \ {c} : mode'[d] = mode[d]
    BY <1>0, <1>1 DEF Connect, TypeOK
  <2> QED BY <1>0, <1>1, <2>1, <2>2, <2>3, <2>4, OthersUntouched DEF Connect
<1>2. CASE AskSnapshot(c)
  <2> DEFINE answer == [kind |-> "snapshot", epoch |-> epoch, sequence |-> sequence]
  <2>1. /\ c \in up /\ inbox[c] = NoResponse /\ mode[c] = "snapshot"
        /\ UNCHANGED <<server, up, client, drops>>
        /\ established' = established \cup {c}
        /\ inbox' = [inbox EXCEPT ![c] = answer]
    BY <1>2 DEF AskSnapshot, Asks
  <2>2. answer \in Response /\ answer.kind = "snapshot"
        /\ answer.epoch = epoch /\ answer.sequence = sequence
    BY <1>0 DEF Response
  <2> HIDE DEF answer
  <2>3. inbox'[c] = answer /\ \A d \in Conns \ {c} : inbox'[d] = inbox[d]
    BY <1>0, <2>1 DEF TypeOK
  <2>4. TypeOK'
    BY <1>0, <2>1, <2>2 DEF TypeOK
  <2>5. FollowerInv(c)'
    BY <1>0, <2>1, <2>2, <2>3 DEF FollowerInv
  <2> QED BY <1>0, <2>1, <2>2, <2>3, <2>4, <2>5, OthersUntouched
<1>3. CASE AskEvents(c, cursor[c])
  <2> DEFINE answer == EventsResponse(c, cursor[c])
  <2>1. /\ mode[c] = "events"
        /\ UNCHANGED <<server, up, client, drops>>
        /\ inbox' = [inbox EXCEPT ![c] = answer]
        /\ established' = IF answer = Refused THEN established \ {c} ELSE established
    BY <1>3 DEF AskEvents, Asks
  <2>2. /\ answer \in Response
        /\ \/ answer = Refused
           \/ /\ answer # Refused /\ answer.kind = "events" /\ c \in established
              /\ answer.epoch = epoch
              /\ answer.through \in cursor[c]..sequence
              /\ answer.sequences = (cursor[c] + 1)..answer.through
    BY <1>0, ResponseContinues
  <2> HIDE DEF answer
  <2>3. inbox'[c] = answer /\ \A d \in Conns \ {c} : inbox'[d] = inbox[d]
    BY <1>0, <2>1 DEF TypeOK
  <2>4. TypeOK'
    BY <1>0, <2>1, <2>2 DEF TypeOK
  <2>5. FollowerInv(c)' /\ (inbox'[c].kind = "refused" => c \notin established')
    <3>1. CASE answer = Refused
      BY <1>0, <2>1, <2>3, <3>1 DEF FollowerInv, Refused
    <3>2. CASE answer # Refused
      BY <1>0, <2>1, <2>2, <2>3, <3>2 DEF FollowerInv
    <3> QED BY <3>1, <3>2
  <2> QED BY <1>0, <2>1, <2>3, <2>4, <2>5, OthersUntouched
<1>4. CASE ReceiveSnapshot(c) \/ ReceiveEvents(c) \/ ReceiveRefusal(c)
  <2>1. /\ inbox' = [inbox EXCEPT ![c] = NoResponse]
        /\ UNCHANGED <<server, drops, up, established>>
    BY <1>4 DEF ReceiveSnapshot, ReceiveEvents, ReceiveRefusal, Receive
  <2>2. NoResponse \in Response /\ NoResponse.kind = "none"
    BY DEF NoResponse, Response
  <2>3. inbox'[c].kind = "none" /\ \A d \in Conns \ {c} : inbox'[d] = inbox[d]
    BY <1>0, <2>1, <2>2 DEF TypeOK
  <2>4. CASE ReceiveSnapshot(c)
    <3>1. /\ inbox[c].kind = "snapshot" /\ inbox[c].epoch = epoch
          /\ inbox[c].sequence \in Nat /\ inbox[c].sequence <= sequence
      BY <1>0, <2>4 DEF ReceiveSnapshot, Receive, FollowerInv, Response
    <3>2. /\ view' = [view EXCEPT ![c] = Prefix(epoch, inbox[c].sequence)]
          /\ cursor' = [cursor EXCEPT ![c] = inbox[c].sequence]
          /\ mode' = [mode EXCEPT ![c] = "events"]
      BY <2>4, <3>1 DEF ReceiveSnapshot
    <3>3. Prefix(epoch, inbox[c].sequence) \subseteq Nat \X Nat
      BY <1>0, <3>1 DEF Prefix
    <3>4. TypeOK'
      BY <1>0, <2>1, <2>2, <3>1, <3>2, <3>3 DEF TypeOK
    <3>5. /\ view'[c] = Prefix(epoch, cursor'[c]) /\ cursor'[c] = inbox[c].sequence
          /\ mode'[c] = "events"
      BY <1>0, <3>2 DEF TypeOK
    <3>6. FollowerInv(c)'
      BY <1>0, <2>1, <2>3, <3>1, <3>5 DEF FollowerInv, Prefix
    <3>7. /\ \A d \in Conns \ {c} : mode'[d] = mode[d]
          /\ \A d \in Followers \ {c} : cursor'[d] = cursor[d] /\ view'[d] = view[d]
      BY <1>0, <3>2 DEF TypeOK
    <3> QED BY <1>0, <2>1, <2>3, <3>4, <3>6, <3>7, OthersUntouched
  <2>5. CASE ReceiveEvents(c)
    <3>1. /\ inbox[c].kind = "events" /\ c \in established /\ mode[c] = "events"
          /\ inbox[c].epoch = epoch
          /\ inbox[c].through \in cursor[c]..sequence
          /\ inbox[c].sequences = (cursor[c] + 1)..inbox[c].through
          /\ view[c] = Prefix(epoch, cursor[c])
      BY <1>0, <2>5 DEF ReceiveEvents, Receive, FollowerInv
    <3>2. /\ view' = [view EXCEPT ![c] =
                        view[c] \cup ({inbox[c].epoch} \X inbox[c].sequences)]
          /\ cursor' = [cursor EXCEPT ![c] = inbox[c].through]
          /\ mode' = mode
      BY <2>5 DEF ReceiveEvents
    <3>3. view[c] \cup ({inbox[c].epoch} \X inbox[c].sequences)
            = Prefix(epoch, inbox[c].through)
      <4>1. 1..inbox[c].through = (1..cursor[c]) \cup ((cursor[c] + 1)..inbox[c].through)
        BY <1>0, <3>1
      <4> QED BY <3>1, <4>1 DEF Prefix
    <3>4. Prefix(epoch, inbox[c].through) \subseteq Nat \X Nat
      BY <1>0, <3>1 DEF Prefix
    <3>5. TypeOK'
      BY <1>0, <2>1, <2>2, <3>1, <3>2, <3>3, <3>4 DEF TypeOK
    <3>6. /\ view'[c] = Prefix(epoch, cursor'[c]) /\ cursor'[c] = inbox[c].through
          /\ mode'[c] = "events"
      BY <1>0, <3>1, <3>2, <3>3 DEF TypeOK
    <3>7. FollowerInv(c)'
      BY <1>0, <2>1, <2>3, <3>1, <3>6 DEF FollowerInv, Prefix
    <3>8. \A d \in Followers \ {c} : cursor'[d] = cursor[d] /\ view'[d] = view[d]
      BY <1>0, <3>2 DEF TypeOK
    <3> QED BY <1>0, <2>1, <2>3, <3>2, <3>5, <3>7, <3>8, OthersUntouched
  <2>6. CASE ReceiveRefusal(c)
    <3>1. c \notin established /\ mode' = [mode EXCEPT ![c] = "snapshot"]
          /\ UNCHANGED <<cursor, view>>
      BY <1>0, <2>6 DEF ReceiveRefusal, Receive, RefusedInv
    <3>2. TypeOK'
      BY <1>0, <2>1, <2>2, <3>1 DEF TypeOK
    <3>3. FollowerInv(c)'
      BY <1>0, <2>1, <2>3, <3>1 DEF FollowerInv
    <3>4. \A d \in Conns \ {c} : mode'[d] = mode[d]
      BY <1>0, <3>1 DEF TypeOK
    <3> QED BY <1>0, <2>1, <2>3, <3>1, <3>2, <3>3, <3>4, OthersUntouched
  <2> QED BY <1>4, <2>4, <2>5, <2>6
<1> QED BY <1>1, <1>2, <1>3, <1>4 DEF FollowerStep

LEMMA PlayerStepKeeps ==
    ASSUME IInv, RingInv', NEW c \in Players, PlayerStep(c)
    PROVE  IInv'
<1> USE DEF server, client
<1>0. /\ TypeOK /\ RingInv /\ c \in Conns /\ c \notin Followers /\ RefusedInv
  BY ConnsAssumption DEF IInv, Conns
<1>1. CASE PlayerConnect(c)
  <2>1. TypeOK' /\ c \notin established' /\ \A d \in Conns \ {c} : mode'[d] = mode[d]
    BY <1>0, <1>1 DEF PlayerConnect, TypeOK
  <2> QED BY <1>0, <1>1, <2>1, OthersUntouched DEF PlayerConnect
<1>2. CASE AskEvents(c, 0)
  <2> DEFINE answer == EventsResponse(c, 0)
  <2>1. /\ UNCHANGED <<server, up, client, drops>>
        /\ inbox' = [inbox EXCEPT ![c] = answer]
        /\ established' = IF answer = Refused THEN established \ {c} ELSE established
    BY <1>2 DEF AskEvents, Asks
  <2>2. answer \in Response /\ (answer = Refused \/ answer.kind = "events")
    BY <1>0, ResponseContinues
  <2> HIDE DEF answer
  <2>3. inbox'[c] = answer /\ \A d \in Conns \ {c} : inbox'[d] = inbox[d]
    BY <1>0, <2>1 DEF TypeOK
  <2>4. TypeOK'
    BY <1>0, <2>1, <2>2 DEF TypeOK
  <2> QED BY <1>0, <2>1, <2>2, <2>3, <2>4, OthersUntouched
<1>3. CASE PlayerHead(c)
  <2>1. /\ inbox' = [inbox EXCEPT ![c] = NoResponse]
        /\ UNCHANGED <<server, drops, established, cursor, view>>
        /\ \/ mode' = [mode EXCEPT ![c] = "online"] /\ up' = up
           \/ /\ mode' = [mode EXCEPT ![c] = "offline"] /\ up' = up \ {c}
              /\ inbox[c].kind = "refused"
    BY <1>3 DEF PlayerHead, Receive
  <2>2. NoResponse \in Response /\ NoResponse.kind = "none"
    BY DEF NoResponse, Response
  <2>3. /\ inbox'[c].kind = "none"
        /\ \A d \in Conns \ {c} : inbox'[d] = inbox[d] /\ mode'[d] = mode[d]
    BY <1>0, <2>1, <2>2 DEF TypeOK
  <2>4. TypeOK'
    BY <1>0, <2>1, <2>2 DEF TypeOK, RefusedInv
  <2> QED BY <1>0, <2>1, <2>3, <2>4, OthersUntouched
<1> QED BY <1>1, <1>2, <1>3 DEF PlayerStep

LEMMA Invariance == Spec => []IInv
<1>1. Init => IInv
  <2> SUFFICES ASSUME Init PROVE IInv
    OBVIOUS
  <2>1. NoResponse \in Response /\ NoResponse.kind = "none"
    BY DEF NoResponse, Response
  <2>2. TypeOK
    BY <2>1, BoundsAssumption DEF Init, TypeOK
  <2>3. RingInv
    BY BoundsAssumption DEF Init, RingInv, ServerTypeOK, RingIsRecentHistory
  <2>4. \A c \in Conns : inbox[c].kind = "none"
    BY <2>1 DEF Init
  <2>5. RefusedInv /\ \A c \in Followers : FollowerInv(c)
    BY <2>4 DEF Init, RefusedInv, FollowerInv, Conns
  <2> QED BY <2>2, <2>3, <2>5 DEF IInv
<1>2. ASSUME IInv, [Next]_vars
      PROVE  IInv'
  <2>1. RingInv'
    BY <1>2, StepKeepsRing DEF IInv
  <2>2. CASE Mutate
    BY <1>2, <2>1, <2>2, EmitKeeps DEF Mutate
  <2>3. ASSUME NEW p \in Panes, OutputActivity(p) PROVE IInv'
    BY <1>2, <2>1, <2>3, EmitKeeps DEF OutputActivity
  <2>4. CASE Restart
    BY <1>2, <2>1, <2>4, RestartKeeps
  <2>5. ASSUME NEW c \in Conns, Drop(c) PROVE IInv'
    BY <1>2, <2>1, <2>5, DropKeeps
  <2>6. ASSUME NEW c \in Followers, FollowerStep(c) PROVE IInv'
    BY <1>2, <2>1, <2>6, FollowerStepKeeps
  <2>7. ASSUME NEW c \in Players, PlayerStep(c) PROVE IInv'
    BY <1>2, <2>1, <2>7, PlayerStepKeeps
  <2>8. CASE UNCHANGED vars
    BY <1>2, <2>1, <2>8 DEF vars, server, client, IInv, TypeOK, RefusedInv, FollowerInv, Prefix
  <2> QED BY <1>2, <2>2, <2>3, <2>4, <2>5, <2>6, <2>7, <2>8 DEF Next
<1> QED BY <1>1, <1>2, PTL DEF Spec

(* The types hold in every reachable state. *)
THEOREM TypeCorrect == Spec => []TypeOK
<1>1. IInv => TypeOK
  BY DEF IInv
<1> QED BY <1>1, Invariance, PTL

(* What a follower that may read events reflects is exactly the history of  *)
(* the running daemon up to its cursor.                                     *)
THEOREM FollowersSeePrefix == Spec => []ViewIsPrefix
<1>1. IInv => ViewIsPrefix
  BY DEF IInv, FollowerInv, ViewIsPrefix
<1> QED BY <1>1, Invariance, PTL

-----------------------------------------------------------------------------
(* Refinement: what the followers know changes as EventLog allows.  A step  *)
(* that delivers a snapshot or a batch is a Learn step, an emitted event is *)
(* a Change, and every other step but Restart is a stuttering step.         *)
THEOREM LogImplemented == Spec => ImplementsEventLog
<1>1. Init => Log!Init
  BY DEF Init, Log!Init
<1>2. ASSUME IInv, [Next]_vars
      PROVE  [Log!Next]_(Log!vars)
  <2> USE DEF server, client
  <2>0. sequence \in Nat /\ epoch \in Nat
    BY <1>2 DEF IInv, RingInv, ServerTypeOK
  <2>1. CASE UNCHANGED <<epoch, sequence, view>>
    BY <2>1 DEF Log!vars
  <2>2. CASE Mutate \/ \E p \in Panes : OutputActivity(p)
    <3>1. Log!Change
      BY <2>2 DEF Mutate, OutputActivity, Emit, Log!Change
    <3> QED BY <3>1 DEF Log!Next
  <2>3. CASE Restart
    <3>1. Log!Restart
      BY <2>3 DEF Restart, Log!Restart
    <3> QED BY <3>1 DEF Log!Next
  <2>4. ASSUME NEW c \in Conns, Drop(c) PROVE [Log!Next]_(Log!vars)
    BY <2>1, <2>4 DEF Drop
  <2>5. ASSUME NEW c \in Followers, FollowerStep(c) PROVE [Log!Next]_(Log!vars)
    <3>0. FollowerInv(c) /\ cursor[c] \in Nat /\ inbox[c] \in Response
      BY <1>2 DEF IInv, TypeOK, Conns
    <3>1. CASE Connect(c) \/ AskSnapshot(c) \/ AskEvents(c, cursor[c]) \/ ReceiveRefusal(c)
      BY <2>1, <3>1 DEF Connect, AskSnapshot, AskEvents, Asks, ReceiveRefusal, Receive
    <3>2. CASE ReceiveSnapshot(c)
      <4>1. /\ inbox[c].kind = "snapshot" /\ inbox[c].epoch = epoch
            /\ inbox[c].sequence \in 0..sequence
            /\ \A v \in view[c] : v[1] = epoch => v[2] <= inbox[c].sequence
        BY <2>0, <3>0, <3>2 DEF ReceiveSnapshot, Receive, FollowerInv, Response
      <4>2. /\ view' = [view EXCEPT ![c] = Log!Prefix(epoch, inbox[c].sequence)]
            /\ UNCHANGED <<epoch, sequence>>
        BY <3>2, <4>1 DEF ReceiveSnapshot, Receive, Prefix, Log!Prefix
      <4>3. Log!Learn(c)
        BY <4>1, <4>2 DEF Log!Learn
      <4> QED BY <4>3 DEF Log!Next
    <3>3. CASE ReceiveEvents(c)
      <4>1. /\ inbox[c].kind = "events" /\ inbox[c].epoch = epoch
            /\ inbox[c].through \in cursor[c]..sequence
            /\ inbox[c].through \in 0..sequence
            /\ inbox[c].sequences = (cursor[c] + 1)..inbox[c].through
            /\ view[c] = Prefix(epoch, cursor[c])
        BY <2>0, <3>0, <3>3 DEF ReceiveEvents, Receive, FollowerInv
      <4>2. view[c] \cup ({inbox[c].epoch} \X inbox[c].sequences)
              = Log!Prefix(epoch, inbox[c].through)
        <5>1. 1..inbox[c].through = (1..cursor[c]) \cup ((cursor[c] + 1)..inbox[c].through)
          BY <2>0, <3>0, <4>1
        <5> QED BY <4>1, <5>1 DEF Prefix, Log!Prefix
      <4>3. /\ view' = [view EXCEPT ![c] = Log!Prefix(epoch, inbox[c].through)]
            /\ UNCHANGED <<epoch, sequence>>
        BY <3>3, <4>2 DEF ReceiveEvents, Receive
      <4>4. \A v \in view[c] : v[2] <= inbox[c].through
        BY <2>0, <3>0, <4>1 DEF Prefix
      <4>5. Log!Learn(c)
        BY <4>1, <4>3, <4>4 DEF Log!Learn
      <4> QED BY <4>5 DEF Log!Next
    <3> QED BY <2>5, <3>1, <3>2, <3>3 DEF FollowerStep
  <2>6. ASSUME NEW c \in Players, PlayerStep(c) PROVE [Log!Next]_(Log!vars)
    BY <2>1, <2>6 DEF PlayerStep, PlayerConnect, AskEvents, Asks, PlayerHead, Receive
  <2>7. CASE UNCHANGED vars
    BY <2>1, <2>7 DEF vars
  <2> QED BY <1>2, <2>2, <2>3, <2>4, <2>5, <2>6, <2>7 DEF Next
<1> QED BY <1>1, <1>2, Invariance, PTL DEF Spec, ImplementsEventLog, Log!Spec

-----------------------------------------------------------------------------
(* Progress: while the daemon publishes nothing and no connection is lost,  *)
(* every step of a follower brings it nearer to the present state.          *)

CaughtUp(c) == c \in up /\ view[c] = Prefix(epoch, sequence)

(* Steps left of a follower that has the events up to n and may read on: a  *)
(* request and an answer for each event, or the way through a gap.          *)
From(n) == IF n + 1 < Oldest THEN 4 ELSE 2 * (sequence - n)

(* Steps left of a follower at most. *)
Behind(c) ==
    IF CaughtUp(c) THEN 0
    ELSE IF c \notin up THEN 5
    ELSE IF inbox[c].kind = "refused" THEN 3
    ELSE IF inbox[c].kind = "snapshot" THEN 1 + From(inbox[c].sequence)
    ELSE IF inbox[c].kind = "events" THEN 1 + From(inbox[c].through)
    ELSE IF mode[c] = "snapshot" THEN 2
    ELSE IF c \in established THEN From(cursor[c])
    ELSE 4

(* The guard of one of the steps of a follower. *)
MayStep(c) ==
    \/ c \notin up
    \/ inbox[c] = NoResponse /\ mode[c] \in {"snapshot", "events"}
    \/ inbox[c].kind \in {"snapshot", "events", "refused"}

(* Answers travel on open connections, and a snapshot opens the events.     *)
OpenInv ==
    \A c \in Followers :
        /\ mode[c] \in {"snapshot", "events"}
        /\ inbox[c].kind # "none" => c \in up
        /\ inbox[c].kind = "snapshot" => c \in established

(* A step that only changes connection d. *)
LEMMA OpenKept ==
    ASSUME OpenInv, NEW d,
           \A c \in Followers \ {d} :
              /\ mode'[c] = mode[c] /\ inbox'[c] = inbox[c]
              /\ c \in up' <=> c \in up
              /\ c \in established' <=> c \in established,
           d \in Followers =>
              /\ mode'[d] \in {"snapshot", "events"}
              /\ inbox'[d].kind # "none" => d \in up'
              /\ inbox'[d].kind = "snapshot" => d \in established'
    PROVE  OpenInv'
BY DEF OpenInv

LEMMA OpenInvariant == Spec => []OpenInv
<1> USE DEF server, client
<1>0. NoResponse.kind = "none" /\ Refused.kind = "refused"
  BY DEF NoResponse, Refused
<1>1. Init => OpenInv
  BY <1>0 DEF Init, OpenInv, Conns
<1>2. ASSUME IInv, OpenInv, [Next]_vars
      PROVE  OpenInv'
  <2>0. TypeOK /\ RingInv
    BY <1>2 DEF IInv
  <2>1. CASE UNCHANGED <<up, established, inbox, mode>>
    BY <1>2, <2>1 DEF OpenInv
  <2>2. CASE Mutate \/ \E p \in Panes : OutputActivity(p)
    BY <2>1, <2>2 DEF Mutate, OutputActivity, Emit
  <2>3. CASE Restart
    BY <1>0, <1>2, <2>3 DEF Restart, OpenInv, Conns
  <2>4. ASSUME NEW c \in Conns, Drop(c) PROVE OpenInv'
    <3>1. \A d \in Conns : inbox'[d] = IF d = c THEN NoResponse ELSE inbox[d]
      BY <2>0, <2>4 DEF Drop, TypeOK
    <3> QED BY <1>0, <1>2, <2>4, <3>1, OpenKept DEF Drop, OpenInv, Conns
  <2>5. ASSUME NEW c \in Followers, FollowerStep(c) PROVE OpenInv'
    <3>0. c \in Conns /\ cursor[c] \in Nat
      BY <2>0 DEF Conns, TypeOK
    <3>1. CASE Connect(c)
      <4>1. \A d \in Conns \ {c} : mode'[d] = mode[d]
        BY <2>0, <3>1 DEF Connect, TypeOK
      <4>2. mode'[c] \in {"snapshot", "events"}
        BY <2>0, <3>0, <3>1 DEF Connect, TypeOK
      <4> QED BY <1>2, <3>1, <4>1, <4>2, OpenKept DEF Connect, OpenInv, Conns
    <3>2. CASE AskSnapshot(c)
      <4>1. \A d \in Conns \ {c} : inbox'[d] = inbox[d]
        BY <2>0, <3>2 DEF AskSnapshot, TypeOK
      <4> QED BY <1>2, <3>2, <4>1, OpenKept DEF AskSnapshot, Asks, OpenInv, Conns
    <3>3. CASE AskEvents(c, cursor[c])
      <4>1. \A d \in Conns : inbox'[d] = IF d = c THEN EventsResponse(c, cursor[c]) ELSE inbox[d]
        BY <2>0, <3>3 DEF AskEvents, TypeOK
      <4>2. EventsResponse(c, cursor[c]).kind \in {"refused", "events"}
        BY <1>0, <2>0, <3>0, ResponseContinues
      <4>3. /\ c \in up /\ UNCHANGED <<up, mode>>
            /\ \A d \in Conns \ {c} : d \in established' <=> d \in established
        BY <3>3 DEF AskEvents, Asks
      <4> QED BY <1>2, <3>0, <4>1, <4>2, <4>3, OpenKept DEF OpenInv, Conns
    <3>4. CASE ReceiveSnapshot(c) \/ ReceiveEvents(c) \/ ReceiveRefusal(c)
      <4>1. \A d \in Conns : inbox'[d] = IF d = c THEN NoResponse ELSE inbox[d]
        BY <2>0, <3>4 DEF ReceiveSnapshot, ReceiveEvents, ReceiveRefusal, Receive, TypeOK
      <4>2. /\ UNCHANGED <<up, established>>
            /\ \A d \in Conns \ {c} : mode'[d] = mode[d]
            /\ mode'[c] \in {"snapshot", "events"}
        BY <1>2, <2>0, <3>0, <3>4
           DEF ReceiveSnapshot, ReceiveEvents, ReceiveRefusal, Receive, TypeOK, OpenInv
      <4> QED BY <1>0, <1>2, <3>0, <4>1, <4>2, OpenKept DEF OpenInv, Conns
    <3> QED BY <2>5, <3>1, <3>2, <3>3, <3>4 DEF FollowerStep
  <2>6. ASSUME NEW c \in Players, PlayerStep(c) PROVE OpenInv'
    <3>0. c \in Conns /\ c \notin Followers
      BY ConnsAssumption DEF Conns
    <3>1. \A d \in Conns \ {c} : mode'[d] = mode[d] /\ inbox'[d] = inbox[d]
      BY <2>0, <2>6 DEF PlayerStep, PlayerConnect, AskEvents, Asks, PlayerHead, Receive, TypeOK
    <3>2. \A d \in Conns \ {c} :
            (d \in up' <=> d \in up) /\ (d \in established' <=> d \in established)
      BY <2>6 DEF PlayerStep, PlayerConnect, AskEvents, Asks, PlayerHead, Receive
    <3> QED BY <1>2, <3>0, <3>1, <3>2, OpenKept DEF Conns
  <2>7. CASE UNCHANGED vars
    BY <2>1, <2>7 DEF vars
  <2> QED BY <1>2, <2>2, <2>3, <2>4, <2>5, <2>6, <2>7 DEF Next
<1> QED BY <1>1, <1>2, Invariance, PTL DEF Spec

(* What is known of a follower. *)
LEMMA FollowerKnown ==
    ASSUME IInv, OpenInv, NEW c \in Followers
    PROVE  /\ c \in Conns /\ FollowerInv(c) /\ cursor[c] \in Nat
           /\ sequence \in Nat /\ epoch \in Nat
           /\ inbox[c] \in Response
           /\ inbox[c].kind \in {"none", "refused", "snapshot", "events"}
           /\ inbox[c].kind = "none" => inbox[c] = NoResponse
           /\ inbox[c].kind = "refused" => c \notin established
           /\ inbox[c].kind = "snapshot" =>
                inbox[c].sequence \in Nat /\ inbox[c].sequence <= sequence
           /\ inbox[c].kind = "events" =>
                inbox[c].through \in Nat /\ inbox[c].through <= sequence
           /\ mode[c] \in {"snapshot", "events"}
<1>1. c \in Conns /\ inbox[c] \in Response /\ sequence \in Nat /\ epoch \in Nat /\ cursor[c] \in Nat
  BY DEF IInv, TypeOK, RingInv, ServerTypeOK, Conns
<1>2. FollowerInv(c) /\ mode[c] \in {"snapshot", "events"}
      /\ (inbox[c].kind = "refused" => c \notin established)
  BY <1>1 DEF IInv, OpenInv, RefusedInv
<1>3. /\ inbox[c].kind \in {"none", "refused", "snapshot", "events"}
      /\ inbox[c].kind = "none" => inbox[c] = NoResponse
      /\ inbox[c].kind = "snapshot" => inbox[c].sequence \in Nat
  BY <1>1 DEF Response, NoResponse
<1> QED BY <1>1, <1>2, <1>3 DEF FollowerInv

(* The length of a prefix is known from it. *)
LEMMA PrefixLength ==
    ASSUME NEW e, NEW m \in Nat, NEW n \in Nat, Prefix(e, m) = Prefix(e, n)
    PROVE  m = n
<1>1. ASSUME NEW a \in Nat, NEW b \in Nat, Prefix(e, a) = Prefix(e, b), a < b
      PROVE  FALSE
  <2>1. <<e, b>> \in Prefix(e, b) /\ <<e, b>> \notin Prefix(e, a)
    BY <1>1 DEF Prefix
  <2> QED BY <1>1, <2>1
<1>2. ~(m < n) /\ ~(n < m)
  BY <1>1
<1> QED BY <1>2

LEMMA FromNat ==
    ASSUME RingInv, NEW n \in Nat, n <= sequence
    PROVE  /\ From(n) \in Nat
           /\ From(n) = 0 <=> n = sequence
<1>1. Oldest \in Nat /\ Oldest <= sequence + 1 /\ sequence \in Nat
  <2>1. /\ ring \in Seq(Envelope) /\ sequence \in Nat /\ Len(ring) <= sequence
        /\ \A i \in 1..Len(ring) : ring[i].sequence = sequence - Len(ring) + i
    BY DEF RingInv, ServerTypeOK, RingIsRecentHistory
  <2>2. CASE ring = <<>>
    BY <2>1, <2>2 DEF Oldest
  <2>3. CASE ring # <<>>
    <3>1. Len(ring) \in Nat /\ 1 \in 1..Len(ring)
      BY <2>1, <2>3
    <3>2. Oldest = sequence - Len(ring) + 1
      BY <2>1, <2>3, <3>1 DEF Oldest
    <3> QED BY <2>1, <3>1, <3>2
  <2> QED BY <2>2, <2>3
<1>2. sequence - n \in Nat /\ (sequence - n = 0 <=> n = sequence)
  BY <1>1
<1>3. n = sequence => ~(n + 1 < Oldest)
  BY <1>1
<1>4. 2 * (sequence - n) \in Nat /\ (2 * (sequence - n) = 0 <=> sequence - n = 0)
  BY <1>2
<1> QED BY <1>2, <1>3, <1>4 DEF From

LEMMA BehindNat ==
    ASSUME IInv, OpenInv, NEW c \in Followers
    PROVE  Behind(c) \in Nat /\ (Behind(c) = 0 <=> CaughtUp(c)) /\ MayStep(c)
<1>1. /\ FollowerInv(c) /\ cursor[c] \in Nat /\ sequence \in Nat
      /\ inbox[c].kind \in {"none", "refused", "snapshot", "events"}
      /\ inbox[c].kind = "none" => inbox[c] = NoResponse
      /\ inbox[c].kind = "snapshot" =>
            inbox[c].sequence \in Nat /\ inbox[c].sequence <= sequence
      /\ inbox[c].kind = "events" =>
            inbox[c].through \in Nat /\ inbox[c].through <= sequence
      /\ mode[c] \in {"snapshot", "events"}
  BY FollowerKnown
<1>2. RingInv
  BY DEF IInv
<1>3. MayStep(c)
  BY <1>1 DEF MayStep
<1>4. CASE CaughtUp(c)
  BY <1>3, <1>4 DEF Behind
<1>5. CASE ~CaughtUp(c)
  <2>1. CASE c \notin up \/ inbox[c].kind = "refused"
    <3>1. Behind(c) \in {3, 5}
      BY <1>5, <2>1 DEF Behind
    <3> QED BY <1>3, <1>5, <3>1
  <2>2. CASE c \in up /\ inbox[c].kind = "snapshot"
    <3>1. Behind(c) = 1 + From(inbox[c].sequence) /\ From(inbox[c].sequence) \in Nat
      BY <1>1, <1>2, <1>5, <2>2, FromNat DEF Behind
    <3> QED BY <1>3, <1>5, <3>1
  <2>3. CASE c \in up /\ inbox[c].kind = "events"
    <3>1. Behind(c) = 1 + From(inbox[c].through) /\ From(inbox[c].through) \in Nat
      BY <1>1, <1>2, <1>5, <2>3, FromNat DEF Behind
    <3> QED BY <1>3, <1>5, <3>1
  <2>4. CASE c \in up /\ inbox[c].kind = "none"
    <3>1. CASE mode[c] = "events" /\ c \in established
      <4>1. Behind(c) = From(cursor[c])
        BY <1>5, <2>4, <3>1 DEF Behind
      <4>2. view[c] = Prefix(epoch, cursor[c]) /\ cursor[c] <= sequence
        BY <1>1, <3>1 DEF FollowerInv
      <4>3. cursor[c] # sequence
        BY <1>5, <2>4, <4>2 DEF CaughtUp
      <4> QED BY <1>1, <1>2, <1>3, <1>5, <4>1, <4>2, <4>3, FromNat
    <3>2. CASE ~(mode[c] = "events" /\ c \in established)
      <4>1. Behind(c) \in {2, 4}
        BY <1>1, <1>5, <2>4, <3>2 DEF Behind
      <4> QED BY <1>3, <1>5, <4>1
    <3> QED BY <3>1, <3>2
  <2> QED BY <1>1, <2>1, <2>2, <2>3, <2>4
<1> QED BY <1>4, <1>5

LEMMA FromKept ==
    ASSUME UNCHANGED server
    PROVE  \A n : From(n)' = From(n)
BY DEF server, From, Oldest

(* A step that leaves connection c alone leaves it as far behind. *)
LEMMA OthersBehind ==
    ASSUME UNCHANGED server, NEW c,
           c \in up' <=> c \in up, c \in established' <=> c \in established,
           inbox'[c] = inbox[c], mode'[c] = mode[c],
           cursor'[c] = cursor[c], view'[c] = view[c]
    PROVE  Behind(c)' = Behind(c)
<1>1. CaughtUp(c)' = CaughtUp(c)
  BY DEF server, CaughtUp, Prefix
<1>2. /\ From(inbox[c].sequence)' = From(inbox[c].sequence)
      /\ From(inbox[c].through)' = From(inbox[c].through)
      /\ From(cursor[c])' = From(cursor[c])
  BY DEF server, From, Oldest
<1> QED BY <1>1, <1>2 DEF Behind

(* The follower at n, with nothing on its way. *)
LEMMA Arrived ==
    ASSUME UNCHANGED server, NEW c \in Followers, NEW n,
           c \in up', c \in established', inbox'[c].kind = "none",
           mode'[c] = "events", cursor'[c] = n
    PROVE  Behind(c)' \in {0, From(n)}
<1>1. From(cursor[c])' = From(n)
  BY DEF server, From, Oldest
<1> QED BY <1>1 DEF Behind

LEMMA ConnectBehind ==
    ASSUME IInv, OpenInv, NEW c \in Followers, Connect(c)
    PROVE  Behind(c)' < Behind(c)
<1>1. Behind(c) = 5
  BY DEF Connect, Behind, CaughtUp
<1>2. c \notin established' /\ inbox'[c].kind = "none"
  BY FollowerKnown DEF Connect, OpenInv, IInv, TypeOK
<1>3. c \in up'
  BY DEF Connect
<1>4. Behind(c)' \in {0, 2, 4}
  BY <1>2, <1>3 DEF Behind
<1> QED BY <1>1, <1>4

LEMMA AskSnapshotBehind ==
    ASSUME IInv, OpenInv, NEW c \in Followers, AskSnapshot(c), ~CaughtUp(c)
    PROVE  Behind(c)' < Behind(c)
<1>1. /\ c \in up /\ up' = up /\ inbox[c] = NoResponse /\ mode[c] = "snapshot"
      /\ UNCHANGED server
      /\ inbox' = [inbox EXCEPT ![c] =
                    [kind |-> "snapshot", epoch |-> epoch, sequence |-> sequence]]
  BY DEF AskSnapshot, Asks
<1>2. Behind(c) = 2
  BY <1>1 DEF Behind, NoResponse
<1>3. inbox'[c] = [kind |-> "snapshot", epoch |-> epoch, sequence |-> sequence]
  BY <1>1, FollowerKnown DEF IInv, TypeOK
<1>4. From(inbox[c].sequence)' = From(sequence)
  BY <1>1, <1>3 DEF server, From, Oldest
<1>5. From(sequence) = 0
  BY FollowerKnown, FromNat DEF IInv
<1>6. Behind(c)' \in {0, 1 + From(inbox[c].sequence)'}
  BY <1>1, <1>3 DEF Behind
<1> QED BY <1>2, <1>4, <1>5, <1>6

LEMMA AskEventsBehind ==
    ASSUME IInv, OpenInv, NEW c \in Followers, AskEvents(c, cursor[c]), ~CaughtUp(c)
    PROVE  Behind(c)' < Behind(c)
<1> DEFINE answer == EventsResponse(c, cursor[c])
<1>1. /\ c \in up /\ up' = up /\ inbox[c] = NoResponse /\ mode[c] = "events"
      /\ UNCHANGED server
      /\ inbox' = [inbox EXCEPT ![c] = answer]
  BY DEF AskEvents, Asks
<1>2. /\ FollowerInv(c) /\ cursor[c] \in Nat /\ sequence \in Nat /\ RingInv /\ c \in Conns
  BY FollowerKnown DEF IInv
<1>3. inbox'[c] = answer
  BY <1>1, <1>2 DEF IInv, TypeOK
<1>4. Behind(c) = IF c \in established THEN From(cursor[c]) ELSE 4
  BY <1>1 DEF Behind, NoResponse
<1>5. c \in established => cursor[c] < sequence
  <2> SUFFICES ASSUME c \in established PROVE cursor[c] < sequence
    OBVIOUS
  <2>1. view[c] = Prefix(epoch, cursor[c]) /\ cursor[c] <= sequence
    BY <1>1, <1>2 DEF FollowerInv
  <2>2. cursor[c] # sequence
    BY <1>1, <2>1 DEF CaughtUp
  <2> QED BY <1>2, <2>1, <2>2
<1>6. CASE c \notin established \/ cursor[c] + 1 < Oldest
  <2>1. answer = Refused
    BY <1>6 DEF EventsResponse
  <2>2. Behind(c) = 4
    BY <1>4, <1>6 DEF From
  <2>3. Behind(c)' \in {0, 3}
    BY <1>1, <1>3, <2>1 DEF Behind, Refused
  <2> QED BY <2>2, <2>3
<1>7. CASE c \in established /\ ~(cursor[c] + 1 < Oldest)
  <2> DEFINE through == Through(cursor[c], Batch(cursor[c]))
  <2>1. through \in cursor[c]..sequence /\ cursor[c] < through
    BY <1>2, <1>5, <1>7, BatchIsNext
  <2>2. answer.kind = "events" /\ answer.through = through
    <3>1. answer = [kind |-> "events", epoch |-> epoch, sequences |-> Batch(cursor[c]),
                    through |-> through]
      BY <1>2, <1>5, <1>7 DEF EventsResponse
    <3> HIDE DEF answer, through
    <3> QED BY <3>1
  <2> HIDE DEF answer, through
  <2>3. From(inbox[c].through)' = From(through)
    BY <1>1, <1>3, <2>2 DEF server, From, Oldest
  <2>4. Oldest \in Nat
    BY <1>2 DEF Oldest, RingInv, ServerTypeOK, RingIsRecentHistory
  <2>5. From(through) = 2 * (sequence - through) /\ From(cursor[c]) = 2 * (sequence - cursor[c])
    BY <1>2, <1>7, <2>1, <2>4 DEF From
  <2>6. Behind(c)' \in {0, 1 + From(through)}
    BY <1>1, <1>3, <2>2, <2>3 DEF Behind
  <2>7. Behind(c) = 2 * (sequence - cursor[c])
    BY <1>4, <1>7, <2>5
  <2> QED BY <1>2, <1>5, <2>1, <2>5, <2>6, <2>7
<1> QED BY <1>6, <1>7

LEMMA ReceiveBehind ==
    ASSUME IInv, OpenInv, NEW c \in Followers, ~CaughtUp(c),
           ReceiveSnapshot(c) \/ ReceiveEvents(c) \/ ReceiveRefusal(c)
    PROVE  Behind(c)' < Behind(c)
<1>1. /\ inbox' = [inbox EXCEPT ![c] = NoResponse] /\ UNCHANGED <<server, up, established>>
  BY DEF ReceiveSnapshot, ReceiveEvents, ReceiveRefusal, Receive
<1>2. /\ FollowerInv(c) /\ RingInv /\ c \in Conns /\ TypeOK
      /\ inbox[c].kind = "snapshot" =>
            inbox[c].sequence \in Nat /\ inbox[c].sequence <= sequence
      /\ inbox[c].kind = "events" =>
            inbox[c].through \in Nat /\ inbox[c].through <= sequence
  BY FollowerKnown DEF IInv
<1>3. inbox'[c].kind = "none"
  BY <1>1, <1>2 DEF TypeOK, NoResponse
<1>4. c \in up /\ c \in up'
  BY <1>1 DEF OpenInv, ReceiveSnapshot, ReceiveEvents, ReceiveRefusal, Receive
<1>5. CASE ReceiveSnapshot(c)
  <2>1. /\ inbox[c].kind = "snapshot" /\ c \in established'
        /\ mode'[c] = "events" /\ cursor'[c] = inbox[c].sequence
    BY <1>1, <1>2, <1>5 DEF ReceiveSnapshot, Receive, OpenInv, TypeOK
  <2>2. Behind(c) = 1 + From(inbox[c].sequence)
    BY <1>4, <2>1 DEF Behind
  <2>3. From(inbox[c].sequence) \in Nat
    BY <1>2, <2>1, FromNat
  <2>4. Behind(c)' \in {0, From(inbox[c].sequence)}
    BY <1>1, <1>3, <1>4, <2>1, Arrived
  <2> QED BY <2>2, <2>3, <2>4
<1>6. CASE ReceiveEvents(c)
  <2>1. /\ inbox[c].kind = "events" /\ c \in established'
        /\ mode'[c] = "events" /\ cursor'[c] = inbox[c].through
    BY <1>1, <1>2, <1>6 DEF ReceiveEvents, Receive, FollowerInv, TypeOK
  <2>2. Behind(c) = 1 + From(inbox[c].through)
    BY <1>4, <2>1 DEF Behind
  <2>3. From(inbox[c].through) \in Nat
    BY <1>2, <2>1, FromNat
  <2>4. Behind(c)' \in {0, From(inbox[c].through)}
    BY <1>1, <1>3, <1>4, <2>1, Arrived
  <2> QED BY <2>2, <2>3, <2>4
<1>7. CASE ReceiveRefusal(c)
  <2>1. inbox[c].kind = "refused" /\ mode'[c] = "snapshot"
    BY <1>2, <1>7 DEF ReceiveRefusal, Receive, TypeOK
  <2>2. Behind(c) = 3
    BY <1>4, <2>1 DEF Behind
  <2>3. Behind(c)' \in {0, 2}
    BY <1>3, <1>4, <2>1 DEF Behind
  <2> QED BY <2>2, <2>3
<1> QED BY <1>5, <1>6, <1>7

(* A follower that has caught up stays so: neither a snapshot nor a batch   *)
(* that is still on its way takes it back.                                  *)
LEMMA CaughtUpKept ==
    ASSUME IInv, OpenInv, NEW c \in Followers, CaughtUp(c), FollowerStep(c)
    PROVE  CaughtUp(c)'
<1>1. /\ FollowerInv(c) /\ cursor[c] \in Nat /\ sequence \in Nat /\ TypeOK /\ c \in Conns
      /\ inbox[c].kind = "snapshot" => inbox[c].sequence \in Nat
      /\ c \in up /\ view[c] = Prefix(epoch, sequence)
  BY FollowerKnown DEF IInv, CaughtUp
<1>2. CASE Connect(c) \/ AskSnapshot(c) \/ AskEvents(c, cursor[c]) \/ ReceiveRefusal(c)
  BY <1>1, <1>2 DEF Connect, AskSnapshot, AskEvents, Asks, ReceiveRefusal, Receive,
                    server, client, CaughtUp, Prefix
<1>3. CASE ReceiveSnapshot(c)
  <2>1. /\ inbox[c].kind = "snapshot" /\ inbox[c].epoch = epoch /\ inbox[c].sequence <= sequence
        /\ \A v \in view[c] : v[1] = epoch => v[2] <= inbox[c].sequence
    BY <1>1, <1>3 DEF ReceiveSnapshot, Receive, FollowerInv
  <2>2. inbox[c].sequence = sequence
    <3>1. CASE sequence = 0
      BY <1>1, <2>1, <3>1
    <3>2. CASE sequence # 0
      <4>1. <<epoch, sequence>> \in view[c]
        BY <1>1, <3>2 DEF Prefix
      <4> QED BY <1>1, <2>1, <4>1
    <3> QED BY <3>1, <3>2
  <2>3. view'[c] = Prefix(epoch, sequence) /\ up' = up /\ UNCHANGED server
    BY <1>1, <1>3, <2>1, <2>2 DEF ReceiveSnapshot, Receive, TypeOK
  <2> QED BY <1>1, <2>3 DEF CaughtUp, server, Prefix
<1>4. CASE ReceiveEvents(c)
  <2>1. /\ inbox[c].kind = "events" /\ inbox[c].epoch = epoch
        /\ inbox[c].through \in cursor[c]..sequence
        /\ inbox[c].sequences = (cursor[c] + 1)..inbox[c].through
        /\ view[c] = Prefix(epoch, cursor[c]) /\ cursor[c] <= sequence
    BY <1>1, <1>4 DEF ReceiveEvents, Receive, FollowerInv
  <2>2. cursor[c] = sequence
    <3>1. cursor[c] \in Nat /\ sequence \in Nat /\ Prefix(epoch, cursor[c]) = Prefix(epoch, sequence)
      BY <1>1, <2>1
    <3> QED BY <3>1, PrefixLength, Zenon
  <2>3. inbox[c].sequences = {}
    BY <1>1, <2>1, <2>2
  <2>4. view'[c] = view[c] /\ up' = up /\ UNCHANGED server
    BY <1>1, <1>4, <2>3 DEF ReceiveEvents, Receive, TypeOK
  <2> QED BY <1>1, <2>4 DEF CaughtUp, server, Prefix
<1> QED BY <1>2, <1>3, <1>4 DEF FollowerStep

(* Every follower has a step to take, and the measure is zero just when it  *)
(* has the whole state of the running daemon.                               *)
THEOREM FollowersMayStep ==
    Spec => []\A c \in Followers :
                Behind(c) \in Nat /\ (Behind(c) = 0 <=> CaughtUp(c)) /\ MayStep(c)
<1>1. IInv /\ OpenInv =>
        \A c \in Followers :
            Behind(c) \in Nat /\ (Behind(c) = 0 <=> CaughtUp(c)) /\ MayStep(c)
  BY BehindNat
<1> QED BY <1>1, Invariance, OpenInvariant, PTL

(* A follower that is behind gets nearer with each of its steps, through    *)
(* refusals, gaps and answers that were overtaken; one that has caught up   *)
(* stays so; and no other connection sets it back.  Only an event, a        *)
(* restart or a lost connection does.                                       *)
THEOREM FollowersAdvance ==
    Spec => [][\A c \in Followers :
                /\ FollowerStep(c) =>
                      IF Behind(c) = 0 THEN Behind(c)' = 0 ELSE Behind(c)' < Behind(c)
                /\ (\E d \in Followers \ {c} : FollowerStep(d)) \/ (\E d \in Players : PlayerStep(d))
                      => Behind(c)' = Behind(c)]_vars
<1>1. ASSUME IInv, OpenInv, NEW c \in Followers, FollowerStep(c)
      PROVE  IF Behind(c) = 0 THEN Behind(c)' = 0 ELSE Behind(c)' < Behind(c)
  <2>1. CASE CaughtUp(c)
    <3>1. CaughtUp(c)'
      BY <1>1, <2>1, CaughtUpKept
    <3> QED BY <2>1, <3>1 DEF Behind
  <2>2. CASE ~CaughtUp(c)
    <3>1. Behind(c) # 0
      BY <1>1, <2>2, BehindNat
    <3>2. Behind(c)' < Behind(c)
      BY <1>1, <2>2, ConnectBehind, AskSnapshotBehind, AskEventsBehind, ReceiveBehind
         DEF FollowerStep
    <3> QED BY <3>1, <3>2
  <2> QED BY <2>1, <2>2
<1>2. ASSUME IInv, NEW c \in Followers, NEW d \in Followers \ {c}, FollowerStep(d)
      PROVE  Behind(c)' = Behind(c)
  <2>0. TypeOK /\ c \in Conns
    BY <1>2 DEF IInv, Conns
  <2>1. /\ UNCHANGED server
        /\ c \in up' <=> c \in up
        /\ c \in established' <=> c \in established
    BY <1>2 DEF FollowerStep, Connect, AskSnapshot, AskEvents, Asks, ReceiveSnapshot,
                ReceiveEvents, ReceiveRefusal, Receive
  <2>2. /\ inbox'[c] = inbox[c] /\ mode'[c] = mode[c]
        /\ cursor'[c] = cursor[c] /\ view'[c] = view[c]
    BY <1>2, <2>0 DEF FollowerStep, Connect, AskSnapshot, AskEvents, Asks, ReceiveSnapshot,
                      ReceiveEvents, ReceiveRefusal, Receive, TypeOK, client
  <2> QED BY <2>1, <2>2, OthersBehind
<1>3. ASSUME IInv, NEW c \in Followers, NEW d \in Players, PlayerStep(d)
      PROVE  Behind(c)' = Behind(c)
  <2>0. TypeOK /\ c \in Conns /\ c # d
    BY <1>3, ConnsAssumption DEF IInv, Conns
  <2>1. /\ UNCHANGED server
        /\ c \in up' <=> c \in up
        /\ c \in established' <=> c \in established
    BY <1>3, <2>0 DEF PlayerStep, PlayerConnect, AskEvents, Asks, PlayerHead, Receive
  <2>2. /\ inbox'[c] = inbox[c] /\ mode'[c] = mode[c]
        /\ cursor'[c] = cursor[c] /\ view'[c] = view[c]
    BY <1>3, <2>0 DEF PlayerStep, PlayerConnect, AskEvents, Asks, PlayerHead, Receive, TypeOK, client
  <2> QED BY <2>1, <2>2, OthersBehind
<1>4. IInv /\ OpenInv /\ [Next]_vars =>
        [\A c \in Followers :
            /\ FollowerStep(c) =>
                  IF Behind(c) = 0 THEN Behind(c)' = 0 ELSE Behind(c)' < Behind(c)
            /\ (\E d \in Followers \ {c} : FollowerStep(d)) \/ (\E d \in Players : PlayerStep(d))
                  => Behind(c)' = Behind(c)]_vars
  BY <1>1, <1>2, <1>3
<1> QED BY <1>4, Invariance, OpenInvariant, PTL DEF Spec
=============================================================================
