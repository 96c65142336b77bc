------------------------- MODULE MailDoorbell_proofs -------------------------
(***************************************************************************)
(* Proofs about MailDoorbell, for any panes, clients, queues, letters and  *)
(* revisions.                                                              *)
(*                                                                         *)
(* DoorbellInv is inductive.  It is about each pane apart (its bell, its   *)
(* line, the nudge of a letter that waits) and about the layout.  From it  *)
(* and from the fairness of the maintenance thread, letters ring.          *)
(***************************************************************************)
EXTENDS MailDoorbell, SequenceTheorems, TLAPS

(* What a bell always satisfies: its lamp is of its newest revision, its    *)
(* nudge is about the lamp, and the injection record knows of all rings of  *)
(* the revision and of none that was not.                                   *)
BellOK(b) ==
    /\ b \in Bells
    /\ b.lamp # None => b.lamp.rev = b.rev
    /\ b.nudge # None => Lit(b, b.nudge.rev)
    /\ b.rings <= 2
    /\ b.rings > 0 => Injected(b, b.rev) /\ b.inject.writes >= b.rings
    /\ b.inject # None => b.inject.rev <= b.rev
    /\ b.rings = 0 => ~Injected(b, b.rev)

(* And a line: the ledger knows an unsubmitted line, and none was crossed.  *)
TtyOK(t) ==
    /\ t \in Ttys
    /\ t.author # None => Dirty(t)
    /\ ~t.crossed

-----------------------------------------------------------------------------
LEMMA ArmKeeps ==
    ASSUME NEW b, BellOK(b), NEW r \in Nat, NEW depth \in Nat, NEW wake \in Wakes
    PROVE  BellOK(Arm(b, r, depth, wake))
<1> DEFINE lamp == [rev |-> r, depth |-> depth, wake |-> wake]
           c == Arm(b, r, depth, wake)
<1>0. b \in Bells /\ b.rev \in Nat
  BY DEF BellOK, Bells
<1>1. CASE r <= b.rev
  BY <1>1 DEF Arm
<1>2. CASE ~(r <= b.rev)
  <2>1. lamp \in Lamps /\ lamp # None
    BY DoorbellAssumption DEF Lamps
  <2>2. c.rev = r /\ c.lamp = lamp /\ c.rings = 0
    BY <1>0, <1>2 DEF Arm, Bells
  <2>3. c.nudge # None => c.nudge = [rev |-> r, verification |-> FALSE]
    BY <1>0, <1>2 DEF Arm, Bells
  <2>4. c \in Bells
    BY <1>0, <1>2, <2>1 DEF Arm, Bells, Nudges
  <2>5. c.inject = b.inject
    BY <1>0, <1>2 DEF Arm, Bells
  <2>6. b.inject # None => b.inject.rev \in Nat /\ b.inject.rev < r
    BY <1>0, <1>2 DEF BellOK, Bells, Injections
  <2>7. BellOK(c)
    <3>1. lamp.rev = r /\ (c.nudge # None => c.nudge.rev = r)
      BY <2>3
    <3> HIDE DEF c, lamp
    <3> QED BY <1>0, <2>1, <2>2, <2>4, <2>5, <2>6, <3>1 DEF BellOK, Lit, Injected
  <2> QED BY <2>7
<1> QED BY <1>1, <1>2

LEMMA ArmLights ==
    ASSUME NEW b \in Bells, NEW r \in Nat, NEW depth \in Nat, NEW wake \in Wakes, r > b.rev
    PROVE  /\ Arm(b, r, depth, wake).lamp # None
           /\ Arm(b, r, depth, wake).lamp.depth = depth
<1>1. [rev |-> r, depth |-> depth, wake |-> wake] \in Lamps
  BY DEF Lamps
<1>2. ~(r <= b.rev)
  BY DEF Bells
<1>3. Arm(b, r, depth, wake).lamp = [rev |-> r, depth |-> depth, wake |-> wake]
  BY <1>2 DEF Arm, Bells
<1> QED BY <1>1, <1>3, DoorbellAssumption

LEMMA ClearKeeps ==
    ASSUME NEW b, BellOK(b), NEW r \in Nat
    PROVE  BellOK(Clear(b, r))
<1>0. b \in Bells
  BY DEF BellOK
<1>1. CASE r <= b.rev
  BY <1>1 DEF Clear
<1>2. CASE ~(r <= b.rev)
  <2>1. Clear(b, r) \in Bells
    BY <1>0, <1>2 DEF Clear, Bells
  <2>2. /\ Clear(b, r).lamp = None
        /\ Clear(b, r).nudge = None
        /\ Clear(b, r).rings = 0
        /\ Clear(b, r).rev = r
        /\ Clear(b, r).inject = b.inject
    BY <1>0, <1>2 DEF Clear, Bells
  <2>3. b.inject # None => b.inject.rev \in Nat /\ b.inject.rev < r
    BY <1>0, <1>2 DEF BellOK, Bells, Injections
  <2> QED BY <2>1, <2>2, <2>3 DEF BellOK, Injected
<1> QED BY <1>1, <1>2

LEMMA ClearDarkens ==
    ASSUME NEW b \in Bells, NEW r \in Nat, r > b.rev
    PROVE  Clear(b, r).lamp = None
BY DEF Clear, Bells

-----------------------------------------------------------------------------
LEMMA TypedTyped ==
    ASSUME NEW t \in Ttys, NEW by \in Clients \cup {Doorbell},
           NEW k \in Nat, NEW n \in Nat, NEW submits \in BOOLEAN
    PROVE  Typed(t, by, k, n, submits) \in Ttys
<1>1. t.room - Less(t.room, k) \in 0..QueueSize
  BY DoorbellAssumption DEF Ttys, Less
<1>2. (t.crossed \/ (t.author \notin {None, by} /\ t.lease # by)) \in BOOLEAN
  BY DEF Ttys
<1> QED BY <1>1, <1>2 DEF Typed, Ttys

(* The doorbell types only into lines that nobody is typing.                *)
LEMMA DoorbellTyped ==
    ASSUME NEW t, TtyOK(t), ~Dirty(t), NEW k \in Nat, NEW n \in Nat, NEW submits \in BOOLEAN
    PROVE  /\ TtyOK(Typed(t, Doorbell, k, n, submits))
           /\ Typed(t, Doorbell, k, n, submits).author = None
<1> DEFINE u == Typed(t, Doorbell, k, n, submits)
<1>0. t \in Ttys /\ t.author = None /\ ~t.crossed
  BY DEF TtyOK
<1>1. u \in Ttys
  BY <1>0, TypedTyped
<1>2. u.author = None
  BY <1>0, DoorbellAssumption DEF Typed, Ttys
<1>3. ~u.crossed
  BY <1>0 DEF Typed, Ttys
<1> QED BY <1>1, <1>2, <1>3 DEF TtyOK

LEMMA ClientTyped ==
    ASSUME NEW t, TtyOK(t), NEW c \in Clients, t.lease = c \/ ~Dirty(t),
           NEW k \in Nat, NEW n \in Nat, NEW submits \in BOOLEAN
    PROVE  TtyOK(LedgerOf(Typed(t, c, k, n, submits), k, n, submits))
<1> DEFINE u == Typed(t, c, k, n, submits)
           v == LedgerOf(u, k, n, submits)
<1>0. t \in Ttys /\ ~t.crossed /\ (t.lease = c \/ t.author = None)
  BY DEF TtyOK
<1>1. u \in Ttys
  BY <1>0, TypedTyped
<1>2. ~u.crossed
  BY <1>0 DEF Typed, Ttys
<1>3. u.author # None => ~(k = n /\ submits)
  BY <1>0 DEF Typed, Ttys
<1>4. v \in Ttys
  BY <1>1 DEF LedgerOf, Ttys
<1>5. v.author = u.author /\ v.crossed = u.crossed /\ v.recent /\ v.unsent = ~(k = n /\ submits)
  BY <1>1 DEF LedgerOf, Ttys
<1> QED BY <1>2, <1>3, <1>4, <1>5 DEF TtyOK, Dirty

-----------------------------------------------------------------------------
(* The gates: without effect, or open for the revision of the lamp, with    *)
(* the line empty and a ring left.                                          *)
LEMMA GatedCases ==
    ASSUME NEW p \in Panes, NEW b, NEW t, NEW by, NEW r, NEW v,
           NEW res \in GatedInject(p, b, t, by, r, v)
    PROVE  \/ res.bell = b /\ res.tty = t
           \/ /\ Lit(b, r)
              /\ Injected(b, r) => ~Spent(b, v)
              /\ ~Dirty(t)
              /\ res \in Inject(b, t, Chunks[p], r)
<1>1. PICK busy \in Busy(t) :
        res \in (LET gate == Gate(b, t, by, r, v, busy)
                 IN IF gate = "open" THEN Inject(b, t, Chunks[p], r) ELSE {Same(b, t, gate)})
  BY Zenon DEF GatedInject
<1>2. CASE Gate(b, t, by, r, v, busy) # "open"
  BY <1>1, <1>2 DEF Same
<1>3. CASE Gate(b, t, by, r, v, busy) = "open"
  <2>1. /\ Lit(b, r)
        /\ ~busy
        /\ Injected(b, r) => ~Spent(b, v)
    BY <1>3 DEF Gate
  <2>2. ~Dirty(t)
    BY <1>1, <2>1 DEF Busy
  <2>3. res \in Inject(b, t, Chunks[p], r)
    BY <1>1, <1>3
  <2> QED BY <2>1, <2>2, <2>3
<1> QED BY <1>2, <1>3

LEMMA InjectCases ==
    ASSUME NEW b, NEW t, NEW n \in Nat, NEW r, NEW res \in Inject(b, t, n, r)
    PROVE  \/ \E bumped \in BOOLEAN : res = Rung(b, t, n, r, bumped)
           \/ \E k \in Nat : res = Broken(b, t, n, k)
<1>1. CASE res \in {Rung(b, t, n, r, bumped) : bumped \in IF n \in Accepted(t, n) THEN BOOLEAN ELSE {}}
  BY <1>1
<1>2. CASE res \in {Broken(b, t, n, k) : k \in Accepted(t, n) \ {n}}
  <2>1. PICK k \in Accepted(t, n) \ {n} : res = Broken(b, t, n, k)
    BY <1>2
  <2>2. k \in Nat
    BY DEF Accepted
  <2> QED BY <2>1, <2>2
<1> QED BY <1>1, <1>2 DEF Inject

(* A ring: the injection record counts it, and there was one left.          *)
LEMMA RungKeeps ==
    ASSUME NEW b, BellOK(b), NEW t, TtyOK(t), NEW n \in Nat, NEW r \in Nat,
           NEW v \in BOOLEAN, NEW bumped \in BOOLEAN,
           Lit(b, r), Injected(b, r) => ~Spent(b, v), ~Dirty(t)
    PROVE  /\ BellOK(Rung(b, t, n, r, bumped).bell)
           /\ TtyOK(Rung(b, t, n, r, bumped).tty)
           /\ Rung(b, t, n, r, bumped).bell.lamp = b.lamp
<1> DEFINE writes == IF b.inject = None THEN 1 ELSE b.inject.writes + 1
           record == [rev |-> r, stuck |-> ~bumped, writes |-> writes]
           verify == [rev |-> r, verification |-> TRUE]
           c == Rung(b, t, n, r, bumped).bell
           u == Typed(t, Doorbell, n, n, TRUE)
           w == Rung(b, t, n, r, bumped).tty
<1>0. b \in Bells /\ b.rev = r /\ b.rings \in Nat
  BY DEF BellOK, Bells, Lit
<1>1. writes \in Nat /\ writes >= 1
  BY <1>0 DEF Bells, Injections
<1>2. record \in Injections /\ record # None
  <2> HIDE DEF writes
  <2>1. record \in Injections
    BY <1>1 DEF Injections
  <2> QED BY <2>1, DoorbellAssumption
<1>3. /\ c.rev = r
      /\ c.lamp = b.lamp
      /\ c.inject = record
      /\ c.nudge = IF bumped /\ writes = 1 THEN verify ELSE b.nudge
      /\ c.rings = b.rings + 1
  BY <1>0 DEF Rung, Bells
<1>4. c \in Bells
  <2> HIDE DEF writes
  <2>1. verify \in Nudges
    BY DEF Nudges
  <2>2. c = [b EXCEPT !.inject = record, !.hidden = bumped,
                      !.nudge = IF bumped /\ writes = 1 THEN verify ELSE @,
                      !.rings = @ + 1, !.peeked = FALSE]
    BY DEF Rung, writes
  <2> DEFINE nudge == IF bumped /\ writes = 1 THEN verify ELSE b.nudge
  <2>3. nudge \in Nudges \cup {None}
    BY <1>0, <2>1 DEF Bells
  <2>4. c = [rev |-> b.rev, lamp |-> b.lamp, nudge |-> nudge, inject |-> record,
             hidden |-> bumped, rings |-> b.rings + 1, peeked |-> FALSE]
    <3> HIDE DEF record, verify
    <3> QED BY <1>0, <2>2 DEF Bells
  <2> HIDE DEF record, verify, nudge, c
  <2> QED BY <1>0, <1>2, <2>3, <2>4 DEF Bells
<1>5. b.rings > 0 => writes > b.rings /\ b.rings <= 1
  <2> SUFFICES ASSUME b.rings > 0 PROVE writes > b.rings /\ b.rings <= 1
    OBVIOUS
  <2>1. Injected(b, r) /\ b.inject.writes >= b.rings
    BY <1>0 DEF BellOK
  <2>2. b.inject # None /\ b.inject \in Injections /\ b.inject.writes \in Nat
    BY <1>0, <2>1 DEF Injected, Bells, Injections
  <2>3. b.inject.writes <= 1
    BY <1>0, <2>1, <2>2 DEF Spent
  <2> QED BY <1>0, <2>1, <2>2, <2>3
<1>6. BellOK(c)
  <2>1. c.nudge # None => Lit(c, c.nudge.rev)
    BY <1>3 DEF BellOK, Lit
  <2>2. c.rings <= 2
    BY <1>0, <1>3, <1>5
  <2>3. Injected(c, c.rev) /\ c.inject.writes = writes
    BY <1>2, <1>3 DEF Injected
  <2>4. writes >= c.rings
    BY <1>0, <1>1, <1>3, <1>5
  <2>5. c.lamp # None => c.lamp.rev = c.rev
    BY <1>0, <1>3 DEF BellOK
  <2>6. c.rings # 0 /\ c.inject.rev <= c.rev
    BY <1>0, <1>3
  <2> QED BY <1>4, <2>1, <2>2, <2>3, <2>4, <2>5, <2>6 DEF BellOK
<1>7. TtyOK(w)
  <2>1. u \in Ttys /\ u.author = None /\ ~u.crossed
    BY DoorbellTyped DEF TtyOK
  <2>2. w = [u EXCEPT !.unsent = FALSE, !.recent = @ \/ bumped]
    BY DEF Rung
  <2>3. (u.recent \/ bumped) \in BOOLEAN
    BY <2>1 DEF Ttys
  <2>4. w \in Ttys /\ w.author = None /\ ~w.crossed
    BY <2>1, <2>2, <2>3 DEF Ttys
  <2> QED BY <2>4 DEF TtyOK
<1> QED BY <1>3, <1>6, <1>7

LEMMA BrokenKeeps ==
    ASSUME NEW b, NEW t, TtyOK(t), ~Dirty(t), NEW n \in Nat, NEW k \in Nat
    PROVE  /\ Broken(b, t, n, k).bell = b
           /\ TtyOK(Broken(b, t, n, k).tty)
BY DoorbellTyped DEF Broken, Same

LEMMA GatedKeeps ==
    ASSUME NEW p \in Panes, NEW b, BellOK(b), NEW t, TtyOK(t), NEW by, NEW r \in Nat,
           NEW v \in BOOLEAN, NEW res \in GatedInject(p, b, t, by, r, v)
    PROVE  BellOK(res.bell) /\ TtyOK(res.tty) /\ res.bell.lamp = b.lamp
<1>1. CASE res.bell = b /\ res.tty = t
  BY <1>1
<1>2. CASE /\ Lit(b, r)
           /\ Injected(b, r) => ~Spent(b, v)
           /\ ~Dirty(t)
           /\ res \in Inject(b, t, Chunks[p], r)
  <2>0. Chunks[p] \in Nat
    BY DoorbellAssumption
  <2>1. \/ \E bumped \in BOOLEAN : res = Rung(b, t, Chunks[p], r, bumped)
        \/ \E k \in Nat : res = Broken(b, t, Chunks[p], k)
    BY <1>2, <2>0, InjectCases
  <2>2. ASSUME NEW bumped \in BOOLEAN, res = Rung(b, t, Chunks[p], r, bumped)
        PROVE  BellOK(res.bell) /\ TtyOK(res.tty) /\ res.bell.lamp = b.lamp
    BY <1>2, <2>0, <2>2, RungKeeps
  <2>3. ASSUME NEW k \in Nat, res = Broken(b, t, Chunks[p], k)
        PROVE  BellOK(res.bell) /\ TtyOK(res.tty) /\ res.bell.lamp = b.lamp
    BY <1>2, <2>0, <2>3, BrokenKeeps
  <2> QED BY <2>1, <2>2, <2>3
<1> QED BY <1>1, <1>2, GatedCases

(* A nudge that was due: its next try is about the same letter.             *)
LEMMA RetriedKeeps ==
    ASSUME NEW p \in Panes, NEW b, BellOK(b), b.nudge # None, NEW t, TtyOK(t),
           NEW res \in Retried(p, b, t)
    PROVE  BellOK(res.bell) /\ TtyOK(res.tty) /\ res.bell.lamp = b.lamp
<1> DEFINE nudge == b.nudge
           rest == [b EXCEPT !.nudge = None]
           armed(c) == Lit(c, nudge.rev) /\ c.lamp.wake = "armed"
           again(x) == x.outcome \in {"defer", "error"}
                        \/ (x.outcome = "hide" /\ nudge.verification)
<1>0. b \in Bells /\ nudge \in Nudges /\ nudge.rev \in Nat /\ nudge.verification \in BOOLEAN
  BY DEF BellOK, Bells, Nudges
<1>1. BellOK(rest) /\ rest.lamp = b.lamp
  BY <1>0 DEF BellOK, Bells, Lit, Injected
<1>2. CASE ~armed(rest)
  <2>1. res = Same(rest, t, "skip")
    BY <1>2 DEF Retried
  <2> QED BY <1>1, <2>1 DEF Same
<1>3. CASE armed(rest)
  <2>1. PICK one \in GatedInject(p, rest, t, Doorbell, nudge.rev, nudge.verification) :
          res = IF again(one) /\ armed(one.bell) THEN [one EXCEPT !.bell.nudge = nudge] ELSE one
    BY <1>3, Zenon DEF Retried
  <2>2. BellOK(one.bell) /\ TtyOK(one.tty) /\ one.bell.lamp = b.lamp
    <3> HIDE DEF rest, nudge
    <3>1. one \in GatedInject(p, rest, t, Doorbell, nudge.rev, nudge.verification)
      OBVIOUS
    <3>2. BellOK(one.bell) /\ TtyOK(one.tty) /\ one.bell.lamp = rest.lamp
      BY <1>0, <1>1, <3>1, GatedKeeps
    <3> QED BY <1>1, <3>2
  <2>3. CASE ~(again(one) /\ armed(one.bell))
    BY <2>1, <2>2, <2>3
  <2>4. CASE again(one) /\ armed(one.bell)
    <3>1. res = [one EXCEPT !.bell.nudge = nudge]
      BY <2>1, <2>4
    <3> QED BY <1>0, <2>2, <2>4, <3>1 DEF BellOK, Bells, Lit, Injected
  <2> QED BY <2>3, <2>4
<1> QED BY <1>2, <1>3

-----------------------------------------------------------------------------
(* The inductive invariant. *)

Layout ==
    /\ leaves \in Seq(Panes)
    /\ Range(leaves) \subseteq 1..minted
    /\ minted \in 0..MaxPanes
    /\ IsInjective(leaves)
    /\ moves \in Nat
    /\ open \in Nat
    /\ held \in Nat
    /\ disturbed \in BOOLEAN

PanesOK ==
    /\ bell \in [Panes -> Bells]
    /\ tty \in [Panes -> Ttys]
    /\ \A p \in Panes : BellOK(bell[p]) /\ TtyOK(tty[p])

FreshDark == \A p \in Panes : p > minted => bell[p].lamp = None

(* A lamp that nobody has looked at and no ring has announced, and that     *)
(* such a one has its nudge.                                                *)
Pending(b) == b.lamp # None /\ b.lamp.wake = "armed" /\ b.rings = 0 /\ ~b.peeked
BellKept(b) == Pending(b) => b.nudge # None
NudgesKept == \A p \in Panes : BellKept(bell[p])

DoorbellInv == Layout /\ PanesOK /\ NudgesKept /\ FreshDark /\ LampTellsMail

-----------------------------------------------------------------------------
(* The panes of the session. *)

\* Inserting an element that is larger than the others keeps a sequence
\* injective, and bounds its elements by the new one.
LEMMA InsertedFresh ==
    ASSUME NEW s, NEW t, NEW n \in Nat, NEW i \in 1..n, NEW m \in Nat, NEW p, p = m + 1,
           \A j \in 1..n : s[j] \in 1..m,
           \A j, k \in 1..n : s[j] = s[k] => j = k,
           NEW size, size = n + 1,
           \A j \in 1..size :
              t[j] = IF j <= i THEN s[j] ELSE IF j = i + 1 THEN p ELSE s[j - 1]
    PROVE  /\ \A j \in 1..size : t[j] \in 1..p
           /\ \A j, k \in 1..size : t[j] = t[k] => j = k
<1> DEFINE old(j) == IF j <= i THEN j ELSE j - 1
<1>1. \A j \in 1..size : j # i + 1 => old(j) \in 1..n /\ t[j] = s[old(j)]
  OBVIOUS
<1>2. \A j \in 1..size : j # i + 1 => t[j] \in 1..m
  BY <1>1
<1>3. i + 1 \in 1..size /\ t[i + 1] = p
  OBVIOUS
<1>4. p \in Nat /\ p \notin 1..m /\ p \in 1..p /\ \A x \in 1..m : x \in 1..p
  OBVIOUS
<1>5. \A j \in 1..size : t[j] \in 1..p
  BY <1>2, <1>3, <1>4
<1>6. ASSUME NEW j \in 1..size, NEW k \in 1..size, t[j] = t[k]
      PROVE  j = k
  <2>1. CASE j = i + 1 \/ k = i + 1
    BY <2>1, <1>2, <1>3, <1>4, <1>6
  <2>2. CASE j # i + 1 /\ k # i + 1
    <3>1. old(j) = old(k)
      <4> HIDE DEF old
      <4> QED BY <2>2, <1>1, <1>6
    <3>2. j \in Nat /\ k \in Nat /\ i \in Nat
      OBVIOUS
    <3> QED BY <2>2, <3>1, <3>2
  <2> QED BY <2>1, <2>2
<1> QED BY <1>5, <1>6

LEMMA Inserted ==
    ASSUME NEW i \in DOMAIN leaves, leaves \in Seq(Panes), NEW p
    PROVE  LET new == SubSeq(leaves, 1, i) \o <<p>> \o SubSeq(leaves, i + 1, Len(leaves))
           IN /\ Len(new) = Len(leaves) + 1
              /\ \A j \in 1..Len(new) :
                    new[j] = IF j <= i THEN leaves[j] ELSE IF j = i + 1 THEN p ELSE leaves[j - 1]
<1> DEFINE front == SubSeq(leaves, 1, i)
           back == SubSeq(leaves, i + 1, Len(leaves))
           mid == front \o <<p>>
<1>1. i \in 1..Len(leaves)
  OBVIOUS
<1>2. /\ front \in Seq(Panes)
      /\ Len(front) = i
      /\ \A j \in 1..i : front[j] = leaves[j]
  BY <1>1
<1>3. /\ back \in Seq(Panes)
      /\ Len(back) = Len(leaves) - i
      /\ \A j \in 1..(Len(leaves) - i) : back[j] = leaves[i + j]
  BY <1>1
<1> HIDE DEF front, back
<1>4. /\ mid \in Seq(Panes \cup {p})
      /\ Len(mid) = i + 1
      /\ \A j \in 1..(i + 1) : mid[j] = IF j <= i THEN leaves[j] ELSE p
  BY <1>1, <1>2
<1> HIDE DEF mid
<1>5. /\ Len(mid \o back) = Len(leaves) + 1
      /\ \A j \in 1..(Len(leaves) + 1) :
            (mid \o back)[j] = IF j <= i + 1 THEN mid[j] ELSE back[j - (i + 1)]
  <2>1. back \in Seq(Panes \cup {p})
    BY <1>3
  <2>2. /\ Len(mid \o back) = Len(mid) + Len(back)
        /\ \A j \in 1..(Len(mid) + Len(back)) :
            (mid \o back)[j] = IF j <= Len(mid) THEN mid[j] ELSE back[j - Len(mid)]
    BY <1>4, <2>1, ConcatProperties
  <2>3. Len(mid) + Len(back) = Len(leaves) + 1
    BY <1>1, <1>3, <1>4
  <2> QED BY <1>4, <2>2, <2>3
<1>6. ASSUME NEW j \in 1..(Len(leaves) + 1)
      PROVE  (mid \o back)[j] = IF j <= i THEN leaves[j] ELSE IF j = i + 1 THEN p ELSE leaves[j - 1]
  <2>1. CASE j <= i + 1
    BY <1>1, <1>4, <1>5, <2>1
  <2>2. CASE ~(j <= i + 1)
    <3>0. Len(leaves) \in Nat /\ i \in Nat /\ j \in Nat
      BY <1>1
    <3>1. j - (i + 1) \in 1..(Len(leaves) - i) /\ i + (j - (i + 1)) = j - 1
      BY <2>2, <3>0
    <3>2. back[j - (i + 1)] = leaves[j - 1]
      BY <1>3, <3>1
    <3>3. (mid \o back)[j] = leaves[j - 1]
      BY <1>5, <2>2, <3>2
    <3>4. ~(j <= i) /\ j # i + 1
      BY <1>1, <2>2
    <3> QED BY <3>3, <3>4
  <2> QED BY <2>1, <2>2
<1> QED BY <1>5, <1>6 DEF front, back, mid

LEMMA Removed ==
    ASSUME NEW i \in DOMAIN leaves, leaves \in Seq(Panes)
    PROVE  LET new == SubSeq(leaves, 1, i - 1) \o SubSeq(leaves, i + 1, Len(leaves))
           IN /\ new \in Seq(Panes)
              /\ Len(new) = Len(leaves) - 1
              /\ \A j \in 1..Len(new) : new[j] = IF j < i THEN leaves[j] ELSE leaves[j + 1]
<1> DEFINE front == SubSeq(leaves, 1, i - 1)
           back == SubSeq(leaves, i + 1, Len(leaves))
<1>1. i \in 1..Len(leaves)
  OBVIOUS
<1>2. /\ front \in Seq(Panes)
      /\ Len(front) = i - 1
      /\ \A j \in 1..(i - 1) : front[j] = leaves[j]
  BY <1>1
<1>3. /\ back \in Seq(Panes)
      /\ Len(back) = Len(leaves) - i
      /\ \A j \in 1..(Len(leaves) - i) : back[j] = leaves[i + j]
  BY <1>1
<1> HIDE DEF front, back
<1>4. /\ front \o back \in Seq(Panes)
      /\ Len(front \o back) = Len(leaves) - 1
      /\ \A j \in 1..(Len(leaves) - 1) :
            (front \o back)[j] = IF j <= i - 1 THEN front[j] ELSE back[j - (i - 1)]
  <2>1. Len(front) + Len(back) = Len(leaves) - 1
    BY <1>1, <1>2, <1>3
  <2>2. /\ front \o back \in Seq(Panes)
        /\ Len(front \o back) = Len(front) + Len(back)
        /\ \A j \in 1..(Len(front) + Len(back)) :
            (front \o back)[j] = IF j <= Len(front) THEN front[j] ELSE back[j - Len(front)]
    BY <1>2, <1>3, ConcatProperties
  <2> QED BY <1>2, <2>1, <2>2
<1>5. ASSUME NEW j \in 1..(Len(leaves) - 1)
      PROVE  (front \o back)[j] = IF j < i THEN leaves[j] ELSE leaves[j + 1]
  <2>1. CASE j < i
    <3>1. j <= i - 1 /\ j \in 1..(i - 1)
      BY <1>1, <2>1
    <3> QED BY <1>2, <1>4, <2>1, <3>1
  <2>2. CASE ~(j < i)
    <3>1. j - (i - 1) \in 1..(Len(leaves) - i) /\ i + (j - (i - 1)) = j + 1 /\ ~(j <= i - 1)
      BY <1>1, <2>2
    <3>2. back[j - (i - 1)] = leaves[j + 1]
      BY <1>3, <3>1
    <3> QED BY <1>4, <2>2, <3>1, <3>2
  <2> QED BY <2>1, <2>2
<1> QED BY <1>4, <1>5 DEF front, back

(* The session's panes stay different panes that were created.              *)
LEMMA LayoutStep ==
    ASSUME Layout, [Next]_vars
    PROVE  Layout'
<1> USE DEF topology, mail
<1>0. open \in Nat /\ held \in Nat
  BY DEF Layout
<1>1. CASE UNCHANGED vars
  BY <1>1 DEF Layout, vars
<1>2. ASSUME UNCHANGED topology, open' \in Nat, held' \in Nat, disturbed' \in BOOLEAN
      PROVE  Layout'
  BY <1>2 DEF Layout
<1>3. CASE MailRequest
  <2>1. CASE MailSend
    <3>1. open' \in Nat /\ held' \in Nat /\ disturbed' = FALSE /\ UNCHANGED topology
      BY <1>0, <2>1 DEF MailSend
    <3> QED BY <1>2, <3>1
  <2>2. CASE MailClaim
    <3>1. open' \in Nat /\ held' \in Nat
      BY <1>0, <2>2 DEF MailClaim
    <3>2. disturbed' = FALSE /\ UNCHANGED topology
      BY <2>2 DEF MailClaim, Refresh
    <3> QED BY <1>2, <3>1, <3>2
  <2>3. CASE MailCommit
    <3>1. open' \in Nat /\ held' \in Nat
      BY <1>0, <2>3 DEF MailCommit
    <3>2. disturbed' = FALSE /\ UNCHANGED topology
      BY <2>3 DEF MailCommit, Refresh
    <3> QED BY <1>2, <3>1, <3>2
  <2>4. CASE MailRelease
    <3>1. held' \in Nat /\ open + held - held' \in Nat
      <4>1. \A h \in 0..held : h \in Nat /\ open + held - h \in Nat
        BY <1>0
      <4> QED BY <2>4, <4>1 DEF MailRelease
    <3>2. open' \in Nat /\ disturbed' = FALSE /\ UNCHANGED topology
      BY <2>4, <3>1 DEF MailRelease, Refresh
    <3> QED BY <1>2, <3>1, <3>2
  <2>5. CASE MailInbox
    BY <1>2, <2>5 DEF MailInbox, Layout
  <2>6. ASSUME NEW p \in Panes, NEW r, MailAttentionClear(p, r)
        PROVE  Layout'
    BY <1>2, <2>6 DEF MailAttentionClear, Disturbs, Layout
  <2>7. ASSUME NEW p \in Panes, NEW r, NEW wake \in Wakes, MailAttentionSet(p, r, wake)
        PROVE  Layout'
    BY <1>2, <2>7 DEF MailAttentionSet, Disturbs, Layout
  <2>8. ASSUME NEW c, NEW p \in Panes, NEW r, InjectMail(c, p, r)
        PROVE  Layout'
    BY <1>2, <2>8 DEF InjectMail, Layout
  <2>9. ASSUME NEW p \in Panes, HiveDrain(p)
        PROVE  Layout'
    BY <2>6, <2>9 DEF HiveDrain
  <2> QED BY <1>3, <2>1, <2>2, <2>3, <2>4, <2>5, <2>6, <2>7, <2>8, <2>9 DEF MailRequest
<1>4. CASE InputRequest
  <2>1. PICK c \in Clients, p \in Panes : OnInput(c, p)
    BY <1>4 DEF InputRequest, WritePane, PaneWrite, TakeLease, ReleaseLease
  <2> QED BY <1>2, <2>1 DEF OnInput, Layout
<1>5. CASE Environment
  <2>1. PICK p \in Panes : OnPane(p)
    BY <1>5 DEF Environment, Output, Silence, HideEnds, WriterThread, Foreground
  <2> QED BY <1>2, <2>1 DEF OnPane, Layout
<1>6. ASSUME NEW p \in Panes, RetryMailNudges(p)
      PROVE  Layout'
  BY <1>2, <1>6 DEF RetryMailNudges, Layout
<1>7. ASSUME NEW p \in Panes, CreateSession(p)
      PROVE  Layout'
  <2>1. /\ leaves' = <<p>>
        /\ minted' = p
        /\ UNCHANGED <<moves, open, held>>
        /\ disturbed' = FALSE
    BY <1>7 DEF CreateSession, Fresh
  <2>2. p \in Nat /\ p \in 1..p /\ p \in 0..MaxPanes
    BY DEF Panes
  <2>3. <<p>> \in Seq(Panes) /\ Range(<<p>>) = {p} /\ IsInjective(<<p>>)
    BY DEF Range, IsInjective
  <2> QED BY <2>1, <2>2, <2>3 DEF Layout
<1>8. ASSUME NEW p \in Panes, Split(p)
      PROVE  Layout'
  <2>1. /\ p = minted + 1
        /\ minted' = p
        /\ UNCHANGED <<moves, open, held, disturbed>>
    BY <1>8 DEF Split, Fresh
  <2>2. PICK i \in DOMAIN leaves :
          leaves' = SubSeq(leaves, 1, i) \o <<p>> \o SubSeq(leaves, i + 1, Len(leaves))
    BY <1>8 DEF Split
  <2>3. leaves \in Seq(Panes) /\ Len(leaves) \in Nat /\ i \in 1..Len(leaves)
    BY DEF Layout
  <2>4. /\ Len(leaves') = Len(leaves) + 1
        /\ \A j \in 1..Len(leaves') :
              leaves'[j] = IF j <= i THEN leaves[j] ELSE IF j = i + 1 THEN p ELSE leaves[j - 1]
    BY <2>2, <2>3, Inserted
  <2>5. leaves' \in Seq(Panes)
    BY <2>2, <2>3
  <2>6. \A j \in 1..Len(leaves) : leaves[j] \in 1..minted
    BY DEF Layout, Range
  <2>7. p \notin 1..minted /\ p \in 1..p /\ 1..minted \subseteq 1..p /\ p \in 0..MaxPanes
    BY <2>1 DEF Layout, Panes
  <2>8. \A j, k \in 1..Len(leaves) : leaves[j] = leaves[k] => j = k
    BY <2>3 DEF Layout, IsInjective
  <2>9. /\ \A j \in 1..Len(leaves') : leaves'[j] \in 1..p
        /\ \A j, k \in 1..Len(leaves') : leaves'[j] = leaves'[k] => j = k
    <3> DEFINE new == leaves'
               size == Len(leaves')
               n == Len(leaves)
    <3>1. /\ size = n + 1
          /\ \A j \in 1..size : new[j] = IF j <= i THEN leaves[j]
                                         ELSE IF j = i + 1 THEN p ELSE leaves[j - 1]
      BY <2>4
    <3>2. /\ n \in Nat /\ i \in 1..n
          /\ \A j \in 1..n : leaves[j] \in 1..minted
          /\ \A j, k \in 1..n : leaves[j] = leaves[k] => j = k
      BY <2>3, <2>6, <2>8
    <3>3. minted \in Nat /\ p = minted + 1
      BY <2>1 DEF Layout
    <3> HIDE DEF new, size, n
    <3>4. /\ \A j \in 1..size : new[j] \in 1..p
          /\ \A j, k \in 1..size : new[j] = new[k] => j = k
      BY <3>1, <3>2, <3>3, InsertedFresh
    <3> QED BY <3>4 DEF new, size
  <2>10. IsInjective(leaves')
    BY <2>5, <2>9 DEF IsInjective
  <2>11. Range(leaves') \subseteq 1..p
    BY <2>5, <2>9 DEF Range
  <2> QED BY <2>1, <2>5, <2>7, <2>10, <2>11 DEF Layout
<1>9. ASSUME NEW i \in DOMAIN leaves, MovePane(i)
      PROVE  Layout'
  <2>1. /\ leaves' = [j \in DOMAIN leaves |->
              IF j = 1 THEN leaves[i] ELSE IF j <= i THEN leaves[j - 1] ELSE leaves[j]]
        /\ moves' = moves + 1
        /\ disturbed' = TRUE
        /\ UNCHANGED <<minted, open, held>>
    BY <1>9 DEF MovePane
  <2>2. /\ leaves \in Seq(Panes) /\ Len(leaves) \in Nat
        /\ i \in 1..Len(leaves) /\ DOMAIN leaves = 1..Len(leaves)
    BY DEF Layout
  <2>3. \A j \in 1..Len(leaves) :
          leaves'[j] = IF j = 1 THEN leaves[i] ELSE IF j <= i THEN leaves[j - 1] ELSE leaves[j]
    BY <2>1, <2>2
  <2>4. \A j \in 1..Len(leaves) : leaves[j] \in Panes /\ leaves[j] \in 1..minted
    BY <2>2 DEF Layout, Range
  <2>5. \A j \in 1..Len(leaves) : leaves'[j] \in Panes /\ leaves'[j] \in 1..minted
    <3>1. \A j \in 1..Len(leaves) : j # 1 => j - 1 \in 1..Len(leaves)
      BY <2>2
    <3> QED BY <2>2, <2>3, <2>4, <3>1
  <2>6. DOMAIN leaves' = 1..Len(leaves)
    BY <2>1, <2>2
  <2>7. leaves' \in Seq(Panes)
    BY <2>1, <2>2, <2>5, <2>6
  <2>8. ASSUME NEW a \in 1..Len(leaves), NEW b \in 1..Len(leaves), leaves'[a] = leaves'[b]
        PROVE  a = b
    <3>1. \A j, k \in 1..Len(leaves) : leaves[j] = leaves[k] => j = k
      BY <2>2 DEF Layout, IsInjective
    <3>2. a \in Nat /\ b \in Nat /\ i \in Nat
      BY <2>2
    <3>3. CASE a = 1 /\ b # 1
      BY <2>2, <2>3, <2>8, <3>1, <3>2, <3>3
    <3>4. CASE a # 1 /\ b = 1
      BY <2>2, <2>3, <2>8, <3>1, <3>2, <3>4
    <3>5. CASE a # 1 /\ b # 1
      BY <2>2, <2>3, <2>8, <3>1, <3>2, <3>5
    <3> QED BY <3>3, <3>4, <3>5
  <2>9. IsInjective(leaves')
    BY <2>6, <2>8 DEF IsInjective
  <2>10. Range(leaves') \subseteq 1..minted
    BY <2>5, <2>6 DEF Range
  <2> QED BY <2>1, <2>7, <2>9, <2>10 DEF Layout
<1>10. ASSUME NEW i \in DOMAIN leaves, ClosePane(i)
       PROVE  Layout'
  <2>1. /\ leaves' = SubSeq(leaves, 1, i - 1) \o SubSeq(leaves, i + 1, Len(leaves))
        /\ disturbed' = (disturbed \/ i = 1)
        /\ UNCHANGED <<minted, moves, open, held>>
    BY <1>10 DEF ClosePane
  <2>2. leaves \in Seq(Panes) /\ Len(leaves) \in Nat /\ i \in 1..Len(leaves)
    BY DEF Layout
  <2>3. /\ leaves' \in Seq(Panes)
        /\ Len(leaves') = Len(leaves) - 1
        /\ \A j \in 1..Len(leaves') : leaves'[j] = IF j < i THEN leaves[j] ELSE leaves[j + 1]
    BY <2>1, <2>2, Removed
  <2>4. \A j \in 1..Len(leaves) : leaves[j] \in 1..minted
    BY <2>2 DEF Layout, Range
  <2>5. \A j \in 1..Len(leaves') : j \in 1..Len(leaves) /\ j + 1 \in 1..Len(leaves)
    BY <2>2, <2>3
  <2>6. \A j \in 1..Len(leaves') : leaves'[j] \in 1..minted
    BY <2>3, <2>4, <2>5
  <2>7. ASSUME NEW a \in 1..Len(leaves'), NEW b \in 1..Len(leaves'), leaves'[a] = leaves'[b]
        PROVE  a = b
    <3>1. \A j, k \in 1..Len(leaves) : leaves[j] = leaves[k] => j = k
      BY <2>2 DEF Layout, IsInjective
    <3>2. a \in Nat /\ b \in Nat /\ i \in Nat
      BY <2>2
    <3> QED BY <2>3, <2>5, <2>7, <3>1, <3>2
  <2>8. IsInjective(leaves')
    BY <2>3, <2>7 DEF IsInjective
  <2>9. Range(leaves') \subseteq 1..minted
    BY <2>3, <2>6 DEF Range
  <2> QED BY <2>1, <2>3, <2>8, <2>9 DEF Layout
<1> QED BY <1>1, <1>3, <1>4, <1>5, <1>6, <1>7, <1>8, <1>9, <1>10 DEF Next, PaneRequest

-----------------------------------------------------------------------------
(* A step that changes one pane. *)
LEMMA OnePane ==
    ASSUME PanesOK, NEW p \in Panes, NEW b, NEW t, BellOK(b), TtyOK(t),
           bell' = [bell EXCEPT ![p] = b], tty' = [tty EXCEPT ![p] = t]
    PROVE  PanesOK'
<1>1. b \in Bells /\ t \in Ttys
  BY DEF BellOK, TtyOK
<1>2. bell' \in [Panes -> Bells] /\ tty' \in [Panes -> Ttys]
  BY <1>1 DEF PanesOK
<1>3. ASSUME NEW q \in Panes
      PROVE  BellOK(bell'[q]) /\ TtyOK(tty'[q])
  <2>1. CASE q = p
    BY <2>1 DEF PanesOK
  <2>2. CASE q # p
    BY <2>2 DEF PanesOK
  <2> QED BY <2>1, <2>2
<1>4. \A q \in Panes : BellOK(bell[q])' /\ TtyOK(tty[q])'
  BY <1>3 DEF BellOK, TtyOK, Lit, Injected, Dirty
<1> QED BY <1>2, <1>4 DEF PanesOK

LEMMA NoPane ==
    ASSUME PanesOK, UNCHANGED <<bell, tty>>
    PROVE  PanesOK'
BY DEF PanesOK, BellOK, TtyOK, Lit, Injected, Dirty

LEMMA OneBell ==
    ASSUME PanesOK, NEW p \in Panes, NEW b, BellOK(b),
           bell' = [bell EXCEPT ![p] = b], UNCHANGED tty
    PROVE  PanesOK'
<1>1. tty' = [tty EXCEPT ![p] = tty[p]]
  BY DEF PanesOK
<1> QED BY <1>1, OnePane DEF PanesOK

LEMMA OneTty ==
    ASSUME PanesOK, NEW p \in Panes, NEW t, TtyOK(t),
           tty' = [tty EXCEPT ![p] = t], UNCHANGED bell
    PROVE  PanesOK'
<1>1. bell' = [bell EXCEPT ![p] = bell[p]]
  BY DEF PanesOK
<1> QED BY <1>1, OnePane DEF PanesOK

(* The request of a client for an injection.                                *)
LEMMA Asked ==
    ASSUME PanesOK, NEW p \in Panes, NEW c, NEW r \in Nat,
           NEW res \in GatedInject(p, bell[p], tty[p], c, r, FALSE)
    PROVE  BellOK(res.bell) /\ TtyOK(res.tty) /\ res.bell.lamp = bell[p].lamp
<1> DEFINE b == bell[p]
           u == tty[p]
           no == FALSE
<1>1. BellOK(b) /\ TtyOK(u) /\ no \in BOOLEAN /\ res \in GatedInject(p, b, u, c, r, no)
  BY DEF PanesOK
<1>2. BellOK(res.bell) /\ TtyOK(res.tty) /\ res.bell.lamp = b.lamp
  <2> HIDE DEF b, u, no
  <2> QED BY <1>1, GatedKeeps
<1> QED BY <1>2

(* A stored letter lights the lamp of the first pane with its depth.        *)
LEMMA Stored ==
    ASSUME PanesOK, NEW panes, panes # <<>>, panes[1] \in Panes, NEW n \in Nat,
           OnMailStored(panes, n)
    PROVE  /\ PanesOK'
           /\ bell'[panes[1]].lamp # None
           /\ bell'[panes[1]].lamp.depth = n
           /\ \A q \in Panes \ {panes[1]} : bell'[q] = bell[q]
<1> DEFINE p == panes[1]
           r == bell[p].rev + 1
           b == Arm(bell[p], r, n, "armed")
<1>0. BellOK(bell[p]) /\ TtyOK(tty[p]) /\ bell[p] \in Bells /\ bell[p].rev \in Nat
  BY DEF PanesOK, Bells
<1>1. PICK res \in GatedInject(p, b, tty[p], Doorbell, r, FALSE) : Result(p, res)
  BY DEF OnMailStored
<1>2. r \in Nat /\ r > bell[p].rev /\ "armed" \in Wakes
  BY <1>0 DEF Wakes
<1>3. BellOK(b) /\ b.lamp # None /\ b.lamp.depth = n
  BY <1>0, <1>2, ArmKeeps, ArmLights
<1> HIDE DEF b, r
<1>4. BellOK(res.bell) /\ TtyOK(res.tty) /\ res.bell.lamp = b.lamp
  <2> DEFINE u == tty[p]
             no == FALSE
  <2>1. p \in Panes /\ TtyOK(u) /\ no \in BOOLEAN /\ BellOK(b) /\ r \in Nat
    BY <1>0, <1>2, <1>3
  <2>2. res \in GatedInject(p, b, u, Doorbell, r, no)
    OBVIOUS
  <2> HIDE DEF p, u, no
  <2>3. BellOK(res.bell) /\ TtyOK(res.tty) /\ res.bell.lamp = b.lamp
    BY <2>1, <2>2, GatedKeeps
  <2> QED BY <2>3
<1>5. bell' = [bell EXCEPT ![p] = res.bell] /\ tty' = [tty EXCEPT ![p] = res.tty]
  BY <1>1 DEF Result, Bell
<1>6. PanesOK'
  BY <1>4, <1>5, OnePane
<1>7. bell'[p] = res.bell /\ \A q \in Panes \ {p} : bell'[q] = bell[q]
  BY <1>5 DEF PanesOK
<1> QED BY <1>3, <1>4, <1>6, <1>7

(* A request about mail makes the lamp of the first pane tell the truth.    *)
LEMMA Refreshes ==
    ASSUME PanesOK, NEW n \in Nat, Refresh(n), leaves # <<>> => leaves[1] \in Panes
    PROVE  /\ PanesOK'
           /\ leaves # <<>> => IF n = 0 THEN bell'[leaves[1]].lamp = None
                               ELSE /\ bell'[leaves[1]].lamp # None
                                    /\ bell'[leaves[1]].lamp.depth = n
           /\ \A q \in Panes : leaves = <<>> \/ q # leaves[1] => bell'[q] = bell[q]
<1>1. CASE leaves = <<>>
  <2>1. UNCHANGED <<bell, tty>>
    BY <1>1 DEF Refresh
  <2> QED BY <1>1, <2>1, NoPane
<1>2. CASE leaves # <<>>
  <2> DEFINE p == leaves[1]
             b == [bell[p] EXCEPT !.nudge = None]
             c == Refreshed(b, n)
  <2>0. p \in Panes /\ BellOK(bell[p]) /\ bell[p] \in Bells
    BY <1>2 DEF PanesOK
  <2>1. BellOK(b) /\ b \in Bells /\ b.rev + 1 \in Nat /\ b.rev + 1 > b.rev
    BY <2>0 DEF BellOK, Bells, Injected
  <2>2. bell' = [bell EXCEPT ![p] = c] /\ UNCHANGED tty
    BY <1>2 DEF Refresh, Bell
  <2> HIDE DEF b
  <2>3. /\ BellOK(c)
        /\ IF n = 0 THEN c.lamp = None ELSE c.lamp # None /\ c.lamp.depth = n
    <3>1. CASE n = 0
      BY <2>1, <3>1, ClearKeeps, ClearDarkens DEF Refreshed
    <3>2. CASE n # 0
      BY <2>1, <3>2, ArmKeeps, ArmLights DEF Refreshed, Wakes
    <3> QED BY <3>1, <3>2
  <2>4. bell'[p] = c /\ \A q \in Panes \ {p} : bell'[q] = bell[q]
    BY <2>0, <2>2 DEF PanesOK
  <2>5. PanesOK'
    BY <2>0, <2>2, <2>3, OneBell
  <2> QED BY <1>2, <2>0, <2>3, <2>4, <2>5
<1> QED BY <1>1, <1>2

-----------------------------------------------------------------------------
(* Every bell and every line stays as it must be. *)
LEMMA PanesStep ==
    ASSUME Layout, PanesOK, [Next]_vars
    PROVE  PanesOK'
<1> USE DEF topology, mail
<1>0. /\ \A p \in Panes : BellOK(bell[p]) /\ TtyOK(tty[p]) /\ bell[p] \in Bells /\ tty[p] \in Ttys
      /\ leaves # <<>> => leaves[1] \in Panes
      /\ Range(leaves) \subseteq Panes
      /\ open \in Nat /\ held \in Nat
  BY DEF PanesOK, Layout, Range
<1>1. CASE UNCHANGED vars
  BY <1>1, NoPane DEF vars
<1>2. CASE MailSend
  <2>1. open + 1 \in Nat /\ open' = open + 1 /\ OnMailStored(leaves, open')
    BY <1>0, <1>2 DEF MailSend
  <2>2. CASE leaves = <<>>
    BY <2>1, <2>2, NoPane DEF OnMailStored
  <2>3. CASE leaves # <<>>
    BY <1>0, <2>1, <2>3, Stored
  <2> QED BY <2>2, <2>3
<1>3. CASE MailClaim
  BY <1>0, <1>3, Refreshes DEF MailClaim
<1>4. CASE MailCommit
  BY <1>0, <1>4, Refreshes DEF MailCommit
<1>5. CASE MailRelease
  <2>1. \A h \in 0..held : open + held - h \in Nat
    BY <1>0
  <2>2. open' \in Nat /\ Refresh(open')
    BY <1>5, <2>1 DEF MailRelease
  <2> QED BY <1>0, <2>2, Refreshes
<1>6. CASE MailInbox
  <2> DEFINE p == leaves[1]
             b == [bell[p] EXCEPT !.nudge = None, !.peeked = (@ \/ bell[p].rings = 0)]
  <2>1. p \in Panes /\ bell' = [bell EXCEPT ![p] = b] /\ UNCHANGED tty
    BY <1>0, <1>6 DEF MailInbox, Bell
  <2>2. BellOK(bell[p]) /\ bell[p] \in Bells
    BY <1>0, <2>1
  <2>3. (bell[p].peeked \/ bell[p].rings = 0) \in BOOLEAN
    BY <2>2 DEF Bells
  <2>4. BellOK(b)
    BY <2>2, <2>3 DEF BellOK, Bells, Injected
  <2> QED BY <2>1, <2>4, OneBell
<1>7. ASSUME NEW p \in Panes, NEW r \in Nat, MailAttentionClear(p, r)
      PROVE  PanesOK'
  BY <1>0, <1>7, ClearKeeps, OneBell DEF MailAttentionClear, Bell
<1>8. ASSUME NEW p \in Panes, NEW r \in Nat, NEW wake \in Wakes, MailAttentionSet(p, r, wake)
      PROVE  PanesOK'
  BY <1>0, <1>8, ArmKeeps, OneBell DEF MailAttentionSet, Bell
<1>9. ASSUME NEW c, NEW p \in Panes, NEW r \in Nat, InjectMail(c, p, r)
      PROVE  PanesOK'
  <2>1. PICK res \in GatedInject(p, bell[p], tty[p], c, r, FALSE) : Result(p, res)
    BY <1>9 DEF InjectMail
  <2>2. BellOK(res.bell) /\ TtyOK(res.tty)
    BY <2>1, Asked
  <2> QED BY <2>1, <2>2, OnePane DEF Result, Bell
<1>10. ASSUME NEW p \in Panes, HiveDrain(p)
       PROVE  PanesOK'
  <2>1. bell[p].lamp.rev + 1 \in Nat
    BY <1>0, <1>10 DEF HiveDrain, Bells, Lamps
  <2> QED BY <1>7, <1>10, <2>1 DEF HiveDrain
<1>11. ASSUME NEW p \in Panes, RetryMailNudges(p)
       PROVE  PanesOK'
  <2>1. PICK res \in Retried(p, bell[p], tty[p]) : Result(p, res)
    BY <1>11 DEF RetryMailNudges
  <2>2. BellOK(res.bell) /\ TtyOK(res.tty)
    BY <1>0, <1>11, <2>1, RetriedKeeps DEF RetryMailNudges
  <2> QED BY <2>1, <2>2, OnePane DEF Result, Bell
<1>12. ASSUME NEW c \in Clients, NEW p \in Panes, NEW submits \in BOOLEAN, WritePane(c, p, submits)
       PROVE  PanesOK'
  BY <1>0, <1>12, ClientTyped, OneTty DEF WritePane, OnInput, Tty
<1>13. ASSUME NEW c \in Clients, NEW p \in Panes, NEW auto \in BOOLEAN, NEW submits \in BOOLEAN,
              PaneWrite(c, p, auto, submits)
       PROVE  PanesOK'
  <2> DEFINE n == IF auto THEN 2 ELSE 1
  <2>1. PICK k \in Accepted(tty[p], n) \ {0} :
          Tty(p, LedgerOf(Typed(tty[p], c, k, n, submits), k, n, submits))
    BY <1>13 DEF PaneWrite
  <2>2. k \in Nat /\ n \in Nat
    BY DEF Accepted
  <2>3. ~Dirty(tty[p]) /\ UNCHANGED bell
    BY <1>13 DEF PaneWrite, OnInput
  <2> HIDE DEF n
  <2> QED BY <1>0, <2>1, <2>2, <2>3, ClientTyped, OneTty DEF Tty
<1>14. ASSUME NEW c \in Clients, NEW p \in Panes, TakeLease(c, p) \/ ReleaseLease(c, p)
       PROVE  PanesOK'
  <2>1. PICK l \in Clients \cup {None} : tty' = [tty EXCEPT ![p] = [tty[p] EXCEPT !.lease = l]]
    BY <1>14 DEF TakeLease, ReleaseLease, Tty
  <2>2. TtyOK([tty[p] EXCEPT !.lease = l])
    BY <1>0 DEF TtyOK, Ttys, Dirty
  <2> QED BY <1>14, <2>1, <2>2, OneTty DEF TakeLease, ReleaseLease, OnInput
<1>15. ASSUME NEW p \in Panes, CreateSession(p)
       PROVE  PanesOK'
  <2>1. CASE open = 0
    BY <1>15, <2>1, NoPane DEF CreateSession
  <2>2. CASE open # 0
    <3>1. leaves' = <<p>> /\ OnMailStored(leaves', open)
      BY <1>15, <2>2 DEF CreateSession
    <3>2. <<p>> # <<>> /\ <<p>>[1] \in Panes
      OBVIOUS
    <3> QED BY <1>0, <3>1, <3>2, Stored
  <2> QED BY <2>1, <2>2
<1>16. ASSUME NEW p \in Panes, Split(p)
       PROVE  PanesOK'
  BY <1>16, NoPane DEF Split
<1>17. ASSUME NEW i, MovePane(i)
       PROVE  PanesOK'
  BY <1>17, NoPane DEF MovePane
<1>18. ASSUME NEW i \in DOMAIN leaves, ClosePane(i)
       PROVE  PanesOK'
  <2>1. leaves[i] \in Panes
    BY <1>0 DEF Range
  <2>2. BellOK(NewBell)
    BY DEF NewBell, BellOK, Bells, Lit, Injected
  <2>3. TtyOK(NewTty)
    BY DoorbellAssumption DEF NewTty, TtyOK, Ttys
  <2> QED BY <1>18, <2>1, <2>2, <2>3, OnePane DEF ClosePane, Bell, Tty
<1>19. ASSUME NEW p \in Panes, Output(p)
       PROVE  PanesOK'
  <2>1. BellOK([bell[p] EXCEPT !.hidden = FALSE])
    BY <1>0 DEF BellOK, Bells, Lit, Injected
  <2>2. TtyOK([tty[p] EXCEPT !.recent = TRUE])
    BY <1>0 DEF TtyOK, Ttys, Dirty
  <2> QED BY <1>19, <2>1, <2>2, OnePane DEF Output, Bell, Tty
<1>20. ASSUME NEW p \in Panes, Silence(p)
       PROVE  PanesOK'
  <2>1. TtyOK([tty[p] EXCEPT !.recent = FALSE, !.author = None])
    BY <1>0 DEF TtyOK, Ttys
  <2> QED BY <1>20, <2>1, OneTty DEF Silence, Tty
<1>21. ASSUME NEW p \in Panes, HideEnds(p)
       PROVE  PanesOK'
  <2>1. BellOK([bell[p] EXCEPT !.hidden = FALSE])
    BY <1>0 DEF BellOK, Bells, Lit, Injected
  <2> QED BY <1>21, <2>1, OneBell DEF HideEnds, Bell
<1>22. ASSUME NEW p \in Panes, WriterThread(p)
       PROVE  PanesOK'
  <2>1. TtyOK([tty[p] EXCEPT !.room = QueueSize])
    BY <1>0, DoorbellAssumption DEF TtyOK, Ttys, Dirty
  <2> QED BY <1>22, <2>1, OneTty DEF WriterThread, Tty
<1>23. ASSUME NEW p \in Panes, Foreground(p)
       PROVE  PanesOK'
  <2>1. TtyOK([tty[p] EXCEPT !.front = ~@])
    BY <1>0 DEF TtyOK, Ttys, Dirty
  <2> QED BY <1>23, <2>1, OneTty DEF Foreground, Tty
<1>24. CASE MailRequest
  <2>1. \A r \in 1..MaxRev : r \in Nat
    BY DoorbellAssumption
  <2> QED BY <1>2, <1>3, <1>4, <1>5, <1>6, <1>7, <1>8, <1>9, <1>10, <1>24, <2>1 DEF MailRequest
<1>25. CASE InputRequest
  BY <1>12, <1>13, <1>14, <1>25 DEF InputRequest
<1>26. CASE PaneRequest
  BY <1>15, <1>16, <1>17, <1>18, <1>26 DEF PaneRequest
<1>27. CASE Environment
  BY <1>19, <1>20, <1>21, <1>22, <1>23, <1>27 DEF Environment
<1> QED BY <1>1, <1>11, <1>24, <1>25, <1>26, <1>27 DEF Next

-----------------------------------------------------------------------------
(* The lamp. *)

LEMMA LampKept ==
    ASSUME LampTellsMail,
           leaves' # <<>> => leaves # <<>> /\ leaves'[1] = leaves[1],
           open' = open,
           disturbed => disturbed',
           leaves # <<>> /\ ~disturbed' => bell'[leaves[1]].lamp = bell[leaves[1]].lamp
    PROVE  LampTellsMail'
BY DEF LampTellsMail

LEMMA FreshKept ==
    ASSUME FreshDark, minted \in Nat, minted' \in Nat, minted <= minted',
           \A p \in Panes : p > minted' => bell'[p].lamp \in {bell[p].lamp, None}
    PROVE  FreshDark'
<1>1. ASSUME NEW p \in Panes, p > minted'
      PROVE  bell'[p].lamp = None
  <2>1. p > minted
    BY <1>1 DEF Panes
  <2> QED BY <1>1, <2>1 DEF FreshDark
<1> QED BY <1>1 DEF FreshDark

(* From one request about mail on the lamp tells how many letters are open. *)
LEMMA LampStep ==
    ASSUME Layout, Layout', PanesOK, FreshDark, LampTellsMail, [Next]_vars
    PROVE  FreshDark' /\ LampTellsMail'
<1> USE DEF topology, mail
<1>0. /\ minted \in Nat /\ minted' \in Nat /\ open \in Nat /\ held \in Nat
      /\ leaves # <<>> => leaves[1] \in Panes /\ leaves[1] <= minted
      /\ \A p \in Range(leaves) : p \in Panes /\ p <= minted
      /\ bell \in [Panes -> Bells] /\ tty \in [Panes -> Ttys]
      /\ \A p \in Panes : BellOK(bell[p]) /\ TtyOK(tty[p])
  <2>1. minted \in Nat /\ minted' \in Nat /\ open \in Nat /\ held \in Nat
    BY DEF Layout
  <2>2. leaves \in Seq(Panes) /\ Range(leaves) \subseteq 1..minted
    BY DEF Layout
  <2>3. \A i \in 1..Len(leaves) : leaves[i] \in Panes /\ leaves[i] \in Range(leaves)
    BY <2>2 DEF Range
  <2>4. \A p \in Range(leaves) : p \in Panes /\ p <= minted
    BY <2>1, <2>2 DEF Range
  <2>5. leaves # <<>> => 1 \in 1..Len(leaves)
    BY <2>2
  <2> QED BY <2>1, <2>3, <2>4, <2>5 DEF PanesOK
<1>1. ASSUME UNCHANGED <<leaves, minted, open>>, disturbed => disturbed',
             \A p \in Panes : bell'[p].lamp = bell[p].lamp
      PROVE  FreshDark' /\ LampTellsMail'
  <2>1. FreshDark'
    BY <1>0, <1>1, FreshKept
  <2>2. LampTellsMail'
    BY <1>0, <1>1, LampKept
  <2> QED BY <2>1, <2>2
<1>2. ASSUME NEW p \in Panes, NEW b, bell' = [bell EXCEPT ![p] = b]
      PROVE  bell'[p] = b /\ \A q \in Panes \ {p} : bell'[q] = bell[q]
  BY <1>0, <1>2
<1>3. CASE UNCHANGED vars
  BY <1>1, <1>3 DEF vars
<1>4. CASE MailSend
  <2>1. /\ open' = open + 1
        /\ OnMailStored(leaves, open')
        /\ UNCHANGED <<leaves, minted>>
    BY <1>4 DEF MailSend
  <2>2. open' \in Nat /\ open' # 0
    BY <1>0, <2>1
  <2>3. CASE leaves = <<>>
    <3>1. UNCHANGED bell
      BY <2>1, <2>3 DEF OnMailStored
    <3> QED BY <1>0, <2>1, <2>3, <3>1, FreshKept DEF LampTellsMail
  <2>4. CASE leaves # <<>>
    <3>1. /\ bell'[leaves[1]].lamp # None
          /\ bell'[leaves[1]].lamp.depth = open'
          /\ \A q \in Panes \ {leaves[1]} : bell'[q] = bell[q]
      BY <1>0, <2>1, <2>2, <2>4, Stored
    <3>2. LampTellsMail'
      BY <2>1, <2>2, <3>1 DEF LampTellsMail
    <3>3. \A p \in Panes : p > minted' => p # leaves[1]
      BY <1>0, <2>1, <2>4 DEF Panes
    <3>4. FreshDark'
      BY <1>0, <2>1, <3>1, <3>3, FreshKept
    <3> QED BY <3>2, <3>4
  <2> QED BY <2>3, <2>4
<1>5. ASSUME Refresh(open'), open' \in Nat
      PROVE  FreshDark' /\ LampTellsMail'
  <2>1. UNCHANGED <<leaves, minted>>
    BY <1>5 DEF Refresh
  <2>2. /\ leaves # <<>> => IF open' = 0 THEN bell'[leaves[1]].lamp = None
                            ELSE /\ bell'[leaves[1]].lamp # None
                                 /\ bell'[leaves[1]].lamp.depth = open'
        /\ \A q \in Panes : leaves = <<>> \/ q # leaves[1] => bell'[q] = bell[q]
    BY <1>0, <1>5, Refreshes
  <2>3. LampTellsMail'
    BY <2>1, <2>2 DEF LampTellsMail
  <2>4. \A p \in Panes : p > minted' => leaves = <<>> \/ p # leaves[1]
    BY <1>0, <2>1 DEF Panes
  <2>5. FreshDark'
    BY <1>0, <2>1, <2>2, <2>4, FreshKept
  <2> QED BY <2>3, <2>5
<1>6. CASE MailClaim
  BY <1>0, <1>5, <1>6 DEF MailClaim
<1>7. CASE MailCommit
  BY <1>0, <1>5, <1>7 DEF MailCommit
<1>8. CASE MailRelease
  <2>1. open' \in Nat
    BY DEF Layout
  <2> QED BY <1>5, <1>8, <2>1 DEF MailRelease
<1>9. CASE MailInbox
  <2>1. bell' = [bell EXCEPT ![leaves[1]] =
            [bell[leaves[1]] EXCEPT !.nudge = None, !.peeked = (@ \/ bell[leaves[1]].rings = 0)]]
    BY <1>9 DEF MailInbox, Bell
  <2>2. leaves[1] \in Panes
    BY <1>0, <1>9 DEF MailInbox
  <2>3. \A p \in Panes : bell'[p].lamp = bell[p].lamp
    BY <1>0, <2>1, <2>2 DEF Bells
  <2> QED BY <1>1, <1>9, <2>3 DEF MailInbox
<1>10. ASSUME NEW p \in Range(leaves), NEW b, Bell(p, b), Disturbs(p), UNCHANGED <<topology, mail>>
       PROVE  FreshDark' /\ LampTellsMail'
  <2>1. p \in Panes /\ bell' = [bell EXCEPT ![p] = b]
    BY <1>0, <1>10 DEF Bell
  <2>2. \A q \in Panes \ {p} : bell'[q] = bell[q]
    BY <1>2, <2>1
  <2>3. (disturbed => disturbed') /\ (~disturbed' => leaves[1] # p)
    BY <1>10 DEF Disturbs
  <2>4. LampTellsMail'
    BY <1>0, <1>10, <2>2, <2>3, LampKept
  <2>5. \A q \in Panes : q > minted' => q # p
    BY <1>0, <1>10 DEF Panes
  <2>6. FreshDark'
    BY <1>0, <1>10, <2>2, <2>5, FreshKept
  <2> QED BY <2>4, <2>6
<1>11. ASSUME NEW p \in Panes, NEW r, MailAttentionClear(p, r)
       PROVE  FreshDark' /\ LampTellsMail'
  BY <1>10, <1>11 DEF MailAttentionClear
<1>12. ASSUME NEW p \in Panes, NEW r, NEW wake, MailAttentionSet(p, r, wake)
       PROVE  FreshDark' /\ LampTellsMail'
  BY <1>10, <1>12 DEF MailAttentionSet
<1>13. ASSUME NEW p \in Panes, HiveDrain(p)
       PROVE  FreshDark' /\ LampTellsMail'
  BY <1>11, <1>13 DEF HiveDrain
<1>14. ASSUME NEW c, NEW p \in Panes, NEW r \in Nat, InjectMail(c, p, r)
       PROVE  FreshDark' /\ LampTellsMail'
  <2>1. PICK res \in GatedInject(p, bell[p], tty[p], c, r, FALSE) : Result(p, res)
    BY <1>14 DEF InjectMail
  <2>2. res.bell.lamp = bell[p].lamp
    BY <2>1, Asked
  <2>3. \A q \in Panes : bell'[q].lamp = bell[q].lamp
    BY <1>2, <2>1, <2>2 DEF Result, Bell
  <2> QED BY <1>1, <1>14, <2>3 DEF InjectMail
<1>15. ASSUME NEW p \in Panes, RetryMailNudges(p)
       PROVE  FreshDark' /\ LampTellsMail'
  <2>1. PICK res \in Retried(p, bell[p], tty[p]) : Result(p, res)
    BY <1>15 DEF RetryMailNudges
  <2>2. res.bell.lamp = bell[p].lamp
    BY <1>0, <1>15, <2>1, RetriedKeeps DEF RetryMailNudges
  <2>3. \A q \in Panes : bell'[q].lamp = bell[q].lamp
    BY <1>2, <2>1, <2>2 DEF Result, Bell
  <2> QED BY <1>1, <1>15, <2>3 DEF RetryMailNudges
<1>16. CASE InputRequest
  <2>1. PICK c \in Clients, p \in Panes : OnInput(c, p)
    BY <1>16 DEF InputRequest, WritePane, PaneWrite, TakeLease, ReleaseLease
  <2> QED BY <1>1, <2>1 DEF OnInput
<1>17. ASSUME NEW p \in Panes, CreateSession(p)
       PROVE  FreshDark' /\ LampTellsMail'
  <2>1. leaves' = <<p>> /\ p = minted + 1 /\ minted' = p /\ UNCHANGED open
    BY <1>17 DEF CreateSession, Fresh
  <2>2. leaves'[1] = p /\ leaves' # <<>>
    BY <2>1
  <2>3. p > minted /\ minted <= minted'
    BY <1>0, <2>1
  <2>4. CASE open = 0
    <3>1. UNCHANGED bell
      BY <1>17, <2>4 DEF CreateSession
    <3>2. bell[p].lamp = None
      BY <2>3 DEF FreshDark
    <3>3. LampTellsMail'
      BY <2>1, <2>2, <2>4, <3>1, <3>2 DEF LampTellsMail
    <3>4. FreshDark'
      BY <1>0, <2>3, <3>1, FreshKept
    <3> QED BY <3>3, <3>4
  <2>5. CASE open # 0
    <3>1. OnMailStored(leaves', open)
      BY <1>17, <2>5 DEF CreateSession
    <3>2. /\ bell'[p].lamp # None
          /\ bell'[p].lamp.depth = open
          /\ \A q \in Panes \ {p} : bell'[q] = bell[q]
      BY <1>0, <2>2, <3>1, Stored
    <3>3. LampTellsMail'
      BY <2>1, <2>2, <2>5, <3>2 DEF LampTellsMail
    <3>4. \A q \in Panes : q > minted' => q # p
      BY <1>0, <2>1 DEF Panes
    <3>5. FreshDark'
      BY <1>0, <2>3, <3>2, <3>4, FreshKept
    <3> QED BY <3>3, <3>5
  <2> QED BY <2>4, <2>5
<1>18. ASSUME NEW p \in Panes, Split(p)
       PROVE  FreshDark' /\ LampTellsMail'
  <2>1. /\ leaves # <<>>
        /\ minted' = minted + 1
        /\ UNCHANGED <<open, bell, disturbed>>
    BY <1>18 DEF Split, Fresh
  <2>2. PICK i \in DOMAIN leaves :
          leaves' = SubSeq(leaves, 1, i) \o <<p>> \o SubSeq(leaves, i + 1, Len(leaves))
    BY <1>18 DEF Split
  <2>3. leaves \in Seq(Panes) /\ Len(leaves) \in Nat /\ i \in 1..Len(leaves)
    BY DEF Layout
  <2>4. /\ Len(leaves') = Len(leaves) + 1
        /\ \A j \in 1..Len(leaves') :
              leaves'[j] = IF j <= i THEN leaves[j] ELSE IF j = i + 1 THEN p ELSE leaves[j - 1]
    BY <2>2, <2>3, Inserted
  <2>5. leaves'[1] = leaves[1]
    BY <2>3, <2>4
  <2>6. LampTellsMail'
    BY <2>1, <2>5, LampKept
  <2>7. FreshDark'
    BY <1>0, <2>1, FreshKept
  <2> QED BY <2>6, <2>7
<1>19. ASSUME NEW i, MovePane(i)
       PROVE  FreshDark' /\ LampTellsMail'
  <2>1. disturbed' /\ UNCHANGED <<minted, bell>>
    BY <1>19 DEF MovePane
  <2>2. FreshDark'
    BY <1>0, <2>1, FreshKept
  <2> QED BY <2>1, <2>2 DEF LampTellsMail
<1>20. ASSUME NEW i \in DOMAIN leaves, ClosePane(i)
       PROVE  FreshDark' /\ LampTellsMail'
  <2>1. /\ leaves' = SubSeq(leaves, 1, i - 1) \o SubSeq(leaves, i + 1, Len(leaves))
        /\ disturbed' = (disturbed \/ i = 1)
        /\ bell' = [bell EXCEPT ![leaves[i]] = NewBell]
        /\ UNCHANGED <<minted, open>>
    BY <1>20 DEF ClosePane, Bell
  <2>2. leaves \in Seq(Panes) /\ Len(leaves) \in Nat /\ i \in 1..Len(leaves)
    BY DEF Layout
  <2>3. /\ leaves' \in Seq(Panes)
        /\ Len(leaves') = Len(leaves) - 1
        /\ \A j \in 1..Len(leaves') : leaves'[j] = IF j < i THEN leaves[j] ELSE leaves[j + 1]
    BY <2>1, <2>2, Removed
  <2>4. leaves[i] \in Panes
    BY <2>2
  <2>5. /\ bell'[leaves[i]] = NewBell
        /\ \A q \in Panes \ {leaves[i]} : bell'[q] = bell[q]
    BY <1>2, <2>1, <2>4
  <2>6. FreshDark'
    BY <1>0, <2>1, <2>5, FreshKept DEF NewBell
  <2>7. ASSUME ~disturbed', leaves' # <<>>
        PROVE  leaves # <<>> /\ leaves'[1] = leaves[1] /\ leaves[1] # leaves[i]
    <3>0. i # 1
      BY <2>1, <2>7
    <3>1. i # 1 /\ 1 \in 1..Len(leaves')
      BY <2>2, <2>3, <2>7, <3>0
    <3>2. leaves'[1] = leaves[1] /\ 1 \in 1..Len(leaves)
      BY <2>2, <2>3, <3>1
    <3>3. leaves[1] # leaves[i]
      BY <2>2, <3>1, <3>2 DEF Layout, IsInjective
    <3> QED BY <2>2, <3>2, <3>3
  <2>8. LampTellsMail'
    <3> SUFFICES ASSUME leaves' # <<>>, ~disturbed' PROVE LampTellsMail'
      BY DEF LampTellsMail
    <3>1. bell'[leaves[1]] = bell[leaves[1]] /\ leaves'[1] = leaves[1] /\ leaves # <<>>
      BY <1>0, <2>5, <2>7
    <3>2. disturbed => disturbed'
      BY <2>1
    <3> QED BY <2>1, <3>1, <3>2, LampKept
  <2> QED BY <2>6, <2>8
<1>21. ASSUME NEW p \in Panes, OnPane(p),
              \A q \in Panes : bell'[q].lamp = bell[q].lamp
       PROVE  FreshDark' /\ LampTellsMail'
  BY <1>1, <1>21 DEF OnPane
<1>22. ASSUME NEW p \in Panes, Output(p) \/ HideEnds(p)
       PROVE  FreshDark' /\ LampTellsMail'
  <2>1. bell' = [bell EXCEPT ![p] = [bell[p] EXCEPT !.hidden = FALSE]] /\ OnPane(p)
    BY <1>22 DEF Output, HideEnds, Bell
  <2>2. \A q \in Panes : bell'[q].lamp = bell[q].lamp
    BY <1>0, <2>1 DEF Bells
  <2> QED BY <1>21, <2>1, <2>2
<1>23. ASSUME NEW p \in Panes, Silence(p) \/ WriterThread(p) \/ Foreground(p)
       PROVE  FreshDark' /\ LampTellsMail'
  BY <1>21, <1>23 DEF Silence, WriterThread, Foreground
<1>24. CASE MailRequest
  <2>1. \A r \in 1..MaxRev : r \in Nat
    BY DoorbellAssumption
  <2> QED BY <1>4, <1>6, <1>7, <1>8, <1>9, <1>11, <1>12, <1>13, <1>14, <1>24, <2>1 DEF MailRequest
<1>25. CASE PaneRequest
  BY <1>17, <1>18, <1>19, <1>20, <1>25 DEF PaneRequest
<1>26. CASE Environment
  BY <1>22, <1>23, <1>26 DEF Environment
<1> QED BY <1>3, <1>15, <1>16, <1>24, <1>25, <1>26 DEF Next

-----------------------------------------------------------------------------
(* A letter that waits keeps its nudge. *)

LEMMA ArmNudges ==
    ASSUME NEW b \in Bells, NEW r \in Nat, NEW depth \in Nat, NEW wake \in Wakes,
           BellKept(b) \/ (wake # "armed" /\ r > b.rev)
    PROVE  BellKept(Arm(b, r, depth, wake))
<1> DEFINE c == Arm(b, r, depth, wake)
<1>1. CASE r <= b.rev
  BY <1>1 DEF Arm, Bells
<1>2. CASE ~(r <= b.rev)
  <2>1. /\ c.lamp.wake = wake
        /\ wake = "armed" => c.nudge = [rev |-> r, verification |-> FALSE]
    BY <1>2 DEF Arm, Bells
  <2>2. [rev |-> r, verification |-> FALSE] \in Nudges
    BY DEF Nudges
  <2>3. [rev |-> r, verification |-> FALSE] # None
    BY <2>2, DoorbellAssumption
  <2> QED BY <2>1, <2>3 DEF BellKept, Pending
<1> QED BY <1>1, <1>2

LEMMA ClearNudges ==
    ASSUME NEW b \in Bells, NEW r \in Nat, BellKept(b) \/ r > b.rev
    PROVE  BellKept(Clear(b, r))
<1>1. CASE r <= b.rev
  BY <1>1 DEF Clear, Bells
<1>2. CASE ~(r <= b.rev)
  BY <1>2 DEF Clear, Bells, BellKept, Pending
<1> QED BY <1>1, <1>2

(* A ring is heard: the letter waits no more. *)
LEMMA RungEnds ==
    ASSUME NEW b \in Bells, NEW t, NEW n, NEW r, NEW bumped
    PROVE  ~Pending(Rung(b, t, n, r, bumped).bell)
<1>1. b.rings \in Nat
  BY DEF Bells
<1>2. Rung(b, t, n, r, bumped).bell.rings = b.rings + 1
  BY DEF Rung, Bells
<1> QED BY <1>1, <1>2 DEF Pending

(* No gate skips a letter that waits. *)
LEMMA PendingGated ==
    ASSUME NEW p \in Panes, NEW b, BellOK(b), Pending(b), NEW t, NEW by, NEW r, Lit(b, r),
           NEW v, NEW res \in GatedInject(p, b, t, by, r, v)
    PROVE  \/ res.bell = b /\ res.outcome \in {"defer", "error"}
           \/ ~Pending(res.bell)
<1>0. b \in Bells /\ b.lamp.wake = "armed" /\ ~Injected(b, r) /\ Chunks[p] \in Nat
  BY DoorbellAssumption DEF BellOK, Pending, Lit
<1>1. PICK busy \in Busy(t) :
        res \in (LET gate == Gate(b, t, by, r, v, busy)
                 IN IF gate = "open" THEN Inject(b, t, Chunks[p], r) ELSE {Same(b, t, gate)})
  BY Zenon DEF GatedInject
<1>2. Gate(b, t, by, r, v, busy) \in {"defer", "open"}
  BY <1>0 DEF Gate
<1>3. CASE Gate(b, t, by, r, v, busy) = "defer"
  BY <1>1, <1>3 DEF Same
<1>4. CASE Gate(b, t, by, r, v, busy) = "open"
  <2>1. res \in Inject(b, t, Chunks[p], r)
    BY <1>1, <1>4
  <2>2. \/ \E bumped \in BOOLEAN : res = Rung(b, t, Chunks[p], r, bumped)
        \/ \E k \in Nat : res = Broken(b, t, Chunks[p], k)
    BY <1>0, <2>1, InjectCases
  <2>3. ASSUME NEW bumped \in BOOLEAN, res = Rung(b, t, Chunks[p], r, bumped)
        PROVE  ~Pending(res.bell)
    BY <1>0, <2>3, RungEnds
  <2>4. ASSUME NEW k \in Nat, res = Broken(b, t, Chunks[p], k)
        PROVE  res.bell = b /\ res.outcome = "error"
    BY <2>4 DEF Broken, Same
  <2> QED BY <2>2, <2>3, <2>4
<1> QED BY <1>2, <1>3, <1>4

LEMMA GatedBell ==
    ASSUME NEW p \in Panes, NEW b \in Bells, NEW t, NEW by, NEW r, NEW v,
           NEW res \in GatedInject(p, b, t, by, r, v)
    PROVE  res.bell = b \/ ~Pending(res.bell)
<1>0. Chunks[p] \in Nat
  BY DoorbellAssumption
<1>1. CASE res \in Inject(b, t, Chunks[p], r)
  <2>1. \/ \E bumped \in BOOLEAN : res = Rung(b, t, Chunks[p], r, bumped)
        \/ \E k \in Nat : res = Broken(b, t, Chunks[p], k)
    BY <1>0, <1>1, InjectCases
  <2>2. ASSUME NEW bumped \in BOOLEAN, res = Rung(b, t, Chunks[p], r, bumped)
        PROVE  ~Pending(res.bell)
    BY <2>2, RungEnds
  <2>3. ASSUME NEW k \in Nat, res = Broken(b, t, Chunks[p], k)
        PROVE  res.bell = b
    BY <2>3 DEF Broken, Same
  <2> QED BY <2>1, <2>2, <2>3
<1> QED BY <1>1, GatedCases

(* A retry that did not ring puts the nudge back. *)
LEMMA RetriedNudges ==
    ASSUME NEW p \in Panes, NEW b, BellOK(b), b.nudge # None, NEW t, TtyOK(t),
           NEW res \in Retried(p, b, t)
    PROVE  BellKept(res.bell)
<1> DEFINE nudge == b.nudge
           rest == [b EXCEPT !.nudge = None]
           armed(c) == Lit(c, nudge.rev) /\ c.lamp.wake = "armed"
           again(x) == x.outcome \in {"defer", "error"}
                        \/ (x.outcome = "hide" /\ nudge.verification)
<1>0. /\ b \in Bells /\ rest \in Bells
      /\ Lit(rest, nudge.rev) /\ BellOK(rest)
      /\ nudge.rev \in Nat /\ nudge.verification \in BOOLEAN
  BY DEF BellOK, Bells, Lit, Injected, Nudges
<1>1. CASE ~armed(rest)
  <2>1. res = Same(rest, t, "skip")
    BY <1>1 DEF Retried
  <2> QED BY <1>0, <1>1, <2>1 DEF Same, BellKept, Pending
<1>2. CASE armed(rest)
  <2>1. PICK one \in GatedInject(p, rest, t, Doorbell, nudge.rev, nudge.verification) :
          res = IF again(one) /\ armed(one.bell) THEN [one EXCEPT !.bell.nudge = nudge] ELSE one
    BY <1>2, Zenon DEF Retried
  <2>2. /\ one.bell = rest \/ ~Pending(one.bell)
        /\ Pending(rest) => one.outcome \in {"defer", "error"} \/ ~Pending(one.bell)
        /\ one.bell \in Bells
    <3>1. one \in GatedInject(p, rest, t, Doorbell, nudge.rev, nudge.verification)
      OBVIOUS
    <3> HIDE DEF rest, nudge
    <3>2. one.bell \in Bells
      BY <1>0, <3>1, GatedKeeps DEF BellOK
    <3> QED BY <1>0, <3>1, <3>2, PendingGated, GatedBell
  <2>3. CASE again(one) /\ armed(one.bell)
    <3>1. res = [one EXCEPT !.bell.nudge = nudge]
      BY <2>1, <2>3
    <3>2. res.bell.nudge = nudge
      BY <2>2, <3>1 DEF Bells
    <3> QED BY <3>2 DEF BellKept
  <2>4. CASE ~(again(one) /\ armed(one.bell))
    <3>1. res = one
      BY <2>1, <2>4
    <3>2. ~Pending(one.bell)
      BY <1>2, <2>2, <2>4
    <3> QED BY <3>1, <3>2 DEF BellKept
  <2> QED BY <2>3, <2>4
<1> QED BY <1>1, <1>2

LEMMA KeptStep ==
    ASSUME Layout, PanesOK, NudgesKept, [Next]_vars
    PROVE  NudgesKept'
<1> USE DEF topology, mail
<1>0. /\ \A p \in Panes : /\ BellOK(bell[p]) /\ TtyOK(tty[p]) /\ bell[p] \in Bells
                          /\ BellKept(bell[p]) /\ bell[p].rev \in Nat
      /\ leaves # <<>> => leaves[1] \in Panes
      /\ open \in Nat /\ held \in Nat
  BY DEF PanesOK, Layout, Range, NudgesKept, Bells
<1>1. ASSUME NEW p \in Panes, NEW b, BellKept(b), Bell(p, b)
      PROVE  NudgesKept'
  <2>1. ASSUME NEW q \in Panes PROVE BellKept(bell'[q])
    BY <1>0, <1>1 DEF Bell, PanesOK
  <2> QED BY <2>1 DEF NudgesKept, BellKept, Pending
<1>2. ASSUME UNCHANGED bell PROVE NudgesKept'
  BY <1>2 DEF NudgesKept, BellKept, Pending
<1>3. ASSUME NEW panes, panes # <<>> => panes[1] \in Panes, NEW n \in Nat, OnMailStored(panes, n)
      PROVE  NudgesKept'
  <2>1. CASE panes = <<>>
    BY <1>2, <1>3, <2>1 DEF OnMailStored
  <2>2. CASE panes # <<>>
    <3> DEFINE p == panes[1]
               r == bell[p].rev + 1
               b == Arm(bell[p], r, n, "armed")
    <3>1. PICK res \in GatedInject(p, b, tty[p], Doorbell, r, FALSE) : Result(p, res)
      BY <1>3, <2>2 DEF OnMailStored
    <3>2. p \in Panes /\ r \in Nat
      BY <1>0, <1>3, <2>2
    <3>3. BellKept(b) /\ BellOK(b)
      BY <1>0, <3>2, ArmNudges, ArmKeeps DEF Wakes
    <3>4. res.bell = b \/ ~Pending(res.bell)
      <4>1. b \in Bells
        BY <3>3 DEF BellOK
      <4> HIDE DEF b, r
      <4> QED BY <3>2, <4>1, GatedBell
    <3>5. BellKept(res.bell)
      BY <3>3, <3>4 DEF BellKept
    <3> QED BY <1>1, <3>1, <3>2, <3>5 DEF Result
  <2> QED BY <2>1, <2>2
<1>4. ASSUME NEW n \in Nat, Refresh(n) PROVE NudgesKept'
  <2>1. CASE leaves = <<>>
    BY <1>2, <1>4, <2>1 DEF Refresh
  <2>2. CASE leaves # <<>>
    <3> DEFINE p == leaves[1]
               b == [bell[p] EXCEPT !.nudge = None]
    <3>1. p \in Panes /\ Bell(p, Refreshed(b, n))
      BY <1>0, <1>4, <2>2 DEF Refresh
    <3>2. b \in Bells /\ b.rev \in Nat
      BY <1>0, <3>1 DEF Bells
    <3>3. BellKept(Refreshed(b, n))
      <4>1. b.rev + 1 \in Nat /\ b.rev + 1 > b.rev /\ "unset" \in Wakes /\ "unset" # "armed"
        BY <3>2 DEF Wakes
      <4> HIDE DEF b
      <4>2. BellKept(Clear(b, b.rev + 1)) /\ BellKept(Arm(b, b.rev + 1, n, "unset"))
        BY <3>2, <4>1, ClearNudges, ArmNudges
      <4> QED BY <4>2 DEF Refreshed
    <3> QED BY <1>1, <3>1, <3>3
  <2> QED BY <2>1, <2>2
<1>5. CASE UNCHANGED vars
  BY <1>2, <1>5 DEF vars
<1>6. CASE MailSend
  <2>1. open' \in Nat /\ OnMailStored(leaves, open')
    BY <1>0, <1>6 DEF MailSend
  <2> QED BY <1>0, <1>3, <2>1
<1>7. CASE MailClaim
  <2>1. open' \in Nat
    BY <1>7 DEF MailClaim
  <2> QED BY <1>4, <1>7, <2>1 DEF MailClaim
<1>8. CASE MailCommit
  BY <1>0, <1>4, <1>8 DEF MailCommit
<1>9. CASE MailRelease
  <2>1. \A h \in 0..held : open + held - h \in Nat
    BY <1>0
  <2>2. open' \in Nat /\ Refresh(open')
    BY <1>9, <2>1 DEF MailRelease
  <2> QED BY <1>4, <2>2
<1>10. CASE MailInbox
  <2> DEFINE p == leaves[1]
             b == [bell[p] EXCEPT !.nudge = None, !.peeked = (@ \/ bell[p].rings = 0)]
  <2>1. p \in Panes /\ Bell(p, b)
    BY <1>0, <1>10 DEF MailInbox
  <2>2. bell[p] \in Bells
    BY <1>0, <2>1
  <2>3. ~Pending(b)
    BY <2>2 DEF Bells, Pending
  <2> QED BY <1>1, <2>1, <2>3 DEF BellKept
<1>11. ASSUME NEW p \in Panes, NEW r \in Nat, MailAttentionClear(p, r)
       PROVE  NudgesKept'
  BY <1>0, <1>1, <1>11, ClearNudges DEF MailAttentionClear
<1>12. ASSUME NEW p \in Panes, NEW r \in Nat, NEW wake \in Wakes, MailAttentionSet(p, r, wake)
       PROVE  NudgesKept'
  BY <1>0, <1>1, <1>12, ArmNudges DEF MailAttentionSet
<1>13. ASSUME NEW p \in Panes, HiveDrain(p)
       PROVE  NudgesKept'
  <2>1. bell[p].lamp.rev + 1 \in Nat
    BY <1>0, <1>13 DEF HiveDrain, Bells, Lamps
  <2> QED BY <1>11, <1>13, <2>1 DEF HiveDrain
<1>14. ASSUME NEW c, NEW p \in Panes, NEW r \in Nat, InjectMail(c, p, r)
       PROVE  NudgesKept'
  <2>1. PICK res \in GatedInject(p, bell[p], tty[p], c, r, FALSE) : Result(p, res)
    BY <1>14 DEF InjectMail
  <2>2. res.bell = bell[p] \/ ~Pending(res.bell)
    BY <1>0, <2>1, GatedBell
  <2>3. BellKept(res.bell)
    BY <1>0, <2>2 DEF BellKept
  <2> QED BY <1>1, <2>1, <2>3 DEF Result
<1>15. ASSUME NEW p \in Panes, RetryMailNudges(p)
       PROVE  NudgesKept'
  <2>1. PICK res \in Retried(p, bell[p], tty[p]) : Result(p, res)
    BY <1>15 DEF RetryMailNudges
  <2>2. BellKept(res.bell)
    BY <1>0, <1>15, <2>1, RetriedNudges DEF RetryMailNudges
  <2> QED BY <1>1, <2>1, <2>2 DEF Result
<1>16. CASE InputRequest
  <2>1. PICK c \in Clients, p \in Panes : OnInput(c, p)
    BY <1>16 DEF InputRequest, WritePane, PaneWrite, TakeLease, ReleaseLease
  <2> QED BY <1>2, <2>1 DEF OnInput
<1>17. ASSUME NEW p \in Panes, CreateSession(p)
       PROVE  NudgesKept'
  <2>1. CASE open = 0
    BY <1>2, <1>17, <2>1 DEF CreateSession
  <2>2. CASE open # 0
    <3>1. leaves' = <<p>> /\ OnMailStored(leaves', open)
      BY <1>17, <2>2 DEF CreateSession
    <3>2. <<p>> # <<>> /\ <<p>>[1] \in Panes
      OBVIOUS
    <3> QED BY <1>0, <1>3, <3>1, <3>2
  <2> QED BY <2>1, <2>2
<1>18. ASSUME NEW p \in Panes, Split(p)
       PROVE  NudgesKept'
  BY <1>2, <1>18 DEF Split
<1>19. ASSUME NEW i \in DOMAIN leaves, MovePane(i)
       PROVE  NudgesKept'
  BY <1>2, <1>19 DEF MovePane
<1>20. ASSUME NEW i \in DOMAIN leaves, ClosePane(i)
       PROVE  NudgesKept'
  <2>1. leaves[i] \in Panes
    BY DEF Layout, Range
  <2> QED BY <1>1, <1>20, <2>1 DEF ClosePane, BellKept, Pending, NewBell
<1>21. ASSUME NEW p \in Panes, Output(p) \/ HideEnds(p)
       PROVE  NudgesKept'
  <2>1. BellKept([bell[p] EXCEPT !.hidden = FALSE])
    BY <1>0 DEF BellKept, Pending, Bells
  <2> QED BY <1>1, <1>21, <2>1 DEF Output, HideEnds
<1>22. ASSUME NEW p \in Panes, Silence(p) \/ WriterThread(p) \/ Foreground(p)
       PROVE  NudgesKept'
  BY <1>2, <1>22 DEF Silence, WriterThread, Foreground
<1>23. CASE MailRequest
  <2>1. \A r \in 1..MaxRev : r \in Nat
    BY DoorbellAssumption
  <2> QED BY <1>6, <1>7, <1>8, <1>9, <1>10, <1>11, <1>12, <1>13, <1>14, <1>23, <2>1
          DEF MailRequest
<1>24. CASE PaneRequest
  BY <1>17, <1>18, <1>19, <1>20, <1>24 DEF PaneRequest
<1>25. CASE Environment
  BY <1>21, <1>22, <1>25 DEF Environment
<1> QED BY <1>5, <1>15, <1>16, <1>23, <1>24, <1>25 DEF Next

-----------------------------------------------------------------------------
LEMMA Inductive == Init /\ [][Next]_vars => []DoorbellInv
<1>1. Init => DoorbellInv
  <2> SUFFICES ASSUME Init PROVE DoorbellInv
    OBVIOUS
  <2>1. Layout
    <3>1. <<>> \in Seq(Panes) /\ Range(<<>>) = {} /\ IsInjective(<<>>)
      BY DEF Range, IsInjective
    <3>2. 0 \in 0..MaxPanes
      BY DoorbellAssumption
    <3> QED BY <3>1, <3>2 DEF Init, Layout
  <2>2. BellOK(NewBell)
    BY DEF NewBell, BellOK, Bells, Lit, Injected
  <2>3. TtyOK(NewTty)
    BY DoorbellAssumption DEF NewTty, TtyOK, Ttys
  <2>4. PanesOK
    BY <2>2, <2>3 DEF Init, PanesOK, BellOK, TtyOK
  <2>5. FreshDark
    BY DEF Init, FreshDark, NewBell
  <2>6. LampTellsMail
    BY DEF Init, LampTellsMail
  <2>7. NudgesKept
    BY DEF Init, NewBell, NudgesKept, BellKept, Pending
  <2> QED BY <2>1, <2>4, <2>5, <2>6, <2>7 DEF DoorbellInv
<1>2. DoorbellInv /\ [Next]_vars => DoorbellInv'
  <2> SUFFICES ASSUME DoorbellInv, [Next]_vars PROVE DoorbellInv'
    OBVIOUS
  <2>1. Layout /\ PanesOK /\ NudgesKept /\ FreshDark /\ LampTellsMail
    BY DEF DoorbellInv
  <2>2. Layout'
    BY <2>1, LayoutStep
  <2>3. PanesOK'
    BY <2>1, PanesStep
  <2>4. FreshDark' /\ LampTellsMail'
    BY <2>1, <2>2, LampStep
  <2>5. NudgesKept'
    BY <2>1, KeptStep
  <2> QED BY <2>2, <2>3, <2>4, <2>5 DEF DoorbellInv
<1> QED BY <1>1, <1>2, PTL

(* The invariant holds in every state of the program.                       *)
THEOREM Invariant == Spec => []DoorbellInv
  BY Inductive, PTL DEF Spec

(* The tables of the panes keep their types.                                *)
THEOREM TypeCorrect == Spec => []TypeOK
<1>1. DoorbellInv => TypeOK
  BY DEF DoorbellInv, Layout, PanesOK, TypeOK
<1> QED BY <1>1, Invariant, PTL

(* control.rs:4636: no line that somebody is typing is crossed.             *)
THEOREM LinesStayWhole == Spec => []LinesNotCrossed
<1>1. DoorbellInv => LinesNotCrossed
  BY DEF DoorbellInv, PanesOK, TtyOK, LinesNotCrossed
<1> QED BY <1>1, Invariant, PTL

(* The ledger knows every half-typed line.                                  *)
THEOREM LedgerIsTrue == Spec => []LedgerKnowsLine
<1>1. DoorbellInv => LedgerKnowsLine
  BY DEF DoorbellInv, PanesOK, TtyOK, LedgerKnowsLine
<1> QED BY <1>1, Invariant, PTL

(* No revision rings a third time.                                          *)
THEOREM TwoRings == Spec => []RingsAtMostTwice
<1>1. DoorbellInv => RingsAtMostTwice
  BY DEF DoorbellInv, PanesOK, BellOK, RingsAtMostTwice
<1> QED BY <1>1, Invariant, PTL

(* Every nudge is about the letter that lights the lamp, and a letter that  *)
(* waits to be announced has one.                                           *)
THEOREM NudgesCurrent == Spec => []NudgeIsCurrent
<1>1. DoorbellInv => NudgeIsCurrent
  BY DEF DoorbellInv, PanesOK, BellOK, NudgesKept, BellKept, Pending, Waiting, NudgeIsCurrent
<1> QED BY <1>1, Invariant, PTL

(* From a request about mail on, the lamp shows the open letters.           *)
THEOREM LampIsTrue == Spec => []LampTellsMail
<1>1. DoorbellInv => LampTellsMail
  BY DEF DoorbellInv
<1> QED BY <1>1, Invariant, PTL

-----------------------------------------------------------------------------
(* Letters ring. *)

(* Every attempt at a pane that is ready succeeds: the line is at rest, so  *)
(* all gates are open, and the queue takes the whole token.                 *)
LEMMA ReadyRings ==
    ASSUME NEW p \in Panes, NEW b, BellOK(b), Pending(b), b.nudge # None,
           NEW t \in Ttys, ~t.recent, t.front, t.lease = None, t.room >= Chunks[p],
           NEW res \in Retried(p, b, t)
    PROVE  ~Pending(res.bell)
<1> DEFINE nudge == b.nudge
           rest == [b EXCEPT !.nudge = None]
           armed(c) == Lit(c, nudge.rev) /\ c.lamp.wake = "armed"
           again(x) == x.outcome \in {"defer", "error"}
                        \/ (x.outcome = "hide" /\ nudge.verification)
           n == Chunks[p]
<1>0. /\ b \in Bells /\ rest \in Bells /\ n \in Nat
      /\ Pending(rest) /\ ~Injected(rest, nudge.rev) /\ armed(rest)
  BY DoorbellAssumption DEF BellOK, Bells, Lit, Injected, Pending
<1>1. PICK one \in GatedInject(p, rest, t, Doorbell, nudge.rev, nudge.verification) :
        res = IF again(one) /\ armed(one.bell) THEN [one EXCEPT !.bell.nudge = nudge] ELSE one
  BY <1>0, Zenon DEF Retried
<1>2. Busy(t) = {FALSE}
  BY DEF Busy, Dirty
<1>3. Gate(rest, t, Doorbell, nudge.rev, nudge.verification, FALSE) = "open"
  <2> HIDE DEF rest, nudge
  <2> QED BY <1>0 DEF Gate, Pending
<1>4. one \in Inject(rest, t, n, nudge.rev)
  <2>1. PICK busy \in Busy(t) :
          one \in (LET gate == Gate(rest, t, Doorbell, nudge.rev, nudge.verification, busy)
                   IN IF gate = "open" THEN Inject(rest, t, Chunks[p], nudge.rev)
                      ELSE {Same(rest, t, gate)})
    BY <1>1, Zenon DEF GatedInject
  <2>2. busy = FALSE
    BY <1>2, <2>1
  <2> HIDE DEF rest, nudge
  <2> QED BY <1>3, <2>1, <2>2
<1>5. Accepted(t, n) = {n}
  <2>1. t.room \in Nat
    BY DoorbellAssumption DEF Ttys
  <2>2. Less(t.room, n) = n
    BY <1>0, <2>1 DEF Less
  <2> HIDE DEF n
  <2> QED BY <1>0, <2>2 DEF Accepted
<1>6. PICK bumped \in BOOLEAN : one = Rung(rest, t, n, nudge.rev, bumped)
  <2> HIDE DEF rest, nudge, n
  <2> QED BY <1>4, <1>5 DEF Inject
<1>7. one.outcome = "rung" /\ ~Pending(one.bell)
  <2> HIDE DEF rest, nudge, n
  <2>1. ~Pending(Rung(rest, t, n, nudge.rev, bumped).bell)
    BY <1>0, RungEnds
  <2>2. Rung(rest, t, n, nudge.rev, bumped).outcome = "rung"
    BY DEF Rung
  <2> QED BY <1>6, <2>1, <2>2
<1>8. res = one
  BY <1>1, <1>7
<1> QED BY <1>7, <1>8

(* The maintenance thread announces the letter in one step. *)
LEMMA RetryAnnounces ==
    ASSUME DoorbellInv, NEW p \in Panes, Waiting(p), Ready(p), RetryMailNudges(p)
    PROVE  ~Waiting(p)'
<1>1. /\ BellOK(bell[p]) /\ tty[p] \in Ttys /\ Pending(bell[p]) /\ bell[p].nudge # None
      /\ bell \in [Panes -> Bells]
  BY DEF DoorbellInv, PanesOK, NudgesKept, BellKept, Waiting, Pending
<1>2. PICK res \in Retried(p, bell[p], tty[p]) : Result(p, res)
  BY DEF RetryMailNudges
<1>3. ~Pending(res.bell)
  BY <1>1, <1>2, ReadyRings DEF Ready
<1>4. bell'[p] = res.bell
  BY <1>1, <1>2 DEF Result, Bell
<1> QED BY <1>3, <1>4 DEF Waiting, Pending

(* Such an attempt can be made: the gates let one token through.            *)
LEMMA ReadyTries ==
    ASSUME NEW p \in Panes, NEW b, BellOK(b), Pending(b), b.nudge # None,
           NEW t \in Ttys, ~t.recent, t.front, t.lease = None, t.room >= Chunks[p]
    PROVE  Retried(p, b, t) # {}
<1> DEFINE nudge == b.nudge
           rest == [b EXCEPT !.nudge = None]
           armed(c) == Lit(c, nudge.rev) /\ c.lamp.wake = "armed"
           again(x) == x.outcome \in {"defer", "error"}
                        \/ (x.outcome = "hide" /\ nudge.verification)
           n == Chunks[p]
           one == Rung(rest, t, n, nudge.rev, TRUE)
<1>0. /\ b \in Bells /\ rest \in Bells /\ n \in Nat
      /\ Pending(rest) /\ ~Injected(rest, nudge.rev) /\ armed(rest)
  BY DoorbellAssumption DEF BellOK, Bells, Lit, Injected, Pending
<1>1. Busy(t) = {FALSE}
  BY DEF Busy, Dirty
<1>2. Gate(rest, t, Doorbell, nudge.rev, nudge.verification, FALSE) = "open"
  <2> HIDE DEF rest, nudge
  <2> QED BY <1>0 DEF Gate, Pending
<1>3. n \in Accepted(t, n)
  <2>1. t.room \in Nat
    BY DoorbellAssumption DEF Ttys
  <2>2. Less(t.room, n) = n
    BY <1>0, <2>1 DEF Less
  <2> HIDE DEF n
  <2> QED BY <1>0, <2>2 DEF Accepted
<1>4. one \in Inject(rest, t, n, nudge.rev)
  <2> HIDE DEF rest, nudge, n
  <2> QED BY <1>3 DEF Inject
<1>5. one \in GatedInject(p, rest, t, Doorbell, nudge.rev, nudge.verification)
  <2> DEFINE results(busy) ==
                LET gate == Gate(rest, t, Doorbell, nudge.rev, nudge.verification, busy)
                IN IF gate = "open" THEN Inject(rest, t, Chunks[p], nudge.rev)
                   ELSE {Same(rest, t, gate)}
  <2>1. one \in results(FALSE)
    <3> HIDE DEF rest, nudge, one
    <3> QED BY <1>2, <1>4
  <2>2. GatedInject(p, rest, t, Doorbell, nudge.rev, nudge.verification)
            = UNION {results(busy) : busy \in Busy(t)}
    BY Zenon DEF GatedInject
  <2> HIDE DEF results, one
  <2> QED BY <1>1, <2>1, <2>2
<1>6. Retried(p, b, t) =
        {IF again(res) /\ armed(res.bell) THEN [res EXCEPT !.bell.nudge = nudge] ELSE res :
            res \in GatedInject(p, rest, t, Doorbell, nudge.rev, nudge.verification)}
  BY <1>0, Zenon DEF Retried
<1> HIDE DEF one, rest, armed, again, nudge
<1> QED BY <1>5, <1>6

(* ReadyLetterRings with the guard written out: at a ready pane the nudge   *)
(* of a waiting letter is there, an attempt has an outcome, and each ends   *)
(* the waiting.                                                             *)
THEOREM ReadyLettersTried ==
    Spec => [](\A p \in Panes : Waiting(p) /\ Ready(p) =>
                /\ bell[p].nudge # None
                /\ Retried(p, bell[p], tty[p]) # {}
                /\ \A res \in Retried(p, bell[p], tty[p]) : ~Pending(res.bell))
<1>1. ASSUME DoorbellInv, NEW p \in Panes, Waiting(p), Ready(p)
      PROVE  /\ bell[p].nudge # None
             /\ Retried(p, bell[p], tty[p]) # {}
             /\ \A res \in Retried(p, bell[p], tty[p]) : ~Pending(res.bell)
  <2>1. /\ BellOK(bell[p]) /\ tty[p] \in Ttys /\ Pending(bell[p]) /\ bell[p].nudge # None
    BY <1>1 DEF DoorbellInv, PanesOK, NudgesKept, BellKept, Waiting, Pending
  <2>2. Retried(p, bell[p], tty[p]) # {}
    BY <1>1, <2>1, ReadyTries DEF Ready
  <2>3. \A res \in Retried(p, bell[p], tty[p]) : ~Pending(res.bell)
    BY <1>1, <2>1, ReadyRings DEF Ready
  <2> QED BY <2>1, <2>2, <2>3
<1>2. DoorbellInv => \A p \in Panes : Waiting(p) /\ Ready(p) =>
                /\ bell[p].nudge # None
                /\ Retried(p, bell[p], tty[p]) # {}
                /\ \A res \in Retried(p, bell[p], tty[p]) : ~Pending(res.bell)
  BY <1>1
<1> QED BY <1>2, Invariant, PTL

Ticks(p) == WF_vars(RetryMailNudges(p))

LEMMA ThreadTicks == Fairness => \A p \in Panes : Ticks(p)
  BY PTL DEF Fairness, Ticks

(* That the maintenance thread can take this step is ReadyLetterRings,      *)
(* which the run checks: the prover has ReadyLettersTried, and no backend   *)
(* of it takes the last step from a guard to ENABLED.                       *)
LEMMA LetterRings ==
    ASSUME NEW p \in Panes
    PROVE  Init /\ [][Next]_vars /\ Ticks(p) /\ []ReadyLetterRings
              => (<>[]Ready(p) => []<>~Waiting(p))
<1>1. DoorbellInv /\ Waiting(p) /\ Ready(p) /\ <<RetryMailNudges(p)>>_vars => ~Waiting(p)'
  BY RetryAnnounces
<1>2. ReadyLetterRings /\ Waiting(p) /\ Ready(p) => ENABLED <<RetryMailNudges(p)>>_vars
  BY DEF ReadyLetterRings
<1> QED BY <1>1, <1>2, Inductive, PTL DEF Ticks

(* A letter does not wait for ever at a pane that stays ready for it, for   *)
(* any panes, clients, queues and letters.                                  *)
THEOREM LettersAnnounced == Spec /\ []ReadyLetterRings => LettersRing
  BY LetterRings, ThreadTicks DEF Spec, LettersRing
=============================================================================
