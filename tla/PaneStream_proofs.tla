------------------------- MODULE PaneStream_proofs -------------------------
(***************************************************************************)
(* Proofs about PaneStream, for any ring, batch, budget and connection,    *)
(* and any number of frames, restarts and lost connections.                *)
(***************************************************************************)
EXTENDS PaneStream, SequenceTheorems, WellFoundedInduction, TLAPS

-----------------------------------------------------------------------------
(* Induction, in the first-order form of the least number. *)

LEMMA LeastNumber ==
    ASSUME NEW U \in SUBSET Nat, U # {}
    PROVE  \E n \in U : \A m \in U : n <= m
<1> DEFINE R == OpToRel(<, Nat)
<1>1. IsWellFoundedOn(R, Nat)
  BY NatLessThanWellFounded
<1>2. \A m, n \in Nat : m < n => <<m, n>> \in R
  BY DEF OpToRel
<1> HIDE DEF R
<1>3. PICK n \in U : \A m \in U : <<m, n>> \notin R
  BY <1>1, WFMin
<1>4. \A m \in U : ~(m < n)
  BY <1>2, <1>3
<1> QED BY <1>4

-----------------------------------------------------------------------------
(* The log of a pane. *)

(* Frames with consecutive numbers after base. *)
Numbered(frames, base) == \A i \in 1..Len(frames) : frames[i].seq = base + i

(* How Newer goes through the frames. *)
Filters(f, frames, n) ==
    f = [k \in 0..Len(frames) |->
            IF k = 0 THEN <<>>
            ELSE IF frames[k].seq > n THEN Append(f[k - 1], frames[k])
            ELSE f[k - 1]]

LEMMA FiltersUnique ==
    ASSUME NEW frames \in Screens, NEW n, NEW f, NEW g,
           Filters(f, frames, n), Filters(g, frames, n)
    PROVE  f[Len(frames)] = g[Len(frames)]
<1> DEFINE U == {k \in 0..Len(frames) : f[k] # g[k]}
<1>0. Len(frames) \in Nat /\ U \subseteq Nat
  BY DEF Screens
<1>1. CASE U = {}
  BY <1>0, <1>1
<1>2. CASE U # {}
  <2>1. PICK k \in U : \A m \in U : k <= m
    BY <1>0, <1>2, LeastNumber
  <2>2. k \in 0..Len(frames) /\ f[k] # g[k]
    BY <2>1
  <2>3. k # 0
    BY <2>2 DEF Filters
  <2>4. k - 1 \in 0..Len(frames) /\ ~(k <= k - 1)
    BY <1>0, <2>2, <2>3
  <2>5. f[k - 1] = g[k - 1]
    BY <2>1, <2>4
  <2>6. /\ f[k] = IF frames[k].seq > n THEN Append(f[k - 1], frames[k]) ELSE f[k - 1]
        /\ g[k] = IF frames[k].seq > n THEN Append(g[k - 1], frames[k]) ELSE g[k - 1]
    BY <2>2, <2>3 DEF Filters
  <2> QED BY <2>2, <2>5, <2>6
<1> QED BY <1>1, <1>2

(* In a log without holes Newer cuts off a prefix. *)
LEMMA NewerCuts ==
    ASSUME NEW frames \in Screens, NEW base \in Nat, Numbered(frames, base),
           NEW n \in Nat, base <= n, n <= base + Len(frames)
    PROVE  Newer(frames, n) = SubSeq(frames, n - base + 1, Len(frames))
<1> DEFINE c == n - base
           g == [k \in 0..Len(frames) |->
                    IF k <= c THEN <<>> ELSE SubSeq(frames, c + 1, k)]
           f == CHOOSE h : Filters(h, frames, n)
<1>0. Len(frames) \in Nat /\ c \in 0..Len(frames)
  BY DEF Screens
<1>1. Filters(g, frames, n)
  <2> SUFFICES ASSUME NEW k \in 0..Len(frames)
               PROVE  g[k] = IF k = 0 THEN <<>>
                             ELSE IF frames[k].seq > n THEN Append(g[k - 1], frames[k])
                             ELSE g[k - 1]
    BY Zenon DEF Filters
  <2>1. CASE k = 0
    BY <1>0, <2>1
  <2>2. CASE k # 0 /\ k <= c
    <3>1. k - 1 \in 0..Len(frames) /\ k - 1 <= c /\ k \in 1..Len(frames)
      BY <1>0, <2>2
    <3>2. ~(frames[k].seq > n)
      BY <3>1, <2>2, <1>0 DEF Numbered
    <3> QED BY <2>2, <3>1, <3>2
  <2>3. CASE k > c
    <3>1. k - 1 \in 0..Len(frames) /\ k \in 1..Len(frames)
      BY <1>0, <2>3
    <3>2. frames[k].seq > n
      BY <3>1, <2>3, <1>0 DEF Numbered
    <3>3. g[k] = SubSeq(frames, c + 1, k)
      BY <1>0, <2>3
    <3>4. g[k - 1] = IF k - 1 <= c THEN <<>> ELSE SubSeq(frames, c + 1, k - 1)
      BY <3>1
    <3>5. SubSeq(frames, c + 1, k) = Append(g[k - 1], frames[k])
      <4>1. CASE k - 1 = c
        BY <4>1, <1>0, <3>1, <3>4 DEF Screens
      <4>2. CASE k - 1 # c
        <5>1. g[k - 1] = SubSeq(frames, c + 1, k - 1)
          BY <4>2, <1>0, <2>3, <3>4
        <5> QED BY <5>1, <4>2, <1>0, <2>3, <3>1 DEF Screens
      <4> QED BY <4>1, <4>2
    <3>6. g[k] = Append(g[k - 1], frames[k])
      BY <3>3, <3>5
    <3>7. k # 0
      BY <1>0, <2>3
    <3> HIDE DEF g
    <3> QED BY <3>2, <3>6, <3>7
  <2> QED BY <2>1, <2>2, <2>3, <1>0
<1>2. Filters(f, frames, n)
  <2> HIDE DEF g
  <2> QED BY <1>1
<1>3. Newer(frames, n) = f[Len(frames)]
  BY DEF Newer, Filters
<1>4. g[Len(frames)] = SubSeq(frames, c + 1, Len(frames))
  BY <1>0 DEF Screens
<1> HIDE DEF f, g
<1> QED BY <1>1, <1>2, <1>3, <1>4, FiltersUnique

(* The log of a pane that has shown these frames since the first one. *)
LogOf(screen) == [next |-> Len(screen) + 1, frames |-> Retained(screen, Capacity)]

(* How many of them the log has lost. *)
Lost(screen) == IF Len(screen) <= Capacity THEN 0 ELSE Len(screen) - Capacity

LEMMA Constants ==
    /\ {Capacity, Batch, Budget, Window} \subseteq Nat \ {0}
    /\ {MaxFrames, MaxRestarts, MaxDrops} \subseteq Nat
    /\ None \notin Nat
BY StreamAssumption

LEMMA SameFrames ==
    ASSUME NEW s \in Screens, NEW t \in Screens, Len(s) = Len(t),
           \A i \in 1..Len(s) : s[i] = t[i]
    PROVE  s = t
BY SeqEqual DEF Screens

(* A stretch of a screen. *)
LEMMA Part ==
    ASSUME NEW s \in Screens, NEW a \in Nat, NEW b \in Nat, a <= b, b <= Len(s)
    PROVE  /\ SubSeq(s, a + 1, b) \in Screens
           /\ Len(SubSeq(s, a + 1, b)) = b - a
           /\ \A i \in 1..(b - a) : SubSeq(s, a + 1, b)[i] = s[a + i] /\ a + i \in 1..Len(s)
<1>0. Len(s) \in Nat
  BY DEF Screens
<1>1. \A i \in (a + 1)..b : i \in 1..Len(s) /\ s[i] \in FrameSet
  BY <1>0 DEF Screens
<1>2. /\ SubSeq(s, a + 1, b) \in Seq(FrameSet)
      /\ Len(SubSeq(s, a + 1, b)) = IF a + 1 <= b THEN b - (a + 1) + 1 ELSE 0
      /\ \A i \in 1..(b - (a + 1) + 1) : SubSeq(s, a + 1, b)[i] = s[(a + 1) + i - 1]
  BY <1>1, SubSeqProperties
<1>3. \A i \in 1..(b - a) : (a + 1) + i - 1 = a + i /\ i \in 1..(b - (a + 1) + 1) /\ a + i \in 1..Len(s)
  BY <1>0
<1> QED BY <1>2, <1>3 DEF Screens

LEMMA LogKeeps ==
    ASSUME NEW s \in Screens, NEW n \in Nat
    PROVE  LET r == Retained(s, n)
               k == IF Len(s) <= n THEN 0 ELSE Len(s) - n
           IN /\ r \in Screens
              /\ k \in Nat /\ k <= Len(s)
              /\ Len(r) = Len(s) - k
              /\ \A i \in 1..Len(r) : r[i] = s[k + i]
<1>0. Len(s) \in Nat
  BY DEF Screens
<1>1. CASE Len(s) <= n
  BY <1>0, <1>1 DEF Retained
<1>2. CASE ~(Len(s) <= n)
  <2> DEFINE k == Len(s) - n
  <2>1. Retained(s, n) = SubSeq(s, k + 1, Len(s))
    BY <1>2 DEF Retained
  <2>2. k \in Nat /\ k <= Len(s)
    BY <1>0, <1>2
  <2> HIDE DEF k
  <2>3. /\ Retained(s, n) \in Screens /\ Len(Retained(s, n)) = Len(s) - k
        /\ \A i \in 1..(Len(s) - k) : Retained(s, n)[i] = s[k + i]
    BY <1>0, <2>1, <2>2, Part
  <2> USE DEF k
  <2> QED BY <1>2, <2>2, <2>3
<1> QED BY <1>1, <1>2

LEMMA LogOfScreen ==
    ASSUME NEW s \in Screens
    PROVE  LET r == Retained(s, Capacity)
           IN /\ r \in Screens
              /\ Lost(s) \in Nat /\ Lost(s) <= Len(s)
              /\ Len(r) = Len(s) - Lost(s)
              /\ Len(r) <= Capacity
              /\ Len(r) = 0 => Len(s) = 0
              /\ \A i \in 1..Len(r) : r[i] = s[Lost(s) + i]
              /\ Numbered(s, 0) => Numbered(r, Lost(s))
<1>0. Capacity \in Nat \ {0} /\ Len(s) \in Nat
  BY Constants DEF Screens
<1> DEFINE r == Retained(s, Capacity)
<1>1. /\ r \in Screens
      /\ Lost(s) \in Nat /\ Lost(s) <= Len(s)
      /\ Len(r) = Len(s) - Lost(s)
      /\ \A i \in 1..Len(r) : r[i] = s[Lost(s) + i]
  BY <1>0, LogKeeps DEF Lost
<1>2. Len(r) <= Capacity /\ (Len(r) = 0 => Len(s) = 0)
  BY <1>0, <1>1 DEF Lost
<1>3. Numbered(s, 0) => Numbered(r, Lost(s))
  <2> HIDE DEF r
  <2> SUFFICES ASSUME Numbered(s, 0), NEW i \in 1..Len(r)
               PROVE  r[i].seq = Lost(s) + i
    BY DEF Numbered
  <2>1. Lost(s) + i \in 1..Len(s)
    BY <1>0, <1>1
  <2>2. s[Lost(s) + i].seq = Lost(s) + i
    BY <2>1, <1>1, <1>0 DEF Numbered
  <2> QED BY <1>1, <2>2
<1> QED BY <1>1, <1>2, <1>3

(* Recording a frame keeps the log of what the pane shows. *)
LEMMA LogRecords ==
    ASSUME NEW s \in Screens, NEW f \in FrameSet
    PROVE  Record(LogOf(s), f, Capacity) = LogOf(Append(s, f))
<1> DEFINE r == Retained(s, Capacity)
           q == Retained(r, Capacity - 1)
           t == Retained(Append(s, f), Capacity)
           k == IF Len(r) <= Capacity - 1 THEN 0 ELSE Len(r) - (Capacity - 1)
<1>0. /\ Capacity \in Nat /\ Capacity - 1 \in Nat /\ Len(s) \in Nat
      /\ Append(s, f) \in Screens /\ Len(Append(s, f)) = Len(s) + 1
      /\ \A i \in 1..Len(s) : Append(s, f)[i] = s[i]
      /\ Append(s, f)[Len(s) + 1] = f
  BY Constants DEF Screens
<1>1. /\ r \in Screens /\ Lost(s) \in Nat /\ Lost(s) <= Len(s)
      /\ Len(r) = Len(s) - Lost(s)
      /\ \A i \in 1..Len(r) : r[i] = s[Lost(s) + i]
  BY LogOfScreen
<1>2. /\ q \in Screens /\ k \in Nat /\ k <= Len(r) /\ Len(q) = Len(r) - k
      /\ \A i \in 1..Len(q) : q[i] = r[k + i]
  <2> HIDE DEF r
  <2> QED BY <1>0, <1>1, LogKeeps
<1>3. /\ t \in Screens /\ Len(t) = Len(s) + 1 - Lost(Append(s, f))
      /\ \A i \in 1..Len(t) : t[i] = Append(s, f)[Lost(Append(s, f)) + i]
  <2> DEFINE a == Append(s, f)
  <2>1. a \in Screens /\ Len(a) = Len(s) + 1
    BY <1>0
  <2> HIDE DEF a
  <2>2. /\ Retained(a, Capacity) \in Screens
        /\ Len(Retained(a, Capacity)) = Len(a) - Lost(a)
        /\ \A i \in 1..Len(Retained(a, Capacity)) : Retained(a, Capacity)[i] = a[Lost(a) + i]
    BY <2>1, LogOfScreen
  <2>3. Lost(a) \in Nat
    BY <2>1, LogOfScreen
  <2>4. Len(Retained(a, Capacity)) = Len(s) + 1 - Lost(a)
    BY <1>0, <2>1, <2>2, <2>3
  <2> QED BY <2>2, <2>4 DEF a, t
<1>4. Lost(Append(s, f)) = Lost(s) + k
  BY <1>0, <1>1 DEF Lost
<1> HIDE DEF r, q, t, k
<1>5. /\ Append(q, f) \in Screens /\ Len(Append(q, f)) = Len(q) + 1
      /\ \A i \in 1..Len(q) : Append(q, f)[i] = q[i]
      /\ Append(q, f)[Len(q) + 1] = f
  BY <1>2 DEF Screens
<1>6. Len(Append(q, f)) = Len(t) /\ Len(t) = Len(q) + 1 /\ Len(q) \in Nat
  BY <1>0, <1>1, <1>2, <1>3, <1>4, <1>5
<1>7. ASSUME NEW i \in 1..Len(t) PROVE Append(q, f)[i] = t[i]
  <2>1. t[i] = Append(s, f)[Lost(s) + k + i]
    BY <1>3, <1>4
  <2>2. CASE i \in 1..Len(q)
    <3>1. k + i \in 1..Len(r) /\ Lost(s) + (k + i) \in 1..Len(s)
      BY <2>2, <1>0, <1>1, <1>2
    <3>2. q[i] = s[Lost(s) + (k + i)]
      BY <2>2, <3>1, <1>1, <1>2
    <3>3. Lost(s) + (k + i) = Lost(s) + k + i
      BY <1>1, <1>2
    <3> QED BY <2>1, <2>2, <3>1, <3>2, <3>3, <1>0, <1>5
  <2>3. CASE i = Len(q) + 1
    <3>1. Lost(s) + k + i = Len(s) + 1
      <4>1. /\ Len(q) = Len(r) - k /\ Len(r) = Len(s) - Lost(s)
            /\ k \in Nat /\ Lost(s) \in Nat /\ Len(s) \in Nat
        BY <1>0, <1>1, <1>2
      <4>2. i = Len(r) - k + 1
        BY <2>3, <4>1
      <4>3. i = Len(s) - Lost(s) - k + 1
        BY <4>1, <4>2
      <4>4. Lost(s) \in Int /\ k \in Int /\ Len(s) \in Int
        BY <4>1
      <4>5. i + k = Len(s) - Lost(s) + 1
        BY <4>3, <4>4
      <4>6. i + k + Lost(s) = Len(s) + 1
        BY <4>5, <4>4
      <4> QED BY <4>3, <4>4, <4>6
    <3> QED BY <2>1, <2>3, <3>1, <1>0, <1>5
  <2> QED BY <1>6, <2>2, <2>3
<1>8. Append(q, f) = t
  BY <1>3, <1>5, <1>6, <1>7, SameFrames
<1> QED BY <1>0, <1>8 DEF Record, LogOf, r, q, t

(* A restored log is the log of the screen it was saved from. *)
LEMMA LogRestored ==
    ASSUME NEW s \in Screens, Numbered(s, 0), Len(s) # 0
    PROVE  FromFrames(Retained(s, Capacity), Capacity) = LogOf(s)
<1> DEFINE r == Retained(s, Capacity)
<1>0. Capacity \in Nat /\ Len(s) \in Nat
  BY Constants DEF Screens
<1>1. /\ r \in Screens /\ Lost(s) \in Nat /\ Lost(s) <= Len(s)
      /\ Len(r) = Len(s) - Lost(s)
      /\ Len(r) <= Capacity
      /\ Len(r) # 0
      /\ Numbered(r, Lost(s))
  BY LogOfScreen
<1> HIDE DEF r
<1>2. r # <<>> /\ Len(r) \in 1..Len(r)
  BY <1>1 DEF Screens
<1>3. r[Len(r)].seq + 1 = Len(s) + 1
  BY <1>0, <1>1, <1>2 DEF Numbered
<1>4. Retained(r, Capacity) = r
  BY <1>1 DEF Retained
<1>5. FromFrames(r, Capacity) = [next |-> Len(s) + 1, frames |-> r]
  BY <1>2, <1>3, <1>4 DEF FromFrames
<1> QED BY <1>5 DEF LogOf, r

(* What a log answers to a reader that has everything through n. *)
LEMMA LogAnswers ==
    ASSUME NEW s \in Screens, Numbered(s, 0), NEW n \in Nat
    PROVE  /\ CurrentSeq(LogOf(s)) = Len(s)
           /\ n > Len(s) => CatchUp(LogOf(s), n) = [kind |-> "ahead"]
           /\ n <= Len(s) /\ n < Lost(s) => CatchUp(LogOf(s), n) = [kind |-> "gap"]
           /\ n <= Len(s) /\ n >= Lost(s) =>
                CatchUp(LogOf(s), n) = [kind |-> "events", frames |-> SubSeq(s, n + 1, Len(s))]
<1> DEFINE r == Retained(s, Capacity)
           b == Lost(s)
<1>0. Capacity \in Nat /\ Len(s) \in Nat
  BY Constants DEF Screens
<1>1. /\ r \in Screens /\ b \in Nat /\ b <= Len(s)
      /\ Len(r) = Len(s) - b
      /\ Len(r) = 0 => Len(s) = 0
      /\ \A i \in 1..Len(r) : r[i] = s[b + i]
      /\ Numbered(r, b)
  BY LogOfScreen
<1>2. LogOf(s) = [next |-> Len(s) + 1, frames |-> r]
  BY DEF LogOf
<1> HIDE DEF r, b
<1>3. CurrentSeq(LogOf(s)) = Len(s)
  BY <1>0, <1>2 DEF CurrentSeq
<1>4. OldestSeq(LogOf(s)) = b + 1
  <2>1. CASE r = <<>>
    BY <2>1, <1>0, <1>1, <1>2 DEF OldestSeq
  <2>2. CASE r # <<>>
    <3>1. 1 \in 1..Len(r)
      BY <2>2, <1>1 DEF Screens
    <3>2. r[1].seq = b + 1
      BY <3>1, <1>1 DEF Numbered
    <3> QED BY <2>2, <3>2, <1>2 DEF OldestSeq
  <2> QED BY <2>1, <2>2
<1>5. ASSUME n <= Len(s), n >= b
      PROVE  Newer(r, n) = SubSeq(s, n + 1, Len(s))
  <2>1. Newer(r, n) = SubSeq(r, n - b + 1, Len(r))
    BY <1>0, <1>1, <1>5, NewerCuts
  <2>2. /\ n - b \in Nat /\ n - b <= Len(r) /\ Len(r) \in Nat
        /\ Len(r) - (n - b) = Len(s) - n
    BY <1>0, <1>1, <1>5
  <2>3. /\ SubSeq(r, n - b + 1, Len(r)) \in Screens
        /\ Len(SubSeq(r, n - b + 1, Len(r))) = Len(r) - (n - b)
        /\ \A i \in 1..(Len(r) - (n - b)) : SubSeq(r, n - b + 1, Len(r))[i] = r[n - b + i]
    <3> DEFINE d == n - b
    <3>1. r \in Screens /\ d \in Nat /\ d <= Len(r) /\ Len(r) \in Nat /\ Len(r) <= Len(r)
      BY <1>1, <2>2
    <3> HIDE DEF d
    <3>2. /\ SubSeq(r, d + 1, Len(r)) \in Screens
          /\ Len(SubSeq(r, d + 1, Len(r))) = Len(r) - d
          /\ \A i \in 1..(Len(r) - d) : SubSeq(r, d + 1, Len(r))[i] = r[d + i]
      BY <3>1, Part
    <3> QED BY <3>2 DEF d
  <2>4. /\ SubSeq(s, n + 1, Len(s)) \in Screens
        /\ Len(SubSeq(s, n + 1, Len(s))) = Len(s) - n
        /\ \A i \in 1..(Len(s) - n) : SubSeq(s, n + 1, Len(s))[i] = s[n + i]
    BY <1>0, <1>5, Part
  <2>5. \A i \in 1..(Len(s) - n) : n - b + i \in 1..Len(r) /\ b + (n - b + i) = n + i
    BY <1>0, <1>1, <1>5
  <2>6. \A i \in 1..(Len(s) - n) : r[n - b + i] = s[n + i]
    BY <1>1, <2>5
  <2>7. SubSeq(r, n - b + 1, Len(r)) = SubSeq(s, n + 1, Len(s))
    BY <2>2, <2>3, <2>4, <2>6, SameFrames
  <2> QED BY <2>1, <2>7
<1>6. n > Len(s) => CatchUp(LogOf(s), n) = [kind |-> "ahead"]
  BY <1>3 DEF CatchUp
<1>7. n <= Len(s) /\ n < b => CatchUp(LogOf(s), n) = [kind |-> "gap"]
  BY <1>0, <1>1, <1>3, <1>4 DEF CatchUp
<1>8. n <= Len(s) /\ n >= b =>
        CatchUp(LogOf(s), n) = [kind |-> "events", frames |-> Newer(r, n)]
  BY <1>0, <1>1, <1>2, <1>3, <1>4 DEF CatchUp
<1> QED BY <1>3, <1>5, <1>6, <1>7, <1>8 DEF b

-----------------------------------------------------------------------------
(* What the pane has shown: S[k] is what it showed under daemon k - 1, the  *)
(* last of them what it shows now.                                          *)

Begins(s, t) == Len(s) <= Len(t) /\ \A i \in 1..Len(s) : s[i] = t[i]

HistoryOK(S) ==
    /\ S \in Seq(Screens)
    /\ \A k \in 1..Len(S) :
        /\ Numbered(S[k], 0)
        /\ \A i \in 1..Len(S[k]) : S[k][i].epoch <= k - 1

(* The frames are all that daemon e has restored and some that it added. *)
Full(S, frames, e) ==
    /\ e + 1 \in 1..Len(S)
    /\ Begins(frames, S[e + 1])
    /\ \A i \in 1..Len(S[e + 1]) : i > Len(frames) => S[e + 1][i].epoch = e

Later(S, T) ==
    /\ Len(S) <= Len(T)
    /\ \A k \in 1..Len(S) :
        /\ Begins(S[k], T[k])
        /\ \A i \in 1..Len(T[k]) : i > Len(S[k]) => T[k][i].epoch = k - 1

LEMMA BeginsPrefix ==
    ASSUME NEW s \in Screens, NEW t \in Screens
    PROVE  Begins(s, t) <=> IsPrefix(s, t)
<1>0. Len(s) \in Nat /\ Len(t) \in Nat
  BY DEF Screens
<1>1. CASE ~(Len(s) <= Len(t))
  BY <1>1 DEF Begins, IsPrefix
<1>2. CASE Len(s) <= Len(t)
  <2> DEFINE a == SubSeq(s, 1, Len(s))
             b == SubSeq(t, 1, Len(s))
  <2>1. /\ a \in Screens /\ Len(a) = Len(s) /\ \A i \in 1..Len(s) : a[i] = s[i]
        /\ b \in Screens /\ Len(b) = Len(s) /\ \A i \in 1..Len(s) : b[i] = t[i]
    BY <1>0, <1>2 DEF Screens
  <2> HIDE DEF a, b
  <2>2. a = b <=> \A i \in 1..Len(s) : s[i] = t[i]
    BY <2>1, SameFrames
  <2> QED BY <1>2, <2>2 DEF Begins, IsPrefix, a, b
<1> QED BY <1>1, <1>2

LEMMA LaterKeeps ==
    ASSUME NEW S \in Seq(Screens), NEW T \in Seq(Screens), Later(S, T),
           NEW frames \in Screens, NEW e \in Nat, e + 1 \in 1..Len(S)
    PROVE  /\ e + 1 \in 1..Len(T)
           /\ Len(S[e + 1]) <= Len(T[e + 1])
           /\ Begins(frames, S[e + 1]) => Begins(frames, T[e + 1])
           /\ Full(S, frames, e) => Full(T, frames, e)
<1> DEFINE s == S[e + 1]
           t == T[e + 1]
<1>0. /\ Len(S) \in Nat /\ Len(T) \in Nat /\ Len(S) <= Len(T)
      /\ e + 1 \in 1..Len(T)
  BY DEF Later
<1>1. /\ s \in Screens /\ t \in Screens
      /\ Len(s) \in Nat /\ Len(t) \in Nat /\ Len(frames) \in Nat
  BY <1>0 DEF Screens
<1>2. /\ Begins(s, t)
      /\ \A i \in 1..Len(t) : i > Len(s) => t[i].epoch = e
  BY DEF Later
<1> HIDE DEF s, t
<1>3. ASSUME Begins(frames, s) PROVE Begins(frames, t)
  BY <1>1, <1>2, <1>3 DEF Begins
<1>4. ASSUME \A i \in 1..Len(s) : i > Len(frames) => s[i].epoch = e,
             NEW i \in 1..Len(t), i > Len(frames)
      PROVE  t[i].epoch = e
  <2>1. CASE i > Len(s)
    BY <1>2, <2>1
  <2>2. CASE i <= Len(s)
    <3>1. i \in 1..Len(s) /\ t[i] = s[i]
      BY <1>1, <1>2, <2>2 DEF Begins
    <3> QED BY <1>4, <3>1
  <2> QED BY <1>1, <2>1, <2>2
<1>5. Len(s) <= Len(t)
  BY <1>2 DEF Begins
<1> QED BY <1>0, <1>3, <1>4, <1>5 DEF Full, s, t

LEMMA Joined ==
    ASSUME NEW s \in Screens, NEW t \in Screens
    PROVE  /\ s \o t \in Screens
           /\ Len(s \o t) = Len(s) + Len(t)
           /\ \A i \in 1..Len(s) : (s \o t)[i] = s[i]
           /\ \A i \in 1..Len(t) : (s \o t)[Len(s) + i] = t[i]
           /\ Begins(s, s \o t)
<1>0. Len(s) \in Nat /\ Len(t) \in Nat
  BY DEF Screens
<1>1. /\ s \o t \in Screens
      /\ Len(s \o t) = Len(s) + Len(t)
      /\ \A i \in 1..(Len(s) + Len(t)) : (s \o t)[i] = IF i <= Len(s) THEN s[i] ELSE t[i - Len(s)]
  BY ConcatProperties DEF Screens
<1>2. ASSUME NEW i \in 1..Len(s) PROVE (s \o t)[i] = s[i]
  <2>1. i \in 1..(Len(s) + Len(t)) /\ i <= Len(s)
    BY <1>0
  <2> QED BY <1>1, <2>1
<1>3. ASSUME NEW i \in 1..Len(t) PROVE (s \o t)[Len(s) + i] = t[i]
  <2>1. /\ Len(s) + i \in 1..(Len(s) + Len(t)) /\ ~(Len(s) + i <= Len(s))
        /\ Len(s) + i - Len(s) = i
    BY <1>0
  <2> QED BY <1>1, <2>1
<1>4. Len(s) <= Len(s) + Len(t)
  BY <1>0
<1> QED BY <1>1, <1>2, <1>3, <1>4 DEF Begins

(* The pane of a new daemon: a beginning of what the old one showed and one *)
(* frame of its own, or nothing.                                            *)
LEMMA HistoryGrows ==
    ASSUME NEW S, HistoryOK(S), NEW s \in Screens, Numbered(s, 0),
           \A i \in 1..Len(s) : s[i].epoch <= Len(S)
    PROVE  HistoryOK(Append(S, s)) /\ Later(S, Append(S, s))
<1> DEFINE T == Append(S, s)
<1>0. /\ S \in Seq(Screens) /\ Len(S) \in Nat
  BY DEF HistoryOK
<1>1. /\ T \in Seq(Screens) /\ Len(T) = Len(S) + 1
      /\ \A k \in 1..Len(S) : T[k] = S[k]
      /\ T[Len(S) + 1] = s
  BY <1>0
<1> HIDE DEF T
<1>2. HistoryOK(T)
  <2> SUFFICES ASSUME NEW k \in 1..Len(T)
               PROVE  /\ Numbered(T[k], 0)
                      /\ \A i \in 1..Len(T[k]) : T[k][i].epoch <= k - 1
    BY <1>1 DEF HistoryOK
  <2>1. CASE k \in 1..Len(S)
    BY <1>1, <2>1 DEF HistoryOK
  <2>2. CASE k = Len(S) + 1
    <3>1. T[k] = s /\ k - 1 = Len(S)
      BY <1>0, <1>1, <2>2
    <3> QED BY <3>1
  <2> QED BY <1>0, <1>1, <2>1, <2>2
<1>3. Later(S, T)
  <2>1. \A k \in 1..Len(S) : T[k] = S[k] /\ Len(S[k]) \in Nat
    BY <1>0, <1>1 DEF Screens
  <2> QED BY <1>0, <1>1, <2>1 DEF Later, Begins
<1> QED BY <1>2, <1>3 DEF T

(* A frame of the running daemon. *)
LEMMA HistoryAdds ==
    ASSUME NEW P \in Seq(Screens), NEW s \in Screens, HistoryOK(Append(P, s)),
           NEW f \in FrameSet, f.epoch = Len(P), f.seq = Len(s) + 1
    PROVE  /\ HistoryOK(Append(P, Append(s, f)))
           /\ Later(Append(P, s), Append(P, Append(s, f)))
<1> DEFINE S == Append(P, s)
           t == Append(s, f)
           T == Append(P, t)
<1>0. /\ Len(P) \in Nat /\ Len(s) \in Nat
      /\ t \in Screens /\ Len(t) = Len(s) + 1
      /\ \A i \in 1..Len(s) : t[i] = s[i]
      /\ t[Len(s) + 1] = f
  BY DEF Screens
<1>1. Numbered(s, 0) /\ \A i \in 1..Len(s) : s[i].epoch <= Len(P)
  <2>1. Len(S) = Len(P) + 1 /\ S[Len(P) + 1] = s
    BY <1>0
  <2>2. Len(P) + 1 \in 1..Len(S)
    BY <1>0, <2>1
  <2>3. Numbered(S[Len(P) + 1], 0) /\ \A i \in 1..Len(S[Len(P) + 1]) : S[Len(P) + 1][i].epoch <= Len(P) + 1 - 1
    BY <2>2 DEF HistoryOK
  <2> QED BY <1>0, <2>1, <2>3
<1> HIDE DEF t
<1>2. /\ S \in Seq(Screens) /\ Len(S) = Len(P) + 1
      /\ T \in Seq(Screens) /\ Len(T) = Len(P) + 1
      /\ \A k \in 1..Len(P) : S[k] = P[k] /\ T[k] = P[k] /\ Len(P[k]) \in Nat
      /\ S[Len(P) + 1] = s /\ T[Len(P) + 1] = t
  BY <1>0 DEF Screens
<1>3. Begins(s, t) /\ \A i \in 1..Len(t) : i > Len(s) => t[i].epoch = Len(P)
  BY <1>0 DEF Begins
<1>4. \A i \in 1..Len(t) : t[i].seq = 0 + i /\ t[i].epoch <= Len(P)
  <2> SUFFICES ASSUME NEW i \in 1..Len(t) PROVE t[i].seq = 0 + i /\ t[i].epoch <= Len(P)
    OBVIOUS
  <2>1. CASE i \in 1..Len(s)
    BY <1>0, <1>1, <2>1 DEF Numbered
  <2>2. CASE i = Len(s) + 1
    <3>1. t[i] = f
      BY <1>0, <2>2
    <3> QED BY <1>0, <2>2, <3>1
  <2> QED BY <1>0, <2>1, <2>2
<1> HIDE DEF S, T
<1>5. HistoryOK(T)
  <2> SUFFICES ASSUME NEW k \in 1..Len(T)
               PROVE  /\ Numbered(T[k], 0)
                      /\ \A i \in 1..Len(T[k]) : T[k][i].epoch <= k - 1
    BY <1>2 DEF HistoryOK
  <2>1. CASE k \in 1..Len(P)
    <3>1. T[k] = S[k] /\ k \in 1..Len(S)
      BY <1>0, <1>2, <2>1
    <3>2. HistoryOK(S)
      BY DEF S
    <3> QED BY <3>1, <3>2 DEF HistoryOK
  <2>2. CASE k = Len(P) + 1
    <3>1. T[k] = t /\ k - 1 = Len(P)
      BY <1>0, <1>2, <2>2
    <3> QED BY <3>1, <1>4 DEF Numbered
  <2> QED BY <1>0, <1>2, <2>1, <2>2
<1>6. Later(S, T)
  <2> SUFFICES ASSUME NEW k \in 1..Len(S)
               PROVE  /\ Begins(S[k], T[k])
                      /\ \A i \in 1..Len(T[k]) : i > Len(S[k]) => T[k][i].epoch = k - 1
    <3>1. Len(S) <= Len(T)
      BY <1>0, <1>2
    <3> QED BY <3>1 DEF Later
  <2>1. CASE k \in 1..Len(P)
    <3>1. T[k] = S[k] /\ Len(S[k]) \in Nat
      BY <1>2, <2>1
    <3> QED BY <3>1 DEF Begins
  <2>2. CASE k = Len(P) + 1
    <3>1. S[k] = s /\ T[k] = t /\ k - 1 = Len(P)
      BY <1>0, <1>2, <2>2
    <3> QED BY <1>3, <3>1
  <2> QED BY <1>0, <1>2, <2>1, <2>2
<1> QED BY <1>5, <1>6 DEF S, T, t

-----------------------------------------------------------------------------
(* The story of the replica: a view of it after each message on its way.    *)
(* `at` is the daemon it follows.                                           *)

Views == [frames : Screens, seq : Nat \cup {None}, mixed : BOOLEAN, at : Nat]

ViewOK(S, v) ==
    /\ v.at + 1 \in 1..Len(S)
    /\ v.mixed => Len(S) > 1
    /\ ~v.mixed => Begins(v.frames, S[v.at + 1])

(* The message shows the newest of a daemon. *)
Newest(S, v, frames, w) ==
    /\ w.frames = frames /\ ~w.mixed
    /\ w.at >= v.at
    /\ Full(S, frames, w.at)
    /\ ~v.mixed /\ v.at = w.at => Len(v.frames) <= Len(frames)

Leads(S, v, m, w) ==
    /\ m.kind = "forget" => w = [v EXCEPT !.seq = None]
    /\ m.kind = "ended" => w = v
    /\ m.kind = "ready" => v.seq = None /\ w.seq = m.through /\ Newest(S, v, m.frames, w)
    /\ m.kind = "gap" => w.seq = v.seq /\ Newest(S, v, m.frames, w)
    /\ m.kind = "batch" => /\ w.frames = v.frames \o m.frames /\ w.seq = v.seq
                           /\ w.mixed = m.mixed /\ (v.mixed => w.mixed)
                           /\ w.at >= v.at
    /\ m.kind = "reset" => /\ w.frames = <<>> /\ w.seq = None /\ ~w.mixed
                           /\ w.at >= v.at
                           /\ Len(S) > 1

(* What the reader knows of the last view it told the host. *)
LastTold(S, r, v) ==
    r.pc \notin {"ended", "failed"} =>
        /\ v.at <= r.at
        /\ ~r.mixed => /\ ~v.mixed
                       /\ Len(v.frames) = r.from
                       /\ Begins(v.frames, S[r.at + 1])
        /\ r.mixed /\ ~v.mixed => v.at < r.at
        /\ r.pc = "transfer" => v.seq = None

Tells(S, r, q, c, R) ==
    /\ R \in [0..Len(q) -> Views]
    /\ R[0].frames = c.frames /\ R[0].seq = c.seq /\ R[0].mixed = c.mixed
    /\ \A n \in 0..Len(q) : ViewOK(S, R[n])
    /\ \A n \in 1..Len(q) : Leads(S, R[n - 1], q[n], R[n])
    /\ LastTold(S, r, R[Len(q)])

StoryOK(S, r, q, c) == \E R : Tells(S, r, q, c, R)

(* What it shows; the views mixed of two daemons count as empty. *)
Shown(v) == IF v.mixed THEN <<>> ELSE v.frames

Shows(S, old, new) ==
    \/ new = old
    \/ new = <<>> /\ Len(S) > 1
    \/ \E k \in 1..Len(S) : Begins(new, S[k]) /\ (Begins(old, S[k]) => Begins(old, new))

LEMMA NewestShows ==
    ASSUME NEW S, HistoryOK(S), NEW v \in Views, NEW w \in Views, NEW frames \in Screens,
           ViewOK(S, v), Newest(S, v, frames, w)
    PROVE  Shows(S, Shown(v), Shown(w))
<1> DEFINE s == S[w.at + 1]
<1>0. /\ S \in Seq(Screens) /\ w.at \in Nat /\ v.at \in Nat
      /\ w.at + 1 \in 1..Len(S) /\ Len(S) \in Nat
  BY DEF HistoryOK, Views, Newest, Full
<1>1. /\ s \in Screens /\ Len(s) \in Nat
      /\ frames \in Screens /\ Len(frames) \in Nat
      /\ v.frames \in Screens /\ Len(v.frames) \in Nat
  BY <1>0 DEF Screens, Views
<1>2. Begins(frames, s) /\ \A i \in 1..Len(s) : i > Len(frames) => s[i].epoch = w.at
  BY DEF Newest, Full
<1>3. Shown(w) = frames
  BY DEF Newest, Shown
<1> HIDE DEF s
<1>4. ASSUME ~v.mixed, Begins(v.frames, s) PROVE Begins(v.frames, frames)
  <2>1. CASE Len(v.frames) <= Len(frames)
    <3>1. \A i \in 1..Len(v.frames) : i \in 1..Len(frames) /\ v.frames[i] = s[i] /\ frames[i] = s[i]
      BY <1>1, <1>2, <1>4, <2>1 DEF Begins
    <3> QED BY <2>1, <3>1 DEF Begins
  <2>2. CASE Len(frames) < Len(v.frames)
    <3> DEFINE i == Len(frames) + 1
    <3>1. v.at < w.at
      BY <1>0, <1>1, <1>4, <2>2 DEF Newest
    <3>2. i \in 1..Len(v.frames) /\ i \in 1..Len(s) /\ i > Len(frames)
      BY <1>1, <1>4, <2>2 DEF Begins
    <3>3. v.frames[i].epoch = w.at
      BY <3>2, <1>2, <1>4 DEF Begins
    <3>4. /\ v.at + 1 \in 1..Len(S)
          /\ Begins(v.frames, S[v.at + 1])
          /\ Len(S[v.at + 1]) \in Nat
      <4>1. v.at + 1 \in 1..Len(S) /\ Begins(v.frames, S[v.at + 1])
        BY <1>4 DEF ViewOK
      <4>2. S[v.at + 1] \in Screens
        BY <1>0, <4>1
      <4> QED BY <4>1, <4>2 DEF Screens
    <3>5. i \in 1..Len(S[v.at + 1]) /\ v.frames[i] = S[v.at + 1][i]
      BY <1>1, <3>2, <3>4 DEF Begins
    <3>6. S[v.at + 1][i].epoch <= v.at
      <4> DEFINE k == v.at + 1
      <4>1. k \in 1..Len(S) /\ i \in 1..Len(S[k]) /\ k - 1 = v.at
        BY <1>0, <3>4, <3>5
      <4> HIDE DEF k, i
      <4>2. S[k][i].epoch <= k - 1
        BY <4>1 DEF HistoryOK
      <4>3. S[k][i].epoch <= v.at
        BY <4>1, <4>2
      <4> QED BY <4>3 DEF k
    <3> QED BY <1>0, <3>1, <3>3, <3>5, <3>6
  <2> QED BY <1>1, <2>1, <2>2
<1>5. Begins(Shown(v), s) => Begins(Shown(v), frames)
  <2>1. CASE v.mixed
    BY <1>1, <2>1 DEF Begins, Shown
  <2>2. CASE ~v.mixed
    BY <1>4, <2>2 DEF Shown
  <2> QED BY <2>1, <2>2
<1>6. \E k \in 1..Len(S) : Begins(Shown(w), S[k]) /\ (Begins(Shown(v), S[k]) => Begins(Shown(v), Shown(w)))
  BY <1>0, <1>2, <1>3, <1>5 DEF s
<1> QED BY <1>6 DEF Shows

(* Every message on its way shows the replica something it may show. *)
LEMMA StepShows ==
    ASSUME NEW S, HistoryOK(S), NEW v \in Views, NEW w \in Views, NEW m \in Messages,
           ViewOK(S, v), ViewOK(S, w), Leads(S, v, m, w)
    PROVE  Shows(S, Shown(v), Shown(w))
<1>1. CASE m.kind = "forget"
  <2>1. w.frames = v.frames /\ w.mixed = v.mixed
    BY <1>1 DEF Leads, Views
  <2> QED BY <2>1 DEF Shown, Shows
<1>2. CASE m.kind = "ended"
  BY <1>2 DEF Leads, Shows
<1>3. CASE m.kind \in {"ready", "gap"}
  <2>1. Newest(S, v, m.frames, w) /\ m.frames \in Screens
    BY <1>3 DEF Leads, Messages
  <2> QED BY <2>1, NewestShows
<1>4. CASE m.kind = "reset"
  <2>1. Shown(w) = <<>> /\ Len(S) > 1
    BY <1>4 DEF Leads, Shown
  <2> QED BY <2>1 DEF Shows
<1>5. CASE m.kind = "batch"
  <2>1. CASE w.mixed
    <3>1. Shown(w) = <<>> /\ Len(S) > 1
      BY <2>1 DEF ViewOK, Shown
    <3> QED BY <3>1 DEF Shows
  <2>2. CASE ~w.mixed
    <3>1. /\ Shown(w) = v.frames \o m.frames /\ Shown(v) = v.frames
          /\ v.frames \in Screens /\ m.frames \in Screens
      BY <1>5, <2>2 DEF Leads, Shown, Views, Messages
    <3>2. Begins(v.frames, v.frames \o m.frames)
      BY <3>1, Joined
    <3>3. w.at + 1 \in 1..Len(S) /\ Begins(Shown(w), S[w.at + 1])
      BY <2>2 DEF ViewOK, Shown
    <3>4. Begins(Shown(v), Shown(w))
      BY <3>1, <3>2
    <3> QED BY <3>3, <3>4 DEF Shows
  <2> QED BY <2>1, <2>2
<1>6. m.kind \in {"forget", "reset", "ended", "ready", "batch", "gap"}
  BY DEF Messages
<1> QED BY <1>1, <1>2, <1>3, <1>4, <1>5, <1>6

-----------------------------------------------------------------------------
(* How the story goes on. *)

LEMMA StoryLater ==
    ASSUME NEW S, HistoryOK(S), NEW T, HistoryOK(T), Later(S, T),
           NEW r, r.at \in Nat, r.at + 1 \in 1..Len(S),
           NEW q \in Seq(Messages), NEW c, StoryOK(S, r, q, c)
    PROVE  StoryOK(T, r, q, c)
<1>0. /\ S \in Seq(Screens) /\ T \in Seq(Screens) /\ Len(q) \in Nat
      /\ Len(S) \in Nat /\ Len(T) \in Nat /\ Len(S) <= Len(T)
  BY DEF HistoryOK, Later
<1>1. PICK R : Tells(S, r, q, c, R)
  BY DEF StoryOK
<1>2. R \in [0..Len(q) -> Views]
  BY <1>1 DEF Tells
<1>3. ASSUME NEW n \in 0..Len(q) PROVE ViewOK(T, R[n])
  <2> DEFINE v == R[n]
  <2>1. v.at \in Nat /\ v.frames \in Screens
    BY <1>2 DEF Views
  <2>2. ViewOK(S, v)
    BY <1>1 DEF Tells
  <2> HIDE DEF v
  <2>3. v.at + 1 \in 1..Len(S)
    BY <2>2 DEF ViewOK
  <2>4. v.at + 1 \in 1..Len(T) /\ (Begins(v.frames, S[v.at + 1]) => Begins(v.frames, T[v.at + 1]))
    BY <1>0, <2>1, <2>3, LaterKeeps
  <2>5. ViewOK(T, v)
    BY <1>0, <2>2, <2>4 DEF ViewOK
  <2> QED BY <2>5 DEF v
<1>4. ASSUME NEW v \in Views, NEW w \in Views, NEW frames \in Screens, Newest(S, v, frames, w)
      PROVE  Newest(T, v, frames, w)
  <2>1. w.at \in Nat /\ Full(S, frames, w.at) /\ w.at + 1 \in 1..Len(S)
    BY <1>4 DEF Newest, Full, Views
  <2>2. Full(T, frames, w.at)
    BY <1>0, <2>1, LaterKeeps
  <2> QED BY <1>4, <2>2 DEF Newest
<1>5. ASSUME NEW n \in 1..Len(q) PROVE Leads(T, R[n - 1], q[n], R[n])
  <2> DEFINE v == R[n - 1]
             w == R[n]
             m == q[n]
  <2>1. v \in Views /\ w \in Views /\ m \in Messages
    <3>1. n - 1 \in 0..Len(q) /\ n \in 0..Len(q) /\ n \in 1..Len(q)
      BY <1>0
    <3> QED BY <1>2, <3>1
  <2>2. Leads(S, v, m, w)
    BY <1>1 DEF Tells
  <2> HIDE DEF v, w, m
  <2>3. m.kind \in {"ready", "gap"} => m.frames \in Screens
    BY <2>1 DEF Messages
  <2>4. m.kind \in {"ready", "gap"} => Newest(S, v, m.frames, w)
    BY <2>2 DEF Leads
  <2>5. m.kind \in {"ready", "gap"} => Newest(T, v, m.frames, w)
    BY <1>4, <2>1, <2>3, <2>4
  <2>6. Len(S) > 1 => Len(T) > 1
    BY <1>0
  <2>7. Leads(T, v, m, w)
    BY <2>2, <2>5, <2>6 DEF Leads
  <2> QED BY <2>7 DEF v, w, m
<1>6. LastTold(T, r, R[Len(q)])
  <2> DEFINE v == R[Len(q)]
  <2>1. v \in Views
    BY <1>0, <1>2
  <2>2. LastTold(S, r, v)
    BY <1>1 DEF Tells
  <2> HIDE DEF v
  <2>3. v.frames \in Screens
    BY <2>1 DEF Views
  <2>4. Begins(v.frames, S[r.at + 1]) => Begins(v.frames, T[r.at + 1])
    BY <1>0, <2>3, LaterKeeps
  <2>5. LastTold(T, r, v)
    BY <2>2, <2>4 DEF LastTold
  <2> QED BY <2>5 DEF v
<1>7. Tells(T, r, q, c, R)
  BY <1>1, <1>3, <1>5, <1>6 DEF Tells
<1> QED BY <1>7 DEF StoryOK

LEMMA StoryKept ==
    ASSUME NEW S, NEW r, NEW s, NEW q \in Seq(Messages), NEW c, StoryOK(S, r, q, c),
           \A v \in Views : ViewOK(S, v) /\ LastTold(S, r, v) => LastTold(S, s, v)
    PROVE  StoryOK(S, s, q, c)
<1>1. PICK R : Tells(S, r, q, c, R)
  BY DEF StoryOK
<1>2. Len(q) \in 0..Len(q)
  OBVIOUS
<1>3. R[Len(q)] \in Views /\ ViewOK(S, R[Len(q)]) /\ LastTold(S, r, R[Len(q)])
  BY <1>1, <1>2 DEF Tells
<1>4. Tells(S, s, q, c, R)
  BY <1>1, <1>3 DEF Tells
<1> QED BY <1>4 DEF StoryOK

LEMMA StoryGrows ==
    ASSUME NEW S, NEW r, NEW s, NEW q \in Seq(Messages), NEW m \in Messages, NEW c,
           StoryOK(S, r, q, c),
           \A v \in Views : ViewOK(S, v) /\ LastTold(S, r, v) =>
              \E w \in Views : ViewOK(S, w) /\ Leads(S, v, m, w) /\ LastTold(S, s, w)
    PROVE  StoryOK(S, s, Append(q, m), c)
<1> DEFINE p == Append(q, m)
<1>0. /\ Len(q) \in Nat /\ Len(q) \in 0..Len(q) /\ Len(p) = Len(q) + 1
      /\ \A n \in 1..Len(q) : p[n] = q[n]
      /\ p[Len(q) + 1] = m
  OBVIOUS
<1>1. PICK R : Tells(S, r, q, c, R)
  BY DEF StoryOK
<1>2. R[Len(q)] \in Views /\ ViewOK(S, R[Len(q)]) /\ LastTold(S, r, R[Len(q)])
  BY <1>0, <1>1 DEF Tells
<1>3. PICK w \in Views : ViewOK(S, w) /\ Leads(S, R[Len(q)], m, w) /\ LastTold(S, s, w)
  BY <1>2
<1> DEFINE Q == [n \in 0..Len(p) |-> IF n = Len(p) THEN w ELSE R[n]]
<1> HIDE DEF p
<1>4. R \in [0..Len(q) -> Views] /\ \A n \in 0..Len(q) : ViewOK(S, R[n])
  BY <1>1 DEF Tells
<1>5. ASSUME NEW n \in 0..Len(p)
      PROVE  \/ n = Len(p) /\ Q[n] = w
             \/ n \in 0..Len(q) /\ Q[n] = R[n] /\ n # Len(p)
  BY <1>0
<1>6. Q \in [0..Len(p) -> Views]
  <2>1. \A n \in 0..Len(p) : Q[n] \in Views
    BY <1>3, <1>4, <1>5
  <2> QED BY <2>1
<1> HIDE DEF Q
<1>7. ASSUME NEW n \in 0..Len(p) PROVE ViewOK(S, Q[n])
  BY <1>3, <1>4, <1>5
<1>8. ASSUME NEW n \in 1..Len(p) PROVE Leads(S, Q[n - 1], p[n], Q[n])
  <2>1. CASE n \in 1..Len(q)
    <3>1. n \in 0..Len(p) /\ n - 1 \in 0..Len(p) /\ n # Len(p) /\ n - 1 # Len(p)
      BY <1>0, <2>1
    <3>2. Q[n] = R[n] /\ Q[n - 1] = R[n - 1] /\ p[n] = q[n]
      BY <1>0, <1>5, <2>1, <3>1
    <3>3. Leads(S, R[n - 1], q[n], R[n])
      BY <1>1, <2>1 DEF Tells
    <3> QED BY <3>2, <3>3
  <2>2. CASE n = Len(q) + 1
    <3>1. Len(p) = Len(q) + 1 /\ Len(q) \in Nat
      BY <1>0
    <3>2. n \in 0..Len(p) /\ n - 1 \in 0..Len(p) /\ n = Len(p) /\ n - 1 # Len(p) /\ n - 1 = Len(q)
      BY <2>2, <3>1
    <3>3. Q[n] = w
      BY <1>5, <3>2
    <3>4. Len(q) \in 0..Len(p) /\ Len(q) # Len(p)
      BY <3>1
    <3>5. Q[Len(q)] = R[Len(q)]
      BY <1>5, <3>4
    <3>6. Q[n - 1] = Q[Len(q)]
      BY <3>2
    <3>7. p[Len(q) + 1] = m
      BY <1>0
    <3>8. p[n] = m
      BY <2>2, <3>7
    <3> QED BY <1>3, <3>3, <3>5, <3>6, <3>8
  <2> QED BY <1>0, <2>1, <2>2
<1>9. Q[0] = R[0] /\ Q[Len(p)] = w
  <2>1. 0 \in 0..Len(p) /\ 0 # Len(p) /\ Len(p) \in 0..Len(p)
    BY <1>0
  <2>2. Q[0] = R[0]
    BY <1>5, <2>1
  <2>3. Q[Len(p)] = w
    BY <1>0, <1>5, <2>1
  <2> QED BY <2>2, <2>3
<1>10. Tells(S, s, p, c, Q)
  <2>1. R[0].frames = c.frames /\ R[0].seq = c.seq /\ R[0].mixed = c.mixed
    BY <1>1 DEF Tells
  <2> QED BY <1>3, <1>6, <1>7, <1>8, <1>9, <2>1 DEF Tells
<1> QED BY <1>10 DEF StoryOK, p

(* What the host does with a message leads from its view to the next one.   *)
LEMMA AppliedView ==
    ASSUME replica \in Replicas, NEW m \in Messages,
           NEW S, NEW v \in Views, NEW w \in Views,
           v.frames = replica.frames, v.seq = replica.seq, v.mixed = replica.mixed,
           Leads(S, v, m, w)
    PROVE  /\ Applied(m) \in Replicas
           /\ w.frames = Applied(m).frames
           /\ w.seq = Applied(m).seq
           /\ w.mixed = Applied(m).mixed
<1>1. CASE m.kind = "forget"
  <2>1. Applied(m) = [replica EXCEPT !.seq = None]
    BY <1>1 DEF Applied
  <2>2. w.frames = v.frames /\ w.seq = None /\ w.mixed = v.mixed
    BY <1>1 DEF Leads, Views
  <2> QED BY <2>1, <2>2 DEF Replicas
<1>2. CASE m.kind = "ready"
  <2>1. m.frames \in Screens /\ m.through \in Nat
    BY <1>2 DEF Messages
  <2>2. IsCurrent(m.through) /\ w.frames = m.frames /\ w.seq = m.through /\ ~w.mixed
    BY <1>2 DEF Leads, Newest, IsCurrent
  <2>3. Applied(m) = [NewReplica EXCEPT !.frames = m.frames, !.seq = m.through]
    BY <1>2, <2>2 DEF Applied
  <2>4. w.mixed = FALSE
    BY <2>2 DEF Views
  <2> QED BY <2>1, <2>2, <2>3, <2>4 DEF NewReplica, Replicas
<1>3. CASE m.kind = "batch"
  <2>1. m.frames \in Screens /\ m.mixed \in BOOLEAN
    BY <1>3 DEF Messages
  <2>2. Applied(m) = [replica EXCEPT !.frames = @ \o m.frames, !.mixed = m.mixed]
    BY <1>3 DEF Applied
  <2>3. w.frames = v.frames \o m.frames /\ w.seq = v.seq /\ w.mixed = m.mixed
    BY <1>3 DEF Leads
  <2>4. replica.frames \o m.frames \in Screens
    BY <2>1, Joined DEF Replicas
  <2> QED BY <2>1, <2>2, <2>3, <2>4 DEF Replicas
<1>4. CASE m.kind = "gap"
  <2>1. m.frames \in Screens
    BY <1>4 DEF Messages
  <2>2. Applied(m) = [replica EXCEPT !.frames = m.frames, !.patched = TRUE, !.mixed = FALSE]
    BY <1>4 DEF Applied
  <2>3. w.frames = m.frames /\ w.seq = v.seq /\ w.mixed = FALSE
    BY <1>4 DEF Leads, Newest, Views
  <2> QED BY <2>1, <2>2, <2>3 DEF Replicas
<1>5. CASE m.kind = "reset"
  <2>1. Applied(m) = NewReplica
    BY <1>5 DEF Applied
  <2>2. w.frames = <<>> /\ w.seq = None /\ w.mixed = FALSE
    BY <1>5 DEF Leads, Views
  <2>3. <<>> \in Screens
    BY DEF Screens
  <2>4. NewReplica \in Replicas
    BY <2>3 DEF NewReplica, Replicas
  <2>5. NewReplica.frames = <<>> /\ NewReplica.seq = None /\ NewReplica.mixed = FALSE
    BY DEF NewReplica
  <2> QED BY <2>1, <2>2, <2>4, <2>5
<1>6. CASE m.kind = "ended"
  <2>1. Applied(m) = [replica EXCEPT !.ended = TRUE]
    BY <1>6 DEF Applied
  <2>2. w = v
    BY <1>6 DEF Leads
  <2> QED BY <2>1, <2>2 DEF Replicas
<1>7. m.kind \in {"forget", "reset", "ended", "ready", "batch", "gap"}
  BY DEF Messages
<1> QED BY <1>1, <1>2, <1>3, <1>4, <1>5, <1>6, <1>7

LEMMA StoryApplied ==
    ASSUME NEW S, HistoryOK(S), NEW r, queue \in Seq(Messages), queue # <<>>,
           replica \in Replicas, StoryOK(S, r, queue, replica)
    PROVE  /\ StoryOK(S, r, Tail(queue), Applied(Head(queue)))
           /\ Shows(S, Shown(replica), Shown(Applied(Head(queue))))
           /\ Applied(Head(queue)) \in Replicas
<1> DEFINE m == Head(queue)
           q == Tail(queue)
           c == Applied(m)
<1>0. /\ m \in Messages /\ m = queue[1]
      /\ q \in Seq(Messages) /\ Len(q) = Len(queue) - 1
      /\ Len(queue) \in Nat \ {0}
      /\ \A n \in 1..Len(q) : q[n] = queue[n + 1]
  BY HeadTailProperties, EmptySeq
<1>1. PICK R : Tells(S, r, queue, replica, R)
  BY DEF StoryOK
<1> HIDE DEF m, q
<1>2. /\ 0 \in 0..Len(queue) /\ 1 \in 0..Len(queue) /\ 1 \in 1..Len(queue)
      /\ 1 - 1 = 0
  BY <1>0
<1>3. /\ R[0] \in Views /\ R[1] \in Views
      /\ ViewOK(S, R[0]) /\ ViewOK(S, R[1])
      /\ R[0].frames = replica.frames /\ R[0].seq = replica.seq /\ R[0].mixed = replica.mixed
  BY <1>1, <1>2 DEF Tells
<1>4. Leads(S, R[0], m, R[1])
  <2>1. Leads(S, R[1 - 1], queue[1], R[1])
    BY <1>1, <1>2 DEF Tells
  <2> QED BY <2>1, <1>0, <1>2
<1>5. c \in Replicas /\ R[1].frames = c.frames /\ R[1].seq = c.seq /\ R[1].mixed = c.mixed
  BY <1>0, <1>3, <1>4, AppliedView
<1> HIDE DEF c
<1>6. Shows(S, Shown(replica), Shown(c))
  <2>1. Shows(S, Shown(R[0]), Shown(R[1]))
    BY <1>0, <1>3, <1>4, StepShows
  <2>2. Shown(R[0]) = Shown(replica) /\ Shown(R[1]) = Shown(c)
    BY <1>3, <1>5 DEF Shown
  <2> QED BY <2>1, <2>2
<1> DEFINE Q == [n \in 0..Len(q) |-> R[n + 1]]
<1>7. R \in [0..Len(queue) -> Views]
  BY <1>1 DEF Tells
<1>8. \A n \in 0..Len(q) : n + 1 \in 0..Len(queue)
  BY <1>0
<1>9. Q \in [0..Len(q) -> Views] /\ \A n \in 0..Len(q) : Q[n] = R[n + 1]
  BY <1>7, <1>8
<1> HIDE DEF Q
<1>10. ASSUME NEW n \in 0..Len(q) PROVE ViewOK(S, Q[n])
  <2>1. ViewOK(S, R[n + 1])
    BY <1>1, <1>8 DEF Tells
  <2> QED BY <1>9, <2>1
<1>11. ASSUME NEW n \in 1..Len(q) PROVE Leads(S, Q[n - 1], q[n], Q[n])
  <2>1. /\ n \in 0..Len(q) /\ n - 1 \in 0..Len(q) /\ n + 1 \in 1..Len(queue)
        /\ n - 1 + 1 = n /\ n + 1 - 1 = n
    BY <1>0
  <2>2. Leads(S, R[n + 1 - 1], queue[n + 1], R[n + 1])
    BY <1>1, <2>1 DEF Tells
  <2>3. Q[n - 1] = R[n] /\ Q[n] = R[n + 1] /\ q[n] = queue[n + 1]
    BY <1>0, <1>9, <2>1
  <2> QED BY <2>1, <2>2, <2>3
<1>12. Q[0] = R[1] /\ Q[Len(q)] = R[Len(queue)]
  <2>1. 0 \in 0..Len(q) /\ 0 + 1 = 1 /\ Len(q) \in 0..Len(q) /\ Len(q) + 1 = Len(queue)
    BY <1>0
  <2> QED BY <1>9, <2>1
<1>13. LastTold(S, r, R[Len(queue)])
  BY <1>1 DEF Tells
<1>14. Tells(S, r, q, c, Q)
  BY <1>5, <1>9, <1>10, <1>11, <1>12, <1>13 DEF Tells
<1> QED BY <1>5, <1>6, <1>14 DEF StoryOK, m, q, c

-----------------------------------------------------------------------------
(* The reader and its connection, against what the pane has shown. *)

ReaderOK(S, r) ==
    /\ r.at + 1 \in 1..Len(S)
    /\ r.mixed => Len(S) > 1 /\ r.from > 0
    /\ r.rebuilt => Len(S) > 1
    /\ ~r.mixed => r.from <= Len(S[r.at + 1])
    /\ r.pc = "transfer" =>
        /\ r.state \in States
        /\ r.at <= r.state.epoch
        /\ Full(S, r.state.frames, r.state.epoch)
        /\ ~r.mixed /\ r.at = r.state.epoch => r.from <= Len(r.state.frames)

(* A connection to the running daemon, or what is left of one. *)
LinkOK(e, r, w) ==
    /\ r.pc # "wait" => w.replies = <<>> /\ w.stream = None
    /\ w.stream # None => w.open
    /\ w.open /\ r.pc \in {"subscribe", "wait"} => r.at = e
    /\ w.open /\ r.pc = "transfer" => r.state.epoch = e

(* The answer m to a reader that has everything through c. *)
ReplyOK(S, at, c, m, last) ==
    /\ m.epoch = at
    /\ m.kind = "frames" => /\ m.through = c + Len(m.frames)
                            /\ m.through <= Len(S[at + 1])
                            /\ \A i \in 1..Len(m.frames) : m.frames[i] = S[at + 1][c + i]
    /\ m.kind = "gap" => /\ c <= m.through
                         /\ Len(m.frames) = m.through
                         /\ Full(S, m.frames, at)
    /\ m.kind = "done" => m.through = c /\ last
    /\ m.kind = "ahead" => Len(S) > 1 /\ last
    /\ m.kind = "stale" => last
    /\ m.kind = "error" => c <= m.through /\ m.through <= Len(S[at + 1])

Cursor(r, w, i) == IF i = 0 THEN r.from ELSE w.replies[i].through

(* Every answer goes on where the one before it ended. *)
ChainOK(S, r, w) ==
    /\ \A i \in 1..Len(w.replies) :
        ReplyOK(S, r.at, Cursor(r, w, i - 1), w.replies[i], i = Len(w.replies) /\ w.stream = None)
    /\ w.stream # None => w.stream = Cursor(r, w, Len(w.replies))

LEMMA ReaderLater ==
    ASSUME NEW S, HistoryOK(S), NEW T, HistoryOK(T), Later(S, T),
           NEW r \in Readers, ReaderOK(S, r)
    PROVE  ReaderOK(T, r)
<1>0. /\ S \in Seq(Screens) /\ T \in Seq(Screens)
      /\ Len(S) \in Nat /\ Len(T) \in Nat /\ Len(S) <= Len(T)
  BY DEF HistoryOK, Later
<1>1. r.at \in Nat /\ r.from \in Nat /\ r.at + 1 \in 1..Len(S) /\ <<>> \in Screens
  BY Constants DEF Readers, ReaderOK, Epochs, Screens
<1>2. r.at + 1 \in 1..Len(T) /\ Len(S[r.at + 1]) <= Len(T[r.at + 1])
  BY <1>0, <1>1, LaterKeeps
<1>3. ~r.mixed => r.from <= Len(T[r.at + 1])
  <2>1. S[r.at + 1] \in Screens /\ T[r.at + 1] \in Screens
    BY <1>0, <1>1, <1>2
  <2>2. Len(S[r.at + 1]) \in Nat /\ Len(T[r.at + 1]) \in Nat
    BY <2>1 DEF Screens
  <2>3. ~r.mixed => r.from <= Len(S[r.at + 1])
    BY DEF ReaderOK
  <2> QED BY <1>1, <1>2, <2>2, <2>3
<1>4. ASSUME r.pc = "transfer" PROVE Full(T, r.state.frames, r.state.epoch)
  <2> DEFINE x == r.state
  <2>1. x \in States /\ Full(S, x.frames, x.epoch)
    BY <1>4 DEF ReaderOK
  <2> HIDE DEF x
  <2>2. x.frames \in Screens /\ x.epoch \in Nat /\ x.epoch + 1 \in 1..Len(S)
    BY <2>1, Constants DEF States, Epochs, Full
  <2>3. Full(T, x.frames, x.epoch)
    BY <1>0, <2>1, <2>2, LaterKeeps
  <2> QED BY <2>3 DEF x
<1>5. Len(S) > 1 => Len(T) > 1
  BY <1>0
<1> QED BY <1>2, <1>3, <1>4, <1>5 DEF ReaderOK

LEMMA ChainLater ==
    ASSUME NEW S, HistoryOK(S), NEW T, HistoryOK(T), Later(S, T),
           NEW r \in Readers, r.at + 1 \in 1..Len(S),
           NEW w \in Wires, NEW x \in Wires, ChainOK(S, r, w),
           x.replies = w.replies, x.stream \in {w.stream, None}
    PROVE  ChainOK(T, r, x)
<1>0. /\ S \in Seq(Screens) /\ T \in Seq(Screens)
      /\ Len(S) \in Nat /\ Len(T) \in Nat /\ Len(S) <= Len(T)
  BY DEF HistoryOK, Later
<1>1. r.at \in Nat /\ r.from \in Nat /\ r.at + 1 \in 1..Len(T)
  BY <1>0, Constants DEF Readers, Epochs
<1>2. S[r.at + 1] \in Screens /\ T[r.at + 1] \in Screens
  BY <1>0, <1>1
<1>3. Begins(S[r.at + 1], T[r.at + 1])
  BY <1>0 DEF Later
<1>4. ASSUME NEW i \in 1..Len(w.replies)
      PROVE  ReplyOK(T, r.at, Cursor(r, x, i - 1), x.replies[i], i = Len(x.replies) /\ x.stream = None)
  <2> DEFINE m == w.replies[i]
             c == Cursor(r, w, i - 1)
             s == S[r.at + 1]
             t == T[r.at + 1]
  <2>1. m \in Replies /\ Len(w.replies) \in Nat
    BY DEF Wires
  <2>2. c \in Nat
    <3>1. CASE i - 1 = 0
      BY <1>1, <3>1 DEF Cursor
    <3>2. CASE i - 1 # 0
      <4>1. i - 1 \in 1..Len(w.replies)
        BY <2>1, <3>2
      <4>2. w.replies[i - 1] \in Replies
        BY <4>1 DEF Wires
      <4> QED BY <3>2, <4>2 DEF Cursor, Replies
    <3> QED BY <3>1, <3>2
  <2>3. x.replies[i] = m /\ Cursor(r, x, i - 1) = c /\ Len(x.replies) = Len(w.replies)
    BY DEF Cursor
  <2>4. ReplyOK(S, r.at, c, m, i = Len(w.replies) /\ w.stream = None)
    BY DEF ChainOK
  <2> HIDE DEF m, c
  <2>5. m.frames \in Screens /\ Len(m.frames) \in Nat /\ m.through \in Nat
    BY <2>1 DEF Replies, Screens
  <2>6. Len(s) \in Nat /\ Len(t) \in Nat /\ Begins(s, t)
    BY <1>2, <1>3 DEF Screens
  <2> HIDE DEF s, t
  <2>7. ASSUME m.kind = "frames"
        PROVE  /\ m.through = c + Len(m.frames)
               /\ m.through <= Len(t)
               /\ \A k \in 1..Len(m.frames) : m.frames[k] = t[c + k]
    <3>1. /\ m.through = c + Len(m.frames)
          /\ m.through <= Len(s)
          /\ \A k \in 1..Len(m.frames) : m.frames[k] = s[c + k]
      BY <2>4, <2>7 DEF ReplyOK, s
    <3>2. \A k \in 1..Len(m.frames) : c + k \in 1..Len(s)
      BY <2>2, <2>5, <2>6, <3>1
    <3>3. \A k \in 1..Len(m.frames) : s[c + k] = t[c + k]
      BY <2>6, <3>2 DEF Begins
    <3>4. m.through <= Len(t)
      BY <2>5, <2>6, <3>1 DEF Begins
    <3> QED BY <3>1, <3>3, <3>4
  <2>8. ASSUME m.kind = "gap" PROVE Full(T, m.frames, r.at)
    <3>1. Full(S, m.frames, r.at)
      BY <2>4, <2>8 DEF ReplyOK
    <3> QED BY <1>0, <1>1, <2>5, <3>1, LaterKeeps
  <2>9. Len(S) > 1 => Len(T) > 1
    BY <1>0
  <2>10. w.stream = None => x.stream = None
    OBVIOUS
  <2>11. ASSUME m.kind = "error" PROVE c <= m.through /\ m.through <= Len(t)
    <3>1. c <= m.through /\ m.through <= Len(s)
      BY <2>4, <2>11 DEF ReplyOK, s
    <3> QED BY <2>5, <2>6, <3>1 DEF Begins
  <2>12. ReplyOK(T, r.at, c, m, i = Len(w.replies) /\ x.stream = None)
    BY <2>4, <2>7, <2>8, <2>9, <2>10, <2>11 DEF ReplyOK, t
  <2> QED BY <2>3, <2>12
<1>5. x.stream # None => x.stream = Cursor(r, x, Len(x.replies))
  BY DEF ChainOK, Cursor
<1> QED BY <1>4, <1>5 DEF ChainOK

(* One more answer. *)
LEMMA ChainGrows ==
    ASSUME NEW S, NEW r \in Readers, NEW w \in Wires, NEW x \in Wires, NEW m \in Replies,
           NEW more \in BOOLEAN,
           \A i \in 1..Len(w.replies) :
                ReplyOK(S, r.at, Cursor(r, w, i - 1), w.replies[i], FALSE),
           ReplyOK(S, r.at, Cursor(r, w, Len(w.replies)), m, ~more),
           x.replies = Append(w.replies, m),
           x.stream = IF more THEN m.through ELSE None
    PROVE  ChainOK(S, r, x)
<1> DEFINE k == Len(w.replies)
<1>0. /\ k \in Nat /\ Len(x.replies) = k + 1
      /\ \A i \in 1..k : x.replies[i] = w.replies[i]
      /\ x.replies[k + 1] = m
  BY DEF Wires
<1>1. m.through \in Nat /\ None \notin Nat
  BY Constants DEF Replies
<1>2. (x.stream = None) = ~more
  BY <1>1
<1> HIDE DEF k
<1>3. \A i \in 0..k : Cursor(r, x, i) = Cursor(r, w, i)
  <2> SUFFICES ASSUME NEW i \in 0..k PROVE Cursor(r, x, i) = Cursor(r, w, i)
    OBVIOUS
  <2>1. CASE i = 0
    BY <2>1 DEF Cursor
  <2>2. CASE i # 0
    <3>1. i \in 1..k
      BY <1>0, <2>2
    <3> QED BY <1>0, <2>2, <3>1 DEF Cursor
  <2> QED BY <2>1, <2>2
<1>4. ASSUME NEW i \in 1..Len(x.replies)
      PROVE  ReplyOK(S, r.at, Cursor(r, x, i - 1), x.replies[i], i = Len(x.replies) /\ x.stream = None)
  <2>1. CASE i \in 1..k
    <3>1. i - 1 \in 0..k
      BY <1>0, <2>1
    <3>2. ReplyOK(S, r.at, Cursor(r, w, i - 1), w.replies[i], FALSE)
      BY <2>1 DEF k
    <3>3. Cursor(r, x, i - 1) = Cursor(r, w, i - 1) /\ x.replies[i] = w.replies[i]
      BY <1>0, <1>3, <2>1, <3>1
    <3> QED BY <3>2, <3>3 DEF ReplyOK
  <2>2. CASE i = k + 1
    <3>1. i - 1 = k /\ k \in 0..k
      BY <1>0, <2>2
    <3>2. Cursor(r, x, i - 1) = Cursor(r, w, k) /\ x.replies[i] = m
      BY <1>0, <1>3, <2>2, <3>1
    <3>3. ReplyOK(S, r.at, Cursor(r, w, k), m, ~more)
      BY DEF k
    <3>4. (i = Len(x.replies) /\ x.stream = None) = ~more
      BY <1>0, <1>2, <2>2
    <3> QED BY <3>2, <3>3, <3>4
  <2> QED BY <1>0, <2>1, <2>2
<1>5. x.stream # None => x.stream = Cursor(r, x, Len(x.replies))
  <2>1. Len(x.replies) # 0 /\ x.replies[Len(x.replies)] = m
    BY <1>0
  <2>2. Cursor(r, x, Len(x.replies)) = m.through
    BY <2>1 DEF Cursor
  <2> QED BY <2>2
<1> QED BY <1>4, <1>5 DEF ChainOK

(* The first answer has been read. *)
LEMMA ChainShrinks ==
    ASSUME NEW S, NEW r \in Readers, NEW t \in Readers, NEW w \in Wires, NEW x \in Wires,
           ChainOK(S, r, w), w.replies # <<>>,
           t.at = r.at, t.from = w.replies[1].through,
           x.replies = Tail(w.replies), x.stream = w.stream
    PROVE  ChainOK(S, t, x)
<1> DEFINE k == Len(x.replies)
<1>0. /\ k \in Nat /\ Len(w.replies) = k + 1
      /\ \A i \in 1..k : x.replies[i] = w.replies[i + 1]
  <2>1. w.replies \in Seq(Replies)
    BY DEF Wires
  <2>2. Len(w.replies) \in Nat /\ Len(w.replies) # 0
    BY <2>1, EmptySeq
  <2>3. /\ Len(Tail(w.replies)) = Len(w.replies) - 1
        /\ \A i \in 1..Len(Tail(w.replies)) : Tail(w.replies)[i] = w.replies[i + 1]
    BY <2>1, HeadTailProperties
  <2> QED BY <2>2, <2>3
<1> HIDE DEF k
<1>1. \A i \in 0..k : Cursor(t, x, i) = Cursor(r, w, i + 1)
  <2> SUFFICES ASSUME NEW i \in 0..k PROVE Cursor(t, x, i) = Cursor(r, w, i + 1)
    OBVIOUS
  <2>1. i + 1 # 0
    BY <1>0
  <2>2. CASE i = 0
    BY <2>1, <2>2 DEF Cursor
  <2>3. CASE i # 0
    <3>1. i \in 1..k
      BY <1>0, <2>3
    <3> QED BY <1>0, <2>1, <2>3, <3>1 DEF Cursor
  <2> QED BY <2>2, <2>3
<1>2. ASSUME NEW i \in 1..Len(x.replies)
      PROVE  ReplyOK(S, t.at, Cursor(t, x, i - 1), x.replies[i], i = Len(x.replies) /\ x.stream = None)
  <2>1. /\ i + 1 \in 1..Len(w.replies) /\ i - 1 \in 0..k /\ i - 1 + 1 = i /\ i + 1 - 1 = i
        /\ i + 1 = Len(w.replies) <=> i = k
    <3>1. i \in 1..k
      BY DEF k
    <3> QED BY <1>0, <3>1
  <2>2. ReplyOK(S, r.at, Cursor(r, w, i + 1 - 1), w.replies[i + 1], i + 1 = Len(w.replies) /\ w.stream = None)
    BY <2>1 DEF ChainOK
  <2>3. x.replies[i] = w.replies[i + 1] /\ Cursor(t, x, i - 1) = Cursor(r, w, i + 1 - 1)
    BY <1>0, <1>1, <2>1 DEF k
  <2>4. (i + 1 = Len(w.replies) /\ w.stream = None) = (i = Len(x.replies) /\ x.stream = None)
    BY <2>1 DEF k
  <2> QED BY <2>2, <2>3, <2>4
<1>3. x.stream # None => x.stream = Cursor(t, x, Len(x.replies))
  <2>1. k \in 0..k /\ k + 1 = Len(w.replies)
    BY <1>0
  <2>2. Cursor(t, x, k) = Cursor(r, w, Len(w.replies))
    BY <1>1, <2>1
  <2>3. w.stream # None => w.stream = Cursor(r, w, Len(w.replies))
    BY DEF ChainOK
  <2> QED BY <2>2, <2>3 DEF k
<1> QED BY <1>2, <1>3 DEF ChainOK

(* The frames of one answer. *)
LEMMA FirstFrames ==
    ASSUME NEW s \in Screens, Numbered(s, 0), NEW n \in Nat, n < Len(s)
    PROVE  LET f == First(SubSeq(s, n + 1, Len(s)), Batch)
           IN /\ SubSeq(s, n + 1, Len(s)) # <<>>
              /\ f \in Screens
              /\ Len(f) \in Nat /\ Len(f) > 0 /\ n + Len(f) <= Len(s)
              /\ Len(f) <= Batch
              /\ \A i \in 1..Len(f) : f[i] = s[n + i]
              /\ f[Len(f)].seq = n + Len(f)
<1> DEFINE c == SubSeq(s, n + 1, Len(s))
           k == IF Len(c) < Batch THEN Len(c) ELSE Batch
           f == First(c, Batch)
<1>0. Len(s) \in Nat /\ Batch \in Nat /\ Batch > 0
  BY Constants DEF Screens
<1>1. /\ c \in Screens /\ Len(c) = Len(s) - n
      /\ \A i \in 1..(Len(s) - n) : c[i] = s[n + i]
  BY <1>0, Part
<1> HIDE DEF c
<1>2. k \in Nat /\ k > 0 /\ k <= Len(c) /\ k <= Batch /\ 0 \in Nat /\ Len(c) > 0
  BY <1>0, <1>1
<1>3. f = SubSeq(c, 0 + 1, k)
  BY DEF First
<1> HIDE DEF k, f
<1>4. f \in Screens /\ Len(f) = k - 0 /\ \A i \in 1..(k - 0) : f[i] = c[0 + i]
  <2>1. c \in Screens /\ 0 \in Nat /\ k \in Nat /\ 0 <= k /\ k <= Len(c)
    BY <1>1, <1>2
  <2>2. /\ SubSeq(c, 0 + 1, k) \in Screens
        /\ Len(SubSeq(c, 0 + 1, k)) = k - 0
        /\ \A i \in 1..(k - 0) : SubSeq(c, 0 + 1, k)[i] = c[0 + i]
    BY <2>1, Part
  <2> QED BY <1>3, <2>2
<1>5. Len(f) = k /\ Len(f) \in Nat /\ Len(f) > 0 /\ n + Len(f) <= Len(s) /\ Len(f) <= Batch
  BY <1>0, <1>1, <1>2, <1>4
<1>6. ASSUME NEW i \in 1..Len(f) PROVE f[i] = s[n + i] /\ n + i \in 1..Len(s)
  <2>1. i \in 1..(k - 0) /\ 0 + i = i /\ i \in 1..(Len(s) - n)
    BY <1>0, <1>1, <1>2, <1>5
  <2>2. n + i \in 1..Len(s)
    BY <1>0, <2>1
  <2> QED BY <1>1, <1>4, <2>1, <2>2
<1>7. f[Len(f)].seq = n + Len(f)
  <2>1. Len(f) \in 1..Len(f)
    BY <1>5
  <2>2. f[Len(f)] = s[n + Len(f)] /\ n + Len(f) \in 1..Len(s)
    BY <1>6, <2>1
  <2>3. s[n + Len(f)].seq = 0 + (n + Len(f))
    BY <2>2 DEF Numbered
  <2> QED BY <1>5, <2>2, <2>3
<1>8. c # <<>>
  BY <1>2
<1> QED BY <1>4, <1>5, <1>6, <1>7, <1>8 DEF c, f

-----------------------------------------------------------------------------
(* The inductive invariant. *)

History == Append(past, pane.screen)

PaneOK ==
    /\ Len(past) = epoch
    /\ HistoryOK(History)
    /\ pane.log = LogOf(pane.screen)

StreamInv ==
    /\ TypeOK
    /\ PaneOK
    /\ ReaderOK(History, reader)
    /\ LinkOK(epoch, reader, wire)
    /\ reader.pc = "wait" => ChainOK(History, reader, wire)
    /\ StoryOK(History, reader, queue, replica)

LEMMA Now ==
    ASSUME TypeOK, PaneOK
    PROVE  /\ epoch \in Nat /\ epoch \in Epochs /\ pane.screen \in Screens /\ Len(pane.screen) \in Nat
           /\ History \in Seq(Screens) /\ Len(History) = epoch + 1
           /\ epoch + 1 \in 1..Len(History)
           /\ History[epoch + 1] = pane.screen
           /\ Numbered(pane.screen, 0)
           /\ \A i \in 1..Len(pane.screen) : pane.screen[i].epoch <= epoch
           /\ Full(History, pane.screen, epoch)
<1>1. /\ epoch \in Nat /\ epoch \in Epochs
      /\ pane.screen \in Screens /\ past \in Seq(Screens) /\ Len(past) = epoch
  BY Constants DEF TypeOK, Panes, Epochs, PaneOK
<1>2. Len(pane.screen) \in Nat
  BY <1>1 DEF Screens
<1>3. /\ History \in Seq(Screens) /\ Len(History) = epoch + 1
      /\ History[epoch + 1] = pane.screen
  BY <1>1 DEF History
<1>4. epoch + 1 \in 1..Len(History)
  BY <1>1, <1>3
<1> DEFINE k == epoch + 1
<1>5. k \in 1..Len(History) /\ History[k] = pane.screen /\ k - 1 = epoch
  BY <1>1, <1>3, <1>4
<1> HIDE DEF k
<1>6. Numbered(History[k], 0) /\ \A i \in 1..Len(History[k]) : History[k][i].epoch <= k - 1
  BY <1>5 DEF PaneOK, HistoryOK
<1>7. Begins(pane.screen, pane.screen)
  BY <1>2 DEF Begins
<1>8. Full(History, pane.screen, epoch)
  BY <1>2, <1>3, <1>4, <1>7 DEF Full
<1> QED BY <1>1, <1>2, <1>3, <1>4, <1>5, <1>6, <1>8

Kinds == {"frames", "gap", "ahead", "done", "stale", "error"}

LEMMA Responds ==
    ASSUME TypeOK, NEW r \in Readers, NEW w \in Wires,
           \A i \in 1..Len(w.replies) :
                ReplyOK(History, r.at, Cursor(r, w, i - 1), w.replies[i], FALSE),
           NEW kind \in Kinds,
           NEW frames \in Screens, NEW through \in Nat, NEW more \in BOOLEAN,
           NEW m, m = [kind |-> kind, epoch |-> epoch, frames |-> frames, through |-> through],
           more => ReplyOK(History, r.at, Cursor(r, w, Len(w.replies)), m, FALSE),
           ~more => ReplyOK(History, r.at, Cursor(r, w, Len(w.replies)), m, TRUE)
    PROVE  /\ Respond(w, kind, frames, through, more) \in Wires
           /\ Respond(w, kind, frames, through, more).open = w.open
           /\ ChainOK(History, r, Respond(w, kind, frames, through, more))
<1> DEFINE x == Respond(w, kind, frames, through, more)
<1>1. m \in Replies /\ m.through = through
  BY DEF TypeOK, Replies, Kinds
<1>2. x = [w EXCEPT !.replies = Append(w.replies, m), !.stream = IF more THEN through ELSE None]
  BY DEF Respond
<1>3. Append(w.replies, m) \in Seq(Replies)
  BY <1>1 DEF Wires
<1>4. /\ x \in Wires /\ x.open = w.open /\ x.replies = Append(w.replies, m)
      /\ x.stream = IF more THEN m.through ELSE None
  BY <1>1, <1>2, <1>3 DEF Wires
<1> HIDE DEF x
<1>5. ChainOK(History, r, x)
  <2>1. ReplyOK(History, r.at, Cursor(r, w, Len(w.replies)), m, ~more)
    <3>1. CASE more
      BY <3>1 DEF ReplyOK
    <3>2. CASE ~more
      BY <3>2 DEF ReplyOK
    <3> QED BY <3>1, <3>2
  <2> QED BY <1>1, <1>4, <2>1, ChainGrows
<1> QED BY <1>4, <1>5 DEF x

LEMMA FramesCases ==
    ASSUME NEW w, NEW n, NEW large
    PROVE  /\ CatchUp(pane.log, n).kind = "ahead" =>
                Frames(w, n, large) = Respond(w, "ahead", <<>>, CurrentSeq(pane.log), FALSE)
           /\ CatchUp(pane.log, n).kind = "gap" =>
                Frames(w, n, large) = Write(w, "gap", pane.screen, CurrentSeq(pane.log), large)
           /\ CatchUp(pane.log, n).kind = "events" /\ CatchUp(pane.log, n).frames = <<>> =>
                Frames(w, n, large) = [w EXCEPT !.stream = n]
           /\ CatchUp(pane.log, n).kind = "events" /\ CatchUp(pane.log, n).frames # <<>> =>
                LET f == First(CatchUp(pane.log, n).frames, Batch)
                IN  Frames(w, n, large) = Write(w, "frames", f, f[Len(f)].seq, large)
<1> DEFINE catch == CatchUp(pane.log, n)
           head == CurrentSeq(pane.log)
<1>1. catch.kind = "ahead" => Frames(w, n, large) = Respond(w, "ahead", <<>>, head, FALSE)
  BY DEF Frames
<1>2. catch.kind = "gap" => Frames(w, n, large) = Write(w, "gap", pane.screen, head, large)
  BY DEF Frames
<1>3. catch.kind = "events" /\ catch.frames = <<>> => Frames(w, n, large) = [w EXCEPT !.stream = n]
  BY DEF Frames
<1>4. catch.kind = "events" /\ catch.frames # <<>> =>
                LET f == First(catch.frames, Batch)
                IN  Frames(w, n, large) = Write(w, "frames", f, f[Len(f)].seq, large)
  BY DEF Frames
<1> QED BY <1>1, <1>2, <1>3, <1>4

(* The second of these cases by itself. *)
LEMMA FramesGap ==
    ASSUME NEW w, NEW n, NEW large, CatchUp(pane.log, n).kind = "gap"
    PROVE  Frames(w, n, large) = Write(w, "gap", pane.screen, CurrentSeq(pane.log), large)
BY FramesCases

(* What the daemon answers goes on where the reader, with the answers on    *)
(* their way, will be.                                                      *)
LEMMA AnswersOK ==
    ASSUME TypeOK, PaneOK, NEW r \in Readers, ReaderOK(History, r), r.at = epoch,
           NEW w \in Wires,
           \A i \in 1..Len(w.replies) :
                ReplyOK(History, r.at, Cursor(r, w, i - 1), w.replies[i], FALSE),
           NEW n \in Nat, n = Cursor(r, w, Len(w.replies)), NEW large \in BOOLEAN
    PROVE  /\ Frames(w, n, large) \in Wires /\ Frames(w, n, large).open = w.open
           /\ ChainOK(History, r, Frames(w, n, large))
<1> DEFINE s == pane.screen
<1>0. /\ epoch \in Nat /\ s \in Screens /\ Len(s) \in Nat /\ Numbered(s, 0)
      /\ pane.log = LogOf(s) /\ History[epoch + 1] = s /\ Full(History, s, epoch)
      /\ <<>> \in Screens
  BY Now DEF PaneOK, Screens
<1>1. /\ CurrentSeq(pane.log) = Len(s)
      /\ n > Len(s) => CatchUp(pane.log, n) = [kind |-> "ahead"]
      /\ n <= Len(s) /\ n < Lost(s) => CatchUp(pane.log, n) = [kind |-> "gap"]
      /\ n <= Len(s) /\ n >= Lost(s) =>
            CatchUp(pane.log, n) = [kind |-> "events", frames |-> SubSeq(s, n + 1, Len(s))]
  BY <1>0, LogAnswers
<1>2. ~r.mixed => n <= Len(s)
  <2> SUFFICES ASSUME ~r.mixed PROVE n <= Len(s)
    OBVIOUS
  <2>1. r.from <= Len(s)
    BY <1>0 DEF ReaderOK
  <2>2. CASE Len(w.replies) = 0
    BY <2>1, <2>2 DEF Cursor
  <2>3. CASE Len(w.replies) # 0
    <3> DEFINE k == Len(w.replies)
               m == w.replies[k]
               c == Cursor(r, w, k - 1)
    <3>1. k \in 1..k /\ n = m.through /\ m \in Replies
      BY <2>3 DEF Wires, Cursor
    <3>2. ReplyOK(History, r.at, c, m, FALSE)
      BY <3>1
    <3> HIDE DEF m, c
    <3>3. m.kind \in {"frames", "gap", "error"}
      BY <3>1, <3>2 DEF ReplyOK, Replies
    <3>4. m.through <= Len(s)
      BY <1>0, <3>2, <3>3 DEF ReplyOK, Full, Begins
    <3> QED BY <3>1, <3>4
  <2> QED BY <2>2, <2>3
<1>3. CASE n > Len(s)
  <2>1. Frames(w, n, large) = Respond(w, "ahead", <<>>, Len(s), FALSE)
    <3>1. CatchUp(pane.log, n).kind = "ahead" /\ CurrentSeq(pane.log) = Len(s)
      BY <1>1, <1>3
    <3>2. CatchUp(pane.log, n).kind = "ahead" =>
                Frames(w, n, large) = Respond(w, "ahead", <<>>, CurrentSeq(pane.log), FALSE)
      BY FramesCases
    <3> QED BY <3>1, <3>2
  <2> DEFINE m == [kind |-> "ahead", epoch |-> epoch, frames |-> <<>>, through |-> Len(s)]
  <2>2. Len(History) > 1
    BY <1>0, <1>2, <1>3 DEF ReaderOK
  <2>3. ReplyOK(History, r.at, Cursor(r, w, Len(w.replies)), m, TRUE)
    BY <2>2 DEF ReplyOK
  <2>4. m = [kind |-> "ahead", epoch |-> epoch, frames |-> <<>>, through |-> Len(s)]
    OBVIOUS
  <2> HIDE DEF m
  <2>5. /\ Respond(w, "ahead", <<>>, Len(s), FALSE) \in Wires
        /\ Respond(w, "ahead", <<>>, Len(s), FALSE).open = w.open
        /\ ChainOK(History, r, Respond(w, "ahead", <<>>, Len(s), FALSE))
    BY <1>0, <2>3, <2>4, Responds DEF Kinds
  <2> QED BY <2>1, <2>5
<1>4. CASE n <= Len(s) /\ n < Lost(s)
  <2>1. Frames(w, n, large) = Write(w, "gap", s, Len(s), large)
    <3>1. CatchUp(pane.log, n).kind = "gap" /\ CurrentSeq(pane.log) = Len(s)
      BY <1>1, <1>4
    <3>2. Frames(w, n, large) = Write(w, "gap", pane.screen, CurrentSeq(pane.log), large)
      BY <3>1, FramesGap
    <3> QED BY <3>1, <3>2
  <2> DEFINE m == [kind |-> "gap", epoch |-> epoch, frames |-> s, through |-> Len(s)]
             e == [kind |-> "error", epoch |-> epoch, frames |-> <<>>, through |-> Len(s)]
  <2>2. /\ ReplyOK(History, r.at, Cursor(r, w, Len(w.replies)), m, FALSE)
        /\ ReplyOK(History, r.at, Cursor(r, w, Len(w.replies)), e, FALSE)
    BY <1>0, <1>4 DEF ReplyOK
  <2>3. /\ s \in Screens /\ Len(s) \in Nat /\ "gap" \in Kinds /\ "error" \in Kinds /\ <<>> \in Screens
        /\ m = [kind |-> "gap", epoch |-> epoch, frames |-> s, through |-> Len(s)]
        /\ e = [kind |-> "error", epoch |-> epoch, frames |-> <<>>, through |-> Len(s)]
    BY <1>0 DEF Kinds
  <2> HIDE DEF m, e, s
  <2>4. CASE large
    <3>1. /\ Respond(w, "error", <<>>, Len(s), TRUE) \in Wires
          /\ Respond(w, "error", <<>>, Len(s), TRUE).open = w.open
          /\ ChainOK(History, r, Respond(w, "error", <<>>, Len(s), TRUE))
      BY <2>2, <2>3, Responds
    <3> QED BY <2>1, <2>4, <3>1 DEF Write
  <2>5. CASE ~large
    <3>1. /\ Respond(w, "gap", s, Len(s), TRUE) \in Wires
          /\ Respond(w, "gap", s, Len(s), TRUE).open = w.open
          /\ ChainOK(History, r, Respond(w, "gap", s, Len(s), TRUE))
      BY <2>2, <2>3, Responds
    <3> QED BY <2>1, <2>5, <3>1 DEF Write
  <2> QED BY <2>4, <2>5
<1>5. CASE n = Len(s) /\ n >= Lost(s)
  <2>1. SubSeq(s, n + 1, Len(s)) = <<>>
    BY <1>0, <1>5, SubSeqEmpty
  <2>2. CatchUp(pane.log, n).kind = "events" /\ CatchUp(pane.log, n).frames = <<>>
    BY <1>0, <1>1, <1>5, <2>1
  <2>3. Frames(w, n, large) = [w EXCEPT !.stream = n]
    <3>1. CatchUp(pane.log, n).kind = "events" /\ CatchUp(pane.log, n).frames = <<>> =>
                Frames(w, n, large) = [w EXCEPT !.stream = n]
      BY FramesCases
    <3> QED BY <2>2, <3>1
  <2>4. Frames(w, n, large) \in Wires /\ Frames(w, n, large).open = w.open /\ Frames(w, n, large).replies = w.replies
        /\ Frames(w, n, large).stream = n
    BY <2>3 DEF Wires
  <2>5. n # None
    BY Constants
  <2> DEFINE x == Frames(w, n, large)
  <2> HIDE DEF x
  <2>6. ChainOK(History, r, x)
    BY <2>4, <2>5 DEF x, ChainOK, Cursor
  <2> QED BY <2>4, <2>6 DEF x
<1>6. CASE n < Len(s) /\ n >= Lost(s)
  <2> DEFINE c == SubSeq(s, n + 1, Len(s))
             f == First(c, Batch)
             m == [kind |-> "frames", epoch |-> epoch, frames |-> f, through |-> n + Len(f)]
             e == [kind |-> "error", epoch |-> epoch, frames |-> <<>>, through |-> n + Len(f)]
  <2>1. CatchUp(pane.log, n).kind = "events" /\ CatchUp(pane.log, n).frames = c
    BY <1>0, <1>1, <1>6
  <2>2. /\ c # <<>> /\ f \in Screens
        /\ Len(f) \in Nat /\ Len(f) > 0 /\ n + Len(f) <= Len(s)
        /\ \A i \in 1..Len(f) : f[i] = s[n + i]
        /\ f[Len(f)].seq = n + Len(f)
    BY <1>0, <1>6, FirstFrames
  <2> HIDE DEF c
  <2>3. Frames(w, n, large) = Write(w, "frames", f, f[Len(f)].seq, large)
    BY <2>1, <2>2 DEF Frames
  <2> HIDE DEF f
  <2>4. Frames(w, n, large) = Write(w, "frames", f, n + Len(f), large)
    BY <2>2, <2>3
  <2>5. /\ ReplyOK(History, r.at, Cursor(r, w, Len(w.replies)), m, FALSE)
        /\ ReplyOK(History, r.at, Cursor(r, w, Len(w.replies)), e, FALSE)
    BY <1>0, <2>2 DEF ReplyOK
  <2>6. /\ n + Len(f) \in Nat /\ f \in Screens
        /\ "frames" \in Kinds /\ "error" \in Kinds /\ <<>> \in Screens
        /\ m = [kind |-> "frames", epoch |-> epoch, frames |-> f, through |-> n + Len(f)]
        /\ e = [kind |-> "error", epoch |-> epoch, frames |-> <<>>, through |-> n + Len(f)]
    BY <1>0, <2>2 DEF Kinds
  <2> HIDE DEF m, e
  <2>7. CASE large
    <3>1. /\ Respond(w, "error", <<>>, n + Len(f), TRUE) \in Wires
          /\ Respond(w, "error", <<>>, n + Len(f), TRUE).open = w.open
          /\ ChainOK(History, r, Respond(w, "error", <<>>, n + Len(f), TRUE))
      BY <2>5, <2>6, Responds
    <3> QED BY <2>4, <2>7, <3>1 DEF Write
  <2>8. CASE ~large
    <3>1. /\ Respond(w, "frames", f, n + Len(f), TRUE) \in Wires
          /\ Respond(w, "frames", f, n + Len(f), TRUE).open = w.open
          /\ ChainOK(History, r, Respond(w, "frames", f, n + Len(f), TRUE))
      BY <2>5, <2>6, Responds
    <3> QED BY <2>4, <2>8, <3>1 DEF Write
  <2> QED BY <2>7, <2>8
<1>7. Lost(s) \in Nat
  BY <1>0, LogOfScreen
<1> QED BY <1>0, <1>3, <1>4, <1>5, <1>6, <1>7

LEMMA InitInv == Init => StreamInv
<1> SUFFICES ASSUME Init PROVE StreamInv
  OBVIOUS
<1>0. /\ <<>> \in Screens /\ Len(<<>>) = 0 /\ 0 \in Epochs /\ 0 \in 0..MaxDrops
      /\ Capacity \in Nat /\ 1 \in Nat
  BY Constants DEF Screens, Epochs
<1>1. TypeOK
  <2>1. pane \in Panes
    BY <1>0 DEF Init, Panes, NewLog
  <2>2. wire \in Wires
    BY DEF Init, Wires, Closed
  <2>3. reader \in Readers
    BY <1>0 DEF Init, Readers, NewReader
  <2>4. replica \in Replicas
    BY <1>0 DEF Init, Replicas, NewReplica
  <2>5. epoch \in Epochs /\ past \in Seq(Screens) /\ queue \in Seq(Messages) /\ drops \in 0..MaxDrops
    BY <1>0 DEF Init
  <2> QED BY <2>1, <2>2, <2>3, <2>4, <2>5 DEF TypeOK
<1>2. /\ epoch = 0 /\ past = <<>> /\ pane.screen = <<>> /\ pane.log = NewLog
  BY DEF Init
<1>3. /\ History \in Seq(Screens) /\ Len(History) = 1 /\ History[1] = <<>>
  BY <1>0, <1>2 DEF History
<1>4. HistoryOK(History)
  <2>1. \A k \in 1..1 : Numbered(History[k], 0) /\ \A i \in 1..Len(History[k]) : History[k][i].epoch <= k - 1
    BY <1>0, <1>3 DEF Numbered
  <2> QED BY <1>3, <2>1 DEF HistoryOK
<1>5. PaneOK
  <2>1. LogOf(<<>>) = NewLog
    BY <1>0 DEF LogOf, Retained, NewLog
  <2>2. Len(past) = epoch
    BY <1>2
  <2> QED BY <1>2, <1>4, <2>1, <2>2 DEF PaneOK
<1>6. /\ reader.pc = "restore" /\ reader.at = 0 /\ reader.from = 0 /\ ~reader.mixed /\ ~reader.rebuilt
      /\ wire.replies = <<>> /\ wire.stream = None /\ ~wire.open
  BY DEF Init, NewReader, Closed
<1>7. ReaderOK(History, reader)
  <2>1. reader.at + 1 = 1 /\ 1 \in 1..Len(History) /\ reader.from <= Len(History[1])
    BY <1>0, <1>3, <1>6
  <2> QED BY <1>6, <2>1 DEF ReaderOK
<1>8. LinkOK(epoch, reader, wire)
  BY <1>6 DEF LinkOK
<1>9. StoryOK(History, reader, queue, replica)
  <2> DEFINE v == [frames |-> <<>>, seq |-> None, mixed |-> FALSE, at |-> 0]
             R == [n \in 0..Len(queue) |-> v]
  <2>1. v \in Views
    BY <1>0 DEF Views
  <2>2. ViewOK(History, v)
    BY <1>0, <1>3 DEF ViewOK, Begins
  <2>3. LastTold(History, reader, v)
    <3>1. Begins(<<>>, History[1])
      BY <1>0, <1>3 DEF Begins
    <3>2. reader.at + 1 = 1
      BY <1>6
    <3> QED BY <1>0, <1>6, <3>1, <3>2 DEF LastTold
  <2>4. replica.frames = v.frames /\ replica.seq = v.seq /\ replica.mixed = v.mixed
    BY DEF Init, NewReplica
  <2>5. queue = <<>>
    BY DEF Init
  <2> HIDE DEF v
  <2>6. Len(queue) = 0 /\ 0 \in 0..Len(queue)
    BY <2>5
  <2>7. R \in [0..Len(queue) -> Views] /\ \A n \in 0..Len(queue) : R[n] = v
    BY <2>1
  <2> HIDE DEF R
  <2>8. \A n \in 1..Len(queue) : Leads(History, R[n - 1], queue[n], R[n])
    BY <2>6
  <2>9. Tells(History, reader, queue, replica, R)
    BY <2>2, <2>3, <2>4, <2>6, <2>7, <2>8 DEF Tells
  <2> QED BY <2>9 DEF StoryOK
<1> QED BY <1>1, <1>5, <1>6, <1>7, <1>8, <1>9 DEF StreamInv

(* What the reader knows and has sent stays true of a pane that goes on. *)
LEMMA GoesOn ==
    ASSUME StreamInv, HistoryOK(History'), Later(History, History'),
           UNCHANGED <<reader, queue, replica>>,
           wire' \in Wires, wire'.replies = wire.replies, wire'.stream \in {wire.stream, None}
    PROVE  /\ ReaderOK(History', reader')
           /\ reader'.pc = "wait" => ChainOK(History', reader', wire')
           /\ StoryOK(History', reader', queue', replica')
<1> DEFINE S == History
           T == History'
<1>0. /\ HistoryOK(S) /\ HistoryOK(T) /\ Later(S, T)
      /\ reader \in Readers /\ ReaderOK(S, reader)
      /\ wire \in Wires /\ queue \in Seq(Messages)
      /\ reader.pc = "wait" => ChainOK(S, reader, wire)
      /\ StoryOK(S, reader, queue, replica)
  BY DEF StreamInv, TypeOK, PaneOK
<1> HIDE DEF S, T
<1>1. ReaderOK(T, reader)
  BY <1>0, ReaderLater
<1>2. reader.at \in Nat /\ reader.at + 1 \in 1..Len(S)
  BY <1>0, Constants DEF Readers, ReaderOK, Epochs
<1>3. reader.pc = "wait" => ChainOK(T, reader, wire')
  BY <1>0, <1>2, ChainLater
<1>4. StoryOK(T, reader, queue, replica)
  BY <1>0, <1>2, StoryLater
<1> QED BY <1>1, <1>3, <1>4 DEF T

LEMMA OutputInv == StreamInv /\ Output => StreamInv'
<1> SUFFICES ASSUME StreamInv, Output PROVE StreamInv'
  OBVIOUS
<1> DEFINE s == pane.screen
           f == [epoch |-> epoch, seq |-> pane.log.next]
           t == Append(s, f)
<1>0. TypeOK /\ PaneOK
  BY DEF StreamInv
<1>1. /\ epoch \in Nat /\ epoch \in Epochs /\ s \in Screens /\ Len(s) \in Nat
      /\ past \in Seq(Screens) /\ Len(past) = epoch
      /\ pane \in Panes /\ pane.log = LogOf(s)
  BY <1>0, Now DEF TypeOK, PaneOK
<1>2. f \in FrameSet /\ f.epoch = Len(past) /\ f.seq = Len(s) + 1
  BY <1>1 DEF FrameSet, LogOf
<1>3. PICK boundary \in BOOLEAN :
        pane' = [pane EXCEPT !.screen = Append(@, f), !.log = Record(@, f, Capacity),
                             !.boundary = boundary]
  BY DEF Output
<1> HIDE DEF f
<1>4. t \in Screens
  BY <1>1, <1>2 DEF Screens
<1>5. pane.log.next + 1 \in Nat /\ LogOf(t) \in [next : Nat, frames : Screens]
  <2> HIDE DEF t
  <2>1. Retained(t, Capacity) \in Screens
    BY <1>4, LogOfScreen
  <2>2. Len(t) + 1 \in Nat
    BY <1>4 DEF Screens
  <2> QED BY <1>1, <2>1, <2>2 DEF LogOf
<1>6. Record(pane.log, f, Capacity) = LogOf(t)
  BY <1>1, <1>2, LogRecords
<1>7. pane' \in Panes /\ pane'.screen = t /\ pane'.log = LogOf(t)
  BY <1>1, <1>3, <1>4, <1>5, <1>6 DEF Panes
<1>8. /\ UNCHANGED <<reader, queue, replica>>
      /\ epoch' = epoch /\ past' = past /\ wire' = wire /\ drops' = drops
  BY DEF Output
<1>9. HistoryOK(History') /\ Later(History, History')
  <2>1. HistoryOK(Append(past, s))
    BY <1>0 DEF PaneOK, History
  <2>2. HistoryOK(Append(past, t)) /\ Later(Append(past, s), Append(past, t))
    BY <1>1, <1>2, <2>1, HistoryAdds
  <2> QED BY <1>7, <1>8, <2>2 DEF History
<1>10. wire' \in Wires /\ wire'.replies = wire.replies /\ wire'.stream \in {wire.stream, None}
  BY <1>0, <1>8 DEF TypeOK
<1>11. /\ ReaderOK(History', reader')
       /\ reader'.pc = "wait" => ChainOK(History', reader', wire')
       /\ StoryOK(History', reader', queue', replica')
  BY <1>8, <1>9, <1>10, GoesOn
<1>12. TypeOK'
  BY <1>0, <1>7, <1>8 DEF TypeOK
<1>13. PaneOK'
  BY <1>1, <1>7, <1>8, <1>9 DEF PaneOK
<1>14. LinkOK(epoch', reader', wire')
  BY <1>8 DEF StreamInv
<1> QED BY <1>11, <1>12, <1>13, <1>14 DEF StreamInv

LEMMA ClosePaneInv == StreamInv /\ ClosePane => StreamInv'
<1> SUFFICES ASSUME StreamInv, ClosePane PROVE StreamInv'
  OBVIOUS
<1>1. /\ pane' = [pane EXCEPT !.there = FALSE]
      /\ UNCHANGED <<epoch, past, wire, reader, queue, replica, drops>>
  BY DEF ClosePane
<1>2. TypeOK /\ pane \in Panes
  BY DEF StreamInv, TypeOK
<1>3. pane' \in Panes /\ pane'.screen = pane.screen /\ pane'.log = pane.log
  BY <1>1, <1>2 DEF Panes
<1>4. History' = History
  BY <1>1, <1>3 DEF History
<1>5. TypeOK'
  BY <1>1, <1>2, <1>3 DEF TypeOK
<1>6. PaneOK'
  BY <1>1, <1>3, <1>4 DEF StreamInv, PaneOK
<1> QED BY <1>1, <1>4, <1>5, <1>6 DEF StreamInv


(* The pane of a new daemon. *)
LEMMA RestartPane ==
    ASSUME TypeOK, PaneOK, Restart
    PROVE  /\ pane' \in Panes /\ pane'.log = LogOf(pane'.screen)
           /\ Numbered(pane'.screen, 0)
           /\ \A i \in 1..Len(pane'.screen) : pane'.screen[i].epoch <= epoch + 1
<1> DEFINE s == pane.screen
<1>0. /\ epoch \in Nat /\ epoch + 1 \in Epochs /\ epoch + 1 \in Nat
      /\ s \in Screens /\ Len(s) \in Nat
      /\ Numbered(s, 0) /\ \A i \in 1..Len(s) : s[i].epoch <= epoch
      /\ pane.there \in BOOLEAN
  <2>1. epoch + 1 \in Epochs
    BY Constants DEF TypeOK, Restart, Epochs
  <2>2. pane.there \in BOOLEAN
    BY DEF TypeOK, Panes
  <2> QED BY <2>1, <2>2, Now
<1> HIDE DEF s
<1>1. CASE pane' = [there |-> pane.there, boundary |-> TRUE, screen |-> <<>>, log |-> NewLog]
  <2>1. /\ <<>> \in Screens /\ Len(<<>>) = 0 /\ 1 \in Nat /\ Capacity \in Nat
        /\ LogOf(<<>>) = NewLog
    <3>1. /\ <<>> \in Screens /\ Len(<<>>) = 0 /\ 1 \in Nat /\ Capacity \in Nat
      BY Constants DEF Screens
    <3> QED BY <3>1 DEF LogOf, Retained, NewLog
  <2> QED BY <1>0, <1>1, <2>1 DEF Panes, Numbered, NewLog
<1>2. ASSUME NEW n \in 1..Len(s),
             LET saved == SubSeq(s, 1, n)
                 restored == FromFrames(Retained(saved, Capacity), Capacity)
                 frame == [epoch |-> epoch', seq |-> restored.next]
             IN pane' = [there |-> pane.there, boundary |-> TRUE,
                         screen |-> Append(saved, frame),
                         log |-> Record(restored, frame, Capacity)]
      PROVE  /\ pane' \in Panes /\ pane'.log = LogOf(pane'.screen)
             /\ Numbered(pane'.screen, 0)
             /\ \A i \in 1..Len(pane'.screen) : pane'.screen[i].epoch <= epoch + 1
  <2> DEFINE saved == SubSeq(s, 1, n)
             restored == FromFrames(Retained(saved, Capacity), Capacity)
             f == [epoch |-> epoch', seq |-> restored.next]
             t == Append(saved, f)
  <2>0. pane' = [there |-> pane.there, boundary |-> TRUE, screen |-> t,
                 log |-> Record(restored, f, Capacity)]
    BY <1>2
  <2>1. /\ saved \in Screens /\ Len(saved) = n /\ n \in Nat /\ n > 0
        /\ \A i \in 1..n : saved[i] = s[i] /\ i \in 1..Len(s)
    <3>1. n \in Nat /\ 0 \in Nat /\ 0 <= n /\ n <= Len(s) /\ n > 0 /\ n - 0 = n /\ 0 + 1 = 1
      BY <1>0
    <3>2. /\ SubSeq(s, 0 + 1, n) \in Screens /\ Len(SubSeq(s, 0 + 1, n)) = n - 0
          /\ \A i \in 1..(n - 0) : SubSeq(s, 0 + 1, n)[i] = s[0 + i] /\ 0 + i \in 1..Len(s)
      BY <1>0, <3>1, Part
    <3>3. \A i \in 1..n : 0 + i = i
      OBVIOUS
    <3> QED BY <3>1, <3>2, <3>3
  <2> HIDE DEF saved
  <2>2. Numbered(saved, 0) /\ \A i \in 1..n : saved[i].epoch <= epoch
    BY <1>0, <2>1 DEF Numbered
  <2>3. restored = LogOf(saved) /\ restored.next = n + 1
    <3>1. restored = LogOf(saved)
      BY <2>1, <2>2, LogRestored
    <3> QED BY <2>1, <3>1 DEF LogOf
  <2> HIDE DEF restored
  <2>4. f \in FrameSet /\ f.epoch = epoch + 1 /\ f.seq = n + 1
    <3>1. epoch' = epoch + 1
      BY DEF Restart
    <3> QED BY <1>0, <2>1, <2>3, <3>1 DEF FrameSet
  <2> HIDE DEF f
  <2>5. /\ t \in Screens /\ Len(t) = n + 1 /\ t[n + 1] = f
        /\ \A i \in 1..n : t[i] = saved[i]
    BY <2>1, <2>4 DEF Screens
  <2>6. Record(restored, f, Capacity) = LogOf(t)
    BY <2>1, <2>3, <2>4, LogRecords
  <2> HIDE DEF t
  <2>7. LogOf(t) \in [next : Nat, frames : Screens]
    <3>1. Retained(t, Capacity) \in Screens /\ Len(t) + 1 \in Nat
      BY <2>1, <2>5, LogOfScreen
    <3> QED BY <3>1 DEF LogOf
  <2>8. \A i \in 1..Len(t) : t[i].seq = 0 + i /\ t[i].epoch <= epoch + 1
    <3> SUFFICES ASSUME NEW i \in 1..Len(t) PROVE t[i].seq = 0 + i /\ t[i].epoch <= epoch + 1
      OBVIOUS
    <3>1. CASE i \in 1..n
      <4>1. t[i] = s[i] /\ i \in 1..Len(s)
        BY <2>1, <2>5, <3>1
      <4>2. t[i] \in FrameSet
        BY <1>0, <4>1 DEF Screens
      <4>3. t[i].epoch \in Nat
        BY <4>2, Constants DEF FrameSet, Epochs
      <4>4. t[i].seq = 0 + i /\ t[i].epoch <= epoch
        BY <1>0, <4>1 DEF Numbered
      <4> QED BY <1>0, <4>3, <4>4
    <3>2. CASE i = n + 1
      <4>1. t[i] = f
        BY <2>5, <3>2
      <4> QED BY <1>0, <2>1, <2>4, <3>2, <4>1
    <3> QED BY <2>1, <2>5, <3>1, <3>2
  <2> QED BY <1>0, <2>0, <2>5, <2>6, <2>7, <2>8 DEF Panes, Numbered
<1> QED BY <1>1, <1>2 DEF Restart, s

LEMMA RestartInv == StreamInv /\ Restart => StreamInv'
<1> SUFFICES ASSUME StreamInv, Restart PROVE StreamInv'
  OBVIOUS
<1>0. TypeOK /\ PaneOK
  BY DEF StreamInv
<1>1. /\ epoch \in Nat /\ epoch + 1 \in Epochs /\ past \in Seq(Screens) /\ Len(past) = epoch
      /\ pane.screen \in Screens /\ wire \in Wires
      /\ Len(History) = epoch + 1
  <2>1. epoch + 1 \in Epochs
    BY <1>0, Constants DEF TypeOK, Restart, Epochs
  <2> QED BY <1>0, <2>1, Now DEF TypeOK, PaneOK
<1>2. /\ pane' \in Panes /\ pane'.log = LogOf(pane'.screen)
      /\ Numbered(pane'.screen, 0)
      /\ \A i \in 1..Len(pane'.screen) : pane'.screen[i].epoch <= epoch + 1
  BY <1>0, RestartPane
<1>3. /\ UNCHANGED <<reader, queue, replica>>
      /\ epoch' = epoch + 1 /\ past' = Append(past, pane.screen) /\ drops' = drops
      /\ wire' = [wire EXCEPT !.open = FALSE, !.stream = None]
  BY DEF Restart
<1>4. past' \in Seq(Screens) /\ Len(past') = epoch' /\ past' = History
  BY <1>1, <1>3 DEF History
<1>5. HistoryOK(History') /\ Later(History, History')
  <2> DEFINE s == pane'.screen
  <2>1. s \in Screens /\ Numbered(s, 0) /\ HistoryOK(History)
    BY <1>0, <1>2 DEF Panes, PaneOK
  <2>2. \A i \in 1..Len(s) : s[i].epoch <= Len(History)
    BY <1>1, <1>2
  <2> HIDE DEF s
  <2>3. HistoryOK(Append(History, s)) /\ Later(History, Append(History, s))
    BY <2>1, <2>2, HistoryGrows
  <2>4. History' = Append(History, s)
    <3>1. History' = Append(past', s)
      BY DEF History, s
    <3> QED BY <1>4, <3>1
  <2> QED BY <2>3, <2>4
<1>6. /\ wire' \in Wires /\ wire'.replies = wire.replies /\ wire'.stream = None /\ ~wire'.open
  BY <1>1, <1>3 DEF Wires
<1>7. /\ ReaderOK(History', reader')
      /\ reader'.pc = "wait" => ChainOK(History', reader', wire')
      /\ StoryOK(History', reader', queue', replica')
  BY <1>3, <1>5, <1>6, GoesOn
<1>8. TypeOK'
  BY <1>0, <1>1, <1>2, <1>3, <1>4, <1>6 DEF TypeOK
<1>9. PaneOK'
  BY <1>2, <1>4, <1>5 DEF PaneOK
<1>10. LinkOK(epoch', reader', wire')
  BY <1>3, <1>6 DEF StreamInv, LinkOK
<1> QED BY <1>7, <1>8, <1>9, <1>10 DEF StreamInv


LEMMA Held ==
    ASSUME StreamInv
    PROVE  /\ epoch \in Nat /\ epoch \in Epochs /\ History \in Seq(Screens) /\ Len(History) = epoch + 1
           /\ HistoryOK(History)
           /\ reader \in Readers /\ reader.at \in Nat /\ reader.from \in Nat
           /\ reader.at + 1 \in 1..Len(History) /\ reader.at <= epoch
           /\ wire \in Wires /\ queue \in Seq(Messages) /\ replica \in Replicas
           /\ Closed \in Wires /\ Opened \in Wires
           /\ Len(History[reader.at + 1]) \in Nat
<1>1. TypeOK /\ PaneOK /\ ReaderOK(History, reader)
  BY DEF StreamInv
<1>2. epoch \in Nat /\ epoch \in Epochs /\ History \in Seq(Screens) /\ Len(History) = epoch + 1
  BY <1>1, Now
<1>3. /\ reader \in Readers /\ reader.at \in Nat /\ reader.from \in Nat
      /\ wire \in Wires /\ queue \in Seq(Messages) /\ replica \in Replicas
  BY <1>1, Constants DEF TypeOK, Readers, Epochs
<1>4. reader.at + 1 \in 1..Len(History) /\ reader.at <= epoch
  BY <1>1, <1>2, <1>3 DEF ReaderOK
<1>5. Closed \in Wires /\ Opened \in Wires
  <2>1. Closed \in Wires
    BY DEF Closed, Wires
  <2>2. Opened = [Closed EXCEPT !.open = TRUE]
    BY DEF Opened
  <2> QED BY <2>1, <2>2 DEF Wires
<1>6. Len(History[reader.at + 1]) \in Nat
  BY <1>2, <1>4 DEF Screens
<1> QED BY <1>1, <1>2, <1>3, <1>4, <1>5, <1>6 DEF PaneOK

(* A step that leaves the daemon and the replica alone. *)
LEMMA DaemonRests ==
    ASSUME StreamInv, UNCHANGED <<daemon, replica>>, drops' \in 0..MaxDrops,
           wire' \in Wires, reader' \in Readers, queue' \in Seq(Messages),
           ReaderOK(History, reader'), LinkOK(epoch, reader', wire'),
           reader'.pc = "wait" => ChainOK(History, reader', wire'),
           StoryOK(History, reader', queue', replica)
    PROVE  StreamInv'
<1>1. epoch' = epoch /\ pane' = pane /\ past' = past /\ replica' = replica
  BY DEF daemon
<1>2. History' = History
  BY <1>1 DEF History
<1>3. TypeOK'
  BY <1>1 DEF StreamInv, TypeOK
<1>4. PaneOK'
  BY <1>1, <1>2 DEF StreamInv, PaneOK
<1> QED BY <1>1, <1>2, <1>3, <1>4 DEF StreamInv

(* A step of the daemon's thread: an answer, or none. *)
LEMMA AnswerInv ==
    ASSUME StreamInv, UNCHANGED <<daemon, reader, queue, replica, drops>>,
           reader.pc = "wait", wire.open, wire' \in Wires, wire'.open = wire.open,
           ChainOK(History, reader, wire')
    PROVE  StreamInv'
<1>1. UNCHANGED <<daemon, replica>> /\ reader' = reader /\ queue' = queue /\ drops' = drops
  BY DEF daemon
<1>2. reader' \in Readers /\ queue' \in Seq(Messages) /\ drops' \in 0..MaxDrops
  BY <1>1 DEF StreamInv, TypeOK
<1>3. ReaderOK(History, reader') /\ StoryOK(History, reader', queue', replica)
  BY <1>1 DEF StreamInv
<1>4. LinkOK(epoch, reader', wire')
  BY <1>1 DEF StreamInv, LinkOK
<1>5. reader'.pc = "wait" => ChainOK(History, reader', wire')
  BY <1>1
<1> QED BY <1>1, <1>2, <1>3, <1>4, <1>5, DaemonRests

(* While the subscription lasts the daemon can go on answering. *)
LEMMA Streams ==
    ASSUME StreamInv, wire.stream # None
    PROVE  /\ reader.pc = "wait" /\ wire.open /\ reader.at = epoch
           /\ wire.stream \in Nat /\ wire.stream = Cursor(reader, wire, Len(wire.replies))
           /\ \A i \in 1..Len(wire.replies) :
                ReplyOK(History, reader.at, Cursor(reader, wire, i - 1), wire.replies[i], FALSE)
<1>1. LinkOK(epoch, reader, wire) /\ wire \in Wires
  BY DEF StreamInv, TypeOK
<1>2. reader.pc = "wait" /\ wire.open /\ reader.at = epoch
  BY <1>1 DEF LinkOK
<1>3. ChainOK(History, reader, wire)
  BY <1>2 DEF StreamInv
<1>4. wire.stream \in Nat
  BY <1>1 DEF Wires
<1>5. wire.stream = Cursor(reader, wire, Len(wire.replies))
  BY <1>3 DEF ChainOK
<1>6. ASSUME NEW i \in 1..Len(wire.replies)
      PROVE  ReplyOK(History, reader.at, Cursor(reader, wire, i - 1), wire.replies[i], FALSE)
  <2>1. ReplyOK(History, reader.at, Cursor(reader, wire, i - 1), wire.replies[i],
                i = Len(wire.replies) /\ wire.stream = None)
    BY <1>3 DEF ChainOK
  <2>2. ~(i = Len(wire.replies) /\ wire.stream = None)
    OBVIOUS
  <2> QED BY <2>1, <2>2 DEF ReplyOK
<1> QED BY <1>2, <1>4, <1>5, <1>6

LEMMA DoneInv ==
    ASSUME StreamInv, wire.stream # None,
           UNCHANGED <<daemon, reader, queue, replica, drops>>,
           wire' = Respond(wire, "done", <<>>, wire.stream, FALSE)
    PROVE  StreamInv'
<1>1. /\ reader.pc = "wait" /\ wire.open /\ reader.at = epoch
      /\ wire.stream \in Nat /\ wire.stream = Cursor(reader, wire, Len(wire.replies))
      /\ \A i \in 1..Len(wire.replies) :
           ReplyOK(History, reader.at, Cursor(reader, wire, i - 1), wire.replies[i], FALSE)
  BY Streams
<1> DEFINE m == [kind |-> "done", epoch |-> epoch, frames |-> <<>>, through |-> wire.stream]
<1>2. ReplyOK(History, reader.at, Cursor(reader, wire, Len(wire.replies)), m, TRUE)
  BY <1>1 DEF ReplyOK
<1>3. /\ TypeOK /\ reader \in Readers /\ wire \in Wires /\ <<>> \in Screens
      /\ m = [kind |-> "done", epoch |-> epoch, frames |-> <<>>, through |-> wire.stream]
  BY Held DEF StreamInv, Screens
<1> HIDE DEF m
<1>4. /\ Respond(wire, "done", <<>>, wire.stream, FALSE) \in Wires
      /\ Respond(wire, "done", <<>>, wire.stream, FALSE).open = wire.open
      /\ ChainOK(History, reader, Respond(wire, "done", <<>>, wire.stream, FALSE))
  BY <1>1, <1>2, <1>3, Responds DEF Kinds
<1>5. wire' \in Wires /\ wire'.open = wire.open /\ ChainOK(History, reader, wire')
  BY <1>4
<1> QED BY <1>1, <1>5, AnswerInv

LEMMA PushInv == StreamInv /\ (Push \/ Idle) => StreamInv'
<1> SUFFICES ASSUME StreamInv, Push \/ Idle PROVE StreamInv'
  OBVIOUS
<1>1. /\ wire.stream # None
      /\ UNCHANGED <<daemon, reader, queue, replica, drops>>
      /\ \/ \E large \in BOOLEAN : wire' = Frames(wire, wire.stream, large)
         \/ wire' = Respond(wire, "done", <<>>, wire.stream, FALSE)
  BY DEF Push, Idle, CanWrite
<1>2. /\ reader.pc = "wait" /\ wire.open /\ reader.at = epoch
      /\ wire.stream \in Nat /\ wire.stream = Cursor(reader, wire, Len(wire.replies))
      /\ \A i \in 1..Len(wire.replies) :
           ReplyOK(History, reader.at, Cursor(reader, wire, i - 1), wire.replies[i], FALSE)
  BY <1>1, Streams
<1>3. CASE \E large \in BOOLEAN : wire' = Frames(wire, wire.stream, large)
  <2>1. TypeOK /\ PaneOK /\ ReaderOK(History, reader) /\ reader \in Readers /\ wire \in Wires
    BY Held DEF StreamInv
  <2>2. PICK large \in BOOLEAN : wire' = Frames(wire, wire.stream, large)
    BY <1>3
  <2>3. /\ Frames(wire, wire.stream, large) \in Wires
        /\ Frames(wire, wire.stream, large).open = wire.open
        /\ ChainOK(History, reader, Frames(wire, wire.stream, large))
    BY <1>2, <2>1, AnswersOK
  <2>4. wire' \in Wires /\ wire'.open = wire.open /\ ChainOK(History, reader, wire')
    BY <2>2, <2>3
  <2> QED BY <1>1, <1>2, <2>4, AnswerInv
<1>4. CASE wire' = Respond(wire, "done", <<>>, wire.stream, FALSE)
  BY <1>1, <1>4, DoneInv
<1> QED BY <1>1, <1>3, <1>4


LEMMA AskStateInv == StreamInv /\ AskState => StreamInv'
<1> SUFFICES ASSUME StreamInv, AskState PROVE StreamInv'
  OBVIOUS
<1> DEFINE S == History
           d == [epoch |-> epoch, frames |-> pane.screen]
           m == [kind |-> "forget"]
<1>0. /\ epoch \in Nat /\ epoch \in Epochs /\ Len(S) = epoch + 1 /\ HistoryOK(S)
      /\ reader \in Readers /\ reader.at \in Nat /\ reader.at <= epoch
      /\ queue \in Seq(Messages) /\ Opened \in Wires
      /\ ReaderOK(S, reader) /\ StoryOK(S, reader, queue, replica)
  BY Held DEF StreamInv
<1>1. /\ pane.screen \in Screens /\ Full(S, pane.screen, epoch) /\ S[epoch + 1] = pane.screen
  BY Now DEF StreamInv
<1>2. /\ reader.pc = "restore"
      /\ reader' = [reader EXCEPT !.pc = "transfer", !.state = d]
      /\ queue' = Append(queue, m)
      /\ wire' = Opened
      /\ UNCHANGED <<daemon, replica>> /\ drops' = drops
  BY DEF AskState
<1>3. d \in States /\ d.epoch = epoch /\ d.frames = pane.screen /\ m \in Messages /\ m.kind = "forget"
  BY <1>0, <1>1 DEF States, Messages
<1> HIDE DEF d, m
<1>4. /\ reader' \in Readers /\ reader'.pc = "transfer" /\ reader'.state = d
      /\ reader'.at = reader.at /\ reader'.from = reader.from /\ reader'.mixed = reader.mixed
      /\ reader'.rebuilt = reader.rebuilt
  BY <1>0, <1>2, <1>3 DEF Readers
<1> HIDE DEF S
<1>5. ReaderOK(S, reader')
  BY <1>0, <1>1, <1>3, <1>4 DEF ReaderOK
<1>6. LinkOK(epoch, reader', wire')
  BY <1>2, <1>3, <1>4 DEF LinkOK, Opened, Closed
<1>7. StoryOK(S, reader', queue', replica)
  <2>1. ASSUME NEW v \in Views, ViewOK(S, v), LastTold(S, reader, v)
        PROVE  \E w \in Views : ViewOK(S, w) /\ Leads(S, v, m, w) /\ LastTold(S, reader', w)
    <3> DEFINE w == [v EXCEPT !.seq = None]
    <3>1. /\ w \in Views /\ w.at = v.at /\ w.frames = v.frames /\ w.mixed = v.mixed /\ w.seq = None
      BY DEF Views
    <3>2. Leads(S, v, m, w)
      BY <1>3 DEF Leads
    <3> HIDE DEF w
    <3>3. ViewOK(S, w)
      BY <2>1, <3>1 DEF ViewOK
    <3>4. LastTold(S, reader', w)
      BY <1>2, <1>4, <2>1, <3>1 DEF LastTold
    <3> QED BY <3>1, <3>2, <3>3, <3>4
  <2>2. StoryOK(S, reader', Append(queue, m), replica)
    BY <1>0, <1>3, <2>1, StoryGrows
  <2> QED BY <1>2, <2>2
<1>8. wire' \in Wires /\ queue' \in Seq(Messages) /\ drops' \in 0..MaxDrops
  BY <1>0, <1>2, <1>3 DEF StreamInv, TypeOK
<1> QED BY <1>2, <1>4, <1>5, <1>6, <1>7, <1>8, DaemonRests DEF S

(* The reader is done with a pane that is gone. *)
LEMMA EndInv ==
    ASSUME StreamInv, NEW how \in {"ended", "failed"}, End(how),
           UNCHANGED <<daemon, replica, drops>>, reader.pc \notin {"ended", "failed"}
    PROVE  StreamInv'
<1> DEFINE S == History
           m == [kind |-> "ended"]
<1>0. /\ reader \in Readers /\ queue \in Seq(Messages) /\ Closed \in Wires
      /\ ReaderOK(S, reader) /\ StoryOK(S, reader, queue, replica)
  BY Held DEF StreamInv
<1>1. /\ reader' = [reader EXCEPT !.pc = how]
      /\ queue' = Append(queue, m)
      /\ wire' = Closed
      /\ UNCHANGED <<daemon, replica>> /\ drops' = drops
  BY DEF End
<1>2. m \in Messages /\ m.kind = "ended"
  BY DEF Messages
<1> HIDE DEF S, m
<1>3. /\ reader' \in Readers /\ reader'.pc = how
      /\ reader'.at = reader.at /\ reader'.from = reader.from /\ reader'.mixed = reader.mixed
      /\ reader'.rebuilt = reader.rebuilt
  BY <1>0, <1>1 DEF Readers
<1>4. ReaderOK(S, reader')
  BY <1>0, <1>3 DEF ReaderOK
<1>5. LinkOK(epoch, reader', wire')
  BY <1>1, <1>3 DEF LinkOK, Closed
<1>6. StoryOK(S, reader', queue', replica)
  <2>1. ASSUME NEW v \in Views, ViewOK(S, v), LastTold(S, reader, v)
        PROVE  \E w \in Views : ViewOK(S, w) /\ Leads(S, v, m, w) /\ LastTold(S, reader', w)
    <3>1. Leads(S, v, m, v) /\ LastTold(S, reader', v)
      BY <1>2, <1>3 DEF Leads, LastTold
    <3> QED BY <2>1, <3>1
  <2>2. StoryOK(S, reader', Append(queue, m), replica)
    BY <1>0, <1>2, <2>1, StoryGrows
  <2> QED BY <1>1, <2>2
<1>7. wire' \in Wires /\ queue' \in Seq(Messages) /\ drops' \in 0..MaxDrops
  BY <1>0, <1>1, <1>2 DEF StreamInv, TypeOK
<1> QED BY <1>1, <1>3, <1>4, <1>5, <1>6, <1>7, DaemonRests DEF S

LEMMA EndedInv == StreamInv /\ (PaneMissing \/ ReadStale \/ ReadError) => StreamInv'
<1> SUFFICES ASSUME StreamInv, PaneMissing \/ ReadStale \/ ReadError PROVE StreamInv'
  OBVIOUS
<1>1. /\ \E how \in {"ended", "failed"} : End(how)
      /\ UNCHANGED <<daemon, replica, drops>> /\ reader.pc \notin {"ended", "failed"}
  BY DEF PaneMissing, ReadStale, ReadError, Reads
<1> QED BY <1>1, EndInv


LEMMA FallBackInv == StreamInv /\ FallBack => StreamInv'
<1> SUFFICES ASSUME StreamInv, FallBack PROVE StreamInv'
  OBVIOUS
<1> DEFINE S == History
           cursor == IF reader.rebuilt THEN 0 ELSE reader.from
           mixed == cursor > 0 /\ (reader.mixed \/ reader.at # epoch)
           forget == [kind |-> "forget"]
           reset == [kind |-> "reset"]
<1>0. /\ epoch \in Nat /\ epoch \in Epochs /\ Len(S) = epoch + 1 /\ S \in Seq(Screens)
      /\ reader \in Readers /\ reader.at \in Nat /\ reader.at <= epoch /\ reader.from \in Nat
      /\ reader.rebuilt \in BOOLEAN /\ reader.mixed \in BOOLEAN
      /\ queue \in Seq(Messages) /\ Opened \in Wires
      /\ ReaderOK(S, reader) /\ StoryOK(S, reader, queue, replica)
      /\ Len(S[epoch + 1]) \in Nat /\ epoch + 1 \in 1..Len(S)
  BY Held, Now DEF StreamInv, Readers
<1>1. /\ reader.pc = "restore"
      /\ reader' = [reader EXCEPT !.pc = "subscribe", !.from = cursor, !.at = epoch,
                                  !.rebuilt = FALSE, !.fell = TRUE, !.mixed = mixed]
      /\ queue' = queue \o <<forget>> \o (IF reader.rebuilt THEN <<reset>> ELSE <<>>)
      /\ wire' = Opened
      /\ UNCHANGED <<daemon, replica>> /\ drops' = drops
  BY DEF FallBack
<1>2. /\ forget \in Messages /\ forget.kind = "forget"
      /\ reset \in Messages /\ reset.kind = "reset"
  BY DEF Messages
<1> HIDE DEF S, forget, reset
<1>3. cursor \in Nat /\ mixed \in BOOLEAN
  BY <1>0
<1>4. mixed => /\ Len(S) > 1 /\ cursor > 0 /\ ~reader.rebuilt /\ cursor = reader.from
               /\ reader.mixed \/ reader.at < epoch
  <2>1. ASSUME mixed
        PROVE  /\ ~reader.rebuilt /\ cursor = reader.from /\ cursor > 0
               /\ reader.mixed \/ reader.at < epoch
    BY <1>0, <2>1
  <2>2. ASSUME mixed PROVE Len(S) > 1
    <3>1. CASE reader.mixed
      BY <1>0, <3>1 DEF ReaderOK
    <3>2. CASE reader.at < epoch
      BY <1>0, <3>2
    <3> QED BY <2>1, <2>2, <3>1, <3>2
  <2> QED BY <2>1, <2>2
<1>5. ~mixed => \/ reader.rebuilt /\ cursor = 0
                \/ ~reader.rebuilt /\ cursor = reader.from /\ ~reader.mixed /\ cursor = 0
                \/ ~reader.rebuilt /\ cursor = reader.from /\ ~reader.mixed /\ reader.at = epoch
  <2>1. reader.mixed => reader.from > 0
    BY <1>0 DEF ReaderOK
  <2> QED BY <1>0, <2>1
<1> HIDE DEF cursor, mixed
<1>6. /\ reader' \in Readers /\ reader'.pc = "subscribe"
      /\ reader'.at = epoch /\ reader'.from = cursor /\ reader'.mixed = mixed
      /\ reader'.rebuilt = FALSE
  BY <1>0, <1>1, <1>3 DEF Readers
<1>7. ReaderOK(S, reader')
  <2>1. ~mixed => cursor <= Len(S[epoch + 1])
    <3>1. ~reader.mixed => reader.from <= Len(S[reader.at + 1])
      BY <1>0 DEF ReaderOK
    <3> QED BY <1>0, <1>5, <3>1
  <2> QED BY <1>0, <1>4, <1>6, <2>1 DEF ReaderOK
<1>8. LinkOK(epoch, reader', wire')
  BY <1>1, <1>6 DEF LinkOK, Opened, Closed
<1>9. ASSUME NEW v \in Views, ViewOK(S, v), LastTold(S, reader, v)
      PROVE  LET w == [v EXCEPT !.seq = None]
             IN  w \in Views /\ ViewOK(S, w) /\ Leads(S, v, forget, w) /\ LastTold(S, reader, w)
  <2> DEFINE w == [v EXCEPT !.seq = None]
  <2>1. /\ w \in Views /\ w.at = v.at /\ w.frames = v.frames /\ w.mixed = v.mixed /\ w.seq = None
    BY DEF Views
  <2>2. Leads(S, v, forget, w)
    BY <1>2 DEF Leads
  <2> HIDE DEF w
  <2>3. ViewOK(S, w)
    BY <1>9, <2>1 DEF ViewOK
  <2>4. LastTold(S, reader, w)
    BY <1>1, <1>9, <2>1 DEF LastTold
  <2> QED BY <2>1, <2>2, <2>3, <2>4 DEF w
<1>10. ASSUME ~reader.rebuilt PROVE StoryOK(S, reader', queue', replica)
  <2>1. ASSUME NEW w \in Views, ViewOK(S, w), LastTold(S, reader, w)
        PROVE  LastTold(S, reader', w)
    <3>1. /\ w.at \in Nat /\ w.frames \in Screens /\ w.at <= reader.at
          /\ Len(w.frames) \in Nat
      BY <1>1, <2>1 DEF LastTold, Views, Screens
    <3>2. w.at <= epoch
      BY <1>0, <3>1
    <3>3. ~mixed => /\ ~w.mixed
                    /\ Len(w.frames) = cursor
                    /\ Begins(w.frames, S[epoch + 1])
      <4> SUFFICES ASSUME ~mixed
                   PROVE  ~w.mixed /\ Len(w.frames) = cursor /\ Begins(w.frames, S[epoch + 1])
        OBVIOUS
      <4>1. ~w.mixed /\ Len(w.frames) = reader.from /\ Begins(w.frames, S[reader.at + 1])
        BY <1>1, <1>5, <1>10, <2>1 DEF LastTold
      <4>2. CASE cursor = 0
        BY <1>0, <1>5, <1>10, <4>1, <4>2 DEF Begins
      <4>3. CASE reader.at = epoch
        BY <1>5, <1>10, <4>1, <4>3
      <4> QED BY <1>5, <1>10, <4>1, <4>2, <4>3
    <3>4. mixed /\ ~w.mixed => w.at < epoch
      <4> SUFFICES ASSUME mixed, ~w.mixed PROVE w.at < epoch
        OBVIOUS
      <4>1. CASE reader.mixed
        <5>1. w.at < reader.at
          BY <1>1, <2>1, <4>1 DEF LastTold
        <5> QED BY <1>0, <3>1, <5>1
      <4>2. CASE reader.at < epoch
        BY <1>0, <3>1, <4>2
      <4> QED BY <1>4, <4>1, <4>2
    <3> QED BY <1>6, <3>2, <3>3, <3>4 DEF LastTold
  <2>2. ASSUME NEW v \in Views, ViewOK(S, v) /\ LastTold(S, reader, v)
        PROVE  \E w \in Views : ViewOK(S, w) /\ Leads(S, v, forget, w) /\ LastTold(S, reader', w)
    <3> DEFINE w == [v EXCEPT !.seq = None]
    <3>1. w \in Views /\ ViewOK(S, w) /\ Leads(S, v, forget, w) /\ LastTold(S, reader, w)
      BY <1>9, <2>2
    <3> HIDE DEF w
    <3>2. LastTold(S, reader', w)
      BY <2>1, <3>1
    <3> QED BY <3>1, <3>2
  <2>3. StoryOK(S, reader', Append(queue, forget), replica)
    BY <1>0, <1>2, <2>2, StoryGrows
  <2>4. queue' = Append(queue, forget)
    BY <1>0, <1>1, <1>2, <1>10
  <2> QED BY <2>3, <2>4
<1>11. ASSUME reader.rebuilt PROVE StoryOK(S, reader', queue', replica)
  <2> DEFINE q == Append(queue, forget)
  <2>1. StoryOK(S, reader, q, replica)
    <3>1. ASSUME NEW v \in Views, ViewOK(S, v) /\ LastTold(S, reader, v)
          PROVE  \E w \in Views : ViewOK(S, w) /\ Leads(S, v, forget, w) /\ LastTold(S, reader, w)
      BY <1>9, <3>1
    <3> QED BY <1>0, <1>2, <3>1, StoryGrows
  <2>2. q \in Seq(Messages)
    BY <1>0, <1>2
  <2>3. ~mixed /\ cursor = 0 /\ Len(S) > 1
    BY <1>0, <1>4, <1>5, <1>11 DEF ReaderOK
  <2>4. ASSUME NEW v \in Views, ViewOK(S, v) /\ LastTold(S, reader, v)
        PROVE  \E w \in Views : ViewOK(S, w) /\ Leads(S, v, reset, w) /\ LastTold(S, reader', w)
    <3> DEFINE w == [frames |-> <<>>, seq |-> None, mixed |-> FALSE, at |-> epoch]
    <3>1. /\ w \in Views /\ w.frames = <<>> /\ w.seq = None /\ w.mixed = FALSE /\ w.at = epoch
      BY <1>0 DEF Views, Screens
    <3> HIDE DEF w
    <3>2. v.at \in Nat /\ v.at <= reader.at
      BY <1>1, <2>4 DEF LastTold, Views
    <3>3. v.at <= epoch
      BY <1>0, <3>2
    <3>4. Leads(S, v, reset, w)
      BY <1>2, <2>3, <3>1, <3>3 DEF Leads
    <3>5. Begins(w.frames, S[epoch + 1]) /\ Len(w.frames) = 0
      BY <1>0, <3>1 DEF Begins
    <3>6. ViewOK(S, w)
      BY <1>0, <3>1, <3>5 DEF ViewOK
    <3>7. LastTold(S, reader', w)
      BY <1>0, <1>6, <2>3, <3>1, <3>5 DEF LastTold
    <3> QED BY <3>1, <3>4, <3>6, <3>7
  <2> HIDE DEF q
  <2>5. StoryOK(S, reader', Append(q, reset), replica)
    BY <1>2, <2>1, <2>2, <2>4, StoryGrows
  <2>6. queue' = Append(q, reset)
    <3>1. queue' = queue \o <<forget>> \o <<reset>>
      BY <1>1, <1>11
    <3>2. queue \o <<forget>> = q
      BY <1>0, <1>2 DEF q
    <3>3. q \o <<reset>> = Append(q, reset)
      BY <1>2, <2>2
    <3> QED BY <3>1, <3>2, <3>3
  <2> QED BY <2>5, <2>6
<1>12. wire' \in Wires /\ queue' \in Seq(Messages) /\ drops' \in 0..MaxDrops
  <2>1. <<forget>> \in Seq(Messages) /\ <<reset>> \in Seq(Messages)
    BY <1>2
  <2>2. queue \o <<forget>> \in Seq(Messages)
    BY <1>0, <2>1
  <2>3. queue' \in Seq(Messages)
    BY <1>1, <2>1, <2>2
  <2> QED BY <1>0, <1>1, <2>3 DEF StreamInv, TypeOK
<1>13. reader'.pc # "wait"
  BY <1>6
<1>14. StoryOK(S, reader', queue', replica)
  BY <1>10, <1>11
<1> QED BY <1>1, <1>6, <1>7, <1>8, <1>12, <1>13, <1>14, DaemonRests DEF S

LEMMA TakeStateInv == StreamInv /\ TakeState => StreamInv'
<1> SUFFICES ASSUME StreamInv, TakeState PROVE StreamInv'
  OBVIOUS
<1> DEFINE S == History
           x == reader.state
           k == Len(x.frames)
           m == [kind |-> "ready", frames |-> x.frames, through |-> k]
<1>0. /\ epoch \in Nat /\ Len(S) = epoch + 1 /\ S \in Seq(Screens)
      /\ reader \in Readers /\ reader.at \in Nat /\ reader.from \in Nat
      /\ queue \in Seq(Messages) /\ wire \in Wires
      /\ ReaderOK(S, reader) /\ StoryOK(S, reader, queue, replica)
      /\ LinkOK(epoch, reader, wire)
  BY Held DEF StreamInv
<1>1. /\ reader.pc = "transfer"
      /\ reader' = [NewReader EXCEPT !.pc = "subscribe", !.from = k, !.at = x.epoch]
      /\ queue' = Append(queue, m)
      /\ UNCHANGED <<daemon, replica>> /\ wire' = wire /\ drops' = drops
  BY DEF TakeState, Send
<1>2. /\ x \in States /\ reader.at <= x.epoch /\ Full(S, x.frames, x.epoch)
      /\ ~reader.mixed /\ reader.at = x.epoch => reader.from <= k
  BY <1>0, <1>1 DEF ReaderOK
<1>3. wire.replies = <<>> /\ wire.stream = None /\ (wire.open => x.epoch = epoch)
  BY <1>0, <1>1 DEF LinkOK
<1> HIDE DEF S, x
<1>4. /\ x.frames \in Screens /\ x.epoch \in Epochs /\ x.epoch \in Nat /\ k \in Nat
  BY <1>2, Constants DEF States, Epochs, Screens
<1>5. m \in Messages /\ m.kind = "ready" /\ m.frames = x.frames /\ m.through = k
  BY <1>4 DEF Messages
<1>6. /\ x.epoch + 1 \in 1..Len(S) /\ Begins(x.frames, S[x.epoch + 1])
      /\ k <= Len(S[x.epoch + 1])
  BY <1>2 DEF Full, Begins
<1> HIDE DEF k, m
<1>7. /\ reader' \in Readers /\ reader'.pc = "subscribe" /\ reader'.from = k /\ reader'.at = x.epoch
      /\ reader'.rebuilt = FALSE /\ reader'.mixed = FALSE
  BY <1>1, <1>4 DEF Readers, NewReader
<1>8. ReaderOK(S, reader')
  BY <1>6, <1>7 DEF ReaderOK
<1>9. LinkOK(epoch, reader', wire')
  BY <1>1, <1>3, <1>7 DEF LinkOK
<1>10. ASSUME NEW v \in Views, ViewOK(S, v) /\ LastTold(S, reader, v)
       PROVE  \E w \in Views : ViewOK(S, w) /\ Leads(S, v, m, w) /\ LastTold(S, reader', w)
  <2> DEFINE w == [frames |-> x.frames, seq |-> k, mixed |-> FALSE, at |-> x.epoch]
  <2>1. w \in Views /\ w.frames = x.frames /\ w.seq = k /\ w.mixed = FALSE /\ w.at = x.epoch
    BY <1>4 DEF Views
  <2> HIDE DEF w
  <2>2. v.at \in Nat /\ Len(v.frames) \in Nat /\ v.at <= reader.at /\ v.seq = None
    BY <1>1, <1>10 DEF LastTold, Views, Screens
  <2>3. /\ ~reader.mixed => Len(v.frames) = reader.from
        /\ reader.mixed /\ ~v.mixed => v.at < reader.at
    BY <1>1, <1>10 DEF LastTold
  <2>4. ~v.mixed /\ v.at = w.at => Len(v.frames) <= Len(x.frames)
    <3> SUFFICES ASSUME ~v.mixed, v.at = x.epoch PROVE Len(v.frames) <= k
      BY <2>1 DEF k
    <3>1. reader.at = x.epoch /\ ~(v.at < reader.at)
      BY <1>0, <1>2, <1>4, <2>2
    <3>2. ~reader.mixed
      BY <2>3, <3>1
    <3> QED BY <1>2, <2>3, <3>1, <3>2
  <2>5. Newest(S, v, x.frames, w)
    <3>1. w.at >= v.at
      BY <1>0, <1>2, <1>4, <2>1, <2>2
    <3> QED BY <1>2, <2>1, <2>4, <3>1 DEF Newest
  <2>6. Leads(S, v, m, w)
    BY <1>5, <2>1, <2>2, <2>5 DEF Leads
  <2>7. ViewOK(S, w)
    BY <1>6, <2>1 DEF ViewOK
  <2>8. LastTold(S, reader', w)
    <3>1. Len(w.frames) = k
      BY <2>1 DEF k
    <3> QED BY <1>4, <1>6, <1>7, <2>1, <3>1 DEF LastTold
  <2> QED BY <2>1, <2>6, <2>7, <2>8
<1>11. StoryOK(S, reader', queue', replica)
  <2>1. StoryOK(S, reader', Append(queue, m), replica)
    BY <1>0, <1>5, <1>10, StoryGrows
  <2> QED BY <1>1, <2>1
<1>12. wire' \in Wires /\ queue' \in Seq(Messages) /\ drops' \in 0..MaxDrops
  BY <1>0, <1>1, <1>5 DEF StreamInv, TypeOK
<1> QED BY <1>1, <1>7, <1>8, <1>9, <1>11, <1>12, DaemonRests DEF S


LEMMA SubscribeInv == StreamInv /\ Subscribe => StreamInv'
<1> SUFFICES ASSUME StreamInv, Subscribe PROVE StreamInv'
  OBVIOUS
<1> DEFINE S == History
           r == [reader EXCEPT !.pc = "wait"]
           n == reader.from
<1>0. /\ epoch \in Nat /\ S \in Seq(Screens) /\ TypeOK /\ PaneOK
      /\ reader \in Readers /\ n \in Nat
      /\ queue \in Seq(Messages) /\ Opened \in Wires
      /\ ReaderOK(S, reader) /\ StoryOK(S, reader, queue, replica)
      /\ LinkOK(epoch, reader, wire)
      /\ <<>> \in Screens /\ 0 \in Nat
  BY Held DEF StreamInv, Screens
<1>1. /\ reader.pc = "subscribe" /\ wire.open
      /\ reader' = r
      /\ pane.there => \E large \in BOOLEAN : wire' = Frames(Opened, n, large)
      /\ ~pane.there => wire' = Respond(Opened, "stale", <<>>, 0, FALSE)
      /\ UNCHANGED <<daemon, replica>> /\ queue' = queue /\ drops' = drops
  BY DEF Subscribe
<1>2. reader.at = epoch
  BY <1>0, <1>1 DEF LinkOK
<1>3. /\ r \in Readers /\ r.pc = "wait" /\ r.at = epoch /\ r.from = n /\ r.mixed = reader.mixed
      /\ r.rebuilt = reader.rebuilt
  BY <1>0, <1>2 DEF Readers
<1>4. Opened.open = TRUE /\ Opened.replies = <<>> /\ Len(Opened.replies) = 0
  BY DEF Opened, Closed
<1> HIDE DEF r
<1>5. ReaderOK(S, r)
  BY <1>0, <1>2, <1>3 DEF ReaderOK
<1>6. /\ n = Cursor(r, Opened, Len(Opened.replies))
      /\ \A i \in 1..Len(Opened.replies) :
           ReplyOK(S, r.at, Cursor(r, Opened, i - 1), Opened.replies[i], FALSE)
  BY <1>3, <1>4 DEF Cursor
<1>7. wire' \in Wires /\ wire'.open /\ ChainOK(S, r, wire')
  <2>1. CASE pane.there
    <3>1. PICK large \in BOOLEAN : wire' = Frames(Opened, n, large)
      BY <1>1, <2>1
    <3>2. /\ Frames(Opened, n, large) \in Wires /\ Frames(Opened, n, large).open = Opened.open
          /\ ChainOK(S, r, Frames(Opened, n, large))
      <4> HIDE DEF n
      <4> QED BY <1>0, <1>3, <1>5, <1>6, AnswersOK
    <3> QED BY <1>4, <3>1, <3>2
  <2>2. CASE ~pane.there
    <3> DEFINE m == [kind |-> "stale", epoch |-> epoch, frames |-> <<>>, through |-> 0]
    <3>1. ReplyOK(S, r.at, Cursor(r, Opened, Len(Opened.replies)), m, TRUE)
      BY <1>3 DEF ReplyOK
    <3>2. m = [kind |-> "stale", epoch |-> epoch, frames |-> <<>>, through |-> 0]
      OBVIOUS
    <3> HIDE DEF m
    <3>3. /\ Respond(Opened, "stale", <<>>, 0, FALSE) \in Wires
          /\ Respond(Opened, "stale", <<>>, 0, FALSE).open = Opened.open
          /\ ChainOK(S, r, Respond(Opened, "stale", <<>>, 0, FALSE))
      BY <1>0, <1>3, <1>6, <3>1, <3>2, Responds DEF Kinds
    <3>4. wire' = Respond(Opened, "stale", <<>>, 0, FALSE)
      BY <1>1, <2>2
    <3> QED BY <1>4, <3>3, <3>4
  <2> QED BY <2>1, <2>2
<1> HIDE DEF S
<1>8. LinkOK(epoch, r, wire')
  BY <1>3, <1>7 DEF LinkOK
<1>9. StoryOK(S, r, queue, replica)
  <2>1. \A v \in Views : ViewOK(S, v) /\ LastTold(S, reader, v) => LastTold(S, r, v)
    BY <1>1, <1>2, <1>3 DEF LastTold
  <2> QED BY <1>0, <2>1, StoryKept
<1>10. queue' \in Seq(Messages) /\ drops' \in 0..MaxDrops
  BY <1>0, <1>1 DEF StreamInv, TypeOK
<1> QED BY <1>1, <1>3, <1>5, <1>7, <1>8, <1>9, <1>10, DaemonRests DEF S

(* The answer the reader takes. *)
LEMMA Answered ==
    ASSUME StreamInv, reader.pc = "wait", wire.replies # <<>>
    PROVE  /\ Reply = wire.replies[1] /\ Reply \in Replies
           /\ ReplyOK(History, reader.at, reader.from, Reply,
                      Len(wire.replies) = 1 /\ wire.stream = None)
           /\ Taken \in Wires /\ Taken.open = wire.open /\ Taken.stream = wire.stream
           /\ Taken.replies = Tail(wire.replies)
           /\ Len(wire.replies) = 1 => Taken.replies = <<>>
           /\ ChainOK(History, reader, wire)
<1>1. /\ wire \in Wires /\ wire.replies \in Seq(Replies)
      /\ ChainOK(History, reader, wire)
  BY Held DEF StreamInv, Wires
<1>2. /\ Len(wire.replies) \in Nat /\ Len(wire.replies) # 0
      /\ Head(wire.replies) = wire.replies[1] /\ Head(wire.replies) \in Replies
      /\ Tail(wire.replies) \in Seq(Replies)
      /\ Len(Tail(wire.replies)) = Len(wire.replies) - 1
  BY <1>1, EmptySeq, HeadTailProperties
<1>3. 1 \in 1..Len(wire.replies) /\ 1 - 1 = 0
  BY <1>2
<1>4. ReplyOK(History, reader.at, Cursor(reader, wire, 1 - 1), wire.replies[1],
              1 = Len(wire.replies) /\ wire.stream = None)
  BY <1>1, <1>3 DEF ChainOK
<1>5. Cursor(reader, wire, 1 - 1) = reader.from
  BY <1>3 DEF Cursor
<1>6. ReplyOK(History, reader.at, reader.from, wire.replies[1],
              Len(wire.replies) = 1 /\ wire.stream = None)
  <2>1. (1 = Len(wire.replies) /\ wire.stream = None) <=> (Len(wire.replies) = 1 /\ wire.stream = None)
    OBVIOUS
  <2> QED BY <1>4, <1>5, <2>1 DEF ReplyOK
<1>7. /\ Taken \in Wires /\ Taken.open = wire.open /\ Taken.stream = wire.stream
      /\ Taken.replies = Tail(wire.replies)
  BY <1>1, <1>2 DEF Taken, Wires
<1>8. Len(wire.replies) = 1 => Tail(wire.replies) = <<>>
  <2>1. Len(wire.replies) = 1 => Len(Tail(wire.replies)) = 0
    BY <1>2
  <2> QED BY <1>2, <2>1, EmptySeq
<1> QED BY <1>1, <1>2, <1>6, <1>7, <1>8 DEF Reply

LEMMA ReadFramesInv == StreamInv /\ ReadFrames => StreamInv'
<1> SUFFICES ASSUME StreamInv, ReadFrames PROVE StreamInv'
  OBVIOUS
<1> DEFINE S == History
           a == Reply
           m == [kind |-> "batch", frames |-> a.frames, mixed |-> reader.mixed]
           s == S[reader.at + 1]
<1>0. /\ epoch \in Nat /\ Len(S) = epoch + 1 /\ S \in Seq(Screens)
      /\ reader \in Readers /\ reader.at \in Nat /\ reader.from \in Nat /\ reader.mixed \in BOOLEAN
      /\ reader.at + 1 \in 1..Len(S)
      /\ queue \in Seq(Messages) /\ wire \in Wires /\ s \in Screens /\ Len(s) \in Nat
      /\ ReaderOK(S, reader) /\ StoryOK(S, reader, queue, replica)
      /\ LinkOK(epoch, reader, wire)
  <2>1. /\ reader \in Readers /\ S \in Seq(Screens) /\ reader.at + 1 \in 1..Len(S)
    BY Held
  <2>2. reader.mixed \in BOOLEAN /\ s \in Screens
    BY <2>1 DEF Readers
  <2> QED BY <2>1, <2>2, Held DEF StreamInv
<1>1. /\ reader.pc = "wait" /\ wire.replies # <<>> /\ a.kind = "frames"
      /\ reader' = [reader EXCEPT !.from = a.through]
      /\ queue' = Append(queue, m)
      /\ wire' = Taken
      /\ UNCHANGED <<daemon, replica>> /\ drops' = drops
  BY DEF ReadFrames, Reads, Send
<1>2. /\ a = wire.replies[1] /\ a \in Replies
      /\ ReplyOK(S, reader.at, reader.from, a, Len(wire.replies) = 1 /\ wire.stream = None)
      /\ Taken \in Wires /\ Taken.open = wire.open /\ Taken.stream = wire.stream
      /\ Taken.replies = Tail(wire.replies)
      /\ ChainOK(S, reader, wire)
  BY <1>1, Answered
<1> HIDE DEF S, a
<1>3. /\ a.frames \in Screens /\ Len(a.frames) \in Nat /\ a.through \in Nat
  BY <1>2 DEF Replies, Screens
<1>4. /\ a.through = reader.from + Len(a.frames)
      /\ a.through <= Len(s)
      /\ \A i \in 1..Len(a.frames) : a.frames[i] = s[reader.from + i]
  BY <1>1, <1>2 DEF ReplyOK
<1>5. m \in Messages /\ m.kind = "batch" /\ m.frames = a.frames /\ m.mixed = reader.mixed
  BY <1>0, <1>3 DEF Messages
<1> HIDE DEF m, s
<1>6. /\ reader' \in Readers /\ reader'.pc = "wait" /\ reader'.from = a.through
      /\ reader'.at = reader.at /\ reader'.mixed = reader.mixed /\ reader'.rebuilt = reader.rebuilt
  BY <1>0, <1>1, <1>3 DEF Readers
<1>7. ReaderOK(S, reader')
  <2>1. reader.mixed => a.through > 0
    BY <1>0, <1>3, <1>4 DEF ReaderOK
  <2> QED BY <1>0, <1>4, <1>6, <2>1 DEF ReaderOK, s
<1>8. LinkOK(epoch, reader', wire')
  BY <1>0, <1>1, <1>2, <1>6 DEF LinkOK
<1>9. ChainOK(S, reader', wire')
  <2>1. /\ reader \in Readers /\ reader' \in Readers /\ wire \in Wires /\ wire' \in Wires
        /\ ChainOK(S, reader, wire) /\ wire.replies # <<>>
    BY <1>0, <1>1, <1>2, <1>6
  <2>2. /\ reader'.at = reader.at /\ reader'.from = wire.replies[1].through
        /\ wire'.replies = Tail(wire.replies) /\ wire'.stream = wire.stream
    BY <1>1, <1>2, <1>6
  <2> QED BY <2>1, <2>2, ChainShrinks
<1>10. ASSUME NEW v \in Views, ViewOK(S, v) /\ LastTold(S, reader, v)
       PROVE  \E w \in Views : ViewOK(S, w) /\ Leads(S, v, m, w) /\ LastTold(S, reader', w)
  <2> DEFINE b == v.frames \o a.frames
             e == IF reader.mixed THEN v.at ELSE reader.at
             w == [frames |-> b, seq |-> v.seq, mixed |-> reader.mixed, at |-> e]
  <2>1. /\ v.frames \in Screens /\ Len(v.frames) \in Nat /\ v.seq \in Nat \cup {None} /\ v.at \in Nat
        /\ v.mixed \in BOOLEAN
    BY DEF Views, Screens
  <2>2. /\ v.at <= reader.at
        /\ ~reader.mixed => ~v.mixed /\ Len(v.frames) = reader.from /\ Begins(v.frames, s)
    BY <1>1, <1>10 DEF LastTold, s
  <2>3. /\ b \in Screens /\ Len(b) = Len(v.frames) + Len(a.frames)
        /\ \A i \in 1..Len(v.frames) : b[i] = v.frames[i]
        /\ \A i \in 1..Len(a.frames) : b[Len(v.frames) + i] = a.frames[i]
    BY <1>3, <2>1, Joined
  <2> HIDE DEF b
  <2>4. e \in Nat /\ e >= v.at /\ e + 1 \in 1..Len(S) /\ e <= reader.at
    <3>1. v.at + 1 \in 1..Len(S)
      BY <1>10 DEF ViewOK
    <3> QED BY <1>0, <2>1, <2>2, <3>1
  <2>5. ~reader.mixed => e = reader.at
    OBVIOUS
  <2> HIDE DEF e
  <2>6. w \in Views /\ w.frames = b /\ w.seq = v.seq /\ w.mixed = reader.mixed /\ w.at = e
    BY <1>0, <2>1, <2>3, <2>4 DEF Views
  <2> HIDE DEF w
  <2>7. ~reader.mixed => Len(b) = a.through /\ Begins(b, s)
    <3> SUFFICES ASSUME ~reader.mixed PROVE Len(b) = a.through /\ Begins(b, s)
      OBVIOUS
    <3>1. Len(v.frames) = reader.from /\ Begins(v.frames, s)
      BY <2>2
    <3>2. Len(b) = a.through
      BY <1>4, <2>3, <3>1
    <3>3. ASSUME NEW i \in 1..Len(b) PROVE b[i] = s[i]
      <4>1. CASE i \in 1..Len(v.frames)
        BY <2>3, <3>1, <4>1 DEF Begins
      <4>2. CASE i \notin 1..Len(v.frames)
        <5> DEFINE j == i - reader.from
        <5>1. j \in 1..Len(a.frames) /\ reader.from + j = i
          <6> DEFINE f == reader.from
                     n == Len(a.frames)
          <6>1. i \in 1..(f + n) /\ i \notin 1..f /\ f \in Nat /\ n \in Nat
            BY <1>0, <1>3, <1>4, <3>1, <3>2, <4>2
          <6> HIDE DEF f, n
          <6>2. i - f \in 1..n /\ f + (i - f) = i
            BY <6>1
          <6> QED BY <6>2 DEF f, n
        <5> HIDE DEF j
        <5>2. b[i] = a.frames[j] /\ a.frames[j] = s[i]
          BY <1>4, <2>3, <3>1, <5>1
        <5> QED BY <5>2
      <4> QED BY <4>1, <4>2
    <3> QED BY <1>4, <3>2, <3>3 DEF Begins
  <2>8. Leads(S, v, m, w)
    <3>1. w.frames = v.frames \o m.frames /\ (v.mixed => w.mixed) /\ w.at >= v.at
      BY <1>5, <2>2, <2>4, <2>6 DEF b
    <3> QED BY <1>5, <2>6, <3>1 DEF Leads
  <2>9. ViewOK(S, w)
    <3>1. reader.mixed => Len(S) > 1
      BY <1>0 DEF ReaderOK
    <3> QED BY <2>4, <2>5, <2>6, <2>7, <3>1 DEF ViewOK, s
  <2>10. LastTold(S, reader', w)
    BY <1>6, <2>4, <2>6, <2>7 DEF LastTold, s
  <2> QED BY <2>6, <2>8, <2>9, <2>10
<1>11. StoryOK(S, reader', queue', replica)
  <2>1. StoryOK(S, reader', Append(queue, m), replica)
    BY <1>0, <1>5, <1>10, StoryGrows
  <2> QED BY <1>1, <2>1
<1>12. wire' \in Wires /\ queue' \in Seq(Messages) /\ drops' \in 0..MaxDrops
  BY <1>0, <1>1, <1>2, <1>5 DEF StreamInv, TypeOK
<1> QED BY <1>1, <1>6, <1>7, <1>8, <1>9, <1>11, <1>12, DaemonRests DEF S


LEMMA ReadGapInv == StreamInv /\ ReadGap => StreamInv'
<1> SUFFICES ASSUME StreamInv, ReadGap PROVE StreamInv'
  OBVIOUS
<1> DEFINE S == History
           a == Reply
           m == [kind |-> "gap", frames |-> a.frames]
<1>0. /\ epoch \in Nat /\ epoch \in Epochs
      /\ reader \in Readers /\ reader.at \in Nat /\ reader.from \in Nat
      /\ reader.at + 1 \in 1..Len(S)
      /\ queue \in Seq(Messages) /\ Closed \in Wires
      /\ ReaderOK(S, reader) /\ StoryOK(S, reader, queue, replica)
  BY Held DEF StreamInv
<1>1. /\ reader.pc = "wait" /\ wire.replies # <<>> /\ a.kind = "gap"
      /\ reader' = [reader EXCEPT !.pc = "restore", !.from = a.through, !.at = a.epoch,
                                  !.mixed = FALSE]
      /\ queue' = Append(queue, m)
      /\ wire' = Closed
      /\ UNCHANGED <<daemon, replica>> /\ drops' = drops
  BY DEF ReadGap, Reads, Send
<1>2. /\ a \in Replies
      /\ ReplyOK(S, reader.at, reader.from, a, Len(wire.replies) = 1 /\ wire.stream = None)
  BY <1>1, Answered
<1> HIDE DEF S, a
<1>3. /\ a.frames \in Screens /\ Len(a.frames) \in Nat /\ a.through \in Nat /\ a.epoch = reader.at
      /\ a.epoch \in Epochs
  BY <1>2 DEF Replies, Screens, ReplyOK
<1>4. /\ reader.from <= a.through /\ Len(a.frames) = a.through /\ Full(S, a.frames, reader.at)
  BY <1>1, <1>2 DEF ReplyOK
<1>5. m \in Messages /\ m.kind = "gap" /\ m.frames = a.frames
  BY <1>3 DEF Messages
<1> HIDE DEF m
<1>6. Begins(a.frames, S[reader.at + 1]) /\ a.through <= Len(S[reader.at + 1])
  BY <1>4 DEF Full, Begins
<1>7. /\ reader' \in Readers /\ reader'.pc = "restore" /\ reader'.from = a.through
      /\ reader'.at = reader.at /\ reader'.mixed = FALSE /\ reader'.rebuilt = reader.rebuilt
  BY <1>0, <1>1, <1>3 DEF Readers
<1>8. ReaderOK(S, reader')
  BY <1>0, <1>6, <1>7 DEF ReaderOK
<1>9. LinkOK(epoch, reader', wire')
  BY <1>1, <1>7 DEF LinkOK, Closed
<1>10. ASSUME NEW v \in Views, ViewOK(S, v) /\ LastTold(S, reader, v)
       PROVE  \E w \in Views : ViewOK(S, w) /\ Leads(S, v, m, w) /\ LastTold(S, reader', w)
  <2> DEFINE w == [frames |-> a.frames, seq |-> v.seq, mixed |-> FALSE, at |-> reader.at]
  <2>1. w \in Views /\ w.frames = a.frames /\ w.seq = v.seq /\ w.mixed = FALSE /\ w.at = reader.at
    BY <1>0, <1>3 DEF Views
  <2> HIDE DEF w
  <2>2. v.at \in Nat /\ Len(v.frames) \in Nat /\ v.at <= reader.at
    BY <1>1, <1>10 DEF LastTold, Views, Screens
  <2>3. /\ ~reader.mixed => Len(v.frames) = reader.from
        /\ reader.mixed /\ ~v.mixed => v.at < reader.at
    BY <1>1, <1>10 DEF LastTold
  <2>4. ~v.mixed /\ v.at = w.at => Len(v.frames) <= Len(a.frames)
    BY <1>0, <1>4, <2>1, <2>2, <2>3
  <2>5. Newest(S, v, a.frames, w)
    <3>1. w.at >= v.at
      BY <1>0, <2>1, <2>2
    <3> QED BY <1>4, <2>1, <2>4, <3>1 DEF Newest
  <2>6. Leads(S, v, m, w)
    BY <1>5, <2>1, <2>5 DEF Leads
  <2>7. ViewOK(S, w)
    BY <1>0, <1>6, <2>1 DEF ViewOK
  <2>8. LastTold(S, reader', w)
    BY <1>0, <1>4, <1>6, <1>7, <2>1 DEF LastTold
  <2> QED BY <2>1, <2>6, <2>7, <2>8
<1>11. StoryOK(S, reader', queue', replica)
  <2>1. StoryOK(S, reader', Append(queue, m), replica)
    BY <1>0, <1>5, <1>10, StoryGrows
  <2> QED BY <1>1, <2>1
<1>12. wire' \in Wires /\ queue' \in Seq(Messages) /\ drops' \in 0..MaxDrops /\ reader'.pc # "wait"
  BY <1>0, <1>1, <1>5, <1>7 DEF StreamInv, TypeOK
<1> QED BY <1>1, <1>7, <1>8, <1>9, <1>11, <1>12, DaemonRests DEF S

(* The reader starts anew: what it has sent does not change. *)
LEMMA ReconnectInv ==
    ASSUME StreamInv, UNCHANGED <<daemon, replica, queue>>, drops' \in 0..MaxDrops,
           reader.pc \notin {"ended", "failed"},
           reader' \in Readers, reader'.pc = "restore",
           reader'.at = reader.at, reader'.from = reader.from, reader'.mixed = reader.mixed,
           reader'.rebuilt => reader.rebuilt \/ Len(History) > 1,
           wire' = Closed
    PROVE  StreamInv'
<1> DEFINE S == History
<1>0. /\ queue \in Seq(Messages) /\ Closed \in Wires /\ queue' = queue /\ UNCHANGED <<daemon, replica>>
      /\ ReaderOK(S, reader) /\ StoryOK(S, reader, queue, replica)
  BY Held DEF StreamInv
<1> HIDE DEF S
<1>1. ReaderOK(S, reader')
  BY <1>0 DEF ReaderOK, S
<1>2. LinkOK(epoch, reader', wire')
  BY DEF LinkOK, Closed
<1>3. StoryOK(S, reader', queue', replica)
  <2>1. \A v \in Views : ViewOK(S, v) /\ LastTold(S, reader, v) => LastTold(S, reader', v)
    BY DEF LastTold
  <2>2. StoryOK(S, reader', queue, replica)
    BY <1>0, <2>1, StoryKept
  <2> QED BY <1>0, <2>2
<1>4. wire' \in Wires /\ queue' \in Seq(Messages) /\ reader'.pc # "wait"
  BY <1>0
<1> QED BY <1>0, <1>1, <1>2, <1>3, <1>4, DaemonRests DEF S

LEMMA ReadDoneInv == StreamInv /\ ReadDone => StreamInv'
<1> SUFFICES ASSUME StreamInv, ReadDone PROVE StreamInv'
  OBVIOUS
<1> DEFINE S == History
           a == Reply
<1>0. /\ reader \in Readers /\ queue \in Seq(Messages)
      /\ ReaderOK(S, reader) /\ StoryOK(S, reader, queue, replica) /\ LinkOK(epoch, reader, wire)
  BY Held DEF StreamInv
<1>1. /\ reader.pc = "wait" /\ wire.replies # <<>> /\ a.kind = "done"
      /\ reader' = [reader EXCEPT !.pc = "subscribe", !.from = a.through]
      /\ wire' = Taken
      /\ UNCHANGED <<daemon, replica>> /\ queue' = queue /\ drops' = drops
  BY DEF ReadDone, Reads
<1>2. /\ a \in Replies
      /\ ReplyOK(S, reader.at, reader.from, a, Len(wire.replies) = 1 /\ wire.stream = None)
      /\ Taken \in Wires /\ Taken.open = wire.open /\ Taken.stream = wire.stream
      /\ Len(wire.replies) = 1 => Taken.replies = <<>>
  BY <1>1, Answered
<1> HIDE DEF S, a
<1>3. a.through = reader.from /\ Len(wire.replies) = 1 /\ wire.stream = None
  BY <1>1, <1>2 DEF ReplyOK
<1>4. /\ reader' \in Readers /\ reader'.pc = "subscribe" /\ reader'.from = reader.from
      /\ reader'.at = reader.at /\ reader'.mixed = reader.mixed /\ reader'.rebuilt = reader.rebuilt
  BY <1>0, <1>1, <1>3 DEF Readers
<1>5. ReaderOK(S, reader')
  BY <1>0, <1>4 DEF ReaderOK
<1>6. LinkOK(epoch, reader', wire')
  BY <1>0, <1>1, <1>2, <1>3, <1>4 DEF LinkOK
<1>7. StoryOK(S, reader', queue', replica)
  <2>1. \A v \in Views : ViewOK(S, v) /\ LastTold(S, reader, v) => LastTold(S, reader', v)
    BY <1>1, <1>4 DEF LastTold
  <2> QED BY <1>0, <1>1, <2>1, StoryKept
<1>8. wire' \in Wires /\ queue' \in Seq(Messages) /\ drops' \in 0..MaxDrops /\ reader'.pc # "wait"
  BY <1>0, <1>1, <1>2, <1>4 DEF StreamInv, TypeOK
<1> QED BY <1>1, <1>4, <1>5, <1>6, <1>7, <1>8, DaemonRests DEF S

LEMMA ReadAheadInv == StreamInv /\ ReadAhead => StreamInv'
<1> SUFFICES ASSUME StreamInv, ReadAhead PROVE StreamInv'
  OBVIOUS
<1>0. reader \in Readers
  BY Held
<1>1. /\ reader.pc = "wait" /\ wire.replies # <<>> /\ Reply.kind = "ahead"
      /\ reader' = [reader EXCEPT !.pc = "restore", !.rebuilt = TRUE]
      /\ wire' = Closed
      /\ UNCHANGED <<daemon, replica, queue>> /\ drops' = drops
  BY DEF ReadAhead, Reads
<1>2. ReplyOK(History, reader.at, reader.from, Reply, Len(wire.replies) = 1 /\ wire.stream = None)
  BY <1>1, Answered
<1>3. Len(History) > 1
  BY <1>1, <1>2 DEF ReplyOK
<1>4. /\ reader' \in Readers /\ reader'.pc = "restore"
      /\ reader'.at = reader.at /\ reader'.from = reader.from /\ reader'.mixed = reader.mixed
      /\ reader.pc \notin {"ended", "failed"}
  BY <1>0, <1>1 DEF Readers
<1>5. drops' \in 0..MaxDrops
  BY <1>1 DEF StreamInv, TypeOK
<1> QED BY <1>1, <1>3, <1>4, <1>5, ReconnectInv

LEMMA LostInv == StreamInv /\ (Drop \/ HangUp) => StreamInv'
<1> SUFFICES ASSUME StreamInv, Drop \/ HangUp PROVE StreamInv'
  OBVIOUS
<1>0. reader \in Readers
  BY Held
<1>1. /\ reader.pc \notin {"ended", "failed"}
      /\ reader' = [reader EXCEPT !.pc = "restore", !.state = None]
      /\ wire' = Closed
      /\ UNCHANGED <<daemon, replica, queue>>
  BY DEF Drop, HangUp, Reconnect, Connected
<1>2. drops' \in 0..MaxDrops
  BY Constants DEF StreamInv, TypeOK, Drop, HangUp
<1>3. /\ reader' \in Readers /\ reader'.pc = "restore"
      /\ reader'.at = reader.at /\ reader'.from = reader.from /\ reader'.mixed = reader.mixed
      /\ reader'.rebuilt = reader.rebuilt
  BY <1>0, <1>1 DEF Readers
<1> QED BY <1>1, <1>2, <1>3, ReconnectInv

LEMMA ApplyInv == StreamInv /\ Apply => StreamInv'
<1> SUFFICES ASSUME StreamInv, Apply PROVE StreamInv'
  OBVIOUS
<1> DEFINE S == History
<1>0. /\ HistoryOK(S) /\ queue \in Seq(Messages) /\ replica \in Replicas
      /\ StoryOK(S, reader, queue, replica)
  BY Held DEF StreamInv
<1>1. /\ queue # <<>> /\ replica' = Applied(Head(queue)) /\ queue' = Tail(queue)
      /\ epoch' = epoch /\ pane' = pane /\ past' = past
      /\ wire' = wire /\ reader' = reader /\ drops' = drops
  BY DEF Apply, daemon
<1> HIDE DEF S
<1>2. /\ StoryOK(S, reader, Tail(queue), Applied(Head(queue)))
      /\ Applied(Head(queue)) \in Replicas
  BY <1>0, <1>1, StoryApplied
<1>3. Tail(queue) \in Seq(Messages)
  BY <1>0, <1>1, HeadTailProperties
<1>4. TypeOK'
  BY <1>1, <1>2, <1>3 DEF StreamInv, TypeOK
<1>5. History' = S
  BY <1>1 DEF History, S
<1>6. PaneOK'
  BY <1>1, <1>5 DEF StreamInv, PaneOK, S
<1>7. StoryOK(History', reader', queue', replica')
  BY <1>1, <1>2, <1>5
<1>8. /\ ReaderOK(History', reader') /\ LinkOK(epoch', reader', wire')
      /\ reader'.pc = "wait" => ChainOK(History', reader', wire')
  BY <1>1, <1>5 DEF StreamInv, S
<1> QED BY <1>4, <1>6, <1>7, <1>8 DEF StreamInv

LEMMA StreamKept == StreamInv /\ [Next]_vars => StreamInv'
<1> SUFFICES ASSUME StreamInv, [Next]_vars PROVE StreamInv'
  OBVIOUS
<1>1. CASE UNCHANGED vars
  <2>1. /\ epoch' = epoch /\ pane' = pane /\ past' = past /\ wire' = wire
        /\ reader' = reader /\ queue' = queue /\ replica' = replica /\ drops' = drops
    BY <1>1 DEF vars, daemon
  <2>2. History' = History
    BY <2>1 DEF History
  <2> QED BY <2>1, <2>2 DEF StreamInv, TypeOK, PaneOK
<1>2. CASE Next
  <2>1. CASE Output
    BY <2>1, OutputInv
  <2>2. CASE ClosePane
    BY <2>2, ClosePaneInv
  <2>3. CASE Restart
    BY <2>3, RestartInv
  <2>4. CASE Push \/ Idle
    BY <2>4, PushInv
  <2>5. CASE AskState
    BY <2>5, AskStateInv
  <2>6. CASE FallBack
    BY <2>6, FallBackInv
  <2>7. CASE PaneMissing \/ ReadStale \/ ReadError
    BY <2>7, EndedInv
  <2>8. CASE TakeState
    BY <2>8, TakeStateInv
  <2>9. CASE Subscribe
    BY <2>9, SubscribeInv
  <2>10. CASE ReadFrames
    BY <2>10, ReadFramesInv
  <2>11. CASE ReadGap
    BY <2>11, ReadGapInv
  <2>12. CASE ReadDone
    BY <2>12, ReadDoneInv
  <2>13. CASE ReadAhead
    BY <2>13, ReadAheadInv
  <2>14. CASE Drop \/ HangUp
    BY <2>14, LostInv
  <2>15. CASE Apply
    BY <2>15, ApplyInv
  <2> QED BY <1>2, <2>1, <2>2, <2>3, <2>4, <2>5, <2>6, <2>7, <2>8, <2>9, <2>10, <2>11, <2>12,
             <2>13, <2>14, <2>15 DEF Next, Starting, Reading
<1> QED BY <1>1, <1>2

LEMMA Streaming == Spec => []StreamInv
<1>1. Init => StreamInv
  BY InitInv
<1>2. StreamInv /\ [Next]_vars => StreamInv'
  BY StreamKept
<1> QED BY <1>1, <1>2, PTL DEF Spec

(* The variables keep their types. *)
THEOREM TypeCorrect == Spec => []TypeOK
<1>1. StreamInv => TypeOK
  BY DEF StreamInv
<1> QED BY <1>1, Streaming, PTL


-----------------------------------------------------------------------------
(* The cursor. *)

(* What a message will make of the frames r. *)
Shifts(r, message) ==
    IF message.kind \in {"ready", "gap"} THEN message.frames
    ELSE IF message.kind = "batch" THEN r \o message.frames
    ELSE IF message.kind = "reset" THEN <<>> ELSE r

Shifted(f) ==
    f = [n \in 0..Len(queue) |->
            IF n = 0 THEN replica.frames ELSE Shifts(f[n - 1], queue[n])]

LEMMA PromisedView ==
    ASSUME queue \in Seq(Messages), NEW S, NEW r, NEW R, Tells(S, r, queue, replica, R)
    PROVE  Promised = R[Len(queue)].frames
<1> DEFINE g == [n \in 0..Len(queue) |-> R[n].frames]
           f == CHOOSE h : Shifted(h)
<1>0. Len(queue) \in Nat /\ R \in [0..Len(queue) -> Views] /\ R[0].frames = replica.frames
  BY DEF Tells
<1>1. ASSUME NEW n \in 1..Len(queue) PROVE R[n].frames = Shifts(R[n - 1].frames, queue[n])
  <2> DEFINE v == R[n - 1]
             w == R[n]
             m == queue[n]
  <2>1. n - 1 \in 0..Len(queue)
    BY <1>0
  <2>2. v \in Views /\ m \in Messages /\ Leads(S, v, m, w)
    BY <1>0, <2>1 DEF Tells
  <2> HIDE DEF v, w, m
  <2>3. m.kind \in {"forget", "reset", "ended", "ready", "batch", "gap"}
    BY <2>2 DEF Messages
  <2>4. m.kind = "forget" => w.frames = v.frames
    BY <2>2 DEF Leads, Views
  <2>5. w.frames = Shifts(v.frames, m)
    BY <2>2, <2>3, <2>4 DEF Leads, Newest, Shifts
  <2> QED BY <2>5 DEF v, w, m
<1>2. Shifted(g)
  <2> SUFFICES ASSUME NEW n \in 0..Len(queue)
               PROVE  g[n] = IF n = 0 THEN replica.frames ELSE Shifts(g[n - 1], queue[n])
    BY Zenon DEF Shifted
  <2>1. CASE n = 0
    BY <1>0, <2>1
  <2>2. CASE n # 0
    <3>1. n \in 1..Len(queue) /\ n - 1 \in 0..Len(queue)
      BY <1>0, <2>2
    <3> QED BY <1>1, <2>2, <3>1
  <2> QED BY <2>1, <2>2
<1> HIDE DEF g
<1>3. Shifted(f)
  BY <1>2
<1>4. Promised = f[Len(queue)]
  BY DEF Promised, Shifted, Shifts
<1> HIDE DEF f
<1>5. f[Len(queue)] = g[Len(queue)]
  <2> DEFINE U == {k \in 0..Len(queue) : f[k] # g[k]}
  <2>1. CASE U = {}
    BY <1>0, <2>1
  <2>2. CASE U # {}
    <3>0. U \subseteq Nat
      BY <1>0
    <3>1. PICK k \in U : \A m \in U : k <= m
      BY <2>2, <3>0, LeastNumber
    <3>2. k \in 0..Len(queue) /\ f[k] # g[k]
      BY <3>1
    <3>3. k # 0
      BY <1>2, <1>3, <3>2 DEF Shifted
    <3>4. k - 1 \in 0..Len(queue) /\ ~(k <= k - 1)
      BY <1>0, <3>2, <3>3
    <3>5. f[k - 1] = g[k - 1]
      BY <3>1, <3>4
    <3>6. f[k] = Shifts(f[k - 1], queue[k]) /\ g[k] = Shifts(g[k - 1], queue[k])
      BY <1>2, <1>3, <3>2, <3>3 DEF Shifted
    <3> QED BY <3>2, <3>5, <3>6
  <2> QED BY <2>1, <2>2
<1>6. g[Len(queue)] = R[Len(queue)].frames
  BY <1>0 DEF g
<1> QED BY <1>4, <1>5, <1>6

(* The cursor that the reader subscribes with names exactly what it has     *)
(* sent to the host, and it is a beginning of what the daemon shows.        *)
THEOREM CursorTold == Spec => []CursorTellsReplica
<1>1. ASSUME StreamInv PROVE CursorTellsReplica
  <2> SUFFICES ASSUME reader.pc \in {"subscribe", "wait"}, ~reader.mixed
               PROVE  /\ Len(Promised) = reader.from
                      /\ reader.at = epoch => IsPrefix(Promised, pane.screen)
    BY DEF CursorTellsReplica
  <2>1. queue \in Seq(Messages) /\ StoryOK(History, reader, queue, replica)
    BY <1>1, Held DEF StreamInv
  <2>2. PICK R : Tells(History, reader, queue, replica, R)
    BY <2>1 DEF StoryOK
  <2> DEFINE v == R[Len(queue)]
  <2>3. v \in Views /\ LastTold(History, reader, v)
    <3>1. Len(queue) \in 0..Len(queue)
      BY <2>1
    <3> QED BY <2>2, <3>1 DEF Tells
  <2>4. Promised = v.frames
    BY <2>1, <2>2, PromisedView
  <2> HIDE DEF v
  <2>5. Len(v.frames) = reader.from /\ Begins(v.frames, History[reader.at + 1])
    BY <2>3 DEF LastTold
  <2>6. History[epoch + 1] = pane.screen /\ pane.screen \in Screens /\ v.frames \in Screens
    BY <1>1, <2>3, Now DEF StreamInv, Views
  <2>7. reader.at = epoch => IsPrefix(v.frames, pane.screen)
    BY <2>5, <2>6, BeginsPrefix
  <2> QED BY <2>4, <2>5, <2>7
<1> QED BY <1>1, Streaming, PTL

-----------------------------------------------------------------------------
(* The refinement. *)

Mirrored == IF replica.mixed THEN <<>> ELSE replica.frames

LEMMA Told ==
    ASSUME StreamInv, NEW k \in 1..Len(History)
    PROVE  History[k] \in ToSet(past) \cup {pane.screen}
<1>1. past \in Seq(Screens) /\ Len(past) \in Nat
  BY DEF StreamInv, TypeOK
<1>2. Len(History) = Len(past) + 1
  BY <1>1 DEF History
<1>3. CASE k = Len(past) + 1
  BY <1>1, <1>3 DEF History
<1>4. CASE k \in 1..Len(past)
  BY <1>1, <1>4 DEF History, ToSet
<1> QED BY <1>1, <1>2, <1>3, <1>4

LEMMA OutputGrows ==
    ASSUME StreamInv, Output
    PROVE  Shadow!Next
<1>1. pane.screen \in Screens /\ pane \in Panes
  BY Now DEF StreamInv, TypeOK
<1>2. /\ pane.screen' = Append(pane.screen, [epoch |-> epoch, seq |-> pane.log.next])
      /\ past' = past /\ replica' = replica
  BY <1>1 DEF Output, Panes
<1>3. \A f : /\ Len(Append(pane.screen, f)) = Len(pane.screen) + 1
             /\ SubSeq(Append(pane.screen, f), 1, Len(pane.screen)) = pane.screen
  BY <1>1 DEF Screens
<1> QED BY <1>2, <1>3 DEF Shadow!Next, Shadow!Grow

LEMMA RestartRestarts ==
    ASSUME StreamInv, Restart
    PROVE  Shadow!Next
<1>1. past \in Seq(Screens) /\ pane.screen \in Screens
  BY Now DEF StreamInv, TypeOK
<1>2. past' = Append(past, pane.screen) /\ replica' = replica
  BY DEF Restart
<1>3. ToSet(Append(past, pane.screen)) = ToSet(past) \cup {pane.screen}
  <2> DEFINE longer == Append(past, pane.screen)
  <2>1. /\ Len(past) \in Nat /\ Len(longer) = Len(past) + 1
        /\ DOMAIN past = 1..Len(past) /\ DOMAIN longer = 1..(Len(past) + 1)
        /\ \A i \in 1..Len(past) : longer[i] = past[i]
        /\ longer[Len(past) + 1] = pane.screen
    BY <1>1
  <2> HIDE DEF longer
  <2>2. \A i : i \in 1..(Len(past) + 1) <=> i \in 1..Len(past) \/ i = Len(past) + 1
    BY <2>1
  <2>3. \A z : z \in ToSet(longer) <=> z \in ToSet(past) \/ z = pane.screen
    BY <2>1, <2>2 DEF ToSet
  <2> QED BY <2>3 DEF longer
<1> QED BY <1>2, <1>3 DEF Shadow!Next, Shadow!Restart

LEMMA ApplyShows ==
    ASSUME StreamInv, Apply
    PROVE  Shadow!Next \/ UNCHANGED <<pane, past, Mirrored>>
<1> DEFINE S == History
           old == Mirrored
           new == Mirrored'
<1>0. /\ HistoryOK(S) /\ queue \in Seq(Messages) /\ replica \in Replicas
      /\ StoryOK(S, reader, queue, replica)
      /\ past \in Seq(Screens) /\ Len(past) \in Nat /\ pane.screen \in Screens
      /\ S \in Seq(Screens)
  BY Held, Now DEF StreamInv, TypeOK
<1>1. /\ queue # <<>> /\ replica' = Applied(Head(queue)) /\ pane' = pane /\ past' = past
  BY DEF Apply, daemon
<1> HIDE DEF S
<1>2. /\ Shows(S, Shown(replica), Shown(Applied(Head(queue))))
      /\ Applied(Head(queue)) \in Replicas
  BY <1>0, <1>1, StoryApplied
<1>3. old = Shown(replica) /\ new = Shown(Applied(Head(queue)))
  BY <1>1 DEF Mirrored, Shown
<1>4. old \in Screens /\ new \in Screens
  BY <1>0, <1>2, <1>3 DEF Shown, Replicas, Screens
<1>5. Shows(S, old, new)
  BY <1>2, <1>3
<1>6. CASE new = old
  BY <1>1, <1>6
<1>7. CASE new = <<>> /\ Len(S) > 1
  <2>1. ToSet(past) # {}
    <3>1. Len(S) = Len(past) + 1
      BY <1>0 DEF S, History
    <3>2. 1 \in DOMAIN past
      BY <1>0, <1>7, <3>1
    <3> QED BY <3>2 DEF ToSet
  <2> QED BY <1>1, <1>7, <2>1 DEF Shadow!Next, Shadow!Clear, Mirrored
<1>8. CASE \E k \in 1..Len(S) : Begins(new, S[k]) /\ (Begins(old, S[k]) => Begins(old, new))
  <2>1. PICK k \in 1..Len(S) : Begins(new, S[k]) /\ (Begins(old, S[k]) => Begins(old, new))
    BY <1>8
  <2> DEFINE s == S[k]
  <2>2. s \in ToSet(past) \cup {pane.screen} /\ s \in Screens
    BY <1>0, Told DEF S
  <2> HIDE DEF s, old, new
  <2>3. IsPrefix(new, s) /\ (IsPrefix(old, s) => IsPrefix(old, new))
    BY <1>4, <2>1, <2>2, BeginsPrefix DEF s
  <2>4. \E z \in ToSet(past) \cup {pane.screen} : IsPrefix(new, z) /\ (IsPrefix(old, z) => IsPrefix(old, new))
    BY <2>2, <2>3
  <2>5. pane.screen' = pane.screen /\ ToSet(past)' = ToSet(past)
    BY <1>1
  <2>6. \A z, y : IsPrefix(z, y) <=> Shadow!IsPrefix(z, y)
    BY DEF IsPrefix, Shadow!IsPrefix
  <2>7. \E z \in ToSet(past) \cup {pane.screen} :
          /\ Shadow!IsPrefix(new, z)
          /\ Shadow!IsPrefix(old, z) => Shadow!IsPrefix(old, new)
    BY <2>4, <2>6
  <2>8. Shadow!Show
    BY <2>5, <2>7 DEF Shadow!Show, Mirrored, old, new
  <2> QED BY <2>8 DEF Shadow!Next
<1> QED BY <1>5, <1>6, <1>7, <1>8 DEF Shows

(* The replica shows what the pane showed, and goes only forward while one  *)
(* daemon runs: the refinement of Mirror.                                   *)
THEOREM MirrorImplemented == Spec => ImplementsMirror
<1>1. Init => Shadow!Init
  <2>1. ToSet(<<>>) = {}
    BY DEF ToSet
  <2> QED BY <2>1 DEF Init, Shadow!Init, NewReplica
<1>2. ASSUME StreamInv, [Next]_vars
      PROVE  [Shadow!Next]_<<pane.screen, ToSet(past), Mirrored>>
  <2>1. CASE Output
    BY <1>2, <2>1, OutputGrows
  <2>2. CASE Restart
    BY <1>2, <2>2, RestartRestarts
  <2>3. CASE Apply
    BY <1>2, <2>3, ApplyShows
  <2>4. CASE ClosePane
    <3>1. pane'.screen = pane.screen /\ past' = past /\ replica' = replica
      BY <2>4 DEF ClosePane
    <3> QED BY <3>1 DEF Mirrored
  <2>5. ASSUME UNCHANGED <<daemon, replica>>
        PROVE  UNCHANGED <<pane.screen, ToSet(past), Mirrored>>
    BY <2>5 DEF daemon, Mirrored
  <2>6. CASE UNCHANGED vars
    BY <2>5, <2>6 DEF vars
  <2>7. CASE Next /\ ~Output /\ ~Restart /\ ~Apply /\ ~ClosePane
    <3>1. UNCHANGED <<daemon, replica>>
      BY <2>7 DEF Next, Push, Idle, Starting, AskState, FallBack, PaneMissing, End, TakeState, Subscribe,
            Reading, ReadFrames, ReadGap, ReadDone, ReadAhead, ReadStale, ReadError,
            Drop, HangUp, Reconnect
    <3> QED BY <2>5, <3>1
  <2> QED BY <1>2, <2>1, <2>2, <2>3, <2>4, <2>6, <2>7
<1>3. Spec => Init /\ [][Next]_vars
  BY DEF Spec
<1> QED BY <1>1, <1>2, <1>3, Streaming, PTL DEF ImplementsMirror, Shadow!Spec, Mirrored

-----------------------------------------------------------------------------
(* Progress: the threads stop for good only at a replica that shows what    *)
(* the pane shows.                                                          *)

LastKinds == {"done", "ahead", "stale"}

(* Only the pane that is gone is reported gone, and a subscription does not *)
(* end without a word.                                                      *)
WireOK(there, w) ==
    /\ \A i \in 1..Len(w.replies) : w.replies[i].kind = "stale" => ~there
    /\ w.open /\ w.stream = None =>
            w.replies # <<>> /\ w.replies[Len(w.replies)].kind \in LastKinds

(* What an answer adds to the connection. *)
Answers(there, w, x) ==
    /\ x.open = w.open
    /\ \/ x.replies = w.replies /\ x.stream # None
       \/ \E m \in Replies :
            /\ x.replies = Append(w.replies, m)
            /\ m.kind = "stale" => ~there
            /\ x.stream = None => m.kind \in LastKinds

(* The rows above the screen may have a hole after the first n messages,    *)
(* and the others leave it.                                                 *)
Holed(q, patched, n) ==
    /\ IF n = 0 THEN patched ELSE q[n].kind = "gap"
    /\ \A i \in 1..Len(q) : i > n => q[i].kind \notin {"ready", "reset"}

(* A reader with no hole to answer for has left none in the replica; the    *)
(* host hears of the end.                                                   *)
WordOK(r, q, c) ==
    /\ r.pc \in {"subscribe", "wait"} /\ ~r.fell =>
            \A n \in 0..Len(q) : ~Holed(q, c.patched, n)
    /\ r.pc \in {"ended", "failed"} => IF q = <<>> THEN c.ended ELSE q[Len(q)].kind = "ended"

RestInv ==
    /\ StreamInv
    /\ reader.pc = "wait" => WireOK(pane.there, wire)
    /\ reader.pc = "ended" => ~pane.there
    /\ WordOK(reader, queue, replica)

LEMMA AnswersAdd ==
    ASSUME NEW there, NEW w \in Wires, NEW x, Answers(there, w, x),
           \A i \in 1..Len(w.replies) : w.replies[i].kind = "stale" => ~there
    PROVE  WireOK(there, x)
<1>0. w.replies \in Seq(Replies) /\ Len(w.replies) \in Nat
  BY DEF Wires
<1>1. CASE x.replies = w.replies /\ x.stream # None
  BY <1>1 DEF WireOK
<1>2. ASSUME NEW m \in Replies, x.replies = Append(w.replies, m),
             m.kind = "stale" => ~there,
             x.stream = None => m.kind \in LastKinds
      PROVE  WireOK(there, x)
  <2> DEFINE s == w.replies
             t == x.replies
  <2>1. /\ t # <<>> /\ Len(t) = Len(s) + 1 /\ t[Len(s) + 1] = m
        /\ \A i \in 1..Len(s) : t[i] = s[i]
    BY <1>0, <1>2
  <2>2. \A i \in 1..Len(t) : i \in 1..Len(s) \/ i = Len(s) + 1
    BY <1>0, <2>1
  <2>3. \A i \in 1..Len(s) : s[i].kind = "stale" => ~there
    OBVIOUS
  <2> HIDE DEF s, t
  <2>4. \A i \in 1..Len(t) : t[i].kind = "stale" => ~there
    BY <1>2, <2>1, <2>2, <2>3
  <2>5. x.stream = None => t[Len(t)].kind \in LastKinds
    BY <1>2, <2>1
  <2> QED BY <2>1, <2>4, <2>5 DEF WireOK, t
<1> QED BY <1>1, <1>2 DEF Answers

LEMMA RespondAnswers ==
    ASSUME TypeOK, NEW w \in Wires, NEW kind \in Kinds,
           NEW frames \in Screens, NEW through \in Nat, NEW more \in BOOLEAN,
           kind = "stale" => ~pane.there,
           ~more => kind \in LastKinds
    PROVE  Answers(pane.there, w, Respond(w, kind, frames, through, more))
<1> DEFINE m == [kind |-> kind, epoch |-> epoch, frames |-> frames, through |-> through]
           x == Respond(w, kind, frames, through, more)
<1>1. m \in Replies
  BY DEF TypeOK, Replies, Kinds
<1>2. x.open = w.open /\ x.replies = Append(w.replies, m)
      /\ x.stream = IF more THEN through ELSE None
  BY DEF Respond, Wires
<1>3. through # None
  BY Constants
<1>4. m.kind = kind /\ m.frames = frames
  OBVIOUS
<1> HIDE DEF m, x
<1>5. Answers(pane.there, w, x)
  BY <1>1, <1>2, <1>3, <1>4 DEF Answers
<1> QED BY <1>5 DEF x

LEMMA FramesAnswer ==
    ASSUME TypeOK, PaneOK, NEW w \in Wires, NEW n \in Nat,
           NEW large \in BOOLEAN
    PROVE  Answers(pane.there, w, Frames(w, n, large))
<1> DEFINE s == pane.screen
<1>0. /\ s \in Screens /\ Len(s) \in Nat /\ Numbered(s, 0)
      /\ pane.log = LogOf(s) /\ <<>> \in Screens /\ Lost(s) \in Nat
  BY Now, LogOfScreen DEF PaneOK, Screens
<1>1. /\ CurrentSeq(pane.log) = Len(s)
      /\ n > Len(s) => CatchUp(pane.log, n) = [kind |-> "ahead"]
      /\ n <= Len(s) /\ n < Lost(s) => CatchUp(pane.log, n) = [kind |-> "gap"]
      /\ n <= Len(s) /\ n >= Lost(s) =>
            CatchUp(pane.log, n) = [kind |-> "events", frames |-> SubSeq(s, n + 1, Len(s))]
  BY <1>0, LogAnswers
<1>2. CASE n > Len(s)
  <2>1. CatchUp(pane.log, n).kind = "ahead"
    BY <1>1, <1>2
  <2>2. CatchUp(pane.log, n).kind = "ahead" =>
            Frames(w, n, large) = Respond(w, "ahead", <<>>, CurrentSeq(pane.log), FALSE)
    BY FramesCases
  <2>3. Answers(pane.there, w, Respond(w, "ahead", <<>>, Len(s), FALSE))
    BY <1>0, RespondAnswers DEF LastKinds, Kinds
  <2> QED BY <1>1, <2>1, <2>2, <2>3
<1>3. CASE n <= Len(s) /\ n < Lost(s)
  <2>1. CatchUp(pane.log, n).kind = "gap"
    BY <1>1, <1>3
  <2>2. Frames(w, n, large) = Write(w, "gap", s, CurrentSeq(pane.log), large)
    <3>1. Frames(w, n, large) = Write(w, "gap", pane.screen, CurrentSeq(pane.log), large)
      BY <2>1, FramesGap
    <3> QED BY <3>1
  <2>3. s \in Screens /\ Len(s) \in Nat
    BY <1>0
  <2> HIDE DEF s
  <2>4. /\ Answers(pane.there, w, Respond(w, "gap", s, Len(s), TRUE))
        /\ Answers(pane.there, w, Respond(w, "error", <<>>, Len(s), TRUE))
    BY <1>0, <2>3, RespondAnswers DEF Kinds
  <2> QED BY <1>1, <2>1, <2>2, <2>4 DEF Write
<1>4. CASE n = Len(s) /\ n >= Lost(s)
  <2>1. SubSeq(s, n + 1, Len(s)) = <<>>
    BY <1>0, <1>4, SubSeqEmpty
  <2>2. CatchUp(pane.log, n).kind = "events" /\ CatchUp(pane.log, n).frames = <<>>
    BY <1>0, <1>1, <1>4, <2>1
  <2>3. CatchUp(pane.log, n).kind = "events" /\ CatchUp(pane.log, n).frames = <<>> =>
            Frames(w, n, large) = [w EXCEPT !.stream = n]
    BY FramesCases
  <2>4. n # None
    BY Constants
  <2>5. [w EXCEPT !.stream = n].open = w.open /\ [w EXCEPT !.stream = n].replies = w.replies
        /\ [w EXCEPT !.stream = n].stream = n
    BY DEF Wires
  <2> QED BY <2>2, <2>3, <2>4, <2>5 DEF Answers
<1>5. CASE n < Len(s) /\ n >= Lost(s)
  <2> DEFINE c == SubSeq(s, n + 1, Len(s))
             f == First(c, Batch)
  <2>1. CatchUp(pane.log, n).kind = "events" /\ CatchUp(pane.log, n).frames = c
    BY <1>0, <1>1, <1>5
  <2>2. /\ c # <<>> /\ f \in Screens
        /\ Len(f) \in Nat
        /\ f[Len(f)].seq = n + Len(f)
    BY <1>0, <1>5, FirstFrames
  <2> HIDE DEF c
  <2>3. Frames(w, n, large) = Write(w, "frames", f, f[Len(f)].seq, large)
    BY <2>1, <2>2 DEF Frames
  <2> HIDE DEF f
  <2>4. n + Len(f) \in Nat
    BY <2>2
  <2>5. /\ Answers(pane.there, w, Respond(w, "frames", f, n + Len(f), TRUE))
        /\ Answers(pane.there, w, Respond(w, "error", <<>>, n + Len(f), TRUE))
    BY <1>0, <2>2, <2>4, RespondAnswers DEF Kinds
  <2> QED BY <2>2, <2>3, <2>5 DEF Write
<1> QED BY <1>0, <1>2, <1>3, <1>4, <1>5

LEMMA WordLater ==
    ASSUME NEW q \in Seq(Messages), NEW m \in Messages, NEW c, NEW n \in 0..(Len(q) + 1),
           Holed(Append(q, m), c.patched, n)
    PROVE  \/ n = Len(q) + 1 /\ m.kind = "gap"
           \/ n \in 0..Len(q) /\ Holed(q, c.patched, n) /\ m.kind \notin {"ready", "reset"}
<1> DEFINE t == Append(q, m)
<1>1. /\ Len(q) \in Nat /\ Len(t) = Len(q) + 1 /\ t[Len(q) + 1] = m
      /\ \A i \in 1..Len(q) : t[i] = q[i]
  OBVIOUS
<1>2. Holed(t, c.patched, n)
  OBVIOUS
<1> HIDE DEF t
<1>3. CASE n = Len(q) + 1
  BY <1>1, <1>2, <1>3 DEF Holed
<1>4. CASE n \in 0..Len(q)
  <2>1. m.kind \notin {"ready", "reset"}
    <3>1. Len(q) + 1 \in 1..Len(t) /\ Len(q) + 1 > n
      BY <1>1, <1>4
    <3> QED BY <1>1, <1>2, <3>1 DEF Holed
  <2>2. ASSUME NEW i \in 1..Len(q), i > n PROVE q[i].kind \notin {"ready", "reset"}
    <3>1. i \in 1..Len(t)
      BY <1>1
    <3> QED BY <1>1, <1>2, <2>2, <3>1 DEF Holed
  <2>3. IF n = 0 THEN c.patched ELSE q[n].kind = "gap"
    <3>1. n # 0 => n \in 1..Len(q)
      BY <1>1, <1>4
    <3> QED BY <1>1, <1>2, <3>1 DEF Holed
  <2> QED BY <1>4, <2>1, <2>2, <2>3 DEF Holed
<1> QED BY <1>1, <1>3, <1>4

(* The reader goes on, and tells the host nothing or a message that leaves  *)
(* no hole.                                                                 *)
LEMMA WordGoesOn ==
    ASSUME NEW q \in Seq(Messages), NEW c, NEW r, NEW t, NEW p,
           WordOK(r, q, c), t.pc \notin {"ended", "failed"},
           \/ p = q
           \/ \E m \in Messages : p = Append(q, m) /\ m.kind # "gap",
           \/ t.pc \notin {"subscribe", "wait"}
           \/ t.fell
           \/ r.pc \in {"subscribe", "wait"} /\ (t.fell <=> r.fell)
    PROVE  WordOK(t, p, c)
<1> SUFFICES ASSUME t.pc \in {"subscribe", "wait"}, ~t.fell, NEW n \in 0..Len(p),
                    Holed(p, c.patched, n)
             PROVE  FALSE
  BY DEF WordOK
<1>1. \A k \in 0..Len(q) : ~Holed(q, c.patched, k)
  BY DEF WordOK
<1>2. PICK m \in Messages : p = Append(q, m) /\ m.kind # "gap"
  BY <1>1
<1>3. n \in 0..(Len(q) + 1)
  BY <1>2
<1> QED BY <1>1, <1>2, <1>3, WordLater

LEMMA WordApplied ==
    ASSUME StreamInv, queue # <<>>, WordOK(reader, queue, replica)
    PROVE  WordOK(reader, Tail(queue), Applied(Head(queue)))
<1> DEFINE m == Head(queue)
           q == Tail(queue)
           c == Applied(m)
<1>0. /\ queue \in Seq(Messages) /\ replica \in Replicas
      /\ StoryOK(History, reader, queue, replica)
  BY Held DEF StreamInv
<1>1. /\ m \in Messages /\ m = queue[1] /\ q \in Seq(Messages) /\ Len(q) = Len(queue) - 1
      /\ Len(queue) \in Nat \ {0}
      /\ \A n \in 1..Len(q) : q[n] = queue[n + 1]
  BY <1>0, HeadTailProperties, EmptySeq
<1> HIDE DEF m, q
<1>2. m.kind = "ready" => replica.seq = None
  <2>1. PICK R : Tells(History, reader, queue, replica, R)
    BY <1>0 DEF StoryOK
  <2>2. 0 \in 0..Len(queue) /\ 1 \in 1..Len(queue) /\ 1 - 1 = 0
    BY <1>1
  <2>3. Leads(History, R[1 - 1], queue[1], R[1])
    BY <2>1, <2>2 DEF Tells
  <2>4. Leads(History, R[0], m, R[1]) /\ R[0].seq = replica.seq
    BY <1>1, <2>1, <2>2, <2>3 DEF Tells
  <2> QED BY <2>4 DEF Leads
<1>3. m.kind \in {"forget", "reset", "ended", "ready", "batch", "gap"}
  BY <1>1 DEF Messages
<1>4. /\ m.kind \in {"ready", "reset"} => ~c.patched
      /\ m.kind \in {"forget", "ended", "batch"} => c.patched = replica.patched
      /\ m.kind = "ended" => c.ended
  BY <1>0, <1>2, <1>3 DEF Applied, IsCurrent, NewReplica, Replicas
<1> HIDE DEF c
<1>5. ASSUME reader.pc \in {"subscribe", "wait"}, ~reader.fell, NEW n \in 0..Len(q),
             Holed(q, c.patched, n)
      PROVE  FALSE
  <2>1. \A k \in 0..Len(queue) : ~Holed(queue, replica.patched, k)
    BY <1>5 DEF WordOK
  <2>2. \A i \in 1..Len(queue) : i # 1 => i - 1 \in 1..Len(q) /\ queue[i] = q[i - 1]
    <3> SUFFICES ASSUME NEW i \in 1..Len(queue), i # 1
                 PROVE  i - 1 \in 1..Len(q) /\ queue[i] = q[i - 1]
      OBVIOUS
    <3>1. i - 1 \in 1..Len(q) /\ i - 1 + 1 = i
      BY <1>1
    <3> QED BY <1>1, <3>1
  <2>3. ASSUME NEW i \in 1..Len(queue), i > n + 1
        PROVE  queue[i].kind \notin {"ready", "reset"}
    <3>1. i # 1 /\ i - 1 > n
      BY <1>1, <2>3
    <3>2. i - 1 \in 1..Len(q) /\ queue[i] = q[i - 1]
      BY <2>2, <3>1
    <3> QED BY <1>5, <3>1, <3>2 DEF Holed
  <2>4. CASE n # 0
    <3>1. n \in 1..Len(q) /\ n + 1 \in 0..Len(queue) /\ n + 1 # 0 /\ queue[n + 1] = q[n]
      BY <1>1, <2>4
    <3>2. q[n].kind = "gap"
      BY <1>5, <2>4 DEF Holed
    <3>3. Holed(queue, replica.patched, n + 1)
      BY <2>3, <3>1, <3>2 DEF Holed
    <3> QED BY <2>1, <3>1, <3>3
  <2>5. CASE n = 0
    <3>0. c.patched /\ 0 \in 0..Len(queue) /\ 1 \in 0..Len(queue)
      BY <1>1, <1>5, <2>5 DEF Holed
    <3>1. CASE m.kind = "gap"
      <4>1. Holed(queue, replica.patched, 1)
        BY <1>1, <2>3, <2>5, <3>1 DEF Holed
      <4> QED BY <2>1, <3>0, <4>1
    <3>2. CASE m.kind \in {"forget", "ended", "batch"}
      <4>1. ASSUME NEW i \in 1..Len(queue) PROVE queue[i].kind \notin {"ready", "reset"}
        <5>1. CASE i = 1
          BY <1>1, <3>2, <5>1
        <5>2. CASE i > 0 + 1
          BY <2>3, <2>5, <5>2
        <5> QED BY <1>1, <5>1, <5>2
      <4>2. Holed(queue, replica.patched, 0)
        BY <1>4, <3>0, <3>2, <4>1 DEF Holed
      <4> QED BY <2>1, <3>0, <4>2
    <3> QED BY <1>3, <1>4, <3>0, <3>1, <3>2
  <2> QED BY <2>4, <2>5
<1>6. ASSUME reader.pc \in {"ended", "failed"}
      PROVE  IF q = <<>> THEN c.ended ELSE q[Len(q)].kind = "ended"
  <2>1. queue[Len(queue)].kind = "ended"
    BY <1>6 DEF WordOK
  <2>2. CASE q = <<>>
    <3>1. Len(queue) = 1
      BY <1>1, <2>2
    <3> QED BY <1>1, <1>4, <2>1, <2>2, <3>1
  <2>3. CASE q # <<>>
    <3>1. Len(q) \in 1..Len(q) /\ Len(q) + 1 = Len(queue)
      BY <1>1, <2>3, EmptySeq
    <3> QED BY <1>1, <2>1, <2>3, <3>1
  <2> QED BY <2>2, <2>3
<1>7. WordOK(reader, q, c)
  BY <1>5, <1>6 DEF WordOK
<1> QED BY <1>7 DEF m, q, c

LEMMA InitRest == Init => RestInv
<1> SUFFICES ASSUME Init PROVE RestInv
  OBVIOUS
<1>1. reader.pc = "restore"
  BY DEF Init, NewReader
<1> QED BY <1>1, InitInv DEF RestInv, WordOK

(* A step of the daemon's thread. *)
LEMMA AnswerRest == RestInv /\ (Push \/ Idle) => (reader.pc = "wait" => WireOK(pane.there, wire'))
<1> SUFFICES ASSUME RestInv, Push \/ Idle, reader.pc = "wait" PROVE WireOK(pane.there, wire')
  OBVIOUS
<1>1. /\ TypeOK /\ PaneOK /\ wire \in Wires /\ WireOK(pane.there, wire) /\ wire.stream # None
      /\ wire.stream \in Nat /\ <<>> \in Screens
      /\ \/ \E large \in BOOLEAN : wire' = Frames(wire, wire.stream, large)
         \/ wire' = Respond(wire, "done", <<>>, wire.stream, FALSE)
  <2>1. wire.stream # None
    BY DEF Push, Idle, CanWrite
  <2>2. StreamInv /\ WireOK(pane.there, wire)
    BY DEF RestInv
  <2>3. TypeOK /\ PaneOK
    BY <2>2 DEF StreamInv
  <2>4. wire \in Wires /\ wire.stream \in Nat /\ <<>> \in Screens
    BY <2>1, <2>2, Held, Streams DEF Screens
  <2>5. \/ \E large \in BOOLEAN : wire' = Frames(wire, wire.stream, large)
        \/ wire' = Respond(wire, "done", <<>>, wire.stream, FALSE)
    BY DEF Push, Idle
  <2> QED BY <2>1, <2>2, <2>3, <2>4, <2>5
<1>2. \A large \in BOOLEAN : Answers(pane.there, wire, Frames(wire, wire.stream, large))
  BY <1>1, FramesAnswer
<1>3. Answers(pane.there, wire, Respond(wire, "done", <<>>, wire.stream, FALSE))
  BY <1>1, RespondAnswers DEF LastKinds, Kinds
<1>4. Answers(pane.there, wire, wire')
  BY <1>1, <1>2, <1>3
<1> QED BY <1>1, <1>4, AnswersAdd DEF WireOK

LEMMA SubscribeRest == RestInv /\ Subscribe => WireOK(pane.there, wire')
<1> SUFFICES ASSUME RestInv, Subscribe PROVE WireOK(pane.there, wire')
  OBVIOUS
<1>1. /\ TypeOK /\ PaneOK /\ Opened \in Wires /\ reader.from \in Nat /\ <<>> \in Screens
      /\ \/ \E large \in BOOLEAN : wire' = Frames(Opened, reader.from, large)
         \/ ~pane.there /\ wire' = Respond(Opened, "stale", <<>>, 0, FALSE)
  <2>1. StreamInv
    BY DEF RestInv
  <2>2. TypeOK /\ PaneOK
    BY <2>1 DEF StreamInv
  <2>3. Opened \in Wires /\ reader.from \in Nat /\ <<>> \in Screens
    BY <2>1, Held DEF Screens
  <2>4. \/ \E large \in BOOLEAN : wire' = Frames(Opened, reader.from, large)
        \/ ~pane.there /\ wire' = Respond(Opened, "stale", <<>>, 0, FALSE)
    BY DEF Subscribe
  <2> QED BY <2>2, <2>3, <2>4
<1>2. Opened.replies = <<>>
  BY DEF Opened, Closed
<1>3. \A large \in BOOLEAN : Answers(pane.there, Opened, Frames(Opened, reader.from, large))
  BY <1>1, FramesAnswer
<1>4. ~pane.there => Answers(pane.there, Opened, Respond(Opened, "stale", <<>>, 0, FALSE))
  BY <1>1, RespondAnswers DEF LastKinds, Kinds
<1>5. Answers(pane.there, Opened, wire')
  BY <1>1, <1>3, <1>4
<1>6. \A i \in 1..Len(Opened.replies) : Opened.replies[i].kind = "stale" => ~pane.there
  BY <1>2
<1> QED BY <1>1, <1>5, <1>6, AnswersAdd

(* The reader takes a batch: an answer that ends the stream is still there. *)
LEMMA TakenRest == RestInv /\ ReadFrames => WireOK(pane.there, wire')
<1> SUFFICES ASSUME RestInv, ReadFrames PROVE WireOK(pane.there, wire')
  OBVIOUS
<1>1. /\ reader.pc = "wait" /\ wire.replies # <<>> /\ Reply.kind = "frames" /\ wire' = Taken
      /\ StreamInv /\ WireOK(pane.there, wire)
  BY DEF ReadFrames, Reads, RestInv
<1>2. /\ Reply = wire.replies[1]
      /\ Taken.open = wire.open /\ Taken.stream = wire.stream
      /\ Taken.replies = Tail(wire.replies)
  BY <1>1, Answered
<1> DEFINE s == wire.replies
           t == Tail(s)
<1>3. /\ s \in Seq(Replies) /\ Len(s) \in Nat \ {0} /\ Len(t) = Len(s) - 1
      /\ \A i \in 1..Len(t) : t[i] = s[i + 1] /\ i + 1 \in 1..Len(s)
  BY <1>1, Held, HeadTailProperties, EmptySeq DEF Wires
<1>4. \A i \in 1..Len(s) : s[i].kind = "stale" => ~pane.there
  BY <1>1 DEF WireOK
<1>5. wire.open /\ wire.stream = None => s[Len(s)].kind \in LastKinds
  BY <1>1 DEF WireOK
<1>6. s[1].kind = "frames"
  BY <1>1, <1>2
<1>7. Taken.replies = t
  BY <1>2
<1> HIDE DEF s, t
<1>8. \A i \in 1..Len(t) : t[i].kind = "stale" => ~pane.there
  BY <1>3, <1>4
<1>9. ASSUME wire.open, wire.stream = None
      PROVE  t # <<>> /\ t[Len(t)].kind \in LastKinds
  <2>1. Len(s) # 1
    BY <1>5, <1>6, <1>9 DEF LastKinds
  <2>2. Len(t) \in 1..Len(t) /\ Len(t) + 1 = Len(s) /\ Len(t) # 0
    BY <1>3, <2>1
  <2>3. t[Len(t)] = s[Len(s)]
    BY <1>3, <2>2
  <2> QED BY <1>5, <1>9, <2>2, <2>3, EmptySeq
<1>10. WireOK(pane.there, Taken)
  BY <1>2, <1>7, <1>8, <1>9 DEF WireOK
<1> QED BY <1>1, <1>10

(* What the steps leave to the host. *)
LEMMA WordKept == RestInv /\ [Next]_vars => WordOK(reader', queue', replica')
<1> SUFFICES ASSUME RestInv, [Next]_vars PROVE WordOK(reader', queue', replica')
  OBVIOUS
<1>0. /\ StreamInv /\ WordOK(reader, queue, replica)
      /\ queue \in Seq(Messages) /\ replica \in Replicas /\ reader \in Readers
  BY Held DEF RestInv
<1>1. CASE UNCHANGED <<reader, queue, replica>>
  BY <1>0, <1>1
<1>2. CASE AskState
  <2>1. [kind |-> "forget"] \in Messages /\ queue' = Append(queue, [kind |-> "forget"])
        /\ reader'.pc = "transfer" /\ replica' = replica
    BY <1>0, <1>2 DEF AskState, Messages, Readers
  <2> QED BY <1>0, <2>1 DEF WordOK
<1>3. CASE FallBack
  <2>1. reader'.pc = "subscribe" /\ reader'.fell
    BY <1>0, <1>3 DEF FallBack, Readers
  <2> QED BY <2>1 DEF WordOK
<1>4. CASE (\E how \in {"ended", "failed"} : End(how)) /\ replica' = replica
  <2> DEFINE m == [kind |-> "ended"]
  <2>1. /\ queue' = Append(queue, m) /\ m.kind = "ended"
        /\ reader'.pc \in {"ended", "failed"}
    BY <1>0, <1>4 DEF End, Readers
  <2> HIDE DEF m
  <2>2. /\ Append(queue, m) # <<>> /\ Len(Append(queue, m)) = Len(queue) + 1
        /\ Append(queue, m)[Len(queue) + 1] = m
    BY <1>0
  <2> QED BY <2>1, <2>2 DEF WordOK
<1>5. CASE TakeState
  <2> DEFINE m == [kind |-> "ready", frames |-> reader.state.frames,
                   through |-> Len(reader.state.frames)]
  <2>1. /\ queue' = Append(queue, m) /\ replica' = replica
        /\ reader'.pc = "subscribe"
    BY <1>0, <1>5 DEF TakeState, Send, Readers, NewReader
  <2>2. m \in Messages /\ m.kind = "ready"
    <3>1. reader.state \in States
      BY <1>0, <1>5 DEF TakeState, StreamInv, ReaderOK
    <3>2. reader.state.frames \in Screens /\ Len(reader.state.frames) \in Nat
      BY <3>1 DEF States, Screens
    <3> QED BY <3>2 DEF Messages
  <2> HIDE DEF m
  <2>3. ASSUME NEW n \in 0..Len(Append(queue, m)), Holed(Append(queue, m), replica.patched, n)
        PROVE  FALSE
    <3>1. n \in 0..(Len(queue) + 1)
      BY <1>0
    <3> QED BY <1>0, <2>2, <2>3, <3>1, WordLater
  <2> QED BY <2>1, <2>3 DEF WordOK
<1>6. CASE reader'.pc = "subscribe" /\ reader.pc = "wait" /\ reader'.fell = reader.fell
           /\ UNCHANGED <<queue, replica>>
  BY <1>0, <1>6 DEF WordOK
<1>7. CASE Subscribe
  <2>1. reader'.pc = "wait" /\ reader.pc = "subscribe" /\ reader'.fell = reader.fell
        /\ queue' = queue /\ replica' = replica
    BY <1>0, <1>7 DEF Subscribe, Readers
  <2> QED BY <1>0, <2>1 DEF WordOK
<1>8. CASE ReadFrames
  <2> DEFINE m == [kind |-> "batch", frames |-> Reply.frames, mixed |-> reader.mixed]
  <2>1. /\ queue' = Append(queue, m) /\ replica' = replica
        /\ reader.pc = "wait" /\ reader'.pc = "wait" /\ reader'.fell = reader.fell
    BY <1>0, <1>8 DEF ReadFrames, Send, Reads, Readers
  <2>2. m \in Messages /\ m.kind # "gap"
    <3>1. Reply \in Replies
      BY <1>0, <1>8, Answered DEF ReadFrames, Reads
    <3> QED BY <1>0, <3>1 DEF Messages, Replies, Readers
  <2> HIDE DEF m
  <2> QED BY <1>0, <2>1, <2>2, WordGoesOn
<1>9. CASE reader'.pc = "restore"
  BY <1>9 DEF WordOK
<1>10. CASE Apply
  <2>1. queue # <<>> /\ replica' = Applied(Head(queue)) /\ queue' = Tail(queue)
        /\ reader' = reader
    BY <1>10 DEF Apply
  <2> QED BY <1>0, <2>1, WordApplied
<1> QED
  <2>1. CASE UNCHANGED vars \/ Output \/ ClosePane \/ Restart \/ Push \/ Idle
    BY <2>1, <1>1 DEF vars, Output, ClosePane, Restart, Push, Idle
  <2>2. CASE PaneMissing \/ ReadStale \/ ReadError
    BY <2>2, <1>4 DEF PaneMissing, ReadStale, ReadError
  <2>3. CASE ReadDone
    BY <2>3, <1>0, <1>6 DEF ReadDone, Reads, Readers
  <2>4. CASE ReadGap \/ ReadAhead \/ Drop \/ HangUp
    BY <2>4, <1>0, <1>9 DEF ReadGap, ReadAhead, Drop, HangUp, Reconnect, Readers
  <2> QED BY <2>1, <2>2, <2>3, <2>4, <1>2, <1>3, <1>5, <1>7, <1>8, <1>10
          DEF Next, Starting, Reading

(* A pane that is gone stays away. *)
LEMMA PaneStaysAway == StreamInv /\ [Next]_vars => (~pane.there => ~pane'.there)
<1> SUFFICES ASSUME StreamInv, [Next]_vars, ~pane.there PROVE ~pane'.there
  OBVIOUS
<1>1. CASE pane' = pane
  BY <1>1
<1>2. CASE Restart
  <2>1. \/ \E s, l : pane' = [there |-> pane.there, boundary |-> TRUE, screen |-> s, log |-> l]
        \/ pane' = [there |-> pane.there, boundary |-> TRUE, screen |-> <<>>, log |-> NewLog]
    BY <1>2 DEF Restart
  <2>2. pane'.there = pane.there
    BY <2>1
  <2> QED BY <2>2
<1> QED
  <2>1. CASE UNCHANGED vars \/ Push \/ Idle \/ TakeState \/ Subscribe \/ Drop \/ HangUp \/ Apply
    BY <2>1, <1>1 DEF vars, daemon, Push, Idle, TakeState, Subscribe, Drop, HangUp, Reconnect, Apply
  <2>2. CASE Starting
    BY <2>2, <1>1 DEF Starting, AskState, FallBack, PaneMissing, daemon
  <2>3. CASE Reading
    BY <2>3, <1>1 DEF Reading, ReadFrames, ReadGap, ReadDone, ReadAhead, ReadStale, ReadError,
                      daemon
  <2> QED BY <2>1, <2>2, <2>3, <1>2 DEF Next, Output, ClosePane

LEMMA WireKept == RestInv /\ [Next]_vars => (reader'.pc = "wait" => WireOK(pane'.there, wire'))
<1> SUFFICES ASSUME RestInv, [Next]_vars, reader'.pc = "wait" PROVE WireOK(pane'.there, wire')
  OBVIOUS
<1>0. /\ StreamInv /\ reader \in Readers /\ (reader.pc = "wait" => WireOK(pane.there, wire))
      /\ ~pane.there => ~pane'.there
  BY Held, PaneStaysAway DEF RestInv
<1>1. CASE UNCHANGED <<reader, wire>>
  BY <1>0, <1>1 DEF WireOK
<1>2. CASE Restart
  <2>1. wire \in Wires
    BY <1>0, Held
  <2>2. reader' = reader /\ ~wire'.open /\ wire'.replies = wire.replies
    BY <1>2, <2>1 DEF Restart, Wires
  <2> QED BY <1>0, <2>2 DEF WireOK
<1>3. CASE WireOK(pane.there, wire')
  BY <1>0, <1>3 DEF WireOK
<1>4. CASE Push \/ Idle
  <2>1. reader' = reader
    BY <1>4 DEF Push, Idle
  <2> QED BY <1>3, <1>4, <2>1, AnswerRest
<1>5. CASE Subscribe
  BY <1>3, <1>5, SubscribeRest
<1>6. CASE ReadFrames
  BY <1>3, <1>6, TakenRest
<1>7. CASE Starting \/ TakeState \/ ReadGap \/ ReadDone \/ ReadAhead \/ ReadStale \/ ReadError
           \/ Drop \/ HangUp
  <2>1. reader'.pc # "wait"
    BY <1>0, <1>7 DEF Starting, AskState, FallBack, PaneMissing, End, TakeState, NewReader,
                      ReadGap, ReadDone, ReadAhead, ReadStale, ReadError, Drop, HangUp, Reconnect,
                      Readers
  <2> QED BY <2>1
<1> QED
  <2>1. CASE UNCHANGED vars \/ Output \/ ClosePane \/ Apply
    BY <2>1, <1>1 DEF vars, Output, ClosePane, Apply
  <2> QED BY <2>1, <1>2, <1>4, <1>5, <1>6, <1>7 DEF Next, Reading

(* The reader ends without an error only for a pane that is gone. *)
LEMMA EndKept == RestInv /\ [Next]_vars => (reader'.pc = "ended" => ~pane'.there)
<1> SUFFICES ASSUME RestInv, [Next]_vars, reader'.pc = "ended" PROVE ~pane'.there
  OBVIOUS
<1>0. /\ StreamInv /\ reader \in Readers /\ (reader.pc = "wait" => WireOK(pane.there, wire))
      /\ ~pane.there => ~pane'.there
      /\ reader.pc = "ended" => ~pane.there
  BY Held, PaneStaysAway DEF RestInv
<1>1. CASE UNCHANGED reader
  BY <1>0, <1>1
<1>2. CASE PaneMissing
  BY <1>0, <1>2 DEF PaneMissing
<1>3. CASE ReadStale
  <2>1. reader.pc = "wait" /\ wire.replies # <<>> /\ Reply.kind = "stale"
    BY <1>3 DEF ReadStale, Reads
  <2>2. Reply = wire.replies[1]
    BY <1>0, <2>1, Answered
  <2>3. 1 \in 1..Len(wire.replies)
    BY <1>0, <2>1, Held, EmptySeq DEF Wires
  <2> QED BY <1>0, <2>1, <2>2, <2>3 DEF WireOK
<1>4. CASE AskState \/ FallBack \/ TakeState \/ Subscribe \/ ReadFrames \/ ReadGap \/ ReadDone
           \/ ReadAhead \/ ReadError \/ Drop \/ HangUp
  <2>1. reader'.pc # "ended"
    BY <1>0, <1>4 DEF AskState, FallBack, TakeState, NewReader, Subscribe, ReadFrames, ReadGap,
                      ReadDone, ReadAhead, ReadError, End, Reads, Drop, HangUp, Reconnect, Readers
  <2> QED BY <2>1
<1> QED
  <2>1. CASE UNCHANGED vars \/ Output \/ ClosePane \/ Restart \/ Push \/ Idle \/ Apply
    BY <2>1, <1>1 DEF vars, Output, ClosePane, Restart, Push, Idle, Apply
  <2> QED BY <2>1, <1>2, <1>3, <1>4 DEF Next, Starting, Reading

LEMMA Resting == Spec => []RestInv
<1>1. Init => RestInv
  BY InitRest
<1>2. RestInv /\ [Next]_vars => RestInv'
  <2> SUFFICES ASSUME RestInv, [Next]_vars PROVE RestInv'
    OBVIOUS
  <2>1. StreamInv'
    BY StreamKept DEF RestInv
  <2> QED BY <2>1, WordKept, WireKept, EndKept DEF RestInv
<1> QED BY <1>1, <1>2, PTL DEF Spec

(* No message, no memory. *)
Sums(f) ==
    f = [n \in 0..Len(queue) |-> IF n = 0 THEN 0 ELSE f[n - 1] + Size(queue[n])]

LEMMA NothingReserved == queue = <<>> => Reserved = 0
<1> SUFFICES ASSUME queue = <<>> PROVE Reserved = 0
  OBVIOUS
<1> DEFINE f == CHOOSE h : Sums(h)
           g == [n \in 0..Len(queue) |-> 0]
<1>1. Len(queue) = 0 /\ 0 \in 0..Len(queue) /\ \A n \in 0..Len(queue) : n = 0
  OBVIOUS
<1>2. Sums(g)
  BY <1>1 DEF Sums
<1>3. Reserved = f[Len(queue)]
  BY DEF Reserved, Sums
<1> HIDE DEF g
<1>4. Sums(f)
  BY <1>2
<1> HIDE DEF f
<1>5. f[0] = 0
  BY <1>1, <1>4 DEF Sums
<1> QED BY <1>1, <1>3, <1>5

(* When the steps of the threads can be taken: their guards. *)
Fits(size) == Reserved + size <= Budget

MayTake == reader.pc = "transfer" /\ Fits(Len(reader.state.frames))

MayRead ==
    /\ reader.pc = "wait" /\ wire.replies # <<>>
    /\ Reply.kind = "frames" => Fits(Len(Reply.frames))
    /\ Reply.kind = "gap" => Fits(1)

MayHangUp == reader.pc \in {"subscribe", "wait"} /\ ~wire.open /\ wire.replies = <<>>

MayGoOn ==
    \/ reader.pc = "restore"
    \/ MayTake
    \/ reader.pc = "subscribe" /\ wire.open
    \/ MayRead
    \/ MayHangUp
    \/ CanWrite /\ HasWork
    \/ queue # <<>>

(* Either one of the threads has a step to take, or the replica is what the *)
(* pane shows, with the rows above it unless the daemon could give no       *)
(* state; or the pane is gone, or a reply was too large for the wire, or a  *)
(* state or a batch is for the budget.  No order of lost connections, gaps, *)
(* restarts, full windows and full budgets leaves a replica stranded short  *)
(* of that.                                                                 *)
THEOREM NeverStranded == Spec => [](MayGoOn \/ UpToDate)
<1>1. RestInv => MayGoOn \/ UpToDate
  <2> SUFFICES ASSUME RestInv, ~MayGoOn PROVE UpToDate
    OBVIOUS
  <2>0. /\ StreamInv /\ WordOK(reader, queue, replica)
        /\ reader.pc = "wait" => WireOK(pane.there, wire)
        /\ reader.pc = "ended" => ~pane.there
        /\ TypeOK /\ PaneOK /\ reader \in Readers /\ wire \in Wires /\ queue = <<>>
    BY Held DEF RestInv, StreamInv, MayGoOn
  <2>1. Reserved = 0 /\ Budget \in Nat /\ Budget >= 1 /\ Window \in Nat /\ Window > 0
    <3>1. Reserved = 0
      BY <2>0, NothingReserved
    <3> QED BY <3>1, Constants
  <2>2. CASE reader.pc = "transfer"
    <3>1. reader.state \in States
      BY <2>0, <2>2 DEF StreamInv, ReaderOK
    <3>2. Len(reader.state.frames) \in Nat
      BY <3>1 DEF States, Screens
    <3> QED BY <2>1, <2>2, <3>2 DEF MayGoOn, MayTake, Fits, UpToDate, Overcommitted
  <2>3. CASE reader.pc \in {"ended", "failed"}
    BY <2>0, <2>3 DEF WordOK, UpToDate
  <2>4. CASE reader.pc = "subscribe"
    <3>1. wire.replies = <<>>
      BY <2>0, <2>4 DEF StreamInv, LinkOK
    <3> QED BY <2>4, <3>1 DEF MayGoOn, MayHangUp
  <2>5. CASE reader.pc = "wait" /\ wire.replies # <<>>
    <3>1. Reply \in Replies
      BY <2>0, <2>5, Answered
    <3>2. Fits(1)
      BY <2>1 DEF Fits
    <3>3. Reply.kind = "frames" /\ ~Fits(Len(Reply.frames))
      BY <2>5, <3>2 DEF MayGoOn, MayRead
    <3>4. Len(Reply.frames) \in Nat
      BY <3>1 DEF Replies, Screens
    <3>5. Len(Reply.frames) > Budget
      BY <2>1, <3>3, <3>4 DEF Fits
    <3> QED BY <2>5, <3>3, <3>5 DEF UpToDate, Overcommitted, Reads
  <2>6. CASE reader.pc = "wait" /\ wire.replies = <<>> /\ ~reader.mixed
    <3>1. wire.replies = <<>>
      BY <2>6
    <3>2. wire.open
      BY <2>6, <3>1 DEF MayGoOn, MayHangUp
    <3>3. wire.stream # None
      BY <2>0, <2>6, <3>1, <3>2 DEF WireOK
    <3>4. CanWrite
      BY <2>1, <3>1, <3>3 DEF CanWrite
    <3>5. wire.stream = reader.from /\ reader.at = epoch
      BY <2>0, <3>1, <3>3, Streams DEF Cursor
    <3>6. /\ CurrentSeq(pane.log) = Len(pane.screen) /\ Len(pane.screen) \in Nat
          /\ History[epoch + 1] = pane.screen /\ pane.screen \in Screens
      BY <2>0, Now, LogAnswers DEF PaneOK
    <3>7. reader.from >= Len(pane.screen) /\ reader.from \in Nat
      BY <2>0, <3>4, <3>5, <3>6, Held DEF MayGoOn, HasWork
    <3>8. PICK R : Tells(History, reader, queue, replica, R)
      BY <2>0 DEF StreamInv, StoryOK
    <3>9. R[0].frames = replica.frames /\ LastTold(History, reader, R[0])
      BY <2>0, <3>8 DEF Tells
    <3>10. Len(replica.frames) = reader.from /\ Begins(replica.frames, pane.screen)
      BY <2>6, <3>5, <3>6, <3>9 DEF LastTold
    <3>11. replica.frames = pane.screen
      <4>1. replica.frames \in Screens
        BY <2>0 DEF TypeOK, Replicas
      <4>2. Len(replica.frames) = Len(pane.screen)
        BY <3>6, <3>7, <3>10 DEF Begins
      <4> QED BY <3>6, <3>10, <4>1, <4>2, SameFrames DEF Begins
    <3>12. replica.patched => reader.fell
      <4> SUFFICES ASSUME replica.patched, ~reader.fell PROVE FALSE
        OBVIOUS
      <4>1. Len(queue) = 0 /\ 0 \in 0..Len(queue)
        BY <2>0
      <4>2. Holed(queue, replica.patched, 0)
        BY <4>1 DEF Holed
      <4> QED BY <2>0, <2>6, <4>1, <4>2 DEF WordOK
    <3> QED BY <3>11, <3>12 DEF UpToDate
  <2>7. CASE reader.mixed
    BY <2>7 DEF UpToDate
  <2>8. reader.pc \in {"restore", "transfer", "subscribe", "wait", "ended", "failed"}
    BY <2>0 DEF Readers
  <2>9. reader.pc # "restore"
    BY DEF MayGoOn
  <2> QED BY <2>2, <2>3, <2>4, <2>5, <2>6, <2>7, <2>8, <2>9
<1> QED BY <1>1, Resting, PTL

=============================================================================
