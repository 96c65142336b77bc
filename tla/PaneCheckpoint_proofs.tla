----------------------- MODULE PaneCheckpoint_proofs -----------------------
(***************************************************************************)
(* Proofs about PaneCheckpoint, for any panes, ring, journal and number of *)
(* layout changes, failures and restarts.                                  *)
(***************************************************************************)
EXTENDS PaneCheckpoint, SequenceTheorems, WellFoundedInduction, TLAPS

-----------------------------------------------------------------------------
(* The inductive invariant. *)

(* What comes before the first frame. *)
Before(s) == IF s = <<>> THEN 0 ELSE s[1].seq - 1

Numbered(s) == \A i \in 1..Len(s) : s[i].seq = Before(s) + i

(* s is the end of t. *)
Ends(s, t) ==
    /\ Len(s) <= Len(t)
    /\ \A i \in 1..Len(s) : s[i] = t[Len(t) - Len(s) + i]

(* The last resize in s, if there is one, is to that size. *)
SizeIs(s, size) ==
    \A n \in 1..Len(s) :
        /\ s[n].event # Output
        /\ \A m \in 1..Len(s) : m > n => s[m].event = Output
        => s[n].event = size

LogOK(live) ==
    /\ Numbered(live.screen)
    /\ live.log.next = NewestSeq(live.screen) + 1
    /\ Ends(live.log.frames, live.screen)
    /\ live.screen # <<>> => live.log.frames # <<>>
    /\ SizeIs(live.log.frames, live.size)

(* The frames of this daemon are the pane's own and its newest. *)
BornOK(p, screen, e) ==
    /\ \A i \in 1..Len(screen) :
        /\ screen[i].born <= e
        /\ screen[i].born = e => screen[i].pane = p
        /\ screen[i].born = e => \A j \in i..Len(screen) : screen[j].born = e
    /\ screen # <<>> => screen[Len(screen)].born = e

PanesOK ==
    \A p \in PaneIds : LogOK(pane[p]) /\ BornOK(p, pane[p].screen, epoch)

RecordOK(rec) ==
    /\ Screen(rec) \in Screens
    /\ Numbered(Screen(rec))
    /\ Ends(rec.tail, Screen(rec))
    /\ Screen(rec) # <<>> => rec.tail # <<>>
    /\ Before(rec.tail) <= rec.snapshotSeq
    /\ rec.snapshotSeq <= NewestSeq(rec.tail)
    /\ SizeIs(rec.tail, rec.size)

(* The screen s is a stretch of t, from its beginning if it is whole. *)
Within(s, t, whole) ==
    /\ Before(t) <= Before(s)
    /\ whole => Before(s) = Before(t)
    /\ Before(s) + Len(s) <= Before(t) + Len(t)
    /\ \A i \in 1..Len(s) : s[i] = t[Before(s) - Before(t) + i]

(* This daemon captured in rec what the screen showed through seq. *)
TakenFrom(screen, e, rec, seq) ==
    /\ RecordOK(rec)
    /\ Within(Screen(rec), screen, rec.snapshot # None)
    /\ NewestSeq(Screen(rec)) = seq
    /\ \A j \in 1..Len(screen) : screen[j].seq >= seq => screen[j].born = e

Taken(p, rec, seq) == TakenFrom(pane[p].screen, epoch, rec, seq)

TopologyOK ==
    /\ IsInjective(layout)
    /\ \A i \in DOMAIN layout : layout[i] < nextPane
    /\ IsInjective(workspace[1])
    /\ \A i \in DOMAIN workspace[1] : workspace[1][i] < workspace[2]

Final(s) == s[Len(s)]

(* What the file holds of a pane of this daemon, the pane has shown. *)
RecordKnown(rec, e, panes) ==
    LET screen == Screen(rec) IN
    /\ RecordOK(rec)
    /\ \A n \in 1..Len(screen) : screen[n].born <= e
    /\ screen # <<>> /\ Final(screen).born = e =>
            NewestSeq(screen) <= NewestSeq(panes[Final(screen).pane].screen)

FileOK ==
    /\ file.recs # Corrupt
    /\ \A i \in 1..Len(file.recs) : RecordKnown(file.recs[i], epoch, pane)

(* Nothing newer of the pane is in the file. *)
Newest(p, seq) ==
    \A i \in 1..Len(file.recs) :
        LET screen == Screen(file.recs[i])
        IN screen # <<>> /\ Final(screen).born = epoch /\ Final(screen).pane = p
            => NewestSeq(screen) <= seq

(* The worker's copies are what the file holds, and it may be appended to. *)
Current ==
    /\ ~file.torn
    /\ journaled < JournalLimit
    /\ \A p \in PaneIds : cached[p] # None =>
        /\ cached[p].index \in 1..Len(file.recs)
        /\ file.recs[cached[p].index] = cached[p].record
        /\ \A q \in PaneIds : cached[q] # None /\ cached[q].index = cached[p].index => q = p

Copied(p, index, seq) ==
    /\ Current
    /\ cached[p] # None
    /\ cached[p].index = index
    /\ Taken(p, cached[p].record, seq)

(* The frames of the screen after seq. *)
Continues(delta, screen, seq) ==
    /\ Before(screen) <= seq
    /\ seq + Len(delta) <= Before(screen) + Len(screen)
    /\ \A n \in 1..Len(delta) :
        /\ delta[n] = screen[seq - Before(screen) + n]
        /\ delta[n].event = Output

(* With the entry e the worker will have the pane through seq. *)
EntryOK(e, seq) ==
    /\ Newest(e.id, seq)
    /\ e.record # None => e.delta = <<>> /\ Taken(e.id, e.record, seq)
    /\ e.record = None =>
        /\ Copied(e.id, e.index, seq - Len(e.delta))
        /\ Len(e.delta) <= seq
        /\ Continues(e.delta, pane[e.id].screen, seq - Len(e.delta))

Gathered(entries, signatures) ==
    /\ \A n \in 1..Len(entries) :
        /\ entries[n].index = n
        /\ signatures[entries[n].id] # None
        /\ signatures[entries[n].id].index = n
        /\ EntryOK(entries[n], signatures[entries[n].id].seq)
    /\ \A p \in PaneIds : signatures[p] # None =>
        \E n \in 1..Len(entries) : entries[n].id = p

(* What was captured is what the worker has. *)
Synced(signatures) ==
    \A p \in PaneIds : signatures[p] # None =>
        Copied(p, signatures[p].index, signatures[p].seq)

MarkSaved(mark) ==
    mark # Unmarked =>
        /\ Len(file.recs) = Len(mark)
        /\ \A i \in 1..Len(mark) :
            /\ mark[i].pane \in PaneIds
            /\ mark[i].seq <= NewestSeq(Screen(file.recs[i]))
            /\ Within(Screen(file.recs[i]), pane[mark[i].pane].screen, FALSE)

MarkGathered(mark, entries, signatures) ==
    \A n \in 1..Len(entries) :
        /\ mark[n].pane = entries[n].id
        /\ mark[n].seq <= signatures[entries[n].id].seq

CaptureOK ==
    /\ IsInjective(capture.layout)
    /\ Len(capture.panes) < Len(capture.layout)
    /\ Len(capture.mark) = Len(capture.layout)
    /\ Gathered(capture.panes, capture.captured)
    /\ MarkGathered(capture.mark, capture.panes, capture.captured)
    /\ \A n \in 1..Len(capture.panes) : capture.panes[n].id = capture.layout[n]
    /\ \A n \in 1..Len(capture.mark) :
        /\ capture.mark[n].pane = capture.layout[n]
        /\ capture.mark[n].seq <= NewestSeq(pane[capture.layout[n]].screen)

(* At most one checkpoint is under way. *)
PhaseOK ==
    /\ pendingMark = None <=> job = None /\ result = None
    /\ job = None \/ result = None
    /\ capture # None => pendingMark = None
    /\ ~up => /\ capture = None /\ captured = NotCaptured
              /\ pendingMark = None /\ persistMark = Unmarked
              /\ epoch < MaxRestarts

JobOK ==
    /\ Len(pendingMark) = Len(job)
    /\ Gathered(job, captured)
    /\ MarkGathered(pendingMark, job, captured)

AnswerOK ==
    /\ result.ok => MarkSaved(pendingMark)
    /\ result.ok /\ ~result.compact => Synced(captured)

PlaneOK ==
    /\ job = None /\ result = None => Synced(captured)
    /\ job # None => JobOK
    /\ result # None => AnswerOK
    /\ result = None \/ ~result.ok => MarkSaved(persistMark)
    /\ capture # None => CaptureOK

CheckpointInv ==
    /\ TypeOK
    /\ PanesOK
    /\ TopologyOK
    /\ FileOK
    /\ PhaseOK
    /\ PlaneOK
-----------------------------------------------------------------------------
(* Induction, in the first-order form of the least number. *)

LEMMA LeastNumber ==
    ASSUME NEW U \in SUBSET Nat, U # {}
    PROVE  \E n \in U : \A m \in U : n <= m
<1> DEFINE R == OpToRel(<, Nat)
<1>1. IsWellFoundedOn(R, Nat)
  BY NatLessThanWellFounded
<1>2. \A m, n \in Nat : m < n => <<m, n>> \in R
  BY DEF OpToRel
<1> HIDE DEF R
<1>3. PICK n \in U : \A m \in U : <<m, n>> \notin R
  BY <1>1, WFMin
<1>4. \A m \in U : ~(m < n)
  BY <1>2, <1>3
<1> QED BY <1>4

-----------------------------------------------------------------------------
(* Sequences of frames. *)

(* Frames with consecutive numbers after base. *)
Counted(frames, base) == \A i \in 1..Len(frames) : frames[i].seq = base + i

(* How Newer goes through the frames. *)
Filters(f, frames, n) ==
    f = [k \in 0..Len(frames) |->
            IF k = 0 THEN <<>>
            ELSE IF frames[k].seq > n THEN Append(f[k - 1], frames[k])
            ELSE f[k - 1]]

LEMMA FiltersUnique ==
    ASSUME NEW frames \in Screens, NEW n, NEW f, NEW g,
           Filters(f, frames, n), Filters(g, frames, n)
    PROVE  f[Len(frames)] = g[Len(frames)]
<1> DEFINE U == {k \in 0..Len(frames) : f[k] # g[k]}
<1>0. Len(frames) \in Nat /\ U \subseteq Nat
  BY DEF Screens
<1>1. CASE U = {}
  BY <1>0, <1>1
<1>2. CASE U # {}
  <2>1. PICK k \in U : \A m \in U : k <= m
    BY <1>0, <1>2, LeastNumber
  <2>2. k \in 0..Len(frames) /\ f[k] # g[k]
    BY <2>1
  <2>3. k # 0
    BY <2>2 DEF Filters
  <2>4. k - 1 \in 0..Len(frames) /\ ~(k <= k - 1)
    BY <1>0, <2>2, <2>3
  <2>5. f[k - 1] = g[k - 1]
    BY <2>1, <2>4
  <2>6. /\ f[k] = IF frames[k].seq > n THEN Append(f[k - 1], frames[k]) ELSE f[k - 1]
        /\ g[k] = IF frames[k].seq > n THEN Append(g[k - 1], frames[k]) ELSE g[k - 1]
    BY <2>2, <2>3 DEF Filters
  <2> QED BY <2>2, <2>5, <2>6
<1> QED BY <1>1, <1>2

(* In a log without holes Newer cuts off a prefix. *)
LEMMA NewerCutsFrom ==
    ASSUME NEW frames \in Screens, NEW base \in Nat, Counted(frames, base),
           NEW n \in Nat, base <= n, n <= base + Len(frames)
    PROVE  Newer(frames, n) = SubSeq(frames, n - base + 1, Len(frames))
<1> DEFINE c == n - base
           g == [k \in 0..Len(frames) |->
                    IF k <= c THEN <<>> ELSE SubSeq(frames, c + 1, k)]
           f == CHOOSE h : Filters(h, frames, n)
<1>0. Len(frames) \in Nat /\ c \in 0..Len(frames)
  BY DEF Screens
<1>1. Filters(g, frames, n)
  <2> SUFFICES ASSUME NEW k \in 0..Len(frames)
               PROVE  g[k] = IF k = 0 THEN <<>>
                             ELSE IF frames[k].seq > n THEN Append(g[k - 1], frames[k])
                             ELSE g[k - 1]
    BY Zenon DEF Filters
  <2>1. CASE k = 0
    BY <1>0, <2>1
  <2>2. CASE k # 0 /\ k <= c
    <3>1. k - 1 \in 0..Len(frames) /\ k - 1 <= c /\ k \in 1..Len(frames)
      BY <1>0, <2>2
    <3>2. ~(frames[k].seq > n)
      BY <3>1, <2>2, <1>0 DEF Counted
    <3> QED BY <2>2, <3>1, <3>2
  <2>3. CASE k > c
    <3>1. k - 1 \in 0..Len(frames) /\ k \in 1..Len(frames)
      BY <1>0, <2>3
    <3>2. frames[k].seq > n
      BY <3>1, <2>3, <1>0 DEF Counted
    <3>3. g[k] = SubSeq(frames, c + 1, k)
      BY <1>0, <2>3
    <3>4. g[k - 1] = IF k - 1 <= c THEN <<>> ELSE SubSeq(frames, c + 1, k - 1)
      BY <3>1
    <3>5. SubSeq(frames, c + 1, k) = Append(g[k - 1], frames[k])
      <4>1. CASE k - 1 = c
        BY <4>1, <1>0, <3>1, <3>4 DEF Screens
      <4>2. CASE k - 1 # c
        <5>1. g[k - 1] = SubSeq(frames, c + 1, k - 1)
          BY <4>2, <1>0, <2>3, <3>4
        <5> QED BY <5>1, <4>2, <1>0, <2>3, <3>1 DEF Screens
      <4> QED BY <4>1, <4>2
    <3>6. g[k] = Append(g[k - 1], frames[k])
      BY <3>3, <3>5
    <3>7. k # 0
      BY <1>0, <2>3
    <3> HIDE DEF g
    <3> QED BY <3>2, <3>6, <3>7
  <2> QED BY <2>1, <2>2, <2>3, <1>0
<1>2. Filters(f, frames, n)
  <2> HIDE DEF g
  <2> QED BY <1>1
<1>3. Newer(frames, n) = f[Len(frames)]
  BY DEF Newer, Filters
<1>4. g[Len(frames)] = SubSeq(frames, c + 1, Len(frames))
  BY <1>0 DEF Screens
<1> HIDE DEF f, g
<1> QED BY <1>1, <1>2, <1>3, <1>4, FiltersUnique

LEMMA SameFrames ==
    ASSUME NEW s \in Screens, NEW t \in Screens, Len(s) = Len(t),
           \A i \in 1..Len(s) : s[i] = t[i]
    PROVE  s = t
BY SeqEqual DEF Screens

(* A stretch of a screen. *)
LEMMA Part ==
    ASSUME NEW s \in Screens, NEW a \in Nat, NEW b \in Nat, a <= b, b <= Len(s)
    PROVE  /\ SubSeq(s, a + 1, b) \in Screens
           /\ Len(SubSeq(s, a + 1, b)) = b - a
           /\ \A i \in 1..(b - a) : SubSeq(s, a + 1, b)[i] = s[a + i] /\ a + i \in 1..Len(s)
<1>0. Len(s) \in Nat
  BY DEF Screens
<1>1. \A i \in (a + 1)..b : i \in 1..Len(s) /\ s[i] \in Frames
  BY <1>0 DEF Screens
<1>2. /\ SubSeq(s, a + 1, b) \in Seq(Frames)
      /\ Len(SubSeq(s, a + 1, b)) = IF a + 1 <= b THEN b - (a + 1) + 1 ELSE 0
      /\ \A i \in 1..(b - (a + 1) + 1) : SubSeq(s, a + 1, b)[i] = s[(a + 1) + i - 1]
  BY <1>1, SubSeqProperties
<1>3. \A i \in 1..(b - a) : (a + 1) + i - 1 = a + i /\ i \in 1..(b - (a + 1) + 1) /\ a + i \in 1..Len(s)
  BY <1>0
<1> QED BY <1>2, <1>3 DEF Screens

LEMMA FrameFields ==
    ASSUME NEW s \in Screens, NEW i \in 1..Len(s)
    PROVE  /\ s[i] \in Frames
           /\ s[i].seq \in Nat \ {0} /\ s[i].pane \in PaneIds /\ s[i].born \in Epochs
<1>1. s[i] \in Frames
  BY DEF Screens
<1> QED BY <1>1 DEF Frames

LEMMA Ranges ==
    ASSUME NEW s \in Screens
    PROVE  /\ Len(s) \in Nat
           /\ s = <<>> <=> Len(s) = 0
           /\ Before(s) \in Nat
           /\ NewestSeq(s) \in Nat
           /\ s # <<>> => Len(s) \in 1..Len(s) /\ 1 \in 1..Len(s)
           /\ Numbered(s) => NewestSeq(s) = Before(s) + Len(s) /\ Counted(s, Before(s))
<1>1. Len(s) \in Nat /\ (s = <<>> <=> Len(s) = 0)
  BY DEF Screens
<1>2. CASE s = <<>>
  BY <1>1, <1>2 DEF Before, NewestSeq, Counted, Numbered
<1>3. CASE s # <<>>
  <2>1. Len(s) \in 1..Len(s) /\ 1 \in 1..Len(s)
    BY <1>1, <1>3
  <2>2. s[1].seq \in Nat \ {0} /\ s[Len(s)].seq \in Nat \ {0}
    BY <2>1, FrameFields
  <2>3. Before(s) = s[1].seq - 1 /\ NewestSeq(s) = s[Len(s)].seq
    BY <1>3 DEF Before, NewestSeq
  <2>4. Numbered(s) => s[Len(s)].seq = Before(s) + Len(s)
    BY <2>1 DEF Numbered
  <2>5. Numbered(s) => Counted(s, Before(s))
    BY DEF Numbered, Counted
  <2> QED BY <1>1, <1>3, <2>1, <2>2, <2>3, <2>4, <2>5
<1> QED BY <1>2, <1>3

(* Newer cuts off what is not newer. *)
LEMMA NewerCuts ==
    ASSUME NEW s \in Screens, Numbered(s), NEW n \in Nat, Before(s) <= n, n <= NewestSeq(s)
    PROVE  Newer(s, n) = SubSeq(s, n - Before(s) + 1, Len(s))
<1>1. Before(s) \in Nat /\ Counted(s, Before(s)) /\ n <= Before(s) + Len(s)
  BY Ranges
<1> QED BY <1>1, NewerCutsFrom

LEMMA NewerNone ==
    ASSUME NEW s \in Screens, Numbered(s)
    PROVE  Newer(s, NewestSeq(s)) = <<>>
<1>1. /\ Len(s) \in Nat /\ Before(s) \in Nat /\ NewestSeq(s) \in Nat
      /\ NewestSeq(s) = Before(s) + Len(s)
  BY Ranges
<1>2. Newer(s, NewestSeq(s)) = SubSeq(s, Len(s) + 1, Len(s))
  <2>1. NewestSeq(s) - Before(s) + 1 = Len(s) + 1
    BY <1>1
  <2>2. Before(s) <= NewestSeq(s) /\ NewestSeq(s) <= NewestSeq(s)
    BY <1>1
  <2>3. Newer(s, NewestSeq(s)) = SubSeq(s, NewestSeq(s) - Before(s) + 1, Len(s))
    BY <1>1, <2>2, NewerCuts
  <2> QED BY <2>1, <2>3
<1> QED BY <1>1, <1>2 DEF Screens

LEMMA NewerAll ==
    ASSUME NEW s \in Screens, Numbered(s)
    PROVE  Newer(s, Before(s)) = s
<1>1. /\ Len(s) \in Nat /\ Before(s) \in Nat /\ NewestSeq(s) \in Nat
      /\ NewestSeq(s) = Before(s) + Len(s)
  BY Ranges
<1>2. Newer(s, Before(s)) = SubSeq(s, 1, Len(s))
  <2>1. Before(s) - Before(s) + 1 = 1
    BY <1>1
  <2>2. Before(s) <= Before(s) /\ Before(s) <= NewestSeq(s)
    BY <1>1
  <2>3. Newer(s, Before(s)) = SubSeq(s, Before(s) - Before(s) + 1, Len(s))
    BY <1>1, <2>2, NewerCuts
  <2> QED BY <2>1, <2>3
<1> QED BY <1>1, <1>2 DEF Screens

LEMMA Joined ==
    ASSUME NEW s \in Screens, NEW t \in Screens
    PROVE  /\ s \o t \in Screens
           /\ Len(s \o t) = Len(s) + Len(t)
           /\ \A i \in 1..Len(s) : (s \o t)[i] = s[i]
           /\ \A i \in 1..Len(t) : (s \o t)[Len(s) + i] = t[i]
BY DEF Screens

LEMMA Appended ==
    ASSUME NEW s \in Screens, NEW f \in Frames
    PROVE  /\ Append(s, f) \in Screens
           /\ Len(Append(s, f)) = Len(s) + 1
           /\ Append(s, f) # <<>>
           /\ \A i \in 1..Len(s) : Append(s, f)[i] = s[i]
           /\ Append(s, f)[Len(s) + 1] = f
<1>1. Len(s) \in Nat
  BY DEF Screens
<1>2. /\ Append(s, f) \in Screens
      /\ Len(Append(s, f)) = Len(s) + 1
      /\ \A i \in 1..Len(s) : Append(s, f)[i] = s[i]
      /\ Append(s, f)[Len(s) + 1] = f
  BY DEF Screens
<1>3. <<>> \in Screens /\ Len(<<>>) = 0
  BY DEF Screens
<1> QED BY <1>1, <1>2, <1>3

(* Frames that go on with the numbers. *)
LEMMA Continued ==
    ASSUME NEW s \in Screens, NEW d \in Screens, Numbered(s), Counted(d, NewestSeq(s))
    PROVE  /\ Numbered(s \o d)
           /\ Before(s \o d) = Before(s)
           /\ NewestSeq(s \o d) = NewestSeq(s) + Len(d)
<1>1. /\ Len(s) \in Nat /\ Len(d) \in Nat /\ (s = <<>> <=> Len(s) = 0)
      /\ Before(s) \in Nat /\ NewestSeq(s) = Before(s) + Len(s) /\ Counted(s, Before(s))
  BY Ranges
<1>2. /\ s \o d \in Screens
      /\ Len(s \o d) = Len(s) + Len(d)
      /\ \A i \in 1..Len(s) : (s \o d)[i] = s[i]
      /\ \A i \in 1..Len(d) : (s \o d)[Len(s) + i] = d[i]
  BY Joined
<1>3. s \o d = <<>> <=> Len(s \o d) = 0
  BY <1>2, Ranges
<1>4. \A i \in 1..Len(s \o d) : (s \o d)[i].seq = Before(s) + i
  <2>1. TAKE i \in 1..Len(s \o d)
  <2>2. CASE i <= Len(s)
    BY <1>1, <1>2, <2>2 DEF Counted
  <2>3. CASE i > Len(s)
    <3>1. i - Len(s) \in 1..Len(d) /\ Len(s) + (i - Len(s)) = i
      BY <1>1, <1>2, <2>3
    <3>2. (s \o d)[i] = d[i - Len(s)]
      BY <1>2, <3>1
    <3>3. d[i - Len(s)].seq = NewestSeq(s) + (i - Len(s))
      BY <3>1 DEF Counted
    <3> QED BY <1>1, <2>3, <3>2, <3>3
  <2> QED BY <1>1, <1>2, <2>2, <2>3
<1>5. Before(s \o d) = Before(s)
  <2>1. CASE s \o d = <<>>
    BY <1>1, <1>2, <1>3, <2>1 DEF Before
  <2>2. CASE s \o d # <<>>
    <3>1. 1 \in 1..Len(s \o d)
      BY <1>1, <1>2, <1>3, <2>2
    <3>2. (s \o d)[1].seq = Before(s) + 1
      BY <1>4, <3>1
    <3> QED BY <1>1, <2>2, <3>2 DEF Before
  <2> QED BY <2>1, <2>2
<1>6. Numbered(s \o d)
  BY <1>4, <1>5 DEF Numbered
<1>7. NewestSeq(s \o d) = Before(s \o d) + Len(s \o d)
  BY <1>2, <1>6, Ranges
<1> QED BY <1>1, <1>2, <1>5, <1>6, <1>7

(* The end of a screen has its numbers. *)
LEMMA Ended ==
    ASSUME NEW s \in Screens, NEW t \in Screens, Numbered(t), Ends(s, t), t # <<>> => s # <<>>
    PROVE  /\ Numbered(s)
           /\ NewestSeq(s) = NewestSeq(t)
           /\ s = <<>> <=> t = <<>>
           /\ Before(t) <= Before(s)
           /\ Before(s) - Before(t) = Len(t) - Len(s)
<1>1. /\ Len(s) \in Nat /\ Len(t) \in Nat /\ (s = <<>> <=> Len(s) = 0) /\ (t = <<>> <=> Len(t) = 0)
      /\ Before(t) \in Nat /\ NewestSeq(t) = Before(t) + Len(t) /\ Counted(t, Before(t))
      /\ Before(s) \in Nat
  BY Ranges
<1>2. Len(s) <= Len(t) /\ \A i \in 1..Len(s) : s[i] = t[Len(t) - Len(s) + i]
  BY DEF Ends
<1>3. s = <<>> <=> t = <<>>
  BY <1>1, <1>2
<1>4. CASE s = <<>>
  BY <1>3, <1>4, Ranges DEF Before, NewestSeq
<1>5. CASE s # <<>>
  <2>1. \A i \in 1..Len(s) : s[i].seq = Before(t) + (Len(t) - Len(s) + i)
    <3>1. TAKE i \in 1..Len(s)
    <3>2. Len(t) - Len(s) + i \in 1..Len(t) /\ s[i] = t[Len(t) - Len(s) + i]
      BY <1>1, <1>2
    <3>3. t[Len(t) - Len(s) + i].seq = Before(t) + (Len(t) - Len(s) + i)
      BY <1>1, <3>2 DEF Counted
    <3> QED BY <3>2, <3>3
  <2>2. 1 \in 1..Len(s)
    BY <1>1, <1>5
  <2>3. Before(s) = Before(t) + (Len(t) - Len(s))
    <3>1. s[1].seq = Before(t) + (Len(t) - Len(s) + 1)
      BY <2>1, <2>2
    <3> QED BY <1>1, <1>2, <1>5, <3>1 DEF Before
  <2>4. Numbered(s)
    <3>1. \A i \in 1..Len(s) : s[i].seq = Before(s) + i
      BY <1>1, <1>2, <2>1, <2>3
    <3> QED BY <3>1 DEF Numbered
  <2>5. NewestSeq(s) = Before(s) + Len(s)
    BY <2>4, Ranges
  <2> QED BY <1>1, <1>2, <1>3, <2>3, <2>4, <2>5
<1> QED BY <1>4, <1>5

LEMMA EndsJoined ==
    ASSUME NEW s \in Screens, NEW t \in Screens, NEW d \in Screens, Ends(s, t)
    PROVE  Ends(s \o d, t \o d)
<1>1. /\ Len(s) \in Nat /\ Len(t) \in Nat /\ Len(d) \in Nat
      /\ Len(s \o d) = Len(s) + Len(d) /\ Len(t \o d) = Len(t) + Len(d)
      /\ \A i \in 1..Len(s) : (s \o d)[i] = s[i]
      /\ \A i \in 1..Len(t) : (t \o d)[i] = t[i]
      /\ \A i \in 1..Len(d) : (s \o d)[Len(s) + i] = d[i]
      /\ \A i \in 1..Len(d) : (t \o d)[Len(t) + i] = d[i]
  <2>1. Len(s) \in Nat /\ Len(t) \in Nat /\ Len(d) \in Nat
    BY Ranges, Zenon
  <2>2. /\ Len(s \o d) = Len(s) + Len(d)
        /\ \A i \in 1..Len(s) : (s \o d)[i] = s[i]
        /\ \A i \in 1..Len(d) : (s \o d)[Len(s) + i] = d[i]
    BY Joined, Zenon
  <2>3. /\ Len(t \o d) = Len(t) + Len(d)
        /\ \A i \in 1..Len(t) : (t \o d)[i] = t[i]
        /\ \A i \in 1..Len(d) : (t \o d)[Len(t) + i] = d[i]
    BY Joined, Zenon
  <2> QED BY <2>1, <2>2, <2>3
<1>2. Len(s) <= Len(t) /\ \A i \in 1..Len(s) : s[i] = t[Len(t) - Len(s) + i]
  BY DEF Ends
<1>3. ASSUME NEW i \in 1..Len(s \o d)
      PROVE  (s \o d)[i] = (t \o d)[Len(t \o d) - Len(s \o d) + i]
  <2>1. Len(t \o d) - Len(s \o d) + i = Len(t) - Len(s) + i
    BY <1>1
  <2>2. CASE i <= Len(s)
    <3>1. i \in 1..Len(s) /\ Len(t) - Len(s) + i \in 1..Len(t)
      BY <1>1, <1>2, <2>2
    <3> QED BY <1>1, <1>2, <2>1, <3>1
  <2>3. CASE i > Len(s)
    <3>1. /\ i - Len(s) \in 1..Len(d) /\ Len(s) + (i - Len(s)) = i
          /\ Len(t) + (i - Len(s)) = Len(t) - Len(s) + i
      BY <1>1, <2>3
    <3>2. (s \o d)[i] = d[i - Len(s)]
      BY <1>1, <3>1
    <3>3. (t \o d)[Len(t) - Len(s) + i] = d[i - Len(s)]
      BY <1>1, <3>1
    <3> QED BY <2>1, <3>2, <3>3
  <2>4. i <= Len(s) \/ i > Len(s)
    <3>1. i \in Nat /\ Len(s) \in Nat
      BY <1>1
    <3> QED BY <3>1
  <2> QED BY <2>2, <2>3, <2>4, Zenon
<1> QED BY <1>1, <1>2, <1>3 DEF Ends

LEMMA SizeJoined ==
    ASSUME NEW s \in Screens, NEW d \in Screens, NEW size, SizeIs(s, size),
           \A i \in 1..Len(d) : d[i].event = Output
    PROVE  SizeIs(s \o d, size)
<1>1. /\ Len(s) \in Nat /\ Len(d) \in Nat
      /\ Len(s \o d) = Len(s) + Len(d)
      /\ \A i \in 1..Len(s) : (s \o d)[i] = s[i]
      /\ \A i \in 1..Len(d) : (s \o d)[Len(s) + i] = d[i]
  BY Ranges, Joined
<1>2. ASSUME NEW n \in 1..Len(s \o d),
             (s \o d)[n].event # Output,
             \A m \in 1..Len(s \o d) : m > n => (s \o d)[m].event = Output
      PROVE  (s \o d)[n].event = size
  <2>1. CASE n > Len(s)
    <3>1. n - Len(s) \in 1..Len(d) /\ Len(s) + (n - Len(s)) = n
      BY <1>1, <2>1
    <3> QED BY <1>1, <1>2, <3>1
  <2>2. CASE n <= Len(s)
    <3>1. n \in 1..Len(s) /\ \A m \in 1..Len(s) : m \in 1..Len(s \o d)
      BY <1>1, <2>2
    <3>2. s[n].event # Output /\ \A m \in 1..Len(s) : m > n => s[m].event = Output
      BY <1>1, <1>2, <3>1
    <3> QED BY <1>1, <3>1, <3>2 DEF SizeIs
  <2> QED BY <1>1, <2>1, <2>2
<1> QED BY <1>2 DEF SizeIs

LEMMA SizeOfEnd ==
    ASSUME NEW s \in Screens, NEW t \in Screens, NEW size, Ends(s, t), SizeIs(t, size)
    PROVE  SizeIs(s, size)
<1>1. /\ Len(s) \in Nat /\ Len(t) \in Nat /\ Len(s) <= Len(t)
      /\ \A i \in 1..Len(s) : s[i] = t[Len(t) - Len(s) + i]
  BY Ranges DEF Ends
<1>2. ASSUME NEW n \in 1..Len(s), s[n].event # Output,
             \A m \in 1..Len(s) : m > n => s[m].event = Output
      PROVE  s[n].event = size
  <2> DEFINE k == Len(t) - Len(s) + n
  <2>1. k \in 1..Len(t) /\ t[k].event # Output /\ s[n] = t[k]
    BY <1>1, <1>2
  <2>2. ASSUME NEW m \in 1..Len(t), m > k
        PROVE  t[m].event = Output
    <3>1. m - (Len(t) - Len(s)) \in 1..Len(s) /\ m - (Len(t) - Len(s)) > n
      BY <1>1, <2>2
    <3>2. s[m - (Len(t) - Len(s))] = t[Len(t) - Len(s) + (m - (Len(t) - Len(s)))]
      BY <1>1, <3>1
    <3>3. Len(t) - Len(s) + (m - (Len(t) - Len(s))) = m
      BY <1>1
    <3> QED BY <1>2, <3>1, <3>2, <3>3
  <2> HIDE DEF k
  <2> QED BY <2>1, <2>2 DEF SizeIs
<1> QED BY <1>2 DEF SizeIs

LEMMA EndOfEnd ==
    ASSUME NEW r \in Screens, NEW s \in Screens, NEW t \in Screens, Ends(r, s), Ends(s, t)
    PROVE  Ends(r, t)
<1>1. /\ Len(r) \in Nat /\ Len(s) \in Nat /\ Len(t) \in Nat /\ Len(r) <= Len(s) /\ Len(s) <= Len(t)
      /\ \A i \in 1..Len(r) : r[i] = s[Len(s) - Len(r) + i]
      /\ \A i \in 1..Len(s) : s[i] = t[Len(t) - Len(s) + i]
  BY Ranges DEF Ends
<1>2. ASSUME NEW i \in 1..Len(r)
      PROVE  r[i] = t[Len(t) - Len(r) + i]
  <2>1. /\ Len(s) - Len(r) + i \in 1..Len(s)
        /\ Len(t) - Len(s) + (Len(s) - Len(r) + i) = Len(t) - Len(r) + i
    BY <1>1
  <2>2. s[Len(s) - Len(r) + i] = t[Len(t) - Len(s) + (Len(s) - Len(r) + i)]
    BY <1>1, <2>1
  <2>3. r[i] = s[Len(s) - Len(r) + i]
    BY <1>1
  <2> QED BY <2>1, <2>2, <2>3
<1> QED BY <1>1, <1>2 DEF Ends

LEMMA RetainedEnds ==
    ASSUME NEW s \in Screens, NEW n \in Nat
    PROVE  Retained(s, n) \in Screens /\ Ends(Retained(s, n), s)
<1>1. Len(s) \in Nat
  BY Ranges
<1>2. CASE Len(s) <= n
  <2>1. \A i \in 1..Len(s) : Len(s) - Len(s) + i = i
    BY <1>1
  <2> QED BY <1>1, <1>2, <2>1 DEF Retained, Ends
<1>3. CASE ~(Len(s) <= n)
  <2> DEFINE a == Len(s) - n
             r == SubSeq(s, a + 1, Len(s))
  <2>1. a \in Nat /\ a <= Len(s) /\ Len(s) - a = n /\ n <= Len(s) /\ Len(s) - n = a
    BY <1>1, <1>3
  <2>2. Retained(s, n) = r
    BY <1>3 DEF Retained
  <2> HIDE DEF a
  <2>3. /\ r \in Screens /\ Len(r) = Len(s) - a
        /\ \A i \in 1..(Len(s) - a) : r[i] = s[a + i]
    BY <1>1, <2>1, Part
  <2> HIDE DEF r
  <2>4. Len(r) = n /\ \A i \in 1..Len(r) : r[i] = s[Len(s) - Len(r) + i]
    BY <2>1, <2>3
  <2> QED BY <2>1, <2>2, <2>3, <2>4 DEF Ends
<1> QED BY <1>2, <1>3

-----------------------------------------------------------------------------
(* Panes and records. *)

LEMMA Constants ==
    /\ MaxPanes \in Nat \ {0} /\ Capacity \in Nat \ {0} /\ JournalLimit \in Nat \ {0}
    /\ MaxChanges \in Nat /\ MaxFailures \in Nat /\ MaxRestarts \in Nat
    /\ Epochs \subseteq Nat /\ 0 \in Epochs /\ PaneIds \subseteq Nat
    /\ None \notin Snapshots /\ None \notin SavedRecords
    /\ None \notin Signatures /\ None \notin Copies
    /\ None \notin Jobs /\ None \notin Marks /\ None \notin Captures /\ None \notin Results
    /\ Corrupt \notin Seq(SavedRecords)
BY CheckpointAssumption, AbsentAssumption DEF Epochs, PaneIds

LEMMA EventsDiffer == Output \in Events /\ Sizes \subseteq Events /\ Output \notin Sizes
BY DEF Events, Sizes, Output

(* The live pane after one more frame. *)
LEMMA Fed ==
    ASSUME NEW live \in LivePanes, LogOK(live),
           NEW p \in PaneIds, NEW event \in Events, NEW born \in Epochs
    PROVE  /\ Feed(live, p, event, born) \in LivePanes
           /\ LogOK(Feed(live, p, event, born))
           /\ Frame(p, live.log.next, event, born) \in Frames
           /\ Feed(live, p, event, born).screen
                = Append(live.screen, Frame(p, live.log.next, event, born))
<1> DEFINE f == Frame(p, live.log.next, event, born)
           t == live.screen
           r == Retained(live.log.frames, Capacity - 1)
           new == Feed(live, p, event, born)
           size == IF event = Output THEN live.size ELSE event
           d == <<f>>
<1>0. /\ t \in Screens /\ live.log \in Logs /\ live.log.frames \in Screens
      /\ live.log.next \in Nat \ {0} /\ live.size \in Sizes
      /\ Len(t) \in Nat /\ NewestSeq(t) \in Nat
      /\ live.log.next = NewestSeq(t) + 1
      /\ Numbered(t)
  BY Ranges DEF LivePanes, Logs, LogOK
<1>1. /\ f \in Frames /\ f.seq = NewestSeq(t) + 1 /\ f.event = event
  BY <1>0 DEF Frame, Frames
<1>2. /\ d \in Screens /\ Len(d) = 1 /\ d[1] = f
      /\ Append(t, f) = t \o d /\ Append(r, f) = r \o d
      /\ r \in Screens /\ Ends(r, live.log.frames)
  <2>1. Capacity - 1 \in Nat
    BY Constants
  <2>2. r \in Screens /\ Ends(r, live.log.frames)
    BY <1>0, <2>1, RetainedEnds
  <2>3. d \in Screens /\ Len(d) = 1 /\ d[1] = f
    BY <1>1 DEF Screens
  <2> HIDE DEF f, t, r
  <2>4. Append(t, f) = t \o <<f>> /\ Append(r, f) = r \o <<f>>
    BY <1>0, <1>1, <2>2, AppendIsConcat DEF Screens
  <2> QED BY <2>2, <2>3, <2>4
<1>3. size \in Sizes
  BY <1>0, EventsDiffer DEF Events
<1>4. new = [log |-> [next |-> live.log.next + 1, frames |-> Append(r, f)],
             screen |-> Append(t, f), size |-> size]
  BY DEF Feed, Record
<1> HIDE DEF f, t, r, new, size, d
<1>5. /\ new.log.next = live.log.next + 1
      /\ new.log.frames = r \o d /\ new.screen = t \o d /\ new.size = size
  BY <1>2, <1>4
<1>6. Counted(d, NewestSeq(t))
  BY <1>1, <1>2 DEF Counted
<1>7. /\ Numbered(t \o d) /\ NewestSeq(t \o d) = NewestSeq(t) + 1
      /\ t \o d \in Screens /\ r \o d \in Screens
  BY <1>0, <1>2, <1>6, Continued, Joined
<1>8. Ends(r \o d, t \o d)
  <2>1. Ends(live.log.frames, t)
    BY DEF LogOK, t
  <2>2. Ends(r, t)
    BY <1>0, <1>2, <2>1, EndOfEnd
  <2> QED BY <1>0, <1>2, <2>2, EndsJoined
<1>9. r \o d # <<>>
  <2>1. Len(r \o d) = Len(r) + 1 /\ Len(r) \in Nat
    BY <1>2, Joined, Ranges
  <2> QED BY <1>7, <2>1, Ranges
<1>10. SizeIs(r \o d, size)
  <2>1. CASE event = Output
    <3>1. SizeIs(r, live.size)
      BY <1>0, <1>2, SizeOfEnd DEF LogOK
    <3>2. \A i \in 1..Len(d) : d[i].event = Output
      BY <1>1, <1>2, <2>1
    <3>3. SizeIs(r \o d, live.size)
      BY <1>2, <3>1, <3>2, SizeJoined
    <3> QED BY <2>1, <3>3 DEF size
  <2>2. CASE event # Output
    <3>1. /\ Len(r \o d) = Len(r) + 1 /\ Len(r) \in Nat
          /\ (r \o d)[Len(r) + 1] = f
      <4>1. Len(r) \in Nat
        BY <1>2, Ranges
      <4>2. Len(r \o d) = Len(r) + Len(d) /\ \A k \in 1..Len(d) : (r \o d)[Len(r) + k] = d[k]
        BY <1>2, Joined
      <4>3. 1 \in 1..Len(d)
        BY <1>2
      <4>4. (r \o d)[Len(r) + 1] = d[1]
        BY <4>2, <4>3
      <4> QED BY <1>2, <4>1, <4>2, <4>4
    <3>2. f.event # Output /\ f.event = size
      BY <1>1, <2>2 DEF size
    <3>3. ASSUME NEW n \in 1..Len(r \o d),
                 \A m \in 1..Len(r \o d) : m > n => (r \o d)[m].event = Output
          PROVE  (r \o d)[n].event = size
      <4>1. Len(r) + 1 \in 1..Len(r \o d) /\ ~(Len(r) + 1 > n)
        BY <3>1, <3>2, <3>3
      <4>2. n = Len(r) + 1
        BY <3>1, <4>1
      <4> QED BY <3>1, <3>2, <4>2
    <3> QED BY <3>3 DEF SizeIs
  <2> QED BY <2>1, <2>2
<1>11. LogOK(new)
  BY <1>0, <1>5, <1>7, <1>8, <1>9, <1>10 DEF LogOK
<1>12. new \in LivePanes
  <2>1. live.log.next + 1 \in Nat \ {0}
    BY <1>0
  <2>2. [next |-> live.log.next + 1, frames |-> r \o d] \in Logs
    BY <1>7, <2>1 DEF Logs
  <2> QED BY <1>2, <1>3, <1>4, <1>7, <2>2 DEF LivePanes
<1> QED BY <1>1, <1>2, <1>5, <1>11, <1>12 DEF f, new, t

LEMMA FreshOK == FreshPane \in LivePanes /\ LogOK(FreshPane) /\ FreshPane.screen = <<>>
<1>1. <<>> \in Screens /\ Len(<<>>) = 0
  BY DEF Screens
<1>2. FreshPane.screen = <<>> /\ FreshPane.log.frames = <<>> /\ FreshPane.log.next = 1
  BY DEF FreshPane, NewLog
<1>3. FreshPane \in LivePanes
  BY <1>1 DEF FreshPane, NewLog, LivePanes, Logs, Sizes
<1> QED BY <1>1, <1>2, <1>3 DEF LogOK, Numbered, NewestSeq, Ends, SizeIs

LEMMA NewerType ==
    ASSUME NEW s \in Screens, Numbered(s), NEW n \in Nat, Before(s) <= n, n <= NewestSeq(s)
    PROVE  Newer(s, n) \in Screens
<1>1. /\ Len(s) \in Nat /\ Before(s) \in Nat /\ NewestSeq(s) = Before(s) + Len(s)
  BY Ranges
<1>2. n - Before(s) \in Nat /\ n - Before(s) <= Len(s)
  BY <1>1
<1>3. SubSeq(s, (n - Before(s)) + 1, Len(s)) \in Screens
  BY <1>1, <1>2, Part
<1> QED BY <1>3, NewerCuts

LEMMA RecordFields ==
    ASSUME NEW rec \in SavedRecords
    PROVE  /\ rec.snapshotSeq \in Nat /\ rec.tail \in Screens /\ rec.size \in Sizes
           /\ rec.snapshot # None => rec.snapshot.screen \in Screens
BY DEF SavedRecords, Snapshots

(* A record of which frames with the next numbers are appended. *)
LEMMA RecordExtended ==
    ASSUME NEW rec \in SavedRecords, RecordOK(rec), NEW d \in Screens,
           Counted(d, NewestSeq(Screen(rec))), \A i \in 1..Len(d) : d[i].event = Output,
           NEW new, new = [rec EXCEPT !.tail = @ \o d]
    PROVE  /\ new \in SavedRecords
           /\ RecordOK(new)
           /\ Screen(new) = Screen(rec) \o d
           /\ new.snapshot = rec.snapshot
<1> DEFINE t == rec.tail
           n == rec.snapshotSeq
           w == Screen(rec)
           head == IF rec.snapshot = None THEN <<>> ELSE rec.snapshot.screen
           rest == Newer(t, n)
<1>0. /\ t \in Screens /\ n \in Nat /\ w \in Screens /\ head \in Screens /\ rec.size \in Sizes
      /\ Numbered(w) /\ Ends(t, w) /\ (w # <<>> => t # <<>>)
      /\ Before(t) <= n /\ n <= NewestSeq(t)
      /\ SizeIs(t, rec.size)
  <2>1. <<>> \in Screens
    BY DEF Screens
  <2> QED BY <2>1, RecordFields DEF RecordOK
<1>1. /\ new.tail = t \o d /\ new.snapshotSeq = n /\ new.snapshot = rec.snapshot
      /\ new.size = rec.size /\ t \o d \in Screens
      /\ new \in SavedRecords
  <2>1. t \o d \in Screens
    BY <1>0, Joined
  <2> QED BY <2>1 DEF SavedRecords
<1>2. w = head \o rest
  BY DEF Screen
<1> HIDE DEF t, n, w, head, rest
<1>3. /\ Numbered(t) /\ NewestSeq(t) = NewestSeq(w) /\ (t = <<>> <=> w = <<>>)
  BY <1>0, Ended
<1>4. /\ Numbered(t \o d) /\ Before(t \o d) = Before(t)
      /\ NewestSeq(t \o d) = NewestSeq(t) + Len(d)
  BY <1>0, <1>3, Continued DEF w
<1>5. /\ Len(t) \in Nat /\ Len(d) \in Nat /\ Before(t) \in Nat /\ NewestSeq(t) = Before(t) + Len(t)
      /\ Len(t \o d) = Len(t) + Len(d)
  BY <1>0, <1>3, Ranges, Joined
<1>6. Newer(t \o d, n) = rest \o d
  <2> DEFINE c == n - Before(t)
  <2>1. c \in Nat /\ c <= Len(t) /\ c <= Len(t) + Len(d)
    BY <1>0, <1>5
  <2>2. rest = SubSeq(t, c + 1, Len(t))
    BY <1>0, <1>3, NewerCuts DEF rest
  <2>3. Newer(t \o d, n) = SubSeq(t \o d, c + 1, Len(t) + Len(d))
    <3>1. n <= NewestSeq(t \o d)
      BY <1>0, <1>4, <1>5
    <3> QED BY <1>0, <1>1, <1>4, <1>5, <3>1, NewerCuts
  <2> HIDE DEF c
  <2>4. /\ rest \in Screens /\ Len(rest) = Len(t) - c
        /\ \A i \in 1..(Len(t) - c) : rest[i] = t[c + i] /\ c + i \in 1..Len(t)
    <3>1. t \in Screens /\ c \in Nat /\ Len(t) \in Nat /\ c <= Len(t) /\ Len(t) <= Len(t)
      BY <1>0, <1>5, <2>1
    <3>2. /\ SubSeq(t, c + 1, Len(t)) \in Screens /\ Len(SubSeq(t, c + 1, Len(t))) = Len(t) - c
          /\ \A i \in 1..(Len(t) - c) : SubSeq(t, c + 1, Len(t))[i] = t[c + i] /\ c + i \in 1..Len(t)
      BY <3>1, Part, Zenon
    <3> QED BY <2>2, <3>2, Zenon
  <2> DEFINE all == SubSeq(t \o d, c + 1, Len(t) + Len(d))
  <2>5. /\ all \in Screens /\ Len(all) = Len(t) + Len(d) - c
        /\ \A i \in 1..(Len(t) + Len(d) - c) : all[i] = (t \o d)[c + i]
    <3> DEFINE b == Len(t) + Len(d)
    <3>1. b \in Nat /\ b <= Len(t \o d) /\ c <= b
      BY <1>5, <2>1
    <3> HIDE DEF b
    <3>2. /\ SubSeq(t \o d, c + 1, b) \in Screens
          /\ Len(SubSeq(t \o d, c + 1, b)) = b - c
          /\ \A i \in 1..(b - c) : SubSeq(t \o d, c + 1, b)[i] = (t \o d)[c + i]
      BY <1>1, <2>1, <3>1, Part, Zenon
    <3>3. b - c = Len(t) + Len(d) - c
      BY <1>5, <2>1 DEF b
    <3>4. SubSeq(t \o d, c + 1, b) = all
      BY DEF b, all
    <3> QED BY <3>2, <3>3, <3>4
  <2> HIDE DEF all
  <2>6. /\ rest \o d \in Screens /\ Len(rest \o d) = Len(t) - c + Len(d)
        /\ \A i \in 1..(Len(t) - c) : (rest \o d)[i] = rest[i]
        /\ \A i \in 1..Len(d) : (rest \o d)[Len(t) - c + i] = d[i]
    <3>1. /\ rest \o d \in Screens /\ Len(rest \o d) = Len(rest) + Len(d)
          /\ \A i \in 1..Len(rest) : (rest \o d)[i] = rest[i]
          /\ \A i \in 1..Len(d) : (rest \o d)[Len(rest) + i] = d[i]
      BY <2>4, Joined
    <3> QED BY <2>4, <3>1
  <2>7. ASSUME NEW i \in 1..Len(all)
        PROVE  all[i] = (rest \o d)[i]
    <3>1. CASE i <= Len(t) - c
      <4>1. i \in 1..(Len(t) - c) /\ c + i \in 1..Len(t)
        BY <1>5, <2>1, <3>1
      <4>2. (t \o d)[c + i] = t[c + i]
        BY <1>0, <4>1, Joined
      <4> QED BY <2>4, <2>5, <2>6, <4>1, <4>2
    <3>2. CASE i > Len(t) - c
      <4>1. /\ i - (Len(t) - c) \in 1..Len(d)
            /\ Len(t) + (i - (Len(t) - c)) = c + i
            /\ Len(t) - c + (i - (Len(t) - c)) = i
        BY <1>5, <2>1, <2>5, <3>2
      <4>2. (t \o d)[Len(t) + (i - (Len(t) - c))] = d[i - (Len(t) - c)]
        BY <1>0, <4>1, Joined
      <4>3. (rest \o d)[i] = d[i - (Len(t) - c)]
        BY <2>6, <4>1
      <4> QED BY <2>5, <4>1, <4>2, <4>3
    <3>3. i <= Len(t) - c \/ i > Len(t) - c
      <4>1. i \in Nat /\ Len(t) - c \in Nat
        BY <1>5, <2>1, <2>5
      <4> QED BY <4>1
    <3> QED BY <3>1, <3>2, <3>3, Zenon
  <2>8. Len(all) = Len(rest \o d)
    BY <1>5, <2>1, <2>5, <2>6
  <2>9. all = rest \o d
    BY <2>5, <2>6, <2>7, <2>8, SameFrames
  <2> QED BY <2>3, <2>9 DEF all
<1>7. Screen(new) = w \o d
  <2>1. Screen(new) = head \o Newer(t \o d, n)
    <3>1. Screen(new) = (IF new.snapshot = None THEN <<>> ELSE new.snapshot.screen)
                            \o Newer(new.tail, new.snapshotSeq)
      BY DEF Screen
    <3> QED BY <1>1, <3>1 DEF head
  <2>2. rest \in Screens
    BY <1>0, <1>3, NewerType DEF rest
  <2>3. (head \o rest) \o d = head \o (rest \o d)
    <3>1. head \in Seq(Frames) /\ rest \in Seq(Frames) /\ d \in Seq(Frames)
      BY <1>0, <2>2 DEF Screens
    <3> QED BY <3>1, ConcatAssociative
  <2> QED BY <1>2, <1>6, <2>1, <2>3
<1>8. /\ Numbered(w \o d) /\ w \o d \in Screens /\ Ends(t \o d, w \o d)
  BY <1>0, Continued, Joined, EndsJoined DEF w
<1>9. w \o d # <<>> => t \o d # <<>>
  BY <1>3
<1>10. SizeIs(t \o d, rec.size)
  BY <1>0, SizeJoined
<1>11. n <= NewestSeq(t \o d)
  BY <1>0, <1>4, <1>5
<1> QED BY <1>0, <1>1, <1>4, <1>7, <1>8, <1>9, <1>10, <1>11 DEF RecordOK, w

LEMMA LivePane ==
    ASSUME NEW live \in LivePanes, LogOK(live)
    PROVE  /\ live.screen \in Screens /\ live.log \in Logs /\ live.log.frames \in Screens
           /\ live.log.next \in Nat \ {0} /\ live.size \in Sizes
           /\ Numbered(live.screen) /\ Ends(live.log.frames, live.screen)
           /\ (live.screen # <<>> => live.log.frames # <<>>)
           /\ SizeIs(live.log.frames, live.size)
           /\ CurrentSeq(live.log) = NewestSeq(live.screen)
           /\ NewestSeq(live.screen) \in Nat
           /\ Numbered(live.log.frames)
           /\ NewestSeq(live.log.frames) = NewestSeq(live.screen)
           /\ (live.log.frames = <<>> <=> live.screen = <<>>)
           /\ Before(live.screen) <= Before(live.log.frames)
           /\ Before(live.log.frames) - Before(live.screen)
                = Len(live.screen) - Len(live.log.frames)
           /\ OldestSeq(live.log) - 1 = Before(live.log.frames)
<1>1. /\ live.screen \in Screens /\ live.log \in Logs /\ live.log.frames \in Screens
      /\ live.log.next \in Nat \ {0} /\ live.size \in Sizes
  BY DEF LivePanes, Logs
<1>2. /\ Numbered(live.screen) /\ Ends(live.log.frames, live.screen)
      /\ (live.screen # <<>> => live.log.frames # <<>>)
      /\ SizeIs(live.log.frames, live.size)
      /\ live.log.next = NewestSeq(live.screen) + 1
  BY DEF LogOK
<1>3. NewestSeq(live.screen) \in Nat
  BY <1>1, Ranges
<1>4. CurrentSeq(live.log) = NewestSeq(live.screen)
  BY <1>2, <1>3 DEF CurrentSeq
<1>5. OldestSeq(live.log) - 1 = Before(live.log.frames)
  BY DEF OldestSeq, Before
<1> QED BY <1>1, <1>2, <1>3, <1>4, <1>5, Ended

LEMMA WithinSelf ==
    ASSUME NEW t \in Screens, Numbered(t)
    PROVE  Within(t, t, TRUE)
<1>1. Len(t) \in Nat /\ Before(t) \in Nat
  BY Ranges
<1> QED BY <1>1 DEF Within

LEMMA WithinEnd ==
    ASSUME NEW s \in Screens, NEW t \in Screens, Numbered(t), Ends(s, t), t # <<>> => s # <<>>
    PROVE  Within(s, t, FALSE)
<1>1. Len(t) \in Nat /\ Before(t) \in Nat /\ Len(s) \in Nat /\ Before(s) \in Nat
  BY Ranges
<1>2. /\ Before(t) <= Before(s) /\ Before(s) - Before(t) = Len(t) - Len(s)
  BY Ended
<1>3. Len(s) <= Len(t) /\ \A i \in 1..Len(s) : s[i] = t[Len(t) - Len(s) + i]
  BY DEF Ends
<1> QED BY <1>1, <1>2, <1>3 DEF Within

(* A full record tells all of the pane that it can. *)
LEMMA FullTaken ==
    ASSUME TypeOK, NEW p \in PaneIds, LogOK(pane[p]), NEW exported \in BOOLEAN,
           NEW rec, rec = FullRecord(p, exported)
    PROVE  /\ rec \in SavedRecords
           /\ RecordOK(rec)
           /\ Within(Screen(rec), pane[p].screen, rec.snapshot # None)
           /\ NewestSeq(Screen(rec)) = NewestSeq(pane[p].screen)
<1> DEFINE live == pane[p]
           t == live.screen
           f == live.log.frames
<1>0. live \in LivePanes
  BY DEF TypeOK
<1>1. /\ t \in Screens /\ f \in Screens /\ live.size \in Sizes
      /\ Numbered(t) /\ Ends(f, t) /\ (t # <<>> => f # <<>>)
      /\ SizeIs(f, live.size)
      /\ CurrentSeq(live.log) = NewestSeq(t) /\ NewestSeq(t) \in Nat
      /\ Numbered(f) /\ NewestSeq(f) = NewestSeq(t)
      /\ OldestSeq(live.log) - 1 = Before(f)
  <2>1. live \in LivePanes /\ LogOK(live)
    BY <1>0
  <2> HIDE DEF live
  <2>2. /\ live.screen \in Screens /\ live.log.frames \in Screens /\ live.size \in Sizes
        /\ Numbered(live.screen) /\ Ends(live.log.frames, live.screen)
        /\ (live.screen # <<>> => live.log.frames # <<>>)
        /\ SizeIs(live.log.frames, live.size)
        /\ CurrentSeq(live.log) = NewestSeq(live.screen) /\ NewestSeq(live.screen) \in Nat
        /\ Numbered(live.log.frames) /\ NewestSeq(live.log.frames) = NewestSeq(live.screen)
        /\ OldestSeq(live.log) - 1 = Before(live.log.frames)
    BY <2>1, LivePane
  <2> QED BY <2>2
<1>2. Len(f) \in Nat /\ Before(f) \in Nat /\ NewestSeq(f) = Before(f) + Len(f)
  BY <1>1, Ranges
<1>3. rec = [snapshotSeq |-> IF exported THEN NewestSeq(t) ELSE Before(f),
             snapshot |-> IF exported THEN [screen |-> t] ELSE None,
             size |-> live.size, tail |-> f]
  BY <1>1 DEF FullRecord
<1> HIDE DEF live, t, f
<1>4. rec \in SavedRecords
  BY <1>1, <1>2, <1>3 DEF SavedRecords, Snapshots
<1>5. CASE exported
  <2>1. /\ rec.snapshot = [screen |-> t] /\ rec.snapshot \in Snapshots
        /\ rec.snapshotSeq = NewestSeq(f) /\ rec.tail = f /\ rec.size = live.size
    BY <1>1, <1>3, <1>5 DEF Snapshots
  <2>2. rec.snapshot # None
    BY <2>1, Constants
  <2>3. Screen(rec) = t \o Newer(f, NewestSeq(f))
    <3>1. Screen(rec) = rec.snapshot.screen \o Newer(rec.tail, rec.snapshotSeq)
      BY <2>2 DEF Screen
    <3> QED BY <2>1, <3>1
  <2>4. Screen(rec) = t
    <3>1. Newer(f, NewestSeq(f)) = <<>>
      BY <1>1, NewerNone
    <3> QED BY <1>1, <2>3, <3>1 DEF Screens
  <2>5. Within(t, t, TRUE)
    BY <1>1, WithinSelf
  <2>6. Before(f) <= NewestSeq(f) /\ NewestSeq(f) <= NewestSeq(f)
    BY <1>1, <1>2
  <2>7. RecordOK(rec)
    BY <1>1, <2>1, <2>4, <2>6 DEF RecordOK
  <2> QED BY <1>4, <2>2, <2>4, <2>5, <2>7 DEF t, live
<1>6. CASE ~exported
  <2>1. /\ rec.snapshot = None
        /\ rec.snapshotSeq = Before(f) /\ rec.tail = f /\ rec.size = live.size
    BY <1>1, <1>3, <1>6
  <2>2. Screen(rec) = <<>> \o Newer(f, Before(f))
    BY <2>1 DEF Screen
  <2>3. Screen(rec) = f
    <3>1. Newer(f, Before(f)) = f
      BY <1>1, NewerAll
    <3> QED BY <1>1, <2>2, <3>1 DEF Screens
  <2>4. Within(f, t, FALSE)
    BY <1>1, WithinEnd
  <2>5. Ends(f, f)
    <3>1. \A i \in 1..Len(f) : Len(f) - Len(f) + i = i
      BY <1>2
    <3> QED BY <1>2, <3>1 DEF Ends
  <2>6. Before(f) <= Before(f) /\ Before(f) <= NewestSeq(f)
    BY <1>2
  <2>7. RecordOK(rec)
    BY <1>1, <2>1, <2>3, <2>5, <2>6 DEF RecordOK
  <2> QED BY <1>1, <1>4, <2>1, <2>3, <2>4, <2>7 DEF t, live
<1> QED BY <1>5, <1>6

(* A pane restored from a record shows its screen and one more frame. *)
LEMMA RestoredOK ==
    ASSUME NEW rec \in SavedRecords, RecordOK(rec), NEW p \in PaneIds, NEW born \in Epochs
    PROVE  /\ Restored(p, rec, born) \in LivePanes
           /\ LogOK(Restored(p, rec, born))
           /\ \E f \in Frames : /\ f.pane = p /\ f.born = born
                                /\ Restored(p, rec, born).screen = Append(Screen(rec), f)
<1> DEFINE t == rec.tail
           w == Screen(rec)
           log == FromFrames(t, Capacity)
           live == [log |-> log, screen |-> w, size |-> rec.size]
           r == Retained(t, Capacity)
<1>1. /\ t \in Screens /\ w \in Screens /\ rec.size \in Sizes
      /\ Numbered(w) /\ Ends(t, w) /\ (w # <<>> => t # <<>>)
      /\ SizeIs(t, rec.size)
  BY RecordFields DEF RecordOK
<1>2. /\ NewestSeq(t) = NewestSeq(w) /\ (t = <<>> <=> w = <<>>) /\ NewestSeq(t) \in Nat
      /\ Len(t) \in Nat
  <2> HIDE DEF t, w
  <2> QED BY <1>1, Ended, Ranges
<1>3. log.next = NewestSeq(w) + 1
  <2>1. log.next = NewestSeq(t) + 1
    BY <1>2 DEF FromFrames, NewestSeq
  <2> QED BY <1>2, <2>1
<1>4. log.frames = r /\ r \in Screens /\ Ends(r, t)
  <2>1. Capacity \in Nat
    BY Constants
  <2> QED BY <1>1, <2>1, RetainedEnds DEF FromFrames
<1>5. w # <<>> => r # <<>>
  <2>1. CASE Len(t) <= Capacity
    BY <1>1, <2>1 DEF Retained
  <2>2. CASE ~(Len(t) <= Capacity)
    <3>1. r = SubSeq(t, (Len(t) - Capacity) + 1, Len(t))
      BY <2>2 DEF Retained
    <3>2. Len(t) - Capacity \in Nat /\ Len(t) - Capacity <= Len(t)
          /\ Len(t) - (Len(t) - Capacity) > 0
      BY <1>2, <2>2, Constants
    <3>3. Len(r) > 0
      BY <1>1, <1>2, <3>1, <3>2, Part
    <3> QED BY <3>3, <1>4, Ranges
  <2> QED BY <2>1, <2>2
<1>6. live \in LivePanes /\ live.log = log /\ live.screen = w /\ live.size = rec.size
  <2>1. log = [next |-> log.next, frames |-> log.frames]
    BY DEF FromFrames
  <2>2. log.next \in Nat \ {0}
    BY <1>2, <1>3
  <2>3. log \in Logs
    BY <1>4, <2>1, <2>2 DEF Logs
  <2> HIDE DEF log, w
  <2> QED BY <1>1, <2>3 DEF LivePanes
<1> HIDE DEF log, r, live
<1>7. Ends(r, w)
  BY <1>1, <1>4, EndOfEnd
<1>8. SizeIs(r, rec.size)
  BY <1>1, <1>4, SizeOfEnd
<1>9. LogOK(live)
  BY <1>1, <1>3, <1>4, <1>5, <1>6, <1>7, <1>8 DEF LogOK
<1>10. Restored(p, rec, born) = Feed(live, p, Output, born)
  BY DEF Restored, live, log
<1> DEFINE f == Frame(p, live.log.next, Output, born)
<1>11. /\ Feed(live, p, Output, born) \in LivePanes
       /\ LogOK(Feed(live, p, Output, born))
       /\ f \in Frames
       /\ Feed(live, p, Output, born).screen = Append(w, f)
  BY <1>6, <1>9, EventsDiffer, Fed
<1>12. f.pane = p /\ f.born = born
  BY DEF Frame
<1> HIDE DEF f, w
<1> QED BY <1>10, <1>11, <1>12 DEF w

-----------------------------------------------------------------------------
(* Capturing. *)

LEMMA Panes ==
    ASSUME TypeOK, PanesOK, NEW p \in PaneIds
    PROVE  /\ pane[p] \in LivePanes /\ LogOK(pane[p]) /\ BornOK(p, pane[p].screen, epoch)
           /\ pane[p].screen \in Screens /\ Numbered(pane[p].screen)
           /\ Len(pane[p].screen) \in Nat /\ Before(pane[p].screen) \in Nat
           /\ NewestSeq(pane[p].screen) = Before(pane[p].screen) + Len(pane[p].screen)
           /\ \A i \in 1..Len(pane[p].screen) :
                pane[p].screen[i].seq = Before(pane[p].screen) + i
<1>1. pane[p] \in LivePanes /\ LogOK(pane[p]) /\ BornOK(p, pane[p].screen, epoch)
  BY DEF TypeOK, PanesOK
<1>2. pane[p].screen \in Screens /\ Numbered(pane[p].screen)
  BY <1>1, LivePane
<1> QED BY <1>1, <1>2, Ranges DEF Numbered

(* Nothing in the file is newer than the pane. *)
LEMMA FileBehind ==
    ASSUME FileOK, NEW p
    PROVE  Newest(p, NewestSeq(pane[p].screen))
BY DEF FileOK, RecordKnown, Newest

LEMMA LastBorn ==
    ASSUME TypeOK, PanesOK, NEW p \in PaneIds
    PROVE  \A j \in 1..Len(pane[p].screen) :
              pane[p].screen[j].seq >= NewestSeq(pane[p].screen) => pane[p].screen[j].born = epoch
<1> DEFINE t == pane[p].screen
<1>1. /\ t \in Screens /\ Len(t) \in Nat /\ Before(t) \in Nat /\ NewestSeq(t) = Before(t) + Len(t)
      /\ \A i \in 1..Len(t) : t[i].seq = Before(t) + i
      /\ BornOK(p, t, epoch)
  BY Panes
<1> HIDE DEF t
<1>2. ASSUME NEW j \in 1..Len(t), t[j].seq >= NewestSeq(t)
      PROVE  t[j].born = epoch
  <2>1. j = Len(t) /\ t # <<>>
    BY <1>1, <1>2, Ranges
  <2> QED BY <1>1, <2>1 DEF BornOK
<1> QED BY <1>2 DEF t

LEMMA FullEntry ==
    ASSUME TypeOK, PanesOK, NEW p \in PaneIds, NEW exported \in BOOLEAN,
           NEW rec, rec = FullRecord(p, exported)
    PROVE  rec \in SavedRecords /\ Taken(p, rec, NewestSeq(pane[p].screen))
<1>1. LogOK(pane[p])
  BY DEF PanesOK
<1>2. /\ rec \in SavedRecords /\ RecordOK(rec)
      /\ Within(Screen(rec), pane[p].screen, rec.snapshot # None)
      /\ NewestSeq(Screen(rec)) = NewestSeq(pane[p].screen)
  BY <1>1, FullTaken
<1> QED BY <1>2, LastBorn DEF Taken, TakenFrom

(* The frames since an earlier capture. *)
LEMMA CaughtUp ==
    ASSUME NEW live \in LivePanes, LogOK(live), NEW seq \in Nat,
           NEW delta, delta = CatchUp(live.log, seq), delta.kind = "events"
    PROVE  /\ delta.frames \in Screens
           /\ Len(delta.frames) = NewestSeq(live.screen) - seq
           /\ seq <= NewestSeq(live.screen)
           /\ Before(live.screen) <= seq
           /\ \A n \in 1..Len(delta.frames) :
                delta.frames[n] = live.screen[seq - Before(live.screen) + n]
<1> DEFINE t == live.screen
           f == live.log.frames
<1>1. /\ t \in Screens /\ f \in Screens /\ Numbered(t) /\ Ends(f, t) /\ Numbered(f)
      /\ CurrentSeq(live.log) = NewestSeq(t) /\ NewestSeq(t) \in Nat
      /\ NewestSeq(f) = NewestSeq(t) /\ OldestSeq(live.log) - 1 = Before(f)
      /\ Before(t) <= Before(f) /\ Before(f) - Before(t) = Len(t) - Len(f)
  BY LivePane
<1>2. /\ Len(f) \in Nat /\ Len(t) \in Nat /\ Before(f) \in Nat /\ Before(t) \in Nat
      /\ NewestSeq(f) = Before(f) + Len(f) /\ NewestSeq(t) = Before(t) + Len(t)
  BY <1>1, Ranges
<1>3. OldestSeq(live.log) = Before(f) + 1
  <2>1. OldestSeq(live.log) \in Int
    <3>1. CASE f = <<>>
      BY <3>1 DEF OldestSeq
    <3>2. CASE f # <<>>
      <4>1. 1 \in 1..Len(f)
        BY <1>1, <3>2, Ranges
      <4>2. f[1].seq \in Nat
        BY <1>1, <4>1, FrameFields
      <4> QED BY <3>2, <4>2 DEF OldestSeq
    <3> QED BY <3>1, <3>2
  <2> QED BY <1>1, <1>2, <2>1
<1>4. /\ ~(seq > CurrentSeq(live.log))
      /\ ~(seq <= CurrentSeq(live.log) /\ seq + 1 < OldestSeq(live.log))
      /\ delta.frames = Newer(f, seq)
  <2>1. CASE seq > CurrentSeq(live.log)
    <3>1. ~(seq <= CurrentSeq(live.log) /\ seq + 1 < OldestSeq(live.log))
      BY <1>1, <2>1
    <3>2. delta = [kind |-> "ahead"]
      BY <2>1, <3>1 DEF CatchUp
    <3> QED BY <3>2
  <2>2. CASE seq <= CurrentSeq(live.log) /\ seq + 1 < OldestSeq(live.log)
    <3>1. ~(seq > CurrentSeq(live.log))
      BY <1>1, <2>2
    <3>2. delta = [kind |-> "gap"]
      BY <2>2, <3>1 DEF CatchUp
    <3> QED BY <3>2
  <2>3. CASE /\ ~(seq > CurrentSeq(live.log))
             /\ ~(seq <= CurrentSeq(live.log) /\ seq + 1 < OldestSeq(live.log))
    BY <2>3 DEF CatchUp
  <2> QED BY <2>1, <2>2, <2>3
<1> HIDE DEF t, f
<1>5. Before(f) <= seq /\ seq <= NewestSeq(f)
  BY <1>1, <1>2, <1>3, <1>4
<1> DEFINE c == seq - Before(f)
<1>6. c \in Nat /\ c <= Len(f)
  BY <1>2, <1>5
<1>7. delta.frames = SubSeq(f, c + 1, Len(f))
  BY <1>1, <1>4, <1>5, NewerCuts
<1>8. /\ delta.frames \in Screens /\ Len(delta.frames) = Len(f) - c
      /\ \A n \in 1..(Len(f) - c) : delta.frames[n] = f[c + n] /\ c + n \in 1..Len(f)
  <2> HIDE DEF c
  <2> QED BY <1>1, <1>2, <1>6, <1>7, Part
<1>9. \A n \in 1..(Len(f) - c) : delta.frames[n] = t[seq - Before(t) + n]
  <2>1. TAKE n \in 1..(Len(f) - c)
  <2>2. delta.frames[n] = f[c + n] /\ c + n \in 1..Len(f)
    BY <1>8
  <2>3. f[c + n] = t[Len(t) - Len(f) + (c + n)]
    BY <1>1, <2>2 DEF Ends
  <2>4. Len(t) - Len(f) + (c + n) = seq - Before(t) + n
    BY <1>1, <1>2
  <2> QED BY <2>2, <2>3, <2>4
<1>10. Len(f) - c = NewestSeq(t) - seq /\ Before(t) <= seq /\ seq <= NewestSeq(t)
  BY <1>1, <1>2, <1>5
<1> QED BY <1>8, <1>9, <1>10 DEF t

(* What is captured of a pane is all that it shows. *)
LEMMA PendingOK ==
    ASSUME TypeOK, PanesOK, FileOK, NEW p \in PaneIds, NEW i \in Nat,
           NEW previous \in SignatureMaps, Synced(previous), NEW exported \in BOOLEAN,
           NEW e, e = Pending(p, i, previous, exported)
    PROVE  /\ e \in Entries /\ e.id = p /\ e.index = i
           /\ Signature(p, i) \in Signatures
           /\ Signature(p, i).seq = NewestSeq(pane[p].screen)
           /\ Signature(p, i).index = i
           /\ EntryOK(e, NewestSeq(pane[p].screen))
<1> DEFINE t == pane[p].screen
           seq == NewestSeq(t)
<1>1. /\ pane[p] \in LivePanes /\ LogOK(pane[p])
      /\ t \in Screens /\ Numbered(t) /\ Len(t) \in Nat /\ Before(t) \in Nat
      /\ seq = Before(t) + Len(t) /\ seq \in Nat
  BY Panes
<1>2. Newest(p, seq)
  BY FileBehind
<1>3. /\ Signature(p, i) = [seq |-> seq, index |-> i] /\ Signature(p, i) \in Signatures
  <2>1. CurrentSeq(pane[p].log) = seq
    BY <1>1, LivePane
  <2> QED BY <1>1, <2>1 DEF Signature, Signatures
<1>4. <<>> \in Screens /\ Len(<<>>) = 0
  BY DEF Screens
<1> DEFINE delta == Delta(p, i, previous)
<1>5. CASE previous[p] = Signature(p, i)
  <2>1. e = [id |-> p, index |-> i, record |-> None, delta |-> <<>>]
    BY <1>5 DEF Pending
  <2>2. previous[p] # None
    BY <1>3, <1>5, Constants
  <2>3. Copied(p, i, seq)
    BY <1>3, <1>5, <2>2 DEF Synced
  <2>4. seq - Len(<<>>) = seq
    BY <1>1, <1>4
  <2>5. Continues(<<>>, t, seq)
    BY <1>1, <1>4 DEF Continues
  <2>6. e \in Entries
    BY <1>4, <2>1 DEF Entries
  <2> HIDE DEF seq, t
  <2>7. EntryOK(e, seq)
    BY <1>1, <1>2, <1>4, <2>1, <2>3, <2>4, <2>5 DEF EntryOK, t
  <2> QED BY <1>3, <2>1, <2>6, <2>7 DEF seq, t
<1>6. CASE previous[p] # Signature(p, i) /\ delta.kind = "events" /\ ~Resizes(delta.frames)
  <2>1. e = [id |-> p, index |-> i, record |-> None, delta |-> delta.frames]
    BY <1>6 DEF Pending
  <2>2. previous[p] # None /\ previous[p].index = i /\ delta = CatchUp(pane[p].log, previous[p].seq)
    BY <1>6 DEF Delta
  <2> DEFINE from == previous[p].seq
  <2>3. from \in Nat
    BY <2>2 DEF SignatureMaps, Signatures
  <2>4. Copied(p, i, from)
    BY <2>2 DEF Synced
  <2> HIDE DEF delta
  <2>5. /\ delta.frames \in Screens /\ Len(delta.frames) = seq - from
        /\ from <= seq /\ Before(t) <= from
        /\ \A n \in 1..Len(delta.frames) : delta.frames[n] = t[from - Before(t) + n]
    <3>1. delta = CatchUp(pane[p].log, from) /\ delta.kind = "events"
      BY <1>6, <2>2
    <3> HIDE DEF seq, t, from
    <3>2. /\ delta.frames \in Screens
          /\ Len(delta.frames) = NewestSeq(pane[p].screen) - from
          /\ from <= NewestSeq(pane[p].screen) /\ Before(pane[p].screen) <= from
          /\ \A n \in 1..Len(delta.frames) :
                delta.frames[n] = pane[p].screen[from - Before(pane[p].screen) + n]
      BY <1>1, <2>3, <3>1, CaughtUp
    <3> QED BY <3>2 DEF seq, t
  <2>6. \A n \in 1..Len(delta.frames) : delta.frames[n].event = Output
    BY <1>6, <2>5 DEF Resizes, Screens
  <2>7. seq - Len(delta.frames) = from
    BY <1>1, <2>3, <2>5
  <2>8. Continues(delta.frames, t, from)
    <3> HIDE DEF seq, t, from
    <3>1. from + Len(delta.frames) <= Before(t) + Len(t)
      BY <1>1, <2>3, <2>5
    <3> QED BY <2>5, <2>6, <3>1, Zenon DEF Continues
  <2>9. e \in Entries
    BY <2>1, <2>5 DEF Entries
  <2> HIDE DEF seq, t, from
  <2>10. Len(delta.frames) <= seq
    BY <1>1, <2>3, <2>5
  <2>11. EntryOK(e, seq)
    BY <1>2, <2>1, <2>4, <2>7, <2>8, <2>10 DEF EntryOK, t
  <2> QED BY <1>3, <2>1, <2>9, <2>11 DEF seq, t
<1>7. CASE previous[p] # Signature(p, i) /\ ~(delta.kind = "events" /\ ~Resizes(delta.frames))
  <2> DEFINE rec == FullRecord(p, exported)
  <2>1. e = [id |-> p, index |-> i, record |-> rec, delta |-> <<>>]
    BY <1>7 DEF Pending
  <2>2. rec \in SavedRecords /\ Taken(p, rec, seq)
    BY FullEntry
  <2> HIDE DEF rec, seq, t
  <2>3. e \in Entries
    BY <1>4, <2>1, <2>2 DEF Entries
  <2>4. rec # None
    BY <2>2, Constants
  <2>5. EntryOK(e, seq)
    BY <1>2, <2>1, <2>2, <2>4 DEF EntryOK
  <2> QED BY <1>3, <2>1, <2>3, <2>5 DEF seq, t
<1> QED BY <1>5, <1>6, <1>7

LEMMA NothingCaptured == NotCaptured \in SignatureMaps /\ Synced(NotCaptured)
<1>1. \A p \in PaneIds : NotCaptured[p] = None
  BY DEF NotCaptured
<1>2. NotCaptured \in SignatureMaps
  BY DEF NotCaptured, SignatureMaps
<1> QED BY <1>1, <1>2 DEF Synced

(* What the tick makes of the worker's answer. *)
LEMMA AnswerTaken ==
    ASSUME CheckpointInv
    PROVE  /\ CapturedNow \in SignatureMaps
           /\ PersistMarkNow \in Marks
           /\ PendingMarkNow \in Marks \cup {None}
           /\ MarkSaved(PersistMarkNow)
           /\ PendingMarkNow = None => job = None /\ Synced(CapturedNow)
           /\ PendingMarkNow # None =>
                /\ result = None /\ job # None
                /\ PendingMarkNow = pendingMark /\ CapturedNow = captured
<1>1. /\ captured \in SignatureMaps /\ persistMark \in Marks /\ pendingMark \in Marks \cup {None}
  BY DEF CheckpointInv, TypeOK
<1>2. PhaseOK /\ PlaneOK
  BY DEF CheckpointInv
<1>3. CASE Answered
  <2>1. result # None /\ pendingMark # None /\ job = None
    BY <1>2, <1>3 DEF Answered, PhaseOK
  <2>2. AnswerOK
    BY <1>2, <2>1 DEF PlaneOK
  <2>3. PendingMarkNow = None
    BY <1>3 DEF PendingMarkNow
  <2>4. CASE result.ok
    <3>1. PersistMarkNow = pendingMark /\ MarkSaved(pendingMark)
      BY <1>3, <2>2, <2>4 DEF PersistMarkNow, AnswerOK
    <3>2. CASE result.compact
      <4>1. CapturedNow = NotCaptured
        BY <1>3, <3>2 DEF CapturedNow
      <4> QED BY <1>1, <2>1, <2>3, <3>1, <4>1, NothingCaptured
    <3>3. CASE ~result.compact
      <4>1. CapturedNow = captured /\ Synced(captured)
        BY <1>3, <2>2, <2>4, <3>3 DEF CapturedNow, AnswerOK
      <4> QED BY <1>1, <2>1, <2>3, <3>1, <4>1
    <3> QED BY <3>2, <3>3
  <2>5. CASE ~result.ok
    <3>1. PersistMarkNow = persistMark /\ MarkSaved(persistMark)
      BY <1>2, <1>3, <2>5 DEF PersistMarkNow, PlaneOK
    <3>2. CapturedNow = NotCaptured
      BY <1>3, <2>5 DEF CapturedNow
    <3> QED BY <1>1, <2>1, <2>3, <3>1, <3>2, NothingCaptured
  <2> QED BY <2>4, <2>5
<1>4. CASE ~Answered
  <2>1. result = None
    BY <1>2, <1>4 DEF Answered, PhaseOK
  <2>2. PersistMarkNow = persistMark /\ PendingMarkNow = pendingMark /\ CapturedNow = captured
    BY <1>4 DEF PersistMarkNow, PendingMarkNow, CapturedNow
  <2>3. MarkSaved(persistMark)
    BY <1>2, <2>1 DEF PlaneOK
  <2>4. pendingMark = None => job = None /\ Synced(captured)
    BY <1>2, <2>1 DEF PhaseOK, PlaneOK
  <2>5. pendingMark # None => job # None
    BY <1>2, <2>1 DEF PhaseOK
  <2> QED BY <1>1, <2>1, <2>2, <2>3, <2>4, <2>5
<1> QED BY <1>3, <1>4

(* What a tick leaves alone. *)
LEMMA TickKeeps ==
    ASSUME CheckpointInv, TickUnchanged,
           failures' \in 0..MaxFailures,
           capture' \in Captures \cup {None}, captured' \in SignatureMaps,
           pendingMark' \in Marks \cup {None}, persistMark' \in Marks,
           job' \in Jobs \cup {None}, result' \in Results \cup {None}
    PROVE  /\ TypeOK' /\ PanesOK' /\ TopologyOK' /\ FileOK'
<1>1. /\ up' = up /\ layout' = layout /\ nextPane' = nextPane /\ pane' = pane /\ cached' = cached
      /\ journaled' = journaled /\ file' = file /\ workspace' = workspace
      /\ epoch' = epoch /\ changes' = changes
  BY DEF TickUnchanged, topology
<1>2. TypeOK'
  BY <1>1 DEF CheckpointInv, TypeOK
<1>3. PanesOK'
  BY <1>1 DEF CheckpointInv, PanesOK
<1>4. TopologyOK'
  BY <1>1 DEF CheckpointInv, TopologyOK
<1>5. FileOK'
  BY <1>1 DEF CheckpointInv, FileOK
<1> QED BY <1>2, <1>3, <1>4, <1>5

LEMMA TickEarlyKeeps == CheckpointInv /\ TickEarly => CheckpointInv'
<1> SUFFICES ASSUME CheckpointInv, TickEarly PROVE CheckpointInv'
  OBVIOUS
<1>1. /\ up /\ result' = None /\ persistMark' = PersistMarkNow /\ pendingMark' = PendingMarkNow
      /\ captured' = CapturedNow /\ (pendingMark' # None \/ capture = None)
      /\ capture' = capture /\ job' = job /\ failures' = failures /\ TickUnchanged
  BY DEF TickEarly, TakeAnswer
<1>2. /\ up' = up /\ pane' = pane /\ cached' = cached /\ journaled' = journaled
      /\ file' = file /\ epoch' = epoch
  BY <1>1 DEF TickUnchanged
<1>3. TypeOK /\ PhaseOK /\ PlaneOK
  BY DEF CheckpointInv
<1>4. /\ CapturedNow \in SignatureMaps /\ PersistMarkNow \in Marks
      /\ PendingMarkNow \in Marks \cup {None}
      /\ MarkSaved(PersistMarkNow)
      /\ (PendingMarkNow = None => job = None /\ Synced(CapturedNow))
      /\ (PendingMarkNow # None =>
            /\ result = None /\ job # None
            /\ PendingMarkNow = pendingMark /\ CapturedNow = captured)
  BY AnswerTaken
<1>5. TypeOK' /\ PanesOK' /\ TopologyOK' /\ FileOK'
  BY <1>1, <1>3, <1>4, TickKeeps DEF TypeOK
<1>6. capture = None
  BY <1>1, <1>3, <1>4 DEF PhaseOK
<1>7. PhaseOK'
  BY <1>1, <1>2, <1>3, <1>4, <1>6 DEF PhaseOK
<1>8. MarkSaved(persistMark)'
  BY <1>1, <1>2, <1>4 DEF MarkSaved
<1>9. job' # None => JobOK'
  <2> SUFFICES ASSUME job # None PROVE JobOK'
    BY <1>1
  <2>1. pendingMark' = pendingMark /\ captured' = captured /\ job' = job
    BY <1>1, <1>4
  <2>2. JobOK
    BY <1>3 DEF PlaneOK
  <2> QED BY <1>2, <2>1, <2>2
        DEF JobOK, Gathered, MarkGathered, EntryOK, Newest, Copied, Current, Taken
<1>10. job' = None => Synced(captured)'
  <2> SUFFICES ASSUME job = None PROVE Synced(captured)'
    BY <1>1
  <2>1. Synced(CapturedNow)
    BY <1>4
  <2> QED BY <1>1, <1>2, <2>1 DEF Synced, Copied, Current, Taken
<1>11. PlaneOK'
  BY <1>1, <1>6, <1>8, <1>9, <1>10 DEF PlaneOK
<1> QED BY <1>5, <1>7, <1>11 DEF CheckpointInv

LEMMA TickDiscardKeeps == CheckpointInv /\ TickDiscard => CheckpointInv'
<1> SUFFICES ASSUME CheckpointInv, TickDiscard PROVE CheckpointInv'
  OBVIOUS
<1>1. /\ up /\ result' = None /\ persistMark' = PersistMarkNow /\ PendingMarkNow = None
      /\ pendingMark' = None /\ captured' = CapturedNow
      /\ capture' = None /\ job' = job /\ failures' = failures /\ TickUnchanged
  BY DEF TickDiscard, TakeAnswer
<1>2. /\ up' = up /\ pane' = pane /\ cached' = cached /\ journaled' = journaled
      /\ file' = file /\ epoch' = epoch
  BY <1>1 DEF TickUnchanged
<1>3. TypeOK
  BY DEF CheckpointInv
<1>4. /\ CapturedNow \in SignatureMaps /\ PersistMarkNow \in Marks
      /\ MarkSaved(PersistMarkNow)
      /\ job = None /\ Synced(CapturedNow)
  BY <1>1, AnswerTaken
<1>5. TypeOK' /\ PanesOK' /\ TopologyOK' /\ FileOK'
  BY <1>1, <1>3, <1>4, TickKeeps DEF TypeOK
<1>6. PhaseOK'
  BY <1>1, <1>2, <1>4 DEF PhaseOK
<1>7. MarkSaved(persistMark)'
  BY <1>1, <1>2, <1>4 DEF MarkSaved
<1>8. Synced(captured)'
  BY <1>1, <1>2, <1>4 DEF Synced, Copied, Current, Taken
<1>9. PlaneOK'
  BY <1>1, <1>4, <1>7, <1>8 DEF PlaneOK
<1> QED BY <1>5, <1>6, <1>9 DEF CheckpointInv

(* A capture of the present layout, as far as it has come. *)
GatheredFor(c, panes) ==
    /\ Len(c.mark) = Len(panes)
    /\ Gathered(c.panes, c.captured)
    /\ MarkGathered(c.mark, c.panes, c.captured)
    /\ \A n \in 1..Len(c.panes) : c.panes[n].id = panes[n]
    /\ \A n \in 1..Len(c.mark) :
        /\ c.mark[n].pane = panes[n]
        /\ c.mark[n].seq <= NewestSeq(pane[panes[n]].screen)

LEMMA LayoutElements ==
    ASSUME TypeOK, TopologyOK
    PROVE  /\ layout \in Seq(PaneIds) /\ Len(layout) \in Nat /\ DOMAIN layout = 1..Len(layout)
           /\ (layout = <<>> <=> Len(layout) = 0)
           /\ \A n \in 1..Len(layout) : layout[n] \in PaneIds
           /\ \A m, n \in 1..Len(layout) : layout[m] = layout[n] => m = n
<1>1. /\ layout \in Seq(PaneIds) /\ Len(layout) \in Nat /\ DOMAIN layout = 1..Len(layout)
  BY DEF TypeOK
<1>2. (layout = <<>> <=> Len(layout) = 0) /\ \A n \in 1..Len(layout) : layout[n] \in PaneIds
  BY <1>1
<1>3. \A m, n \in 1..Len(layout) : layout[m] = layout[n] => m = n
  BY <1>1 DEF TopologyOK, IsInjective
<1> QED BY <1>1, <1>2, <1>3

LEMMA CaptureBegun ==
    ASSUME CheckpointInv, PendingMarkNow = None, capture # None => capture.layout = layout,
           NEW begun, begun = IF capture = None THEN NewCapture ELSE capture
    PROVE  /\ begun \in Captures /\ begun.layout = layout
           /\ GatheredFor(begun, layout)
           /\ Len(begun.panes) \in Nat
           /\ \/ Len(begun.panes) < Len(layout)
              \/ Len(layout) = 0 /\ Len(begun.panes) = 0
<1>1. TypeOK /\ PanesOK /\ TopologyOK /\ PlaneOK
  BY DEF CheckpointInv
<1>2. /\ layout \in Seq(PaneIds) /\ Len(layout) \in Nat /\ DOMAIN layout = 1..Len(layout)
      /\ (layout = <<>> <=> Len(layout) = 0)
      /\ \A n \in 1..Len(layout) : layout[n] \in PaneIds
  BY <1>1, LayoutElements
<1>3. CASE capture # None
  <2>1. begun = capture /\ begun \in Captures /\ begun.layout = layout
    BY <1>1, <1>3 DEF TypeOK
  <2>2. CaptureOK
    BY <1>1, <1>3 DEF PlaneOK
  <2>3. Len(begun.panes) \in Nat
    BY <2>1 DEF Captures, Jobs
  <2>4. GatheredFor(begun, layout) /\ Len(begun.panes) < Len(layout)
    BY <2>1, <2>2 DEF CaptureOK, GatheredFor
  <2> QED BY <2>1, <2>3, <2>4
<1>4. CASE capture = None
  <2>1. begun = [layout |-> layout, panes |-> <<>>, captured |-> NotCaptured, mark |-> Mark]
    BY <1>4 DEF NewCapture
  <2>2. \A n \in 1..Len(layout) : CurrentSeq(pane[layout[n]].log) = NewestSeq(pane[layout[n]].screen)
                                  /\ NewestSeq(pane[layout[n]].screen) \in Nat
    <3>1. TAKE n \in 1..Len(layout)
    <3>2. pane[layout[n]] \in LivePanes /\ LogOK(pane[layout[n]])
      BY <1>1, <1>2, Panes
    <3> QED BY <3>2, LivePane
  <2>3. Mark = [n \in 1..Len(layout) |->
                  [pane |-> layout[n], seq |-> CurrentSeq(pane[layout[n]].log)]]
    BY <1>2 DEF Mark
  <2>4. \A n \in 1..Len(layout) :
            [pane |-> layout[n], seq |-> CurrentSeq(pane[layout[n]].log)] \in [pane : Nat, seq : Nat]
    BY <1>2, <2>2, Constants
  <2>5. Mark \in Marks /\ Len(Mark) = Len(layout)
    BY <1>2, <2>3, <2>4, IsASeq DEF Marks
  <2>6. <<>> \in Jobs /\ Len(<<>>) = 0 /\ NotCaptured \in SignatureMaps
    BY NothingCaptured DEF Jobs
  <2>7. begun \in Captures
    BY <1>2, <2>1, <2>5, <2>6 DEF Captures
  <2>8. /\ begun.layout = layout /\ begun.panes = <<>> /\ begun.captured = NotCaptured
        /\ begun.mark = Mark /\ Len(begun.panes) = 0
    BY <2>1, <2>6
  <2>9. Gathered(begun.panes, begun.captured) /\ MarkGathered(begun.mark, begun.panes, begun.captured)
    BY <2>8 DEF Gathered, MarkGathered, NotCaptured
  <2>10. \A n \in 1..Len(begun.mark) :
            /\ begun.mark[n].pane = layout[n]
            /\ begun.mark[n].seq <= NewestSeq(pane[layout[n]].screen)
    BY <2>2, <2>3, <2>5, <2>8
  <2>11. GatheredFor(begun, layout)
    BY <2>5, <2>8, <2>9, <2>10 DEF GatheredFor
  <2> QED BY <1>2, <2>7, <2>8, <2>11
<1> QED BY <1>3, <1>4

(* The capture with one more pane. *)
PaneAdded(begun, exported) ==
    LET i == Len(begun.panes) + 1
    IN [begun EXCEPT
            !.panes = Append(@, Pending(layout[i], i, CapturedNow, exported)),
            !.captured = [@ EXCEPT ![layout[i]] = Signature(layout[i], i)]]

LEMMA PaneTaken ==
    ASSUME CheckpointInv, PendingMarkNow = None,
           NEW begun \in Captures, begun.layout = layout, GatheredFor(begun, layout),
           Len(begun.panes) < Len(layout), NEW exported \in BOOLEAN,
           NEW taken, taken = PaneAdded(begun, exported)
    PROVE  /\ taken \in Captures /\ taken.layout = layout
           /\ GatheredFor(taken, layout)
           /\ Len(taken.panes) = Len(begun.panes) + 1
<1> DEFINE i == Len(begun.panes) + 1
           p == layout[i]
           e == Pending(p, i, CapturedNow, exported)
           sig == Signature(p, i)
           seq == NewestSeq(pane[p].screen)
<1>1. TypeOK /\ PanesOK /\ TopologyOK /\ FileOK
  BY DEF CheckpointInv
<1>2. /\ layout \in Seq(PaneIds) /\ Len(layout) \in Nat
      /\ \A n \in 1..Len(layout) : layout[n] \in PaneIds
      /\ \A m, n \in 1..Len(layout) : layout[m] = layout[n] => m = n
  BY <1>1, LayoutElements
<1>3. /\ begun.panes \in Jobs /\ Len(begun.panes) \in Nat /\ begun.captured \in SignatureMaps
      /\ begun.mark \in Marks
  BY DEF Captures, Jobs
<1>4. i \in 1..Len(layout) /\ i \in Nat /\ p \in PaneIds
  BY <1>2, <1>3
<1>5. CapturedNow \in SignatureMaps /\ Synced(CapturedNow)
  BY AnswerTaken
<1>6. /\ e \in Entries /\ e.id = p /\ e.index = i
      /\ sig \in Signatures /\ sig.seq = seq /\ sig.index = i
      /\ EntryOK(e, seq)
  <2> HIDE DEF p, i
  <2> QED BY <1>1, <1>4, <1>5, PendingOK
<1>7. taken = [begun EXCEPT !.panes = Append(@, e), !.captured = [@ EXCEPT ![p] = sig]]
  BY DEF PaneAdded
<1> HIDE DEF i
<1> DEFINE es == Append(begun.panes, e)
           sigs == [begun.captured EXCEPT ![p] = sig]
<1>0. i = Len(begun.panes) + 1
  BY DEF i
<1> HIDE DEF e, sig, p, seq
<1>8. /\ es \in Jobs /\ Len(es) = i
      /\ \A n \in 1..Len(begun.panes) : es[n] = begun.panes[n]
      /\ es[i] = e
  BY <1>0, <1>3, <1>6 DEF Jobs
<1>9. /\ sigs \in SignatureMaps /\ sigs[p] = sig
      /\ \A q \in PaneIds : q # p => sigs[q] = begun.captured[q]
  BY <1>3, <1>4, <1>6 DEF SignatureMaps
<1>10. /\ taken.layout = layout /\ taken.panes = es /\ taken.captured = sigs
       /\ taken.mark = begun.mark /\ taken \in Captures
  BY <1>2, <1>3, <1>7, <1>8, <1>9 DEF Captures
<1> HIDE DEF es, sigs
<1>11. /\ Len(begun.mark) = Len(layout)
       /\ Gathered(begun.panes, begun.captured)
       /\ MarkGathered(begun.mark, begun.panes, begun.captured)
       /\ \A n \in 1..Len(begun.panes) : begun.panes[n].id = layout[n]
       /\ \A n \in 1..Len(begun.mark) :
            /\ begun.mark[n].pane = layout[n]
            /\ begun.mark[n].seq <= NewestSeq(pane[layout[n]].screen)
  BY DEF GatheredFor
<1>12. ASSUME NEW n \in 1..Len(begun.panes)
       PROVE  /\ es[n] = begun.panes[n] /\ es[n].id = layout[n] /\ es[n].id \in PaneIds /\ es[n].id # p
              /\ sigs[es[n].id] = begun.captured[es[n].id]
  <2>1. n \in 1..Len(layout) /\ n # i
    BY <1>0, <1>2, <1>3, <1>4
  <2>2. es[n] = begun.panes[n] /\ es[n].id = layout[n] /\ layout[n] \in PaneIds
    BY <1>2, <1>8, <1>11, <2>1
  <2>3. layout[n] # p
    BY <1>2, <1>4, <2>1 DEF p
  <2> QED BY <1>9, <2>2, <2>3
<1>13. \A n \in 1..i : n \in 1..Len(begun.panes) \/ n = i
  BY <1>0, <1>3
<1>14. Gathered(es, sigs)
  <2>1. ASSUME NEW n \in 1..Len(begun.panes)
        PROVE  /\ es[n].index = n /\ sigs[es[n].id] # None
               /\ sigs[es[n].id].index = n
               /\ EntryOK(es[n], sigs[es[n].id].seq)
    <3>1. es[n] = begun.panes[n] /\ sigs[es[n].id] = begun.captured[es[n].id]
      BY <1>12
    <3>2. /\ begun.panes[n].index = n /\ begun.captured[begun.panes[n].id] # None
          /\ begun.captured[begun.panes[n].id].index = n
          /\ EntryOK(begun.panes[n], begun.captured[begun.panes[n].id].seq)
      BY <1>11 DEF Gathered
    <3> QED BY <3>1, <3>2
  <2>2. /\ es[i].index = i /\ sigs[es[i].id] # None /\ sigs[es[i].id].index = i
        /\ EntryOK(es[i], sigs[es[i].id].seq)
    BY <1>6, <1>8, <1>9, Constants
  <2>3. ASSUME NEW q \in PaneIds, sigs[q] # None
        PROVE  \E n \in 1..Len(es) : es[n].id = q
    <3>1. CASE q = p
      <4>1. i \in 1..Len(es) /\ es[i].id = q
        BY <1>4, <1>6, <1>8, <3>1
      <4> QED BY <4>1
    <3>2. CASE q # p
      <4>1. PICK n \in 1..Len(begun.panes) : begun.panes[n].id = q
        BY <1>9, <1>11, <2>3, <3>2 DEF Gathered
      <4>2. n \in 1..Len(es) /\ es[n].id = q
        BY <1>0, <1>3, <1>8, <4>1
      <4> QED BY <4>2
    <3> QED BY <3>1, <3>2
  <2> QED BY <1>8, <1>13, <2>1, <2>2, <2>3 DEF Gathered
<1>15. MarkGathered(begun.mark, es, sigs)
  <2>1. ASSUME NEW n \in 1..Len(begun.panes)
        PROVE  begun.mark[n].pane = es[n].id /\ begun.mark[n].seq <= sigs[es[n].id].seq
    BY <1>11, <1>12 DEF MarkGathered
  <2>2. begun.mark[i].pane = es[i].id /\ begun.mark[i].seq <= sigs[es[i].id].seq
    <3>1. i \in 1..Len(begun.mark)
      BY <1>4, <1>11
    <3>2. begun.mark[i].pane = p /\ begun.mark[i].seq <= seq
      BY <1>11, <3>1 DEF p, seq
    <3>3. es[i].id = p /\ sigs[es[i].id].seq = seq
      BY <1>6, <1>8, <1>9
    <3> QED BY <3>2, <3>3
  <2> QED BY <1>8, <1>13, <2>1, <2>2 DEF MarkGathered
<1>16. \A n \in 1..Len(es) : es[n].id = layout[n]
  BY <1>6, <1>8, <1>12, <1>13 DEF p
<1>17. GatheredFor(taken, layout)
  BY <1>10, <1>11, <1>14, <1>15, <1>16 DEF GatheredFor
<1> QED BY <1>0, <1>8, <1>10, <1>17

LEMMA TickCaptureKeeps == CheckpointInv /\ TickCapture => CheckpointInv'
<1> SUFFICES ASSUME CheckpointInv, TickCapture PROVE CheckpointInv'
  OBVIOUS
<1> DEFINE begun == IF capture = None THEN NewCapture ELSE capture
           i == Len(begun.panes) + 1
<1>1. /\ up /\ result' = None /\ persistMark' = PersistMarkNow /\ PendingMarkNow = None
      /\ (capture # None => capture.layout = layout) /\ TickUnchanged
  BY DEF TickCapture, TakeAnswer
<1>2. PICK exported \in BOOLEAN :
        LET more == i <= Len(layout)
            taken == IF ~more THEN begun
                     ELSE [begun EXCEPT
                        !.panes = Append(@, Pending(layout[i], i, CapturedNow, exported)),
                        !.captured = [@ EXCEPT ![layout[i]] = Signature(layout[i], i)]]
        IN
        /\ Exports(exported)
        /\ IF i < Len(layout)
           THEN /\ capture' = taken
                /\ captured' = CapturedNow
                /\ pendingMark' = None
                /\ UNCHANGED job
           ELSE /\ capture' = None
                /\ captured' = taken.captured
                /\ pendingMark' = taken.mark
                /\ job' = taken.panes
  BY Zenon DEF TickCapture
<1> DEFINE taken == IF ~(i <= Len(layout)) THEN begun
                    ELSE [begun EXCEPT
                        !.panes = Append(@, Pending(layout[i], i, CapturedNow, exported)),
                        !.captured = [@ EXCEPT ![layout[i]] = Signature(layout[i], i)]]
<1>3. /\ Exports(exported)
      /\ IF i < Len(layout)
         THEN /\ capture' = taken /\ captured' = CapturedNow /\ pendingMark' = None
              /\ job' = job
         ELSE /\ capture' = None /\ captured' = taken.captured /\ pendingMark' = taken.mark
              /\ job' = taken.panes
  BY <1>2
<1>4. /\ begun \in Captures /\ begun.layout = layout
      /\ GatheredFor(begun, layout)
      /\ Len(begun.panes) \in Nat
      /\ \/ Len(begun.panes) < Len(layout)
         \/ Len(layout) = 0 /\ Len(begun.panes) = 0
  <2> HIDE DEF i, taken
  <2> QED BY <1>1, CaptureBegun
<1> HIDE DEF begun
<1>5. /\ taken \in Captures /\ taken.layout = layout /\ GatheredFor(taken, layout)
      /\ Len(taken.panes) = IF Len(layout) = 0 THEN 0 ELSE i
      /\ i <= Len(layout) \/ Len(layout) = 0
      /\ Len(layout) \in Nat
  <2>1. Len(layout) \in Nat
    BY DEF CheckpointInv, TypeOK
  <2>2. CASE Len(begun.panes) < Len(layout)
    <3>1. i <= Len(layout) /\ Len(layout) # 0
      BY <1>4, <2>1, <2>2
    <3>2. taken = PaneAdded(begun, exported)
      BY <3>1 DEF PaneAdded
    <3>3. taken \in Captures /\ taken.layout = layout /\ GatheredFor(taken, layout) /\ Len(taken.panes) = i
      <4>1. i = Len(begun.panes) + 1
        OBVIOUS
      <4> HIDE DEF taken, i
      <4> QED BY <1>1, <1>4, <2>2, <3>2, <4>1, PaneTaken
    <3> HIDE DEF taken, i
    <3> QED BY <2>1, <3>1, <3>3
  <2>3. CASE Len(layout) = 0 /\ Len(begun.panes) = 0
    <3>1. ~(i <= Len(layout))
      BY <2>3
    <3> QED BY <1>4, <2>1, <2>3, <3>1
  <2> QED BY <1>4, <2>2, <2>3
<1> HIDE DEF taken, i
<1>6. /\ up' = up /\ pane' = pane /\ cached' = cached /\ journaled' = journaled
      /\ file' = file /\ epoch' = epoch /\ layout' = layout
  BY <1>1 DEF TickUnchanged, topology
<1>7. TypeOK /\ PanesOK /\ TopologyOK /\ PhaseOK /\ PlaneOK
  BY DEF CheckpointInv
<1>8. /\ CapturedNow \in SignatureMaps /\ PersistMarkNow \in Marks
      /\ MarkSaved(PersistMarkNow) /\ job = None /\ Synced(CapturedNow)
  BY <1>1, AnswerTaken
<1>9. /\ taken.panes \in Jobs /\ taken.captured \in SignatureMaps /\ taken.mark \in Marks
      /\ taken # None /\ taken.panes # None /\ taken.mark # None
  <2>1. taken.panes \in Jobs /\ taken.captured \in SignatureMaps /\ taken.mark \in Marks
    BY <1>5 DEF Captures
  <2> QED BY <1>5, <2>1, Constants
<1>10. failures' \in 0..MaxFailures
  BY <1>3, <1>7, Constants DEF Exports, TypeOK
<1>11. /\ capture' \in Captures \cup {None} /\ captured' \in SignatureMaps
       /\ pendingMark' \in Marks \cup {None} /\ job' \in Jobs \cup {None}
       /\ persistMark' \in Marks /\ result' \in Results \cup {None}
  <2>1. CASE i < Len(layout)
    BY <1>1, <1>3, <1>5, <1>8, <2>1
  <2>2. CASE ~(i < Len(layout))
    BY <1>1, <1>3, <1>8, <1>9, <2>2
  <2> QED BY <2>1, <2>2
<1>12. TypeOK' /\ PanesOK' /\ TopologyOK' /\ FileOK'
  BY <1>1, <1>10, <1>11, TickKeeps
<1>13. MarkSaved(persistMark)'
  BY <1>1, <1>6, <1>8 DEF MarkSaved
<1>14. CASE i < Len(layout)
  <2>1. /\ capture' = taken /\ captured' = CapturedNow /\ pendingMark' = None /\ job' = None
    BY <1>3, <1>8, <1>14
  <2>2. PhaseOK'
    BY <1>1, <1>6, <2>1 DEF PhaseOK
  <2>3. Synced(captured)'
    BY <1>6, <1>8, <2>1 DEF Synced, Copied, Current, Taken
  <2>4. Len(taken.panes) < Len(layout)
    <3>1. i \in Nat /\ i > 0
      BY <1>4 DEF i
    <3> QED BY <1>5, <1>14, <3>1
  <2>6. Gathered(capture.panes, capture.captured)'
    <3>1. Gathered(taken.panes, taken.captured)
      BY <1>5 DEF GatheredFor
    <3> QED BY <1>6, <2>1, <3>1 DEF Gathered, EntryOK, Newest, Copied, Current, Taken
  <2>7. CaptureOK'
    <3>1. IsInjective(layout)
      BY <1>7 DEF TopologyOK
    <3>2. IsInjective(capture'.layout) /\ Len(capture'.panes) < Len(capture'.layout)
      BY <1>5, <2>1, <2>4, <3>1
    <3>3. /\ Len(taken.mark) = Len(layout)
          /\ MarkGathered(taken.mark, taken.panes, taken.captured)
          /\ \A n \in 1..Len(taken.panes) : taken.panes[n].id = layout[n]
          /\ \A n \in 1..Len(taken.mark) :
              /\ taken.mark[n].pane = layout[n]
              /\ taken.mark[n].seq <= NewestSeq(pane[layout[n]].screen)
      BY <1>5 DEF GatheredFor
    <3> QED BY <1>5, <1>6, <2>1, <2>6, <3>2, <3>3 DEF CaptureOK
  <2>8. PlaneOK'
    BY <1>1, <1>13, <2>1, <2>3, <2>7 DEF PlaneOK
  <2> QED BY <1>12, <2>2, <2>8 DEF CheckpointInv
<1>15. CASE ~(i < Len(layout))
  <2>1. /\ capture' = None /\ captured' = taken.captured /\ pendingMark' = taken.mark
        /\ job' = taken.panes /\ job' # None /\ pendingMark' # None
    BY <1>3, <1>9, <1>15
  <2>2. PhaseOK'
    BY <1>1, <1>6, <2>1 DEF PhaseOK
  <2>3. Len(taken.panes) = Len(layout)
    <3>1. Len(begun.panes) \in Nat /\ i = Len(begun.panes) + 1
      BY <1>4 DEF i
    <3> QED BY <1>5, <1>15, <3>1
  <2>4. /\ Gathered(taken.panes, taken.captured) /\ Len(taken.mark) = Len(layout)
        /\ MarkGathered(taken.mark, taken.panes, taken.captured)
    BY <1>5 DEF GatheredFor
  <2>5. Gathered(job, captured)'
    BY <1>6, <2>1, <2>4 DEF Gathered, EntryOK, Newest, Copied, Current, Taken
  <2>6. JobOK'
    BY <2>1, <2>3, <2>4, <2>5 DEF JobOK, MarkGathered
  <2>7. PlaneOK'
    BY <1>1, <1>13, <2>1, <2>6 DEF PlaneOK
  <2> QED BY <1>12, <2>2, <2>7 DEF CheckpointInv
<1> QED BY <1>14, <1>15

-----------------------------------------------------------------------------
(* The worker. *)

(* What was captured of a pane is known to it. *)
LEMMA TakenKnown ==
    ASSUME TypeOK, PanesOK, NEW p \in PaneIds, NEW rec \in SavedRecords, NEW seq,
           Taken(p, rec, seq)
    PROVE  RecordKnown(rec, epoch, pane) /\ seq <= NewestSeq(pane[p].screen)
<1> DEFINE t == pane[p].screen
           s == Screen(rec)
<1>1. /\ t \in Screens /\ Len(t) \in Nat /\ Before(t) \in Nat /\ NewestSeq(t) = Before(t) + Len(t)
      /\ BornOK(p, t, epoch)
  BY Panes
<1>2. /\ RecordOK(rec) /\ Within(s, t, rec.snapshot # None) /\ NewestSeq(s) = seq
  BY DEF Taken, TakenFrom
<1>3. /\ s \in Screens /\ Numbered(s)
  BY <1>2 DEF RecordOK
<1> HIDE DEF s, t
<1>4. /\ Len(s) \in Nat /\ Before(s) \in Nat /\ (s = <<>> <=> Len(s) = 0)
      /\ NewestSeq(s) = Before(s) + Len(s)
  BY <1>3, Ranges
<1>5. /\ Before(t) <= Before(s) /\ Before(s) + Len(s) <= Before(t) + Len(t)
      /\ \A i \in 1..Len(s) : s[i] = t[Before(s) - Before(t) + i]
  BY <1>2 DEF Within
<1>6. NewestSeq(s) <= NewestSeq(t)
  BY <1>1, <1>4, <1>5
<1>7. ASSUME NEW i \in 1..Len(s)
      PROVE  Before(s) - Before(t) + i \in 1..Len(t) /\ s[i] = t[Before(s) - Before(t) + i]
  BY <1>1, <1>4, <1>5
<1>8. ASSUME NEW i \in 1..Len(s)
      PROVE  s[i].born <= epoch /\ (s[i].born = epoch => s[i].pane = p)
  BY <1>1, <1>7 DEF BornOK
<1>9. s # <<>> => Final(s) = s[Len(s)] /\ Len(s) \in 1..Len(s)
  BY <1>4 DEF Final
<1>10. s # <<>> /\ Final(s).born = epoch => NewestSeq(s) <= NewestSeq(pane[Final(s).pane].screen)
  BY <1>6, <1>8, <1>9 DEF t
<1> QED BY <1>2, <1>6, <1>8, <1>10 DEF RecordKnown, s, t

(* Appending the next frames takes them as well. *)
LEMMA TakenExtended ==
    ASSUME TypeOK, PanesOK, NEW p \in PaneIds, NEW rec \in SavedRecords, NEW delta \in Screens,
           NEW from \in Nat, Taken(p, rec, from), Continues(delta, pane[p].screen, from),
           NEW new, new = [rec EXCEPT !.tail = @ \o delta]
    PROVE  new \in SavedRecords /\ Taken(p, new, from + Len(delta))
<1> DEFINE t == pane[p].screen
           s == Screen(rec)
<1>1. /\ t \in Screens /\ Len(t) \in Nat /\ Before(t) \in Nat
      /\ \A i \in 1..Len(t) : t[i].seq = Before(t) + i
  BY Panes
<1>2. /\ RecordOK(rec) /\ Within(s, t, rec.snapshot # None) /\ NewestSeq(s) = from
      /\ \A j \in 1..Len(t) : t[j].seq >= from => t[j].born = epoch
  BY DEF Taken, TakenFrom
<1>3. s \in Screens /\ Numbered(s)
  BY <1>2 DEF RecordOK
<1>4. /\ Before(t) <= from /\ from + Len(delta) <= Before(t) + Len(t)
      /\ \A n \in 1..Len(delta) :
            delta[n] = t[from - Before(t) + n] /\ delta[n].event = Output
  BY DEF Continues
<1> HIDE DEF s, t
<1>5. /\ Len(s) \in Nat /\ Before(s) \in Nat /\ from = Before(s) + Len(s) /\ Len(delta) \in Nat
  BY <1>2, <1>3, Ranges
<1>6. Counted(delta, from)
  <2>1. ASSUME NEW n \in 1..Len(delta)
        PROVE  delta[n].seq = from + n
    <3>1. from - Before(t) + n \in 1..Len(t) /\ delta[n] = t[from - Before(t) + n]
      <4>1. delta[n] = t[from - Before(t) + n]
        BY <1>4
      <4>2. n \in Nat /\ n >= 1 /\ n <= Len(delta) /\ from >= Before(t)
        BY <1>4, <1>5
      <4> QED BY <1>1, <1>4, <1>5, <4>1, <4>2
    <3>2. t[from - Before(t) + n].seq = Before(t) + (from - Before(t) + n)
      BY <1>1, <3>1
    <3> QED BY <1>1, <3>1, <3>2
  <2> QED BY <2>1 DEF Counted
<1>7. /\ new \in SavedRecords /\ RecordOK(new)
      /\ Screen(new) = s \o delta /\ new.snapshot = rec.snapshot
  <2>1. Counted(delta, NewestSeq(Screen(rec)))
    BY <1>2, <1>6 DEF s
  <2> QED BY <1>2, <1>4, <2>1, RecordExtended DEF s
<1>8. /\ Before(s \o delta) = Before(s) /\ NewestSeq(s \o delta) = from + Len(delta)
      /\ s \o delta \in Screens /\ Len(s \o delta) = Len(s) + Len(delta)
      /\ \A i \in 1..Len(s) : (s \o delta)[i] = s[i]
      /\ \A i \in 1..Len(delta) : (s \o delta)[Len(s) + i] = delta[i]
  <2>1. Counted(delta, NewestSeq(s))
    BY <1>2, <1>6
  <2> QED BY <1>2, <1>3, <2>1, Continued, Joined
<1>9. Within(s \o delta, t, rec.snapshot # None)
  <2>1. /\ Before(t) <= Before(s) /\ (rec.snapshot # None => Before(s) = Before(t))
        /\ \A i \in 1..Len(s) : s[i] = t[Before(s) - Before(t) + i]
    BY <1>2 DEF Within
  <2>2. Before(s) + Len(s \o delta) <= Before(t) + Len(t)
    BY <1>4, <1>5, <1>8
  <2>3. ASSUME NEW i \in 1..Len(s \o delta)
        PROVE  (s \o delta)[i] = t[Before(s) - Before(t) + i]
    <3>1. CASE i \in 1..Len(s)
      BY <1>8, <2>1, <3>1
    <3>2. CASE i \notin 1..Len(s)
      <4>1. /\ i - Len(s) \in 1..Len(delta) /\ Len(s) + (i - Len(s)) = i
            /\ from - Before(t) + (i - Len(s)) = Before(s) - Before(t) + i
        BY <1>1, <1>5, <1>8, <3>2
      <4>2. (s \o delta)[i] = delta[i - Len(s)]
        BY <1>8, <4>1
      <4>3. delta[i - Len(s)] = t[from - Before(t) + (i - Len(s))]
        BY <1>4, <4>1
      <4> QED BY <4>1, <4>2, <4>3
    <3> QED BY <3>1, <3>2
  <2> QED BY <1>8, <2>1, <2>2, <2>3 DEF Within
<1>10. \A j \in 1..Len(t) : t[j].seq >= from + Len(delta) => t[j].born = epoch
  <2>1. TAKE j \in 1..Len(t)
  <2>2. t[j].seq >= from + Len(delta) => t[j].seq >= from
    BY <1>1, <1>5
  <2> QED BY <1>2, <2>2
<1> QED BY <1>7, <1>8, <1>9, <1>10 DEF Taken, TakenFrom, t

(* The record of the nth pane of the job after it. *)
NthRecord(n) == CachedNow[job[n].id].record

LEMMA JobEntries ==
    ASSUME CheckpointInv, job # None
    PROVE  /\ job \in Jobs /\ Len(job) \in Nat /\ DOMAIN job = 1..Len(job)
           /\ \A n \in 1..Len(job) :
                /\ job[n] \in Entries /\ job[n].id \in PaneIds /\ job[n].id \in Ids
                /\ job[n].index = n /\ captured[job[n].id] \in Signatures
                /\ captured[job[n].id].index = n
                /\ EntryOK(job[n], captured[job[n].id].seq)
                /\ Entry(job[n].id) = job[n]
           /\ \A m, n \in 1..Len(job) : job[m].id = job[n].id => m = n
           /\ \A p \in Ids : \E n \in 1..Len(job) : p = job[n].id
           /\ \A p \in PaneIds : captured[p] # None => p \in Ids
<1>1. /\ job \in Jobs /\ captured \in SignatureMaps
  BY DEF CheckpointInv, TypeOK
<1>2. /\ Len(job) \in Nat /\ DOMAIN job = 1..Len(job) /\ \A n \in 1..Len(job) : job[n] \in Entries
  BY <1>1 DEF Jobs
<1>3. Gathered(job, captured)
  BY DEF CheckpointInv, PlaneOK, JobOK
<1>4. ASSUME NEW n \in 1..Len(job)
      PROVE  /\ job[n] \in Entries /\ job[n].id \in PaneIds /\ job[n].id \in Ids
             /\ job[n].index = n /\ captured[job[n].id] \in Signatures
             /\ captured[job[n].id].index = n
             /\ EntryOK(job[n], captured[job[n].id].seq)
  <2>1. job[n] \in Entries /\ job[n].id \in PaneIds
    BY <1>2 DEF Entries
  <2>2. /\ job[n].index = n /\ captured[job[n].id] # None /\ captured[job[n].id].index = n
        /\ EntryOK(job[n], captured[job[n].id].seq)
    BY <1>3 DEF Gathered
  <2>3. captured[job[n].id] \in Signatures
    BY <1>1, <2>1, <2>2 DEF SignatureMaps
  <2>4. job[n].id \in Ids
    BY <1>2 DEF Ids
  <2> QED BY <2>1, <2>2, <2>3, <2>4
<1>5. \A m, n \in 1..Len(job) : job[m].id = job[n].id => m = n
  BY <1>4
<1>6. \A p \in Ids : \E n \in 1..Len(job) : p = job[n].id
  BY <1>2 DEF Ids
<1>7. ASSUME NEW n \in 1..Len(job)
      PROVE  Entry(job[n].id) = job[n]
  <2>1. job[n] \in Range(job) /\ \A e \in Range(job) : \E m \in 1..Len(job) : e = job[m]
    BY <1>2 DEF Range
  <2>2. \A e \in Range(job) : e.id = job[n].id => e = job[n]
    BY <1>5, <2>1
  <2> QED BY <2>1, <2>2 DEF Entry
<1>8. \A p \in PaneIds : captured[p] # None => p \in Ids
  BY <1>3, <1>4 DEF Gathered
<1> QED BY <1>1, <1>2, <1>4, <1>5, <1>6, <1>7, <1>8

(* With the job the worker has each of its panes as far as captured. *)
LEMMA CachedAfter ==
    ASSUME CheckpointInv, job # None, NEW n \in 1..Len(job)
    PROVE  /\ CachedNow[job[n].id] = [index |-> n, record |-> NthRecord(n)]
           /\ NthRecord(n) \in SavedRecords
           /\ Taken(job[n].id, NthRecord(n), captured[job[n].id].seq)
           /\ job[n].record # None => NthRecord(n) = job[n].record /\ job[n].delta = <<>>
           /\ job[n].record = None =>
                /\ Current /\ cached[job[n].id] \in Copies /\ cached[job[n].id].index = n
                /\ NthRecord(n) = [cached[job[n].id].record EXCEPT !.tail = @ \o job[n].delta]
<1> DEFINE p == job[n].id
           e == job[n]
           seq == captured[p].seq
<1>1. /\ e \in Entries /\ p \in PaneIds /\ p \in Ids /\ e.index = n /\ captured[p] \in Signatures
      /\ EntryOK(e, seq) /\ Entry(p) = e /\ e.id = p
  BY JobEntries
<1>2. TypeOK /\ PanesOK
  BY DEF CheckpointInv
<1>3. seq \in Nat /\ e.record \in SavedRecords \cup {None} /\ e.delta \in Screens
  <2> HIDE DEF p, e
  <2> QED BY <1>1 DEF Signatures, Entries, seq
<1>4. CachedNow[p] = CASE p \in Ids /\ Entry(p).record # None ->
                            [index |-> Entry(p).index, record |-> Entry(p).record]
                       [] p \in Ids /\ Entry(p).record = None /\ cached[p] # None ->
                            [cached[p] EXCEPT !.record.tail = @ \o Entry(p).delta]
                       [] OTHER -> None
  <2> HIDE DEF p, e
  <2> QED BY <1>1 DEF CachedNow
<1> HIDE DEF p, e, seq
<1>5. CASE e.record # None
  <2>1. CachedNow[p] = [index |-> n, record |-> e.record]
    <3>1. p \in Ids /\ Entry(p) = e /\ e.index = n
      BY <1>1
    <3> QED BY <1>4, <1>5, <3>1
  <2>2. e.delta = <<>> /\ Taken(p, e.record, seq)
    BY <1>1, <1>5 DEF EntryOK
  <2>3. NthRecord(n) = e.record
    <3>1. CachedNow[p].record = e.record
      BY <2>1
    <3> QED BY <3>1, Zenon DEF NthRecord, p
  <2> QED BY <1>3, <1>5, <2>1, <2>2, <2>3 DEF p, e, seq
<1>6. CASE e.record = None
  <2> DEFINE from == seq - Len(e.delta)
             new == [cached[p].record EXCEPT !.tail = @ \o e.delta]
  <2>1. /\ Copied(p, n, from) /\ Len(e.delta) <= seq /\ Continues(e.delta, pane[p].screen, from)
    BY <1>1, <1>6 DEF EntryOK
  <2>2. Current /\ cached[p] # None /\ cached[p].index = n /\ Taken(p, cached[p].record, from)
    BY <2>1 DEF Copied
  <2>3. cached[p] \in Copies /\ cached[p].record \in SavedRecords
    BY <1>1, <1>2, <2>2 DEF TypeOK, Copies
  <2>4. Len(e.delta) \in Nat /\ from \in Nat /\ from + Len(e.delta) = seq
    BY <1>3, <2>1, Ranges
  <2>5. new \in SavedRecords /\ Taken(p, new, from + Len(e.delta))
    <3> HIDE DEF from, new
    <3>1. new = [cached[p].record EXCEPT !.tail = @ \o e.delta]
      BY DEF new
    <3> DEFINE rec == cached[p].record
    <3>2. /\ p \in PaneIds /\ rec \in SavedRecords /\ e.delta \in Screens /\ from \in Nat
          /\ Taken(p, rec, from) /\ Continues(e.delta, pane[p].screen, from)
          /\ new = [rec EXCEPT !.tail = @ \o e.delta]
      BY <1>1, <1>3, <2>1, <2>2, <2>3, <2>4, <3>1
    <3> HIDE DEF rec
    <3> QED BY <1>2, <3>2, TakenExtended
  <2>6. CachedNow[p] = [cached[p] EXCEPT !.record.tail = @ \o e.delta]
    BY <1>1, <1>4, <1>6, <2>2
  <2>7. CachedNow[p] = [index |-> n, record |-> new]
    <3> DEFINE c == cached[p]
    <3>1. c \in [index : Nat, record : SavedRecords] /\ c.index = n
      BY <2>2, <2>3 DEF Copies
    <3>2. CachedNow[p] = [c EXCEPT !.record = [c.record EXCEPT !.tail = @ \o e.delta]]
      BY <2>6
    <3> HIDE DEF c
    <3>3. CachedNow[p] = [index |-> n, record |-> [c.record EXCEPT !.tail = @ \o e.delta]]
      BY <3>1, <3>2
    <3> QED BY <3>3 DEF c
  <2>8. NthRecord(n) = new
    <3> HIDE DEF new
    <3>1. CachedNow[p].record = new
      BY <2>7
    <3> QED BY <3>1, Zenon DEF NthRecord, p
  <2> HIDE DEF from
  <2>9. Taken(p, new, seq)
    BY <2>4, <2>5, Zenon
  <2> QED BY <1>6, <2>2, <2>3, <2>5, <2>7, <2>8, <2>9, Zenon DEF p, e, seq
<1> QED BY <1>5, <1>6

(* The copies are at the positions of the panes in the job. *)
LEMMA Positions ==
    ASSUME CheckpointInv, job # None
    PROVE  /\ Indexes(Ids) = 1..Len(job)
           /\ \A n \in 1..Len(job) : At(n) = job[n].id
           /\ Base = [n \in 1..Len(job) |-> NthRecord(n)]
           /\ Transaction =
                [active |-> 1..Len(job),
                 replace |-> [n \in {k \in 1..Len(job) : job[k].record # None} |-> NthRecord(n)],
                 append |-> [n \in {k \in 1..Len(job) : job[k].delta # <<>>} |-> job[n].delta]]
<1>1. /\ \A n \in 1..Len(job) : job[n].id \in Ids /\ Entry(job[n].id) = job[n]
      /\ \A m, n \in 1..Len(job) : job[m].id = job[n].id => m = n
      /\ \A p \in Ids : \E n \in 1..Len(job) : p = job[n].id
  BY JobEntries
<1>2. \A n \in 1..Len(job) : CachedNow[job[n].id] = [index |-> n, record |-> NthRecord(n)]
  BY CachedAfter
<1>3. ASSUME NEW n \in 1..Len(job)
      PROVE  CachedNow[job[n].id].index = n
  <2>1. CachedNow[job[n].id] = [index |-> n, record |-> NthRecord(n)]
    BY <1>2
  <2> QED BY <2>1
<1>4. Indexes(Ids) = 1..Len(job)
  BY <1>1, <1>3 DEF Indexes
<1>5. Indexes({p \in Ids : Entry(p).record # None}) = {k \in 1..Len(job) : job[k].record # None}
  BY <1>1, <1>3 DEF Indexes
<1>6. Indexes({p \in Ids : Entry(p).delta # <<>>}) = {k \in 1..Len(job) : job[k].delta # <<>>}
  BY <1>1, <1>3 DEF Indexes
<1>7. ASSUME NEW n \in 1..Len(job)
      PROVE  At(n) = job[n].id
  <2>1. job[n].id \in Ids /\ CachedNow[job[n].id].index = n
    BY <1>1, <1>3
  <2>2. \A p \in Ids : CachedNow[p].index = n => p = job[n].id
    BY <1>1, <1>3
  <2> QED BY <2>1, <2>2 DEF At
<1>8. \A n \in 1..Len(job) : CachedNow[At(n)].record = NthRecord(n) /\ Entry(At(n)) = job[n]
  BY <1>1, <1>7 DEF NthRecord
<1>9. Base = [n \in 1..Len(job) |-> NthRecord(n)]
  BY <1>4, <1>8, Zenon DEF Base
<1>10. [n \in Indexes({p \in Ids : Entry(p).record # None}) |-> CachedNow[At(n)].record]
            = [n \in {k \in 1..Len(job) : job[k].record # None} |-> NthRecord(n)]
  BY <1>5, <1>8, Zenon
<1>11. [n \in Indexes({p \in Ids : Entry(p).delta # <<>>}) |-> Entry(At(n)).delta]
            = [n \in {k \in 1..Len(job) : job[k].delta # <<>>} |-> job[n].delta]
  BY <1>6, <1>8, Zenon
<1> QED BY <1>4, <1>7, <1>9, <1>10, <1>11, Zenon DEF Transaction

(* Whole or appended, the file then holds the record of every pane of the *)
(* job.                                                                   *)
LEMMA WrittenRecords ==
    ASSUME CheckpointInv, job # None
    PROVE  /\ Written = [recs |-> [n \in 1..Len(job) |-> NthRecord(n)], torn |-> FALSE]
           /\ ~IsFull => journaled < JournalLimit
<1> DEFINE all == [n \in 1..Len(job) |-> NthRecord(n)]
<1>1. CASE IsFull
  BY <1>1, Positions DEF Written, Document
<1>2. CASE ~IsFull
  <2> DEFINE replaces == {k \in 1..Len(job) : job[k].record # None}
             appends == {k \in 1..Len(job) : job[k].delta # <<>>}
             txn == [active |-> 1..Len(job),
                     replace |-> [n \in replaces |-> NthRecord(n)],
                     append |-> [n \in appends |-> job[n].delta]]
             replaced == [i \in DOMAIN txn.replace \cup DOMAIN file.recs |->
                            IF i \in DOMAIN txn.replace THEN txn.replace[i] ELSE file.recs[i]]
  <2>0. \A n \in 1..Len(job) :
          /\ job[n].record # None => NthRecord(n) = job[n].record /\ job[n].delta = <<>>
          /\ job[n].record = None =>
                /\ Current /\ cached[job[n].id] \in Copies /\ cached[job[n].id].index = n
                /\ NthRecord(n) = [cached[job[n].id].record EXCEPT !.tail = @ \o job[n].delta]
    BY CachedAfter, Zenon
  <2>1. Transaction = txn
    BY Positions
  <2>2. DOMAIN job = 1..Len(job) /\ \A n \in 1..Len(job) : job[n].delta \in Screens
    <3>1. DOMAIN job = 1..Len(job) /\ \A n \in 1..Len(job) : job[n] \in Entries
      BY JobEntries
    <3> QED BY <3>1 DEF Entries
  <2>3. PICK k \in 1..Len(job) : job[k].record = None
    BY <1>2, <2>2 DEF IsFull
  <2>4. ~file.torn /\ journaled < JournalLimit
    <3>1. Current
      BY <2>0, <2>3, Zenon
    <3> QED BY <3>1, Zenon DEF Current
  <2>5. file.recs # Corrupt /\ file.recs \in Seq(SavedRecords)
    BY DEF CheckpointInv, FileOK, TypeOK
  <2>6. DOMAIN txn.replace = replaces /\ DOMAIN txn.append = appends
    OBVIOUS
  <2>7. ASSUME NEW n \in 1..Len(job)
        PROVE  /\ n \in replaces =>
                    n \notin appends /\ n \in DOMAIN replaced /\ replaced[n] = NthRecord(n)
               /\ n \notin replaces =>
                    /\ n \in DOMAIN replaced /\ replaced[n] \in SavedRecords
                    /\ NthRecord(n) = [replaced[n] EXCEPT !.tail = @ \o job[n].delta]
    <3>1. CASE n \in replaces
      <4>1. NthRecord(n) = job[n].record /\ job[n].delta = <<>>
        <5>1. job[n].record # None
          BY <3>1
        <5> QED BY <2>0, <5>1, Zenon
      <4> QED BY <3>1, <4>1
    <3>2. CASE n \notin replaces
      <4> DEFINE p == job[n].id
      <4>1. /\ Current /\ cached[p] \in Copies /\ cached[p].index = n
            /\ NthRecord(n) = [cached[p].record EXCEPT !.tail = @ \o job[n].delta]
        <5>1. job[n].record = None
          BY <3>2
        <5> QED BY <2>0, <5>1, Zenon
      <4>2. p \in PaneIds /\ cached[p] # None
        BY <4>1, JobEntries, Constants
      <4>3. n \in 1..Len(file.recs) /\ file.recs[n] = cached[p].record
        BY <4>1, <4>2 DEF Current
      <4>4. n \in DOMAIN file.recs /\ cached[p].record \in SavedRecords
        BY <2>5, <4>1, <4>3 DEF Copies
      <4>5. n \in DOMAIN replaced /\ replaced[n] = cached[p].record
        BY <2>6, <3>2, <4>3, <4>4
      <4> HIDE DEF p, replaced
      <4>6. NthRecord(n) = [replaced[n] EXCEPT !.tail = @ \o job[n].delta]
        BY <4>1, <4>5, Zenon
      <4> HIDE DEF replaces
      <4> QED BY <3>2, <4>4, <4>5, <4>6, Zenon
    <3> HIDE DEF replaced, replaces, appends
    <3> QED BY <3>1, <3>2, Zenon
  <2>8. DOMAIN txn.append \cup txn.active \subseteq DOMAIN replaced
    <3> HIDE DEF replaced
    <3> QED BY <2>6, <2>7
  <2>9. Apply(file.recs, txn)
            = [i \in txn.active |-> IF i \in DOMAIN txn.append
                                    THEN [replaced[i] EXCEPT !.tail = @ \o txn.append[i]]
                                    ELSE replaced[i]]
    BY <2>8, Zenon DEF Apply
  <2> HIDE DEF replaced
  <2>10. ASSUME NEW n \in 1..Len(job)
         PROVE  NthRecord(n) = IF n \in appends
                               THEN [replaced[n] EXCEPT !.tail = @ \o job[n].delta]
                               ELSE replaced[n]
    <3>1. CASE n \in replaces
      BY <2>7, <3>1
    <3>2. CASE n \notin replaces /\ n \in appends
      BY <2>7, <3>2
    <3>3. CASE n \notin replaces /\ n \notin appends
      <4>1. job[n].delta = <<>>
        BY <3>3
      <4>2. /\ replaced[n] \in SavedRecords
            /\ NthRecord(n) = [replaced[n] EXCEPT !.tail = @ \o job[n].delta]
        BY <2>7, <3>3
      <4>3. replaced[n].tail \o <<>> = replaced[n].tail
        BY <4>2, RecordFields DEF Screens
      <4>4. [replaced[n] EXCEPT !.tail = @ \o <<>>] = replaced[n]
        BY <4>2, <4>3 DEF SavedRecords
      <4> QED BY <3>3, <4>1, <4>2, <4>4
    <3> QED BY <3>1, <3>2, <3>3
  <2>11. Apply(file.recs, txn) = all
    <3>1. txn.active = 1..Len(job) /\ \A n \in appends : txn.append[n] = job[n].delta
      OBVIOUS
    <3> HIDE DEF txn, appends
    <3> QED BY <2>6, <2>9, <2>10, <3>1
  <2>12. Written = [recs |-> all, torn |-> FALSE]
    <3> HIDE DEF all, txn
    <3> QED BY <1>2, <2>1, <2>4, <2>5, <2>11 DEF Written, AppendLine
  <2> QED BY <2>4, <2>12
<1> QED BY <1>1, <1>2

LEMMA CachedType ==
    ASSUME CheckpointInv, job # None
    PROVE  /\ CachedNow \in [PaneIds -> Copies \cup {None}]
           /\ \A p \in PaneIds : CachedNow[p] # None =>
                \E n \in 1..Len(job) : p = job[n].id /\ CachedNow[p].index = n
                                       /\ CachedNow[p].record = NthRecord(n)
<1>1. ASSUME NEW p \in PaneIds, CachedNow[p] # None
      PROVE  \E n \in 1..Len(job) : /\ p = job[n].id
                                    /\ CachedNow[p] = [index |-> n, record |-> NthRecord(n)]
                                    /\ CachedNow[p] \in Copies
  <2>1. p \in Ids
    BY <1>1 DEF CachedNow
  <2>2. PICK n \in 1..Len(job) : p = job[n].id
    BY <2>1, JobEntries
  <2>3. CachedNow[p] = [index |-> n, record |-> NthRecord(n)] /\ NthRecord(n) \in SavedRecords
    BY <2>2, CachedAfter
  <2>4. CachedNow[p] \in Copies
    BY <2>3 DEF Copies
  <2> QED BY <2>2, <2>3, <2>4
<1>2. CachedNow = [p \in PaneIds |-> CachedNow[p]]
  BY DEF CachedNow
<1>3. \A p \in PaneIds : CachedNow[p] \in Copies \cup {None}
  BY <1>1
<1>4. CachedNow \in [PaneIds -> Copies \cup {None}]
  BY <1>2, <1>3, Zenon
<1>5. ASSUME NEW p \in PaneIds, CachedNow[p] # None
      PROVE  \E n \in 1..Len(job) : p = job[n].id /\ CachedNow[p].index = n
                                    /\ CachedNow[p].record = NthRecord(n)
  <2>1. PICK n \in 1..Len(job) : p = job[n].id /\ CachedNow[p] = [index |-> n, record |-> NthRecord(n)]
    BY <1>1, <1>5
  <2>2. CachedNow[p].index = n /\ CachedNow[p].record = NthRecord(n)
    BY <2>1
  <2> QED BY <2>1, <2>2
<1> QED BY <1>4, <1>5

LEMMA JobKnown ==
    ASSUME CheckpointInv, job # None, NEW n \in 1..Len(job)
    PROVE  /\ RecordKnown(NthRecord(n), epoch, pane)
           /\ NewestSeq(Screen(NthRecord(n))) = captured[job[n].id].seq
           /\ Within(Screen(NthRecord(n)), pane[job[n].id].screen, FALSE)
<1> DEFINE p == job[n].id
           rec == NthRecord(n)
           seq == captured[p].seq
<1>1. TypeOK /\ PanesOK
  BY DEF CheckpointInv
<1>2. p \in PaneIds /\ rec \in SavedRecords /\ Taken(p, rec, seq)
  BY JobEntries, CachedAfter
<1> HIDE DEF p, rec, seq
<1>3. RecordKnown(rec, epoch, pane)
  BY <1>1, <1>2, TakenKnown
<1>4. NewestSeq(Screen(rec)) = seq /\ Within(Screen(rec), pane[p].screen, FALSE)
  BY <1>2 DEF Taken, TakenFrom, Within
<1> QED BY <1>3, <1>4 DEF p, rec, seq

LEMMA WorkDoneKeeps == CheckpointInv /\ WorkDone => CheckpointInv'
<1> SUFFICES ASSUME CheckpointInv, WorkDone PROVE CheckpointInv'
  OBVIOUS
<1>1. /\ job # None /\ cached' = CachedNow /\ job' = None /\ failures' = failures
      /\ result' = [ok |-> TRUE, compact |-> journaled' >= JournalLimit]
      /\ journaled' = IF IsFull THEN 0 ELSE journaled + 1
      /\ file' = Written
      /\ WorkUnchanged
  BY DEF WorkDone
<1>2. /\ up' = up /\ layout' = layout /\ nextPane' = nextPane /\ pane' = pane
      /\ capture' = capture /\ captured' = captured
      /\ pendingMark' = pendingMark /\ persistMark' = persistMark
      /\ workspace' = workspace /\ epoch' = epoch /\ changes' = changes
  BY <1>1 DEF WorkUnchanged, topology, plane
<1>3. TypeOK /\ PanesOK /\ TopologyOK /\ FileOK /\ PhaseOK /\ PlaneOK
  BY DEF CheckpointInv
<1>4. /\ job \in Jobs /\ Len(job) \in Nat
      /\ \A n \in 1..Len(job) : job[n].id \in PaneIds /\ captured[job[n].id].index = n
      /\ \A m, n \in 1..Len(job) : job[m].id = job[n].id => m = n
      /\ \A p \in PaneIds : captured[p] # None => \E n \in 1..Len(job) : p = job[n].id
  BY <1>1, JobEntries
<1> DEFINE recs == [n \in 1..Len(job) |-> NthRecord(n)]
<1>5. file' = [recs |-> recs, torn |-> FALSE] /\ (~IsFull => journaled < JournalLimit)
  BY <1>1, WrittenRecords
<1>6. \A n \in 1..Len(job) : NthRecord(n) \in SavedRecords
  BY <1>1, CachedAfter
<1>7. recs \in Seq(SavedRecords) /\ Len(recs) = Len(job)
      /\ \A n \in 1..Len(job) : recs[n] = NthRecord(n)
  <2>1. recs \in Seq(SavedRecords)
    BY <1>4, <1>6, IsASeq
  <2>2. Len(recs) = Len(job)
    BY <1>4
  <2> QED BY <2>1, <2>2
<1> HIDE DEF recs
<1>8. file'.recs = recs /\ file'.torn = FALSE /\ file' \in [recs : Seq(SavedRecords), torn : BOOLEAN]
  BY <1>5, <1>7
<1>9. journaled' \in 0..JournalLimit
  <2>1. journaled \in 0..JournalLimit /\ JournalLimit \in Nat
    BY <1>3, Constants DEF TypeOK
  <2> QED BY <1>1, <1>5, <2>1
<1>10. cached' \in [PaneIds -> Copies \cup {None}]
  BY <1>1, CachedType
<1>11. result'.ok /\ (result'.compact <=> journaled' >= JournalLimit) /\ result' \in Results
  <2>1. result' \in Results
    BY <1>1 DEF Results
  <2>2. result'.ok = TRUE /\ result'.compact = (journaled' >= JournalLimit)
    BY <1>1
  <2> QED BY <2>1, <2>2
<1>12. result' # None
  BY <1>11, Constants
<1>13. TypeOK'
  <2>1. job' \in Jobs \cup {None} /\ result' \in Results \cup {None}
        /\ file' \in [recs : Seq(SavedRecords) \cup {Corrupt}, torn : BOOLEAN]
    BY <1>1, <1>8, <1>11
  <2> QED BY <1>1, <1>2, <1>3, <1>9, <1>10, <2>1 DEF TypeOK
<1>14. PanesOK' /\ TopologyOK'
  BY <1>2, <1>3 DEF PanesOK, TopologyOK
<1>15. FileOK'
  <2>1. file'.recs # Corrupt
    BY <1>7, <1>8, Constants
  <2>2. \A n \in 1..Len(job) : RecordKnown(recs[n], epoch, pane)
    BY <1>1, <1>7, JobKnown
  <2> QED BY <1>2, <1>7, <1>8, <2>1, <2>2 DEF FileOK
<1>16. PhaseOK'
  BY <1>1, <1>2, <1>3, <1>12 DEF PhaseOK
<1>17. MarkSaved(pendingMark)'
  <2>1. JobOK
    BY <1>1, <1>3 DEF PlaneOK
  <2>2. /\ Len(pendingMark) = Len(job)
        /\ \A n \in 1..Len(job) : /\ pendingMark[n].pane = job[n].id
                                  /\ pendingMark[n].seq <= captured[job[n].id].seq
    BY <2>1 DEF JobOK, MarkGathered
  <2>3. ASSUME NEW n \in 1..Len(job)
        PROVE  /\ pendingMark[n].pane \in PaneIds
               /\ pendingMark[n].seq <= NewestSeq(Screen(recs[n]))
               /\ Within(Screen(recs[n]), pane[pendingMark[n].pane].screen, FALSE)
    <3>1. /\ NewestSeq(Screen(recs[n])) = captured[job[n].id].seq
          /\ Within(Screen(recs[n]), pane[job[n].id].screen, FALSE)
      BY <1>1, <1>7, JobKnown
    <3> QED BY <1>4, <2>2, <3>1
  <2> QED BY <1>2, <1>7, <1>8, <2>2, <2>3 DEF MarkSaved
<1>18. ~result'.compact => Synced(captured)'
  <2> SUFFICES ASSUME ~result'.compact PROVE Synced(captured)'
    OBVIOUS
  <2>1. journaled' < JournalLimit
    BY <1>9, <1>11, Constants
  <2>2. ASSUME NEW p \in PaneIds, cached'[p] # None
        PROVE  \E n \in 1..Len(job) : p = job[n].id /\ cached'[p].index = n /\ cached'[p].record = recs[n]
    <3>1. CachedNow[p] # None
      BY <1>1, <2>2
    <3>2. PICK n \in 1..Len(job) : p = job[n].id /\ CachedNow[p].index = n
                                   /\ CachedNow[p].record = NthRecord(n)
      BY <1>1, <3>1, CachedType
    <3> QED BY <1>1, <1>7, <3>2
  <2>3. Current'
    BY <1>4, <1>7, <1>8, <2>1, <2>2 DEF Current
  <2>4. ASSUME NEW p \in PaneIds, captured[p] # None
        PROVE  Copied(p, captured[p].index, captured[p].seq)'
    <3>1. PICK n \in 1..Len(job) : p = job[n].id
      BY <1>4, <2>4
    <3>2. /\ CachedNow[p] = [index |-> n, record |-> NthRecord(n)]
          /\ Taken(p, NthRecord(n), captured[p].seq)
      BY <1>1, <3>1, CachedAfter
    <3>3. cached'[p].index = n /\ cached'[p].record = NthRecord(n) /\ captured[p].index = n
      BY <1>1, <1>4, <3>1, <3>2
    <3>4. cached'[p] # None
      <4>1. NthRecord(n) \in SavedRecords
        BY <1>6
      <4>2. cached'[p] \in Copies
        BY <1>1, <1>4, <3>2, <4>1 DEF Copies
      <4> QED BY <4>2, Constants
    <3> QED BY <1>2, <2>3, <3>2, <3>3, <3>4 DEF Copied, Taken
  <2> QED BY <1>2, <2>4 DEF Synced
<1>19. PlaneOK'
  <2>1. AnswerOK'
    BY <1>17, <1>18 DEF AnswerOK
  <2>2. capture' = None
    BY <1>1, <1>2, <1>3 DEF PhaseOK
  <2> QED BY <1>1, <1>11, <1>12, <2>1, <2>2 DEF PlaneOK
<1> QED BY <1>13, <1>14, <1>15, <1>16, <1>19 DEF CheckpointInv

LEMMA WorkFailedKeeps == CheckpointInv /\ WorkFailed => CheckpointInv'
<1> SUFFICES ASSUME CheckpointInv, WorkFailed PROVE CheckpointInv'
  OBVIOUS
<1>1. /\ job # None /\ cached' = CachedNow /\ job' = None
      /\ failures < MaxFailures /\ failures' = failures + 1
      /\ result' = [ok |-> FALSE, compact |-> journaled >= JournalLimit]
      /\ journaled' = journaled
      /\ file' \in {file, AppendPart(file)}
      /\ WorkUnchanged
  BY DEF WorkFailed
<1>2. /\ up' = up /\ layout' = layout /\ nextPane' = nextPane /\ pane' = pane
      /\ capture' = capture /\ captured' = captured
      /\ pendingMark' = pendingMark /\ persistMark' = persistMark
      /\ workspace' = workspace /\ epoch' = epoch /\ changes' = changes
  BY <1>1 DEF WorkUnchanged, topology, plane
<1>3. TypeOK /\ PanesOK /\ TopologyOK /\ FileOK /\ PhaseOK /\ PlaneOK
  BY DEF CheckpointInv
<1>4. file'.recs = file.recs /\ file' \in [recs : Seq(SavedRecords) \cup {Corrupt}, torn : BOOLEAN]
  BY <1>1, <1>3 DEF AppendPart, TypeOK
<1>5. ~result'.ok /\ result' \in Results
  BY <1>1 DEF Results
<1>6. result' # None
  BY <1>5, Constants
<1>7. TypeOK'
  <2>1. cached' \in [PaneIds -> Copies \cup {None}]
    BY <1>1, CachedType
  <2>2. failures' \in 0..MaxFailures
    BY <1>1, <1>3, Constants DEF TypeOK
  <2> QED BY <1>1, <1>2, <1>3, <1>4, <1>5, <2>1, <2>2 DEF TypeOK
<1>8. PanesOK' /\ TopologyOK'
  BY <1>2, <1>3 DEF PanesOK, TopologyOK
<1>9. FileOK'
  BY <1>2, <1>3, <1>4 DEF FileOK
<1>10. PhaseOK'
  BY <1>1, <1>2, <1>3, <1>6 DEF PhaseOK
<1>11. MarkSaved(persistMark)'
  <2>1. MarkSaved(persistMark)
    BY <1>1, <1>3 DEF PlaneOK, PhaseOK
  <2> QED BY <1>2, <1>4, <2>1 DEF MarkSaved
<1>12. PlaneOK'
  <2>1. capture' = None
    BY <1>1, <1>2, <1>3 DEF PhaseOK
  <2> QED BY <1>1, <1>5, <1>6, <1>11, <2>1 DEF PlaneOK, AnswerOK
<1> QED BY <1>7, <1>8, <1>9, <1>10, <1>12 DEF CheckpointInv

-----------------------------------------------------------------------------
(* Panes that show more. *)

LEMMA Grows ==
    ASSUME NEW t \in Screens, Numbered(t), NEW f \in Frames, f.seq = NewestSeq(t) + 1
    PROVE  LET new == Append(t, f) IN
           /\ new \in Screens /\ Numbered(new) /\ new # <<>>
           /\ Before(new) = Before(t) /\ NewestSeq(new) = NewestSeq(t) + 1
           /\ Len(new) = Len(t) + 1
           /\ \A i \in 1..Len(t) : new[i] = t[i]
           /\ new[Len(t) + 1] = f
<1> DEFINE new == Append(t, f)
<1> SUFFICES /\ new \in Screens /\ Numbered(new) /\ new # <<>>
             /\ Before(new) = Before(t) /\ NewestSeq(new) = NewestSeq(t) + 1
             /\ Len(new) = Len(t) + 1
             /\ \A i \in 1..Len(t) : new[i] = t[i]
             /\ new[Len(t) + 1] = f
  OBVIOUS
<1>0. new = Append(t, f)
  OBVIOUS
<1> HIDE DEF new
<1>1. /\ new \in Screens /\ Len(new) = Len(t) + 1 /\ new # <<>>
      /\ \A i \in 1..Len(t) : new[i] = t[i]
      /\ new[Len(t) + 1] = f
  BY <1>0, Appended
<1>2. /\ Len(t) \in Nat /\ Before(t) \in Nat /\ NewestSeq(t) = Before(t) + Len(t)
      /\ (t = <<>> <=> Len(t) = 0) /\ \A i \in 1..Len(t) : t[i].seq = Before(t) + i
  BY Ranges DEF Numbered
<1>3. ASSUME NEW i \in 1..Len(new)
      PROVE  new[i].seq = Before(t) + i
  <2>1. i \in 1..Len(t) \/ i = Len(t) + 1
    BY <1>1, <1>2
  <2> QED BY <1>1, <1>2, <2>1
<1>4. Before(new) = Before(t)
  <2>1. 1 \in 1..Len(new)
    BY <1>1, <1>2
  <2>2. new[1].seq = Before(t) + 1
    BY <1>3, <2>1
  <2> QED BY <1>1, <1>2, <2>2 DEF Before
<1>5. Numbered(new)
  BY <1>3, <1>4 DEF Numbered
<1>6. NewestSeq(new) = Before(new) + Len(new)
  BY <1>1, <1>5, Ranges
<1> QED BY <1>1, <1>2, <1>4, <1>5, <1>6

(* new is t, or t with one more frame of this daemon. *)
Shows(p, new, t, e) ==
    \/ new = t
    \/ \E f \in Frames : /\ f.seq = NewestSeq(t) + 1 /\ f.born = e /\ f.pane = p
                         /\ new = Append(t, f)

LEMMA StillShown ==
    ASSUME NEW p \in PaneIds, NEW t \in Screens, Numbered(t), NEW e \in Epochs,
           NEW new, Shows(p, new, t, e)
    PROVE  /\ \A s \in Screens : \A whole : Within(s, t, whole) => Within(s, new, whole)
           /\ \A rec, seq : TakenFrom(t, e, rec, seq) => TakenFrom(new, e, rec, seq)
           /\ \A delta \in Screens, seq \in Nat :
                Continues(delta, t, seq) => Continues(delta, new, seq)
           /\ NewestSeq(t) \in Nat /\ NewestSeq(new) \in Nat /\ NewestSeq(t) <= NewestSeq(new)
           /\ BornOK(p, t, e) => BornOK(p, new, e)
<1>1. /\ Len(t) \in Nat /\ Before(t) \in Nat /\ NewestSeq(t) \in Nat
      /\ NewestSeq(t) = Before(t) + Len(t)
  BY Ranges
<1>2. CASE new = t
  BY <1>1, <1>2
<1>3. CASE new # t
  <2>1. PICK f \in Frames : /\ f.seq = NewestSeq(t) + 1 /\ f.born = e /\ f.pane = p
                            /\ new = Append(t, f)
    BY <1>3 DEF Shows
  <2>2. /\ new \in Screens /\ Numbered(new) /\ new # <<>>
        /\ Before(new) = Before(t) /\ NewestSeq(new) = NewestSeq(t) + 1
        /\ Len(new) = Len(t) + 1
        /\ \A i \in 1..Len(t) : new[i] = t[i]
        /\ new[Len(t) + 1] = f
    <3>1. f \in Frames /\ f.seq = NewestSeq(t) + 1 /\ new = Append(t, f)
      BY <2>1
    <3> QED BY <3>1, Grows
  <2>3. ASSUME NEW s \in Screens, NEW whole, Within(s, t, whole)
        PROVE  Within(s, new, whole)
    <3>1. /\ Before(t) <= Before(s) /\ (whole => Before(s) = Before(t))
          /\ Before(s) + Len(s) <= Before(t) + Len(t)
          /\ \A i \in 1..Len(s) : s[i] = t[Before(s) - Before(t) + i]
      BY <2>3 DEF Within
    <3>2. Len(s) \in Nat /\ Before(s) \in Nat
      BY Ranges
    <3>3. ASSUME NEW i \in 1..Len(s)
          PROVE  s[i] = new[Before(s) - Before(t) + i]
      <4>1. Before(s) - Before(t) + i \in 1..Len(t)
        BY <1>1, <3>1, <3>2
      <4> QED BY <2>2, <3>1, <4>1
    <3>4. Before(s) + Len(s) <= Before(new) + Len(new)
      BY <1>1, <2>2, <3>1, <3>2
    <3> QED BY <2>2, <3>1, <3>3, <3>4 DEF Within
  <2>4. ASSUME NEW rec, NEW seq, TakenFrom(t, e, rec, seq)
        PROVE  TakenFrom(new, e, rec, seq)
    <3>1. /\ RecordOK(rec) /\ Within(Screen(rec), t, rec.snapshot # None)
          /\ NewestSeq(Screen(rec)) = seq
          /\ \A j \in 1..Len(t) : t[j].seq >= seq => t[j].born = e
      BY <2>4 DEF TakenFrom
    <3>2. Within(Screen(rec), new, rec.snapshot # None)
      BY <2>3, <3>1 DEF RecordOK
    <3>3. ASSUME NEW j \in 1..Len(new), new[j].seq >= seq
          PROVE  new[j].born = e
      <4>1. j \in 1..Len(t) \/ j = Len(t) + 1
        BY <1>1, <2>2
      <4> QED BY <2>1, <2>2, <3>1, <3>3, <4>1
    <3> QED BY <3>1, <3>2, <3>3 DEF TakenFrom
  <2>5. ASSUME NEW delta \in Screens, NEW seq \in Nat, Continues(delta, t, seq)
        PROVE  Continues(delta, new, seq)
    <3>1. /\ Before(t) <= seq /\ seq + Len(delta) <= Before(t) + Len(t)
          /\ \A n \in 1..Len(delta) :
                delta[n] = t[seq - Before(t) + n] /\ delta[n].event = Output
      BY <2>5 DEF Continues
    <3>2. Len(delta) \in Nat
      BY Ranges
    <3>3. ASSUME NEW n \in 1..Len(delta)
          PROVE  delta[n] = new[seq - Before(t) + n]
      <4>1. seq - Before(t) + n \in 1..Len(t)
        <5>1. n \in Nat /\ n >= 1 /\ n <= Len(delta)
          BY <3>2
        <5> QED BY <1>1, <3>1, <3>2, <5>1
      <4> QED BY <2>2, <3>1, <4>1
    <3>4. seq + Len(delta) <= Before(new) + Len(new)
      BY <1>1, <2>2, <3>1, <3>2
    <3> QED BY <2>2, <3>1, <3>3, <3>4 DEF Continues
  <2>6. ASSUME BornOK(p, t, e)
        PROVE  BornOK(p, new, e)
    <3>1. \A i \in 1..Len(t) :
            /\ t[i].born <= e
            /\ t[i].born = e => t[i].pane = p
            /\ t[i].born = e => \A j \in i..Len(t) : t[j].born = e
      BY <2>6 DEF BornOK
    <3>2. e \in Nat
      BY Constants
    <3>3. ASSUME NEW i \in 1..Len(new)
          PROVE  /\ new[i].born <= e
                 /\ new[i].born = e => new[i].pane = p
                 /\ new[i].born = e => \A j \in i..Len(new) : new[j].born = e
      <4>1. CASE i = Len(t) + 1
        BY <1>1, <2>1, <2>2, <3>2, <4>1
      <4>2. CASE i # Len(t) + 1
        <5>1. i \in 1..Len(t) /\ new[i] = t[i]
          BY <1>1, <2>2, <4>2
        <5>2. ASSUME NEW j \in i..Len(new), new[i].born = e
              PROVE  new[j].born = e
          <6>1. CASE j = Len(t) + 1
            BY <2>1, <2>2, <6>1
          <6>2. CASE j # Len(t) + 1
            <7>1. j \in i..Len(t) /\ j \in 1..Len(t)
              BY <1>1, <2>2, <5>1, <6>2
            <7> QED BY <2>2, <3>1, <5>1, <5>2, <7>1
          <6> QED BY <6>1, <6>2
        <5> QED BY <3>1, <5>1, <5>2
      <4> QED BY <4>1, <4>2
    <3>4. new[Len(new)].born = e
      BY <2>1, <2>2
    <3> QED BY <3>3, <3>4 DEF BornOK
  <2> QED BY <1>1, <2>2, <2>3, <2>4, <2>5, <2>6
<1> QED BY <1>2, <1>3

(* What was captured and written stays right while the panes show more. *)
LEMMA PlaneKeeps ==
    ASSUME CheckpointInv, UNCHANGED <<plane, worker, file, epoch>>,
           \A p \in PaneIds : Shows(p, pane'[p].screen, pane[p].screen, epoch)
    PROVE  FileOK' /\ PlaneOK'
<1>1. /\ capture' = capture /\ captured' = captured
      /\ pendingMark' = pendingMark /\ persistMark' = persistMark
      /\ job' = job /\ result' = result /\ cached' = cached /\ journaled' = journaled
      /\ file' = file /\ epoch' = epoch
  BY DEF plane, worker
<1>2. TypeOK /\ PanesOK /\ FileOK /\ PlaneOK /\ epoch \in Epochs
  BY DEF CheckpointInv, TypeOK
<1>3. ASSUME NEW p \in PaneIds
      PROVE  /\ \A s \in Screens : \A whole :
                    Within(s, pane[p].screen, whole) => Within(s, pane'[p].screen, whole)
             /\ \A rec, seq : TakenFrom(pane[p].screen, epoch, rec, seq)
                                => TakenFrom(pane'[p].screen, epoch, rec, seq)
             /\ \A delta \in Screens, seq \in Nat :
                    Continues(delta, pane[p].screen, seq) => Continues(delta, pane'[p].screen, seq)
             /\ NewestSeq(pane[p].screen) \in Nat /\ NewestSeq(pane'[p].screen) \in Nat
             /\ NewestSeq(pane[p].screen) <= NewestSeq(pane'[p].screen)
  <2>1. pane[p].screen \in Screens /\ Numbered(pane[p].screen)
    BY <1>2, Panes
  <2> QED BY <1>2, <2>1, StillShown
<1>4. FileOK'
  <2>1. ASSUME NEW i \in 1..Len(file.recs)
        PROVE  RecordKnown(file.recs[i], epoch, pane')
    <3> DEFINE s == Screen(file.recs[i])
    <3>1. /\ RecordOK(file.recs[i]) /\ (\A n \in 1..Len(s) : s[n].born <= epoch)
          /\ (s # <<>> /\ Final(s).born = epoch =>
                NewestSeq(s) <= NewestSeq(pane[Final(s).pane].screen))
      BY <1>2 DEF FileOK, RecordKnown
    <3>2. s \in Screens
      BY <3>1 DEF RecordOK
    <3> HIDE DEF s
    <3>3. s # <<>> => Final(s).pane \in PaneIds /\ NewestSeq(s) \in Nat
      BY <3>2, FrameFields, Ranges DEF Final
    <3>4. s # <<>> /\ Final(s).born = epoch =>
            NewestSeq(s) <= NewestSeq(pane'[Final(s).pane].screen)
      BY <1>3, <3>1, <3>3
    <3> QED BY <3>1, <3>4 DEF RecordKnown, s
  <2> QED BY <1>1, <1>2, <2>1 DEF FileOK
<1>5. ASSUME NEW p \in PaneIds, NEW i, NEW seq, Copied(p, i, seq)
      PROVE  Copied(p, i, seq)'
  BY <1>1, <1>3, <1>5 DEF Copied, Current, Taken
<1>6. ASSUME NEW e \in Entries, NEW seq \in Nat, EntryOK(e, seq)
      PROVE  EntryOK(e, seq)'
  <2>1. e.id \in PaneIds /\ e.delta \in Screens /\ e.record \in SavedRecords \cup {None}
    BY DEF Entries
  <2>2. Newest(e.id, seq)'
    BY <1>1, <1>6 DEF EntryOK, Newest
  <2>3. ASSUME e.record # None
        PROVE  e.delta = <<>> /\ Taken(e.id, e.record, seq)'
    BY <1>1, <1>3, <1>6, <2>1, <2>3 DEF EntryOK, Taken
  <2>4. ASSUME e.record = None
        PROVE  /\ Copied(e.id, e.index, seq - Len(e.delta))'
               /\ Len(e.delta) <= seq
               /\ Continues(e.delta, pane'[e.id].screen, seq - Len(e.delta))
    <3>1. /\ Copied(e.id, e.index, seq - Len(e.delta)) /\ Len(e.delta) <= seq
          /\ Continues(e.delta, pane[e.id].screen, seq - Len(e.delta))
      BY <1>6, <2>4 DEF EntryOK
    <3>2. seq - Len(e.delta) \in Nat
      BY <2>1, <3>1, Ranges
    <3> QED BY <1>3, <1>5, <2>1, <3>1, <3>2
  <2> QED BY <2>2, <2>3, <2>4 DEF EntryOK
<1>7. ASSUME NEW es \in Jobs, NEW sigs \in SignatureMaps, Gathered(es, sigs)
      PROVE  Gathered(es, sigs)'
  <2>1. ASSUME NEW n \in 1..Len(es)
        PROVE  EntryOK(es[n], sigs[es[n].id].seq)'
    <3> DEFINE seq == sigs[es[n].id].seq
    <3>1. es[n] \in Entries /\ es[n].id \in PaneIds
      <4>1. es[n] \in Entries
        BY DEF Jobs
      <4> QED BY <4>1 DEF Entries
    <3>2. sigs[es[n].id] # None /\ EntryOK(es[n], seq)
      BY <1>7 DEF Gathered
    <3>3. seq \in Nat
      BY <3>1, <3>2 DEF SignatureMaps, Signatures
    <3> HIDE DEF seq
    <3>4. EntryOK(es[n], seq)'
      BY <1>6, <3>1, <3>2, <3>3
    <3> QED BY <3>4 DEF seq
  <2> QED BY <1>7, <2>1 DEF Gathered
<1>8. ASSUME NEW signatures \in SignatureMaps, Synced(signatures)
      PROVE  Synced(signatures)'
  BY <1>5, <1>8 DEF Synced
<1>9. ASSUME NEW mark, MarkSaved(mark)
      PROVE  MarkSaved(mark)'
  <2> SUFFICES ASSUME mark # Unmarked PROVE MarkSaved(mark)'
    BY DEF MarkSaved
  <2>1. ASSUME NEW i \in 1..Len(mark)
        PROVE  /\ mark[i].pane \in PaneIds
               /\ mark[i].seq <= NewestSeq(Screen(file.recs[i]))
               /\ Within(Screen(file.recs[i]), pane'[mark[i].pane].screen, FALSE)
    <3>1. /\ mark[i].pane \in PaneIds /\ mark[i].seq <= NewestSeq(Screen(file.recs[i]))
          /\ Within(Screen(file.recs[i]), pane[mark[i].pane].screen, FALSE)
          /\ Len(file.recs) = Len(mark)
      BY <1>9 DEF MarkSaved
    <3>2. Screen(file.recs[i]) \in Screens
      BY <1>2, <3>1 DEF FileOK, RecordKnown, RecordOK
    <3> QED BY <1>3, <3>1, <3>2
  <2> QED BY <1>1, <1>9, <2>1 DEF MarkSaved
<1>10. job' # None => JobOK'
  <2> SUFFICES ASSUME job # None PROVE JobOK'
    BY <1>1
  <2>1. job \in Jobs /\ captured \in SignatureMaps
    BY <1>2 DEF TypeOK
  <2>2. JobOK
    BY <1>2 DEF PlaneOK
  <2>3. Gathered(job, captured)'
    BY <1>1, <1>7, <2>1, <2>2 DEF JobOK
  <2> QED BY <1>1, <2>2, <2>3 DEF JobOK, MarkGathered
<1>11. capture' # None => CaptureOK'
  <2> SUFFICES ASSUME capture # None PROVE CaptureOK'
    BY <1>1
  <2>1. /\ capture.panes \in Jobs /\ capture.captured \in SignatureMaps
        /\ capture.layout \in Seq(PaneIds)
    BY <1>2 DEF TypeOK, Captures
  <2>2. CaptureOK
    BY <1>2 DEF PlaneOK
  <2>3. Gathered(capture.panes, capture.captured)'
    BY <1>1, <1>7, <2>1, <2>2 DEF CaptureOK
  <2>4. ASSUME NEW n \in 1..Len(capture.mark)
        PROVE  /\ capture.mark[n].pane = capture.layout[n]
               /\ capture.mark[n].seq <= NewestSeq(pane'[capture.layout[n]].screen)
    <3>1. /\ capture.mark[n].pane = capture.layout[n] /\ n \in 1..Len(capture.layout)
          /\ capture.mark[n].seq <= NewestSeq(pane[capture.layout[n]].screen)
      BY <2>2 DEF CaptureOK
    <3>2. capture.layout[n] \in PaneIds
      BY <2>1, <3>1
    <3>3. capture.mark[n].seq \in Nat
      <4>1. capture.mark \in Marks
        BY <1>2 DEF TypeOK, Captures
      <4>2. capture.mark[n] \in [pane : Nat, seq : Nat]
        BY <4>1, ElementOfSeq DEF Marks
      <4> QED BY <4>2
    <3> QED BY <1>3, <3>1, <3>2, <3>3
  <2> QED BY <1>1, <2>2, <2>3, <2>4 DEF CaptureOK, MarkGathered
<1>12. PlaneOK'
  <2>1. job' = None /\ result' = None => Synced(captured)'
    BY <1>1, <1>2, <1>8 DEF PlaneOK, TypeOK
  <2>2. result' # None => AnswerOK'
    BY <1>1, <1>2, <1>8, <1>9 DEF PlaneOK, AnswerOK, TypeOK
  <2>3. result' = None \/ ~result'.ok => MarkSaved(persistMark)'
    BY <1>1, <1>2, <1>9 DEF PlaneOK
  <2> QED BY <1>10, <1>11, <2>1, <2>2, <2>3 DEF PlaneOK
<1> QED BY <1>4, <1>12

LEMMA BusyKeeps ==
    ASSUME CheckpointInv, NEW p \in PaneIds, NEW event \in Events, Busy(p, event)
    PROVE  CheckpointInv' /\ Shows(p, pane'[p].screen, pane[p].screen, epoch)
           /\ pane'[p].screen # pane[p].screen
           /\ \A q \in PaneIds : q # p => pane'[q] = pane[q]
<1> DEFINE new == Feed(pane[p], p, event, epoch)
<1>1. /\ up' = up /\ layout' = layout /\ nextPane' = nextPane
      /\ capture' = capture /\ captured' = captured
      /\ pendingMark' = pendingMark /\ persistMark' = persistMark
      /\ job' = job /\ result' = result /\ cached' = cached /\ journaled' = journaled
      /\ file' = file /\ workspace' = workspace
      /\ epoch' = epoch /\ changes' = changes /\ failures' = failures
      /\ pane' = [pane EXCEPT ![p] = new]
  BY DEF Busy, topology, plane, worker, bounds
<1>2. TypeOK /\ PanesOK /\ TopologyOK /\ PhaseOK /\ epoch \in Epochs
  BY DEF CheckpointInv, TypeOK
<1>3. /\ pane[p] \in LivePanes /\ LogOK(pane[p]) /\ pane[p].screen \in Screens
      /\ BornOK(p, pane[p].screen, epoch) /\ Numbered(pane[p].screen)
  BY <1>2, Panes
<1> DEFINE f == Frame(p, pane[p].log.next, event, epoch)
<1>4. /\ new \in LivePanes /\ LogOK(new) /\ f \in Frames /\ new.screen = Append(pane[p].screen, f)
  BY <1>2, <1>3, Fed
<1>5. f.seq = NewestSeq(pane[p].screen) + 1 /\ f.pane = p /\ f.born = epoch
  BY <1>3 DEF Frame, LogOK
<1> HIDE DEF new, f
<1>6. Shows(p, new.screen, pane[p].screen, epoch)
  BY <1>4, <1>5 DEF Shows
<1>7. pane' \in [PaneIds -> LivePanes] /\ pane'[p] = new
      /\ \A q \in PaneIds : q # p => pane'[q] = pane[q]
  BY <1>1, <1>2, <1>4 DEF TypeOK
<1>8. \A q \in PaneIds : Shows(q, pane'[q].screen, pane[q].screen, epoch)
  BY <1>6, <1>7 DEF Shows
<1>9. TypeOK'
  BY <1>1, <1>2, <1>7 DEF TypeOK
<1>10. PanesOK'
  <2>1. BornOK(p, new.screen, epoch)
    BY <1>2, <1>3, <1>6, StillShown
  <2>2. ASSUME NEW q \in PaneIds
        PROVE  LogOK(pane'[q]) /\ BornOK(q, pane'[q].screen, epoch)
    BY <1>2, <1>4, <1>7, <2>1 DEF PanesOK
  <2> QED BY <1>1, <2>2 DEF PanesOK
<1>11. TopologyOK' /\ PhaseOK'
  BY <1>1, <1>2 DEF TopologyOK, PhaseOK
<1>12. FileOK' /\ PlaneOK'
  BY <1>1, <1>8, PlaneKeeps DEF plane, worker
<1>13. new.screen # pane[p].screen
  BY <1>3, <1>4, Appended
<1> QED BY <1>6, <1>7, <1>9, <1>10, <1>11, <1>12, <1>13 DEF CheckpointInv

(* What only moves panes leaves the checkpoints alone. *)
LEMMA LayoutKeeps ==
    ASSUME CheckpointInv, up' = up,
           UNCHANGED <<pane, plane, worker, file, epoch>>,
           layout' \in Seq(PaneIds), nextPane' \in 1..(MaxPanes + 1),
           workspace' \in Seq(PaneIds) \X (1..(MaxPanes + 1)),
           changes' \in 0..MaxChanges, failures' \in 0..MaxFailures,
           TopologyOK'
    PROVE  CheckpointInv'
<1>1. /\ up' = up /\ pane' = pane /\ capture' = capture /\ captured' = captured
      /\ pendingMark' = pendingMark /\ persistMark' = persistMark
      /\ job' = job /\ result' = result /\ cached' = cached /\ journaled' = journaled
      /\ file' = file /\ epoch' = epoch
  BY DEF plane, worker
<1>2. TypeOK /\ PanesOK /\ PhaseOK
  BY DEF CheckpointInv
<1>3. TypeOK'
  BY <1>1, <1>2 DEF TypeOK
<1>4. PanesOK' /\ PhaseOK'
  BY <1>1, <1>2 DEF PanesOK, PhaseOK
<1>5. \A p \in PaneIds : Shows(p, pane'[p].screen, pane[p].screen, epoch)
  BY <1>1 DEF Shows
<1>6. FileOK' /\ PlaneOK'
  BY <1>5, PlaneKeeps
<1> QED BY <1>3, <1>4, <1>6 DEF CheckpointInv

LEMMA RearrangeKeeps ==
    ASSUME CheckpointInv, NEW panes \in Seq(PaneIds), NEW next \in 1..(MaxPanes + 1),
           Rearrange(panes, next),
           \A m, n \in 1..Len(panes) : panes[m] = panes[n] => m = n,
           \A n \in 1..Len(panes) : panes[n] < next
    PROVE  CheckpointInv'
<1>1. /\ up' = up /\ changes < MaxChanges /\ changes' = changes + 1
      /\ layout' = panes /\ nextPane' = next /\ workspace' = workspace
      /\ failures' = failures
      /\ UNCHANGED <<pane, plane, worker, file, epoch>>
  BY DEF Rearrange
<1>2. TypeOK /\ TopologyOK
  BY DEF CheckpointInv
<1>3. changes' \in 0..MaxChanges
  BY <1>1, <1>2, Constants DEF TypeOK
<1>4. DOMAIN panes = 1..Len(panes)
  OBVIOUS
<1>5. TopologyOK'
  BY <1>1, <1>2, <1>4 DEF TopologyOK, IsInjective
<1> QED BY <1>1, <1>2, <1>3, <1>5, LayoutKeeps DEF TypeOK

LEMMA Lists ==
    ASSUME NEW s \in Seq(PaneIds), NEW t \in Seq(PaneIds)
    PROVE  /\ s \o t \in Seq(PaneIds)
           /\ Len(s \o t) = Len(s) + Len(t)
           /\ \A i \in 1..Len(s) : (s \o t)[i] = s[i]
           /\ \A i \in 1..Len(t) : (s \o t)[Len(s) + i] = t[i]
OBVIOUS

LEMMA Sublist ==
    ASSUME NEW s \in Seq(PaneIds), NEW a \in Nat, NEW b \in Nat, a <= b, b <= Len(s)
    PROVE  /\ SubSeq(s, a + 1, b) \in Seq(PaneIds)
           /\ Len(SubSeq(s, a + 1, b)) = b - a
           /\ \A i \in 1..(b - a) : SubSeq(s, a + 1, b)[i] = s[a + i]
<1>1. Len(s) \in Nat /\ \A i \in (a + 1)..b : s[i] \in PaneIds
  OBVIOUS
<1>2. /\ SubSeq(s, a + 1, b) \in Seq(PaneIds)
      /\ Len(SubSeq(s, a + 1, b)) = IF a + 1 <= b THEN b - (a + 1) + 1 ELSE 0
      /\ \A i \in 1..(b - (a + 1) + 1) : SubSeq(s, a + 1, b)[i] = s[(a + 1) + i - 1]
  BY <1>1, SubSeqProperties
<1>3. \A i \in 1..(b - a) : (a + 1) + i - 1 = a + i /\ i \in 1..(b - (a + 1) + 1)
  OBVIOUS
<1> QED BY <1>2, <1>3

LEMMA AddPaneKeeps == CheckpointInv /\ AddPane => CheckpointInv'
<1> SUFFICES ASSUME CheckpointInv, AddPane PROVE CheckpointInv'
  OBVIOUS
<1>1. nextPane <= MaxPanes /\ nextPane \in 1..(MaxPanes + 1) /\ nextPane \in PaneIds
      /\ nextPane + 1 \in 1..(MaxPanes + 1)
  BY Constants DEF CheckpointInv, TypeOK, AddPane, PaneIds
<1>0. (\A q \in PaneIds : q \in Nat) /\ nextPane \in Nat
  BY <1>1, Constants
<1>2. PICK i \in 0..Len(layout) : Rearrange(InsertAt(layout, i + 1, nextPane), nextPane + 1)
  BY DEF AddPane
<1>3. /\ layout \in Seq(PaneIds) /\ Len(layout) \in Nat
      /\ \A n \in 1..Len(layout) : layout[n] \in PaneIds
      /\ \A m, n \in 1..Len(layout) : layout[m] = layout[n] => m = n
      /\ \A n \in 1..Len(layout) : layout[n] < nextPane
  BY LayoutElements DEF CheckpointInv, TypeOK, TopologyOK
<1> DEFINE before == SubSeq(layout, 1, i)
           after == SubSeq(layout, i + 1, Len(layout))
           panes == (before \o <<nextPane>>) \o after
<1>4. InsertAt(layout, i + 1, nextPane) = panes
  <2>1. (i + 1) - 1 = i
    OBVIOUS
  <2> QED BY <2>1 DEF InsertAt
<1>5. /\ before \in Seq(PaneIds) /\ Len(before) = i
      /\ \A n \in 1..i : before[n] = layout[n]
  BY <1>3
<1>6. /\ after \in Seq(PaneIds) /\ Len(after) = Len(layout) - i
      /\ \A n \in 1..(Len(layout) - i) : after[n] = layout[i + n]
  BY <1>3
<1> HIDE DEF before, after
<1>7. /\ before \o <<nextPane>> \in Seq(PaneIds) /\ Len(before \o <<nextPane>>) = i + 1
      /\ \A n \in 1..i : (before \o <<nextPane>>)[n] = layout[n]
      /\ (before \o <<nextPane>>)[i + 1] = nextPane
  BY <1>1, <1>5
<1>8. /\ panes \in Seq(PaneIds) /\ Len(panes) = Len(layout) + 1
      /\ \A n \in 1..i : panes[n] = layout[n]
      /\ panes[i + 1] = nextPane
      /\ \A n \in (i + 2)..(Len(layout) + 1) : panes[n] = layout[n - 1]
  <2>1. /\ panes \in Seq(PaneIds) /\ Len(panes) = (i + 1) + (Len(layout) - i)
        /\ \A n \in 1..(i + 1) : panes[n] = (before \o <<nextPane>>)[n]
        /\ \A n \in 1..(Len(layout) - i) : panes[(i + 1) + n] = after[n]
    <3> DEFINE first == before \o <<nextPane>>
    <3>1. first \in Seq(PaneIds) /\ after \in Seq(PaneIds)
          /\ Len(first) = i + 1 /\ Len(after) = Len(layout) - i
      BY <1>6, <1>7
    <3> HIDE DEF first
    <3>2. /\ first \o after \in Seq(PaneIds)
          /\ Len(first \o after) = Len(first) + Len(after)
          /\ \A n \in 1..Len(first) : (first \o after)[n] = first[n]
          /\ \A n \in 1..Len(after) : (first \o after)[Len(first) + n] = after[n]
      BY <3>1, Lists
    <3> QED BY <3>1, <3>2 DEF first
  <2>2. \A n \in (i + 2)..(Len(layout) + 1) : panes[n] = layout[n - 1]
    <3> HIDE DEF panes
    <3>1. TAKE n \in (i + 2)..(Len(layout) + 1)
    <3>2. n - (i + 1) \in 1..(Len(layout) - i) /\ (i + 1) + (n - (i + 1)) = n
          /\ i + (n - (i + 1)) = n - 1
      BY <1>3
    <3>3. panes[n] = after[n - (i + 1)] /\ after[n - (i + 1)] = layout[n - 1]
      BY <1>6, <2>1, <3>2
    <3> QED BY <3>3
  <2> HIDE DEF panes
  <2> QED BY <1>3, <1>7, <2>1, <2>2
<1> HIDE DEF panes
<1>9. \A n \in 1..Len(panes) : panes[n] <= nextPane /\ (panes[n] = nextPane <=> n = i + 1)
  <2>1. TAKE n \in 1..Len(panes)
  <2>2. CASE n \in 1..i
    <3>1. panes[n] = layout[n] /\ layout[n] < nextPane /\ layout[n] \in PaneIds
      BY <1>3, <1>8, <2>2
    <3>2. panes[n] \in Nat /\ nextPane \in Nat /\ n # i + 1
      BY <1>0, <2>2, <3>1
    <3> QED BY <3>1, <3>2
  <2>3. CASE n = i + 1
    BY <1>1, <1>8, <2>3
  <2>4. CASE n \in (i + 2)..(Len(layout) + 1)
    <3>1. panes[n] = layout[n - 1] /\ n - 1 \in 1..Len(layout)
      BY <1>3, <1>8, <2>4
    <3>2. layout[n - 1] < nextPane /\ layout[n - 1] \in PaneIds
      BY <1>3, <3>1
    <3>3. panes[n] \in Nat /\ nextPane \in Nat /\ n # i + 1
      BY <1>0, <2>4, <3>1, <3>2
    <3> QED BY <3>1, <3>2, <3>3
  <2> QED BY <1>3, <1>8, <2>2, <2>3, <2>4
<1>10. ASSUME NEW m \in 1..Len(panes), NEW n \in 1..Len(panes), panes[m] = panes[n]
       PROVE  m = n
  <2> DEFINE at(k) == IF k <= i THEN k ELSE k - 1
  <2>1. CASE panes[m] = nextPane
    BY <1>9, <1>10, <2>1
  <2>2. CASE panes[m] # nextPane
    <3>1. m # i + 1 /\ n # i + 1
      BY <1>9, <1>10, <2>2
    <3>2. panes[m] = layout[at(m)] /\ at(m) \in 1..Len(layout)
      BY <1>3, <1>8, <3>1
    <3>3. panes[n] = layout[at(n)] /\ at(n) \in 1..Len(layout)
      BY <1>3, <1>8, <3>1
    <3>4. at(m) = at(n)
      BY <1>3, <1>10, <3>2, <3>3
    <3> QED BY <1>3, <1>8, <3>1, <3>4
  <2> QED BY <2>1, <2>2
<1>11. ASSUME NEW n \in 1..Len(panes)
       PROVE  panes[n] < nextPane + 1
  <2>1. panes[n] \in PaneIds /\ panes[n] <= nextPane
    BY <1>8, <1>9
  <2> QED BY <1>0, <2>1
<1> QED BY <1>1, <1>2, <1>4, <1>8, <1>10, <1>11, RearrangeKeeps

LEMMA RemovePaneKeeps == CheckpointInv /\ RemovePane => CheckpointInv'
<1> SUFFICES ASSUME CheckpointInv, RemovePane PROVE CheckpointInv'
  OBVIOUS
<1>1. /\ layout \in Seq(PaneIds) /\ Len(layout) \in Nat /\ DOMAIN layout = 1..Len(layout)
      /\ \A m, n \in 1..Len(layout) : layout[m] = layout[n] => m = n
      /\ \A n \in 1..Len(layout) : layout[n] < nextPane
      /\ nextPane \in 1..(MaxPanes + 1)
  BY LayoutElements DEF CheckpointInv, TypeOK, TopologyOK
<1>2. PICK i \in 1..Len(layout) : Rearrange(RemoveAt(layout, i), nextPane)
  BY <1>1 DEF RemovePane
<1> DEFINE before == SubSeq(layout, 1, i - 1)
           after == SubSeq(layout, i + 1, Len(layout))
           panes == before \o after
<1>3. RemoveAt(layout, i) = panes
  BY DEF RemoveAt
<1>4. /\ before \in Seq(PaneIds) /\ Len(before) = i - 1
      /\ \A n \in 1..(i - 1) : before[n] = layout[n]
  <2> DEFINE k == i - 1
  <2>1. layout \in Seq(PaneIds) /\ k \in Nat /\ k <= Len(layout) /\ 0 \in Nat /\ 0 <= k
    BY <1>1
  <2> HIDE DEF k
  <2>2. /\ SubSeq(layout, 0 + 1, k) \in Seq(PaneIds)
        /\ Len(SubSeq(layout, 0 + 1, k)) = k - 0
        /\ \A n \in 1..(k - 0) : SubSeq(layout, 0 + 1, k)[n] = layout[0 + n]
    BY <2>1, Sublist, Zenon
  <2>3. before = SubSeq(layout, 0 + 1, k) /\ k - 0 = k
    BY <2>1 DEF k
  <2> QED BY <2>2, <2>3 DEF k
<1>5. /\ after \in Seq(PaneIds) /\ Len(after) = Len(layout) - i
      /\ \A n \in 1..(Len(layout) - i) : after[n] = layout[i + n]
  <2>1. layout \in Seq(PaneIds)
        /\ i \in Nat /\ i <= Len(layout) /\ Len(layout) \in Nat /\ Len(layout) <= Len(layout)
    BY <1>1
  <2> QED BY <2>1, Sublist, Zenon
<1> HIDE DEF before, after
<1>6. /\ panes \in Seq(PaneIds) /\ Len(panes) = Len(layout) - 1
      /\ \A n \in 1..(i - 1) : panes[n] = layout[n]
      /\ \A n \in i..(Len(layout) - 1) : panes[n] = layout[n + 1]
  <2>1. /\ panes \in Seq(PaneIds) /\ Len(panes) = (i - 1) + (Len(layout) - i)
        /\ \A n \in 1..(i - 1) : panes[n] = before[n]
        /\ \A n \in 1..(Len(layout) - i) : panes[(i - 1) + n] = after[n]
    <3>1. /\ before \o after \in Seq(PaneIds)
          /\ Len(before \o after) = Len(before) + Len(after)
          /\ \A n \in 1..Len(before) : (before \o after)[n] = before[n]
          /\ \A n \in 1..Len(after) : (before \o after)[Len(before) + n] = after[n]
      BY <1>4, <1>5, Lists
    <3> QED BY <1>4, <1>5, <3>1
  <2> HIDE DEF panes
  <2>2. \A n \in i..(Len(layout) - 1) : panes[n] = layout[n + 1]
    <3>1. TAKE n \in i..(Len(layout) - 1)
    <3>2. n - (i - 1) \in 1..(Len(layout) - i) /\ (i - 1) + (n - (i - 1)) = n
          /\ i + (n - (i - 1)) = n + 1
      BY <1>1
    <3>3. panes[n] = after[n - (i - 1)] /\ after[n - (i - 1)] = layout[n + 1]
      BY <1>5, <2>1, <3>2
    <3> QED BY <3>3
  <2> QED BY <1>1, <1>4, <2>1, <2>2
<1> HIDE DEF panes
<1> DEFINE at(k) == IF k <= i - 1 THEN k ELSE k + 1
<1>7. \A n \in 1..Len(panes) : panes[n] = layout[at(n)] /\ at(n) \in 1..Len(layout)
  BY <1>1, <1>6
<1>8. ASSUME NEW m \in 1..Len(panes), NEW n \in 1..Len(panes), panes[m] = panes[n]
      PROVE  m = n
  <2>1. at(m) = at(n)
    BY <1>1, <1>7, <1>8
  <2> QED BY <1>1, <1>6, <2>1
<1>9. \A n \in 1..Len(panes) : panes[n] < nextPane
  BY <1>1, <1>7
<1> QED BY <1>1, <1>2, <1>3, <1>6, <1>8, <1>9, RearrangeKeeps

LEMMA SwapPanesKeeps == CheckpointInv /\ SwapPanes => CheckpointInv'
<1> SUFFICES ASSUME CheckpointInv, SwapPanes PROVE CheckpointInv'
  OBVIOUS
<1>1. /\ layout \in Seq(PaneIds) /\ Len(layout) \in Nat /\ DOMAIN layout = 1..Len(layout)
      /\ \A m, n \in 1..Len(layout) : layout[m] = layout[n] => m = n
      /\ \A n \in 1..Len(layout) : layout[n] < nextPane /\ layout[n] \in PaneIds
      /\ nextPane \in 1..(MaxPanes + 1)
  BY LayoutElements DEF CheckpointInv, TypeOK, TopologyOK
<1>2. PICK i \in 1..Len(layout), j \in 1..Len(layout) :
        /\ i < j
        /\ Rearrange([layout EXCEPT ![i] = layout[j], ![j] = layout[i]], nextPane)
  BY <1>1 DEF SwapPanes
<1> DEFINE panes == [layout EXCEPT ![i] = layout[j], ![j] = layout[i]]
           at(k) == IF k = i THEN j ELSE IF k = j THEN i ELSE k
<1>3. /\ panes \in Seq(PaneIds) /\ Len(panes) = Len(layout)
  BY <1>1
<1>4. \A n \in 1..Len(panes) : panes[n] = layout[at(n)] /\ at(n) \in 1..Len(layout)
  BY <1>1, <1>2, <1>3
<1> HIDE DEF panes
<1>5. ASSUME NEW m \in 1..Len(panes), NEW n \in 1..Len(panes), panes[m] = panes[n]
      PROVE  m = n
  <2>1. at(m) = at(n)
    BY <1>1, <1>4, <1>5
  <2> QED BY <1>2, <2>1
<1>6. \A n \in 1..Len(panes) : panes[n] < nextPane
  BY <1>1, <1>4
<1>7. Rearrange(panes, nextPane)
  BY <1>2 DEF panes
<1> QED BY <1>1, <1>3, <1>5, <1>6, <1>7, RearrangeKeeps

LEMMA SaveWorkspaceKeeps == CheckpointInv /\ SaveWorkspace => CheckpointInv'
<1> SUFFICES ASSUME CheckpointInv, SaveWorkspace PROVE CheckpointInv'
  OBVIOUS
<1>1. /\ up' = up /\ layout' = layout /\ nextPane' = nextPane
      /\ workspace' = <<layout, nextPane>>
      /\ changes' = changes /\ failures' = failures
      /\ UNCHANGED <<pane, plane, worker, file, epoch>>
  BY DEF SaveWorkspace, topology, bounds
<1>2. TypeOK /\ TopologyOK
  BY DEF CheckpointInv
<1>3. TopologyOK'
  BY <1>1, <1>2 DEF TopologyOK
<1>4. workspace' \in Seq(PaneIds) \X (1..(MaxPanes + 1))
  BY <1>1, <1>2 DEF TypeOK
<1> QED BY <1>1, <1>2, <1>3, <1>4, LayoutKeeps DEF TypeOK

-----------------------------------------------------------------------------
(* The daemon ends and starts. *)

LEMMA StopKeeps ==
    ASSUME CheckpointInv, Stop, failures' \in 0..MaxFailures,
           file' \in [recs : Seq(SavedRecords), torn : BOOLEAN],
           \A i \in 1..Len(file'.recs) : RecordKnown(file'.recs[i], epoch, pane)
    PROVE  CheckpointInv'
<1>1. /\ up' = FALSE /\ layout' = layout /\ nextPane' = nextPane /\ pane' = pane
      /\ capture' = None /\ captured' = NotCaptured
      /\ pendingMark' = None /\ persistMark' = Unmarked
      /\ job' = None /\ result' = None
      /\ cached' = [p \in PaneIds |-> None] /\ journaled' = 0
      /\ workspace' = workspace /\ epoch' = epoch /\ changes' = changes
      /\ epoch < MaxRestarts
  BY DEF Stop, topology
<1>2. TypeOK /\ PanesOK /\ TopologyOK
  BY DEF CheckpointInv
<1>3. Unmarked \in Marks
  <2>1. [pane |-> 0, seq |-> 0] \in [pane : Nat, seq : Nat]
    OBVIOUS
  <2> QED BY <2>1 DEF Unmarked, Marks
<1>4. TypeOK'
  <2>1. cached' \in [PaneIds -> Copies \cup {None}] /\ journaled' \in 0..JournalLimit
    BY <1>1, Constants
  <2>2. file' \in [recs : Seq(SavedRecords) \cup {Corrupt}, torn : BOOLEAN]
    OBVIOUS
  <2>3. captured' \in SignatureMaps
    BY <1>1, NothingCaptured
  <2> QED BY <1>1, <1>2, <1>3, <2>1, <2>2, <2>3 DEF TypeOK
<1>5. PanesOK' /\ TopologyOK'
  BY <1>1, <1>2 DEF PanesOK, TopologyOK
<1>6. FileOK'
  <2>1. file'.recs # Corrupt
    BY Constants
  <2> QED BY <1>1, <2>1 DEF FileOK
<1>7. PhaseOK'
  BY <1>1 DEF PhaseOK
<1>8. PlaneOK'
  <2>1. \A p \in PaneIds : captured'[p] = None
    BY <1>1 DEF NotCaptured
  <2>2. Synced(captured)'
    BY <2>1 DEF Synced
  <2>3. MarkSaved(persistMark)'
    BY <1>1 DEF MarkSaved, Unmarked
  <2> QED BY <1>1, <2>2, <2>3 DEF PlaneOK
<1> QED BY <1>4, <1>5, <1>6, <1>7, <1>8 DEF CheckpointInv

LEMMA CrashKeeps == CheckpointInv /\ Crash => CheckpointInv' /\ file'.recs = file.recs
<1> SUFFICES ASSUME CheckpointInv, Crash PROVE CheckpointInv' /\ file'.recs = file.recs
  OBVIOUS
<1>1. Stop /\ failures' = failures /\ file' \in {file, AppendPart(file)}
  BY DEF Crash
<1>2. /\ file \in [recs : Seq(SavedRecords) \cup {Corrupt}, torn : BOOLEAN]
      /\ failures \in 0..MaxFailures /\ FileOK
  BY DEF CheckpointInv, TypeOK
<1>3. file'.recs = file.recs /\ file' \in [recs : Seq(SavedRecords), torn : BOOLEAN]
  <2>1. file.recs \in Seq(SavedRecords)
    BY <1>2 DEF FileOK
  <2>2. AppendPart(file).recs = file.recs
        /\ AppendPart(file) \in [recs : Seq(SavedRecords), torn : BOOLEAN]
    BY <1>2, <2>1 DEF AppendPart
  <2>3. file \in [recs : Seq(SavedRecords), torn : BOOLEAN]
    BY <1>2, <2>1
  <2> QED BY <1>1, <2>2, <2>3
<1>4. \A i \in 1..Len(file'.recs) : RecordKnown(file'.recs[i], epoch, pane)
  BY <1>2, <1>3 DEF FileOK
<1> QED BY <1>1, <1>2, <1>3, <1>4, StopKeeps

(* What flush_pane_logs writes. *)
FullRecords(exported) == [i \in DOMAIN layout |-> FullRecord(layout[i], exported)]

LEMMA FullRecordsKnown ==
    ASSUME CheckpointInv, NEW exported \in BOOLEAN
    PROVE  /\ FullRecords(exported) \in Seq(SavedRecords)
           /\ Len(FullRecords(exported)) = Len(layout)
           /\ \A i \in 1..Len(layout) :
                /\ layout[i] \in PaneIds
                /\ FullRecords(exported)[i] \in SavedRecords
                /\ RecordKnown(FullRecords(exported)[i], epoch, pane)
                /\ Taken(layout[i], FullRecords(exported)[i], NewestSeq(pane[layout[i]].screen))
<1>1. TypeOK /\ PanesOK /\ TopologyOK
  BY DEF CheckpointInv
<1>2. /\ Len(layout) \in Nat /\ DOMAIN layout = 1..Len(layout)
      /\ \A i \in 1..Len(layout) : layout[i] \in PaneIds
  BY <1>1, LayoutElements
<1>3. FullRecords(exported) = [i \in 1..Len(layout) |-> FullRecord(layout[i], exported)]
  BY <1>2 DEF FullRecords
<1>4. ASSUME NEW i \in 1..Len(layout)
      PROVE  /\ layout[i] \in PaneIds
             /\ FullRecords(exported)[i] \in SavedRecords
             /\ RecordKnown(FullRecords(exported)[i], epoch, pane)
             /\ Taken(layout[i], FullRecords(exported)[i], NewestSeq(pane[layout[i]].screen))
  <2> DEFINE p == layout[i]
             rec == FullRecords(exported)[i]
  <2>1. p \in PaneIds /\ rec = FullRecord(p, exported)
    BY <1>2, <1>3
  <2> HIDE DEF p, rec
  <2>2. rec \in SavedRecords /\ Taken(p, rec, NewestSeq(pane[p].screen))
    BY <1>1, <2>1, FullEntry
  <2>3. RecordKnown(rec, epoch, pane)
    BY <1>1, <2>1, <2>2, TakenKnown
  <2> QED BY <2>1, <2>2, <2>3 DEF p, rec
<1>5. FullRecords(exported) \in Seq(SavedRecords) /\ Len(FullRecords(exported)) = Len(layout)
  <2>1. \A i \in 1..Len(layout) : FullRecord(layout[i], exported) \in SavedRecords
    BY <1>3, <1>4
  <2>2. [i \in 1..Len(layout) |-> FullRecord(layout[i], exported)] \in Seq(SavedRecords)
    BY <1>2, <2>1, IsASeq
  <2> QED BY <1>2, <1>3, <2>2
<1> QED BY <1>4, <1>5

LEMMA FlushKeeps == CheckpointInv /\ Flush => CheckpointInv'
<1> SUFFICES ASSUME CheckpointInv, Flush PROVE CheckpointInv'
  OBVIOUS
<1>1. PICK exported \in BOOLEAN : Exports(exported) /\ file' = Document(FullRecords(exported))
  BY DEF Flush, FullRecords
<1>2. Stop
  BY DEF Flush
<1>3. failures' \in 0..MaxFailures
  BY <1>1, Constants DEF Exports, CheckpointInv, TypeOK
<1>4. /\ FullRecords(exported) \in Seq(SavedRecords)
      /\ Len(FullRecords(exported)) = Len(layout)
      /\ \A i \in 1..Len(layout) : RecordKnown(FullRecords(exported)[i], epoch, pane)
  BY FullRecordsKnown
<1>5. file'.recs = FullRecords(exported) /\ file' \in [recs : Seq(SavedRecords), torn : BOOLEAN]
  BY <1>1, <1>4 DEF Document
<1>6. \A i \in 1..Len(file'.recs) : RecordKnown(file'.recs[i], epoch, pane)
  BY <1>4, <1>5
<1> QED BY <1>2, <1>3, <1>5, <1>6, StopKeeps

(* A pane of a daemon that starts: fresh, or told once more what it showed. *)
StartedOK(p, live) ==
    /\ live \in LivePanes /\ LogOK(live) /\ BornOK(p, live.screen, epoch + 1)
    /\ \/ live.screen = <<>>
       \/ \E i \in 1..Len(file.recs) : \E f \in Frames :
            live.screen = Append(Screen(file.recs[i]), f)

LEMMA FreshStarted ==
    ASSUME NEW p \in PaneIds
    PROVE  StartedOK(p, FreshPane)
<1>1. Len(<<>>) = 0
  OBVIOUS
<1>2. BornOK(p, <<>>, epoch + 1)
  BY <1>1 DEF BornOK
<1> QED BY <1>2, FreshOK DEF StartedOK

LEMMA RestoredStarted ==
    ASSUME CheckpointInv, epoch + 1 \in Epochs, NEW p \in PaneIds, NEW i \in 1..Len(file.recs)
    PROVE  StartedOK(p, Restored(p, file.recs[i], epoch + 1))
<1> DEFINE rec == file.recs[i]
           live == Restored(p, rec, epoch + 1)
           s == Screen(rec)
<1>1. epoch \in Nat /\ epoch + 1 \in Nat
  BY Constants DEF CheckpointInv, TypeOK
<1>2. rec \in SavedRecords /\ RecordOK(rec) /\ \A n \in 1..Len(s) : s[n].born <= epoch
  <2>1. file.recs \in Seq(SavedRecords)
    BY DEF CheckpointInv, TypeOK, FileOK
  <2>2. rec \in SavedRecords
    BY <2>1, ElementOfSeq
  <2> QED BY <2>2 DEF CheckpointInv, FileOK, RecordKnown
<1>3. s \in Screens
  BY <1>2 DEF RecordOK
<1> HIDE DEF rec, live, s
<1>4. PICK f \in Frames : f.pane = p /\ f.born = epoch + 1 /\ live.screen = Append(s, f)
  BY <1>2, RestoredOK DEF live, s
<1>5. live \in LivePanes /\ LogOK(live)
  BY <1>2, RestoredOK DEF live
<1> DEFINE t == live.screen
<1>6. /\ Len(s) \in Nat /\ Len(t) = Len(s) + 1 /\ t[Len(s) + 1] = f
      /\ \A n \in 1..Len(s) : t[n] = s[n] /\ s[n].born \in Nat
  <2>1. \A n \in 1..Len(s) : s[n].born \in Nat
    BY <1>3, FrameFields, Constants
  <2> QED BY <1>3, <1>4, <2>1, Appended, Ranges
<1> HIDE DEF t
<1>7. ASSUME NEW n \in 1..Len(t)
      PROVE  /\ t[n].born <= epoch + 1
             /\ t[n].born = epoch + 1 => t[n].pane = p
             /\ t[n].born = epoch + 1 => \A j \in n..Len(t) : t[j].born = epoch + 1
  <2>1. CASE n = Len(s) + 1
    <3>1. \A j \in n..Len(t) : j = n
      BY <1>6, <2>1
    <3> QED BY <1>1, <1>4, <1>6, <2>1, <3>1
  <2>2. CASE n # Len(s) + 1
    <3>1. n \in 1..Len(s)
      BY <1>6, <2>2
    <3>2. t[n].born <= epoch /\ t[n].born \in Nat
      BY <1>2, <1>6, <3>1
    <3> QED BY <1>1, <3>2
  <2> QED BY <2>1, <2>2
<1>8. BornOK(p, t, epoch + 1)
  BY <1>4, <1>6, <1>7 DEF BornOK
<1> QED BY <1>4, <1>5, <1>8 DEF StartedOK, t, live, s, rec

LEMMA Started ==
    ASSUME CheckpointInv, Start
    PROVE  /\ epoch' = epoch + 1 /\ epoch + 1 \in Epochs
           /\ \A p \in PaneIds : StartedOK(p, pane'[p])
           /\ pane' \in [PaneIds -> LivePanes]
<1>1. epoch' = epoch + 1 /\ ~up
  BY DEF Start
<1>2. epoch + 1 \in Epochs
  BY <1>1, Constants DEF CheckpointInv, TypeOK, PhaseOK, Epochs
<1>3. Readable /\ Records = file.recs /\ file.recs \in Seq(SavedRecords)
  BY DEF CheckpointInv, FileOK, TypeOK, Readable, Records
<1> DEFINE from(p) == {i \in DOMAIN file.recs \cap DOMAIN layout' : layout'[i] = p}
<1>4. pane' = [p \in PaneIds |->
                IF from(p) # {} THEN Restored(p, file.recs[Min(from(p))], epoch')
                ELSE FreshPane]
  BY <1>3, Zenon DEF Start
<1>5. ASSUME NEW p \in PaneIds
      PROVE  StartedOK(p, pane'[p])
  <2>1. CASE from(p) = {}
    <3>1. pane'[p] = FreshPane
      BY <1>4, <2>1
    <3> QED BY <3>1, FreshStarted
  <2>2. CASE from(p) # {}
    <3>1. DOMAIN file.recs = 1..Len(file.recs) /\ Len(file.recs) \in Nat
      BY <1>3
    <3>2. from(p) \in SUBSET Nat
      BY <3>1
    <3>3. \E i \in from(p) : \A j \in from(p) : i <= j
      BY <2>2, <3>2, LeastNumber
    <3>4. Min(from(p)) \in from(p)
      BY <3>3 DEF Min
    <3>5. Min(from(p)) \in 1..Len(file.recs)
      BY <3>1, <3>4
    <3>6. pane'[p] = Restored(p, file.recs[Min(from(p))], epoch + 1)
      BY <1>1, <1>4, <2>2
    <3> HIDE DEF from
    <3> QED BY <1>2, <3>5, <3>6, RestoredStarted
  <2> QED BY <2>1, <2>2
<1>6. \A p \in PaneIds : pane'[p] \in LivePanes
  BY <1>5 DEF StartedOK
<1>7. pane' \in [PaneIds -> LivePanes]
  <2>1. pane' = [p \in PaneIds |-> pane'[p]]
    BY <1>4
  <2> QED BY <1>6, <2>1, Zenon
<1> QED BY <1>1, <1>2, <1>5, <1>7

LEMMA StartKeeps == CheckpointInv /\ Start => CheckpointInv'
<1> SUFFICES ASSUME CheckpointInv, Start PROVE CheckpointInv'
  OBVIOUS
<1>1. /\ ~up /\ up' = TRUE /\ layout' = workspace[1] /\ nextPane' = workspace[2]
      /\ capture' = capture /\ captured' = captured
      /\ pendingMark' = pendingMark /\ persistMark' = persistMark
      /\ job' = job /\ result' = result /\ cached' = cached /\ journaled' = journaled
      /\ file' = file /\ workspace' = workspace /\ changes' = changes /\ failures' = failures
  BY DEF Start, plane, worker
<1>2. /\ epoch' = epoch + 1 /\ epoch + 1 \in Epochs
      /\ \A p \in PaneIds : StartedOK(p, pane'[p])
      /\ pane' \in [PaneIds -> LivePanes]
  BY Started
<1>3. TypeOK /\ TopologyOK /\ FileOK /\ PhaseOK /\ PlaneOK
  BY DEF CheckpointInv
<1>4. /\ capture' = None /\ captured' = NotCaptured /\ pendingMark' = None
      /\ persistMark' = Unmarked /\ job' = None /\ result' = None
  BY <1>1, <1>3 DEF PhaseOK
<1>5. TypeOK'
  BY <1>1, <1>2, <1>3 DEF TypeOK
<1>6. PanesOK'
  BY <1>2 DEF PanesOK, StartedOK
<1>7. TopologyOK'
  BY <1>1, <1>3 DEF TopologyOK
<1>8. FileOK'
  <2>1. epoch \in Nat
    BY <1>3, Constants DEF TypeOK
  <2>2. ASSUME NEW i \in 1..Len(file.recs)
        PROVE  RecordKnown(file.recs[i], epoch + 1, pane')
    <3> DEFINE s == Screen(file.recs[i])
    <3>1. RecordOK(file.recs[i]) /\ \A n \in 1..Len(s) : s[n].born <= epoch
      BY <1>3 DEF FileOK, RecordKnown
    <3>2. s \in Screens
      BY <3>1 DEF RecordOK
    <3> HIDE DEF s
    <3>3. \A n \in 1..Len(s) : s[n].born \in Nat
      BY <3>2, FrameFields, Constants
    <3>4. \A n \in 1..Len(s) : s[n].born <= epoch + 1 /\ s[n].born # epoch + 1
      BY <2>1, <3>1, <3>3
    <3>5. s # <<>> => Final(s).born # epoch + 1
      BY <3>2, <3>4, Ranges DEF Final
    <3> QED BY <3>1, <3>4, <3>5 DEF RecordKnown, s
  <2> QED BY <1>1, <1>2, <1>3, <2>2 DEF FileOK
<1>9. PhaseOK'
  BY <1>1, <1>4 DEF PhaseOK
<1>10. PlaneOK'
  <2>1. \A p \in PaneIds : captured'[p] = None
    BY <1>4 DEF NotCaptured
  <2>2. Synced(captured)'
    BY <2>1 DEF Synced
  <2>3. MarkSaved(persistMark)'
    BY <1>4 DEF MarkSaved, Unmarked
  <2> QED BY <1>4, <2>2, <2>3 DEF PlaneOK
<1> QED BY <1>5, <1>6, <1>7, <1>8, <1>9, <1>10 DEF CheckpointInv

-----------------------------------------------------------------------------
(* The invariant. *)

LEMMA InitOK == Init => CheckpointInv
<1> SUFFICES ASSUME Init PROVE CheckpointInv
  OBVIOUS
<1>1. /\ up = TRUE /\ epoch = 0 /\ layout = FirstLayout /\ nextPane = Len(FirstLayout) + 1
      /\ pane = [p \in PaneIds |-> FreshPane] /\ capture = None /\ captured = NotCaptured
      /\ pendingMark = None /\ persistMark = Unmarked /\ job = None /\ result = None
      /\ cached = [p \in PaneIds |-> None] /\ journaled = 0 /\ file = Document(<<>>)
      /\ workspace = <<layout, nextPane>> /\ changes = 0 /\ failures = 0
  BY DEF Init, topology
<1>2. /\ FirstLayout \in Seq(PaneIds) /\ Len(FirstLayout) \in Nat
      /\ DOMAIN FirstLayout = 1..Len(FirstLayout)
      /\ \A m, n \in 1..Len(FirstLayout) : FirstLayout[m] = FirstLayout[n] => m = n
      /\ \A i \in 1..Len(FirstLayout) : FirstLayout[i] \in 1..Len(FirstLayout)
      /\ 1..Len(FirstLayout) \subseteq PaneIds
  <2>1. FirstLayout \in Seq(PaneIds) /\ IsInjective(FirstLayout)
        /\ Range(FirstLayout) = 1..Len(FirstLayout)
    BY CheckpointAssumption DEF PaneIds
  <2>2. Len(FirstLayout) \in Nat /\ DOMAIN FirstLayout = 1..Len(FirstLayout)
    BY <2>1
  <2>3. \A i \in 1..Len(FirstLayout) : FirstLayout[i] \in Range(FirstLayout)
    BY <2>2 DEF Range
  <2>4. \A x \in Range(FirstLayout) : x \in PaneIds
    <3> SUFFICES ASSUME NEW x \in Range(FirstLayout) PROVE x \in PaneIds
      OBVIOUS
    <3>1. PICK i \in 1..Len(FirstLayout) : x = FirstLayout[i]
      BY <2>2 DEF Range
    <3> QED BY <2>1, <3>1, ElementOfSeq
  <2> QED BY <2>1, <2>2, <2>3, <2>4 DEF IsInjective
<1>3. Len(FirstLayout) + 1 \in 1..(MaxPanes + 1)
  <2>1. Len(FirstLayout) = 0 \/ Len(FirstLayout) \in 1..Len(FirstLayout)
    BY <1>2
  <2>2. Len(FirstLayout) = 0 \/ Len(FirstLayout) \in 1..MaxPanes
    BY <1>2, <2>1 DEF PaneIds
  <2> QED BY <2>2, Constants
<1>4. \A i \in 1..Len(FirstLayout) : FirstLayout[i] < Len(FirstLayout) + 1
  BY <1>2
<1>5. Len(<<>>) = 0 /\ <<>> \in Seq(SavedRecords)
  OBVIOUS
<1>6. file.recs = <<>> /\ file \in [recs : Seq(SavedRecords), torn : BOOLEAN]
  BY <1>1, <1>5 DEF Document
<1>7. TypeOK
  <2>1. epoch \in Epochs /\ journaled \in 0..JournalLimit
        /\ changes \in 0..MaxChanges /\ failures \in 0..MaxFailures
    BY <1>1, Constants
  <2>2. pane \in [PaneIds -> LivePanes] /\ cached \in [PaneIds -> Copies \cup {None}]
        /\ captured \in SignatureMaps
    BY <1>1, FreshOK, NothingCaptured
  <2>3. persistMark \in Marks
    <3>1. [pane |-> 0, seq |-> 0] \in [pane : Nat, seq : Nat]
      OBVIOUS
    <3> QED BY <1>1, <3>1 DEF Unmarked, Marks
  <2>4. workspace \in Seq(PaneIds) \X (1..(MaxPanes + 1))
        /\ layout \in Seq(PaneIds) /\ nextPane \in 1..(MaxPanes + 1)
    BY <1>1, <1>2, <1>3
  <2> QED BY <1>1, <1>6, <2>1, <2>2, <2>3, <2>4 DEF TypeOK
<1>8. PanesOK
  <2>1. ASSUME NEW p \in PaneIds
        PROVE  LogOK(pane[p]) /\ BornOK(p, pane[p].screen, epoch)
    <3>1. pane[p] = FreshPane /\ pane[p].screen = <<>>
      BY <1>1, FreshOK
    <3>2. BornOK(p, <<>>, epoch)
      BY <1>5 DEF BornOK
    <3> QED BY <3>1, <3>2, FreshOK
  <2> QED BY <2>1 DEF PanesOK
<1>9. TopologyOK
  BY <1>1, <1>2, <1>4 DEF TopologyOK, IsInjective
<1>10. FileOK
  BY <1>5, <1>6, Constants DEF FileOK
<1>11. PhaseOK
  BY <1>1 DEF PhaseOK
<1>12. PlaneOK
  <2>1. \A p \in PaneIds : captured[p] = None
    BY <1>1 DEF NotCaptured
  <2>2. Synced(captured)
    BY <2>1 DEF Synced
  <2>3. MarkSaved(persistMark)
    BY <1>1 DEF MarkSaved
  <2> QED BY <1>1, <2>2, <2>3 DEF PlaneOK
<1> QED BY <1>7, <1>8, <1>9, <1>10, <1>11, <1>12 DEF CheckpointInv

LEMMA StutterKeeps == CheckpointInv /\ UNCHANGED vars => CheckpointInv'
<1> SUFFICES ASSUME CheckpointInv, UNCHANGED vars PROVE CheckpointInv'
  OBVIOUS
<1>1. /\ up' = up /\ layout' = layout /\ nextPane' = nextPane /\ pane' = pane
      /\ capture' = capture /\ captured' = captured
      /\ pendingMark' = pendingMark /\ persistMark' = persistMark
      /\ job' = job /\ result' = result /\ cached' = cached /\ journaled' = journaled
      /\ file' = file /\ workspace' = workspace
      /\ epoch' = epoch /\ changes' = changes /\ failures' = failures
  BY DEF vars, topology, plane, worker, bounds
<1>2. TypeOK' /\ PanesOK' /\ TopologyOK' /\ FileOK' /\ PhaseOK'
  BY <1>1 DEF CheckpointInv, TypeOK, PanesOK, TopologyOK, FileOK, PhaseOK
<1>3. PlaneOK'
  <2>1. \A p, seq : Newest(p, seq)' <=> Newest(p, seq)
    BY <1>1 DEF Newest
  <2>2. \A p, rec, seq : Taken(p, rec, seq)' <=> Taken(p, rec, seq)
    BY <1>1 DEF Taken
  <2>3. Current' <=> Current
    BY <1>1 DEF Current
  <2>4. \A p, index, seq : Copied(p, index, seq)' <=> Copied(p, index, seq)
    BY <1>1, <2>2, <2>3 DEF Copied
  <2>5. \A e, seq : EntryOK(e, seq)' <=> EntryOK(e, seq)
    BY <1>1, <2>1, <2>2, <2>4 DEF EntryOK
  <2>6. \A entries, signatures : Gathered(entries, signatures)' <=> Gathered(entries, signatures)
    BY <2>5 DEF Gathered
  <2>7. \A signatures : Synced(signatures)' <=> Synced(signatures)
    BY <2>4 DEF Synced
  <2>8. \A mark : MarkSaved(mark)' <=> MarkSaved(mark)
    BY <1>1 DEF MarkSaved
  <2>9. CaptureOK' <=> CaptureOK
    BY <1>1, <2>6 DEF CaptureOK
  <2>10. (JobOK' <=> JobOK) /\ (AnswerOK' <=> AnswerOK)
    BY <1>1, <2>6, <2>7, <2>8 DEF JobOK, AnswerOK
  <2> QED BY <1>1, <2>7, <2>8, <2>9, <2>10 DEF CheckpointInv, PlaneOK
<1> QED BY <1>2, <1>3 DEF CheckpointInv

(* The events of Drain and Resize. *)
LEMMA BusyEvent ==
    ASSUME NEW p \in PaneIds, Drain(p) \/ Resize(p)
    PROVE  \E event \in Events : Busy(p, event)
BY EventsDiffer DEF Drain, Resize

LEMMA StepKeeps == CheckpointInv /\ [Next]_vars => CheckpointInv'
<1> SUFFICES ASSUME CheckpointInv, [Next]_vars PROVE CheckpointInv'
  OBVIOUS
<1>1. CASE TickEarly
  BY <1>1, TickEarlyKeeps
<1>2. CASE TickDiscard
  BY <1>2, TickDiscardKeeps
<1>3. CASE TickCapture
  BY <1>3, TickCaptureKeeps
<1>4. CASE WorkDone
  BY <1>4, WorkDoneKeeps
<1>5. CASE WorkFailed
  BY <1>5, WorkFailedKeeps
<1>6. ASSUME NEW p \in PaneIds, Drain(p) \/ Resize(p)
      PROVE  CheckpointInv'
  <2>1. PICK event \in Events : Busy(p, event)
    BY <1>6, BusyEvent
  <2> QED BY <2>1, BusyKeeps
<1>7. CASE AddPane
  BY <1>7, AddPaneKeeps
<1>8. CASE RemovePane
  BY <1>8, RemovePaneKeeps
<1>9. CASE SwapPanes
  BY <1>9, SwapPanesKeeps
<1>10. CASE SaveWorkspace
  BY <1>10, SaveWorkspaceKeeps
<1>11. CASE Crash
  BY <1>11, CrashKeeps
<1>12. CASE Flush
  BY <1>12, FlushKeeps
<1>13. CASE Start
  BY <1>13, StartKeeps
<1>14. CASE UNCHANGED vars
  BY <1>14, StutterKeeps
<1> QED
  BY <1>1, <1>2, <1>3, <1>4, <1>5, <1>6, <1>7, <1>8, <1>9, <1>10, <1>11, <1>12, <1>13, <1>14 DEF Next

(* Everything below rests on this: what is captured, in the worker, in its  *)
(* cache and in the file are prefixes or stretches of what the panes show,  *)
(* whatever ticks, failed writes, layout changes and restarts come between. *)
THEOREM CheckpointInvariant == Spec => []CheckpointInv
<1>1. Init => CheckpointInv
  BY InitOK
<1>2. CheckpointInv /\ [Next]_vars => CheckpointInv'
  BY StepKeeps
<1> QED BY <1>1, <1>2, PTL DEF Spec

(* The values every variable of the checkpoints can have. *)
THEOREM TypeCorrect == Spec => []TypeOK
<1>1. CheckpointInv => TypeOK
  BY DEF CheckpointInv
<1> QED BY <1>1, CheckpointInvariant, PTL

(* The records of the file, as a start reads them. *)
LEMMA Filed ==
    ASSUME CheckpointInv
    PROVE  /\ Readable /\ Records = file.recs /\ file.recs \in Seq(SavedRecords)
           /\ DOMAIN file.recs = 1..Len(file.recs) /\ Len(file.recs) \in Nat
           /\ \A i \in 1..Len(file.recs) :
                file.recs[i] \in SavedRecords /\ RecordKnown(file.recs[i], epoch, pane)
<1>1. Readable /\ Records = file.recs /\ file.recs \in Seq(SavedRecords)
  BY DEF CheckpointInv, FileOK, TypeOK, Readable, Records
<1>2. \A i \in 1..Len(file.recs) : file.recs[i] \in SavedRecords
  BY <1>1, ElementOfSeq
<1> QED BY <1>1, <1>2 DEF CheckpointInv, FileOK

LEMMA SizesAgree == CheckpointInv => RestoredSizeAgrees
<1> SUFFICES ASSUME CheckpointInv, NEW i \in DOMAIN Records
             PROVE  LET replayed == Newer(Records[i].tail, Records[i].snapshotSeq)
                    IN \A n \in DOMAIN replayed :
                        /\ replayed[n].event # Output
                        /\ \A m \in DOMAIN replayed : m > n => replayed[m].event = Output
                        => replayed[n].event = Records[i].size
  BY DEF RestoredSizeAgrees
<1>0. Records = file.recs /\ i \in 1..Len(file.recs)
  BY Filed
<1> DEFINE rec == file.recs[i]
           s == rec.tail
           n == rec.snapshotSeq
           r == Newer(s, n)
<1>1. rec \in SavedRecords /\ RecordOK(rec)
  BY <1>0, Filed DEF RecordKnown
<1>2. s \in Screens /\ n \in Nat /\ Screen(rec) \in Screens /\ Numbered(Screen(rec))
      /\ Ends(s, Screen(rec)) /\ Before(s) <= n /\ n <= NewestSeq(s) /\ SizeIs(s, rec.size)
      /\ (Screen(rec) # <<>> => s # <<>>)
  BY <1>1, RecordFields DEF RecordOK
<1>3. Numbered(s)
  BY <1>2, Ended
<1> HIDE DEF rec, s, n
<1>4. r = SubSeq(s, n - Before(s) + 1, Len(s)) /\ r \in Screens
  BY <1>2, <1>3, NewerCuts, NewerType
<1>5. /\ Len(s) \in Nat /\ Before(s) \in Nat /\ NewestSeq(s) = Before(s) + Len(s)
  BY <1>2, <1>3, Ranges
<1> HIDE DEF r
<1>6. Ends(r, s)
  <2> DEFINE k == n - Before(s)
  <2>1. k \in Nat /\ k <= Len(s)
    BY <1>2, <1>5
  <2> HIDE DEF k
  <2>2. r = SubSeq(s, k + 1, Len(s))
    BY <1>4 DEF k
  <2>3. Len(r) = Len(s) - k /\ \A j \in 1..Len(r) : r[j] = s[k + j]
    BY <1>2, <1>5, <2>1, <2>2 DEF Screens
  <2> QED BY <1>5, <2>1, <2>3 DEF Ends
<1>7. SizeIs(r, rec.size)
  BY <1>2, <1>4, <1>6, SizeOfEnd
<1>8. DOMAIN r = 1..Len(r)
  BY <1>4 DEF Screens
<1> QED BY <1>0, <1>7, <1>8 DEF SizeIs, r, s, n, rec

(* A pane restored from the file has the size its emulator ends with: the   *)
(* size of a record is the one its tail was resized to last.                *)
THEOREM SizeAgrees == Spec => []RestoredSizeAgrees
BY SizesAgree, CheckpointInvariant, PTL

-----------------------------------------------------------------------------
(* What the file says, in the words of DurableLog. *)

LEMMA WithinPast ==
    ASSUME NEW s \in Screens, NEW t \in Screens, NEW whole \in BOOLEAN, Within(s, t, whole)
    PROVE  Log!IsPast(t, [whole |-> whole, frames |-> s])
<1> DEFINE m == Before(s) - Before(t)
<1>1. /\ Len(s) \in Nat /\ Len(t) \in Nat /\ Before(s) \in Nat /\ Before(t) \in Nat
  BY Ranges
<1>2. /\ m \in 0..(Len(t) - Len(s)) /\ m \in Nat /\ m + Len(s) \in Nat
      /\ m <= m + Len(s) /\ m + Len(s) <= Len(t) /\ (m + Len(s)) - m = Len(s)
      /\ whole => m = 0
      /\ \A i \in 1..Len(s) : s[i] = t[m + i]
  <2>1. /\ Before(t) <= Before(s) /\ (whole => Before(s) = Before(t))
        /\ Before(s) + Len(s) <= Before(t) + Len(t)
    BY DEF Within
  <2>2. m \in 0..(Len(t) - Len(s)) /\ m \in Nat
    BY <1>1, <2>1
  <2>3. whole => m = 0
    <3>1. whole => Before(s) = Before(t)
      BY <2>1
    <3>2. Before(s) = Before(t) => m = 0
      BY <1>1
    <3> QED BY <3>1, <3>2
  <2>4. \A i \in 1..Len(s) : s[i] = t[m + i]
    BY DEF Within
  <2> HIDE DEF m
  <2>5. /\ m + Len(s) \in Nat /\ m <= m + Len(s) /\ m + Len(s) <= Len(t)
        /\ (m + Len(s)) - m = Len(s)
    BY <1>1, <2>2
  <2> QED BY <2>2, <2>3, <2>4, <2>5
<1> HIDE DEF m
<1>3. /\ SubSeq(t, m + 1, m + Len(s)) \in Screens
      /\ Len(SubSeq(t, m + 1, m + Len(s))) = Len(s)
      /\ \A i \in 1..Len(s) : SubSeq(t, m + 1, m + Len(s))[i] = t[m + i]
  BY <1>2, Part
<1>4. s = SubSeq(t, m + 1, m + Len(s))
  BY <1>2, <1>3, SameFrames
<1>5. CASE whole
  <2>1. s = SubSeq(t, 1, Len(s)) /\ Len(s) <= Len(t)
    BY <1>1, <1>2, <1>4, <1>5
  <2>2. SubSeq(s, 1, Len(s)) = s
    BY DEF Screens
  <2>3. Log!IsPrefix(s, t)
    BY <2>1, <2>2 DEF Log!IsPrefix
  <2> QED BY <1>5, <2>3 DEF Log!IsPast
<1>6. CASE ~whole
  BY <1>2, <1>4, <1>6 DEF Log!IsPast, Log!IsPart
<1> QED BY <1>5, <1>6

LEMMA PastFound ==
    ASSUME NEW s \in Screens, NEW t \in Screens, NEW whole \in BOOLEAN,
           Log!IsPast(t, [whole |-> whole, frames |-> s])
    PROVE  \E m \in Nat : /\ m + Len(s) <= Len(t)
                          /\ \A i \in 1..Len(s) : s[i] = t[m + i]
<1>1. Len(s) \in Nat /\ Len(t) \in Nat
  BY Ranges
<1>2. CASE whole
  <2>1. Len(s) <= Len(t) /\ SubSeq(s, 1, Len(s)) = SubSeq(t, 1, Len(s))
    BY <1>2 DEF Log!IsPast, Log!IsPrefix
  <2>2. SubSeq(s, 1, Len(s)) = s
    BY DEF Screens
  <2>3. \A i \in 1..Len(s) : SubSeq(t, 0 + 1, Len(s))[i] = t[0 + i]
    BY <1>1, <2>1, Part
  <2>4. 0 + Len(s) <= Len(t) /\ \A i \in 1..Len(s) : s[i] = t[0 + i]
    BY <1>1, <2>1, <2>2, <2>3
  <2> QED BY <2>4
<1>3. CASE ~whole
  <2>1. PICK m \in 0..(Len(t) - Len(s)) : s = SubSeq(t, m + 1, m + Len(s))
    BY <1>3 DEF Log!IsPast, Log!IsPart
  <2>2. m \in Nat /\ m + Len(s) \in Nat /\ m <= m + Len(s) /\ m + Len(s) <= Len(t)
        /\ (m + Len(s)) - m = Len(s)
    BY <1>1
  <2>3. \A i \in 1..Len(s) : SubSeq(t, m + 1, m + Len(s))[i] = t[m + i]
    BY <2>2, Part
  <2> QED BY <2>1, <2>2, <2>3
<1> QED BY <1>2, <1>3

Image(rec) == [whole |-> rec.snapshot # None, frames |-> Screen(rec)]

LEMMA SavedImages ==
    ASSUME CheckpointInv
    PROVE  SavedScreens = {Image(file.recs[i]) : i \in 1..Len(file.recs)}
BY Filed DEF SavedScreens, Image

(* A record taken from a pane shows its past, and none in the file shows    *)
(* a later one.                                                             *)
LEMMA Published ==
    ASSUME CheckpointInv, NEW p \in PaneIds, NEW rec \in SavedRecords, NEW seq,
           Taken(p, rec, seq), Newest(p, seq)
    PROVE  /\ Log!IsPast(pane[p].screen, Image(rec))
           /\ \A past \in SavedScreens :
                Log!IsPast(pane[p].screen, past)
                    => Log!NewestSeq(past.frames) <= Log!NewestSeq(Image(rec).frames)
<1> DEFINE t == pane[p].screen
<1>1. /\ t \in Screens /\ Len(t) \in Nat /\ BornOK(p, t, epoch)
  BY Panes DEF CheckpointInv
<1>2. /\ Screen(rec) \in Screens /\ Within(Screen(rec), t, rec.snapshot # None)
      /\ NewestSeq(Screen(rec)) = seq
      /\ \A j \in 1..Len(t) : t[j].seq >= seq => t[j].born = epoch
  BY DEF Taken, TakenFrom, RecordOK
<1> HIDE DEF t
<1>3. Log!IsPast(t, Image(rec))
  <2>1. (rec.snapshot # None) \in BOOLEAN
    OBVIOUS
  <2>2. Log!IsPast(t, [whole |-> rec.snapshot # None, frames |-> Screen(rec)])
    BY <1>1, <1>2, <2>1, WithinPast
  <2> QED BY <2>2 DEF Image
<1>4. seq \in Nat
  BY <1>2, Ranges
<1>5. ASSUME NEW i \in 1..Len(file.recs), Log!IsPast(t, Image(file.recs[i]))
      PROVE  NewestSeq(Screen(file.recs[i])) <= seq
  <2> DEFINE s == Screen(file.recs[i])
  <2>1. s \in Screens
    BY Filed DEF RecordKnown, RecordOK
  <2>2. (file.recs[i].snapshot # None) \in BOOLEAN
        /\ Log!IsPast(t, [whole |-> file.recs[i].snapshot # None, frames |-> s])
    BY <1>5 DEF Image
  <2>3. s # <<>> /\ Final(s).born = epoch /\ Final(s).pane = p => NewestSeq(s) <= seq
    BY DEF Newest
  <2> HIDE DEF s
  <2>4. PICK m \in Nat : m + Len(s) <= Len(t) /\ \A j \in 1..Len(s) : s[j] = t[m + j]
    BY <1>1, <2>1, <2>2, PastFound
  <2>5. CASE s = <<>>
    BY <1>4, <2>5 DEF NewestSeq, s
  <2>6. CASE s # <<>>
    <3>1. Len(s) \in 1..Len(s) /\ NewestSeq(s) = s[Len(s)].seq /\ NewestSeq(s) \in Nat
      BY <2>1, <2>6, Ranges DEF NewestSeq
    <3>2. m + Len(s) \in 1..Len(t) /\ Final(s) = t[m + Len(s)] /\ NewestSeq(s) = t[m + Len(s)].seq
      BY <1>1, <2>4, <3>1 DEF Final
    <3>3. CASE NewestSeq(s) >= seq
      <4>1. Final(s).born = epoch /\ Final(s).pane = p
        BY <1>1, <1>2, <3>2, <3>3 DEF BornOK
      <4> QED BY <2>3, <2>6, <4>1 DEF s
    <3>4. CASE ~(NewestSeq(s) >= seq)
      BY <1>4, <3>1, <3>4 DEF s
    <3> QED BY <3>3, <3>4
  <2> QED BY <2>5, <2>6
<1>6. \A screen : Log!NewestSeq(screen) = NewestSeq(screen)
  BY DEF Log!NewestSeq, NewestSeq
<1>7. ASSUME NEW past \in SavedScreens, Log!IsPast(t, past)
      PROVE  Log!NewestSeq(past.frames) <= Log!NewestSeq(Image(rec).frames)
  <2>1. PICK i \in 1..Len(file.recs) : past = Image(file.recs[i])
    BY SavedImages
  <2>2. past.frames = Screen(file.recs[i]) /\ Image(rec).frames = Screen(rec)
    BY <2>1 DEF Image
  <2>3. NewestSeq(Screen(file.recs[i])) <= seq
    BY <1>5, <1>7, <2>1
  <2> QED BY <1>2, <1>6, <2>2, <2>3
<1> QED BY <1>3, <1>7 DEF t

(* Writing only such records is what Publishes allows. *)
LEMMA AllPublished ==
    ASSUME CheckpointInv, NEW recs \in Seq(SavedRecords), file'.recs = recs, pane' = pane,
           \A n \in 1..Len(recs) : \E p \in PaneIds : \E seq \in Nat :
              Taken(p, recs[n], seq) /\ Newest(p, seq)
    PROVE  Log!Publishes
<1>1. recs # Corrupt /\ DOMAIN recs = 1..Len(recs)
  BY Constants
<1>2. SavedScreens' = {Image(recs[n]) : n \in 1..Len(recs)}
  <2>1. Readable' /\ Records' = recs
    BY <1>1 DEF Readable, Records
  <2>2. \A rec : Screen(rec)' = Screen(rec)
    BY DEF Screen
  <2> QED BY <1>1, <2>1, <2>2 DEF SavedScreens, Image
<1>3. ASSUME NEW new \in SavedScreens'
      PROVE  \E p \in PaneIds :
                /\ Log!IsPast(pane[p].screen, new)
                /\ \A past \in SavedScreens :
                     Log!IsPast(pane[p].screen, past)
                        => Log!NewestSeq(past.frames) <= Log!NewestSeq(new.frames)
  <2>1. PICK n \in 1..Len(recs) : new = Image(recs[n])
    BY <1>2
  <2>2. PICK p \in PaneIds : \E seq \in Nat : Taken(p, recs[n], seq) /\ Newest(p, seq)
    OBVIOUS
  <2>3. recs[n] \in SavedRecords
    BY ElementOfSeq
  <2> QED BY <2>1, <2>2, <2>3, Published
<1> QED BY <1>3 DEF Log!Publishes

LEMMA SavedAgain ==
    ASSUME CheckpointInv, file'.recs = file.recs
    PROVE  SavedScreens' = SavedScreens
BY DEF SavedScreens, Readable, Records, Screen

LEMMA WorkPublishes ==
    ASSUME CheckpointInv, WorkDone
    PROVE  Log!Publish \/ UNCHANGED <<up, pane, SavedScreens>>
<1>1. job # None /\ up /\ up' = up /\ pane' = pane /\ file' = Written
  BY DEF WorkDone, WorkUnchanged
<1> DEFINE recs == [n \in 1..Len(job) |-> NthRecord(n)]
<1>2. /\ Len(job) \in Nat
      /\ \A n \in 1..Len(job) :
            /\ job[n].id \in PaneIds /\ captured[job[n].id].seq \in Nat
            /\ Newest(job[n].id, captured[job[n].id].seq)
            /\ NthRecord(n) \in SavedRecords
            /\ Taken(job[n].id, NthRecord(n), captured[job[n].id].seq)
  <2>1. Len(job) \in Nat
    BY <1>1, JobEntries
  <2>2. ASSUME NEW n \in 1..Len(job)
        PROVE  /\ job[n].id \in PaneIds /\ captured[job[n].id].seq \in Nat
               /\ Newest(job[n].id, captured[job[n].id].seq)
               /\ NthRecord(n) \in SavedRecords
               /\ Taken(job[n].id, NthRecord(n), captured[job[n].id].seq)
    <3>1. /\ job[n].id \in PaneIds /\ captured[job[n].id] \in Signatures
          /\ EntryOK(job[n], captured[job[n].id].seq)
      BY <1>1, JobEntries
    <3>2. captured[job[n].id].seq \in Nat
      BY <3>1 DEF Signatures
    <3>3. Newest(job[n].id, captured[job[n].id].seq)
      BY <3>1 DEF EntryOK
    <3>4. NthRecord(n) \in SavedRecords /\ Taken(job[n].id, NthRecord(n), captured[job[n].id].seq)
      BY <1>1, CachedAfter
    <3> QED BY <3>1, <3>2, <3>3, <3>4
  <2> QED BY <2>1, <2>2
<1>3. file'.recs = recs
  BY <1>1, WrittenRecords
<1>4. recs \in Seq(SavedRecords) /\ Len(recs) = Len(job)
      /\ \A n \in 1..Len(job) : recs[n] = NthRecord(n)
  <2>1. recs \in Seq(SavedRecords)
    BY <1>2, IsASeq
  <2>2. Len(recs) = Len(job)
    BY <1>2
  <2> QED BY <2>1, <2>2
<1> HIDE DEF recs
<1>5. \A n \in 1..Len(recs) : \E p \in PaneIds : \E seq \in Nat :
         Taken(p, recs[n], seq) /\ Newest(p, seq)
  BY <1>2, <1>4
<1>6. Log!Publishes
  BY <1>1, <1>3, <1>4, <1>5, AllPublished
<1> QED BY <1>1, <1>6 DEF Log!Publish

LEMMA FlushStops ==
    ASSUME CheckpointInv, Flush
    PROVE  Log!Stop
<1>1. PICK exported \in BOOLEAN : file' = Document(FullRecords(exported))
  BY DEF Flush, FullRecords
<1>2. up /\ up' = FALSE /\ pane' = pane
  BY DEF Flush, Stop
<1>3. /\ FullRecords(exported) \in Seq(SavedRecords)
      /\ Len(FullRecords(exported)) = Len(layout)
      /\ \A i \in 1..Len(layout) :
            /\ layout[i] \in PaneIds
            /\ Taken(layout[i], FullRecords(exported)[i], NewestSeq(pane[layout[i]].screen))
  BY FullRecordsKnown
<1>4. file'.recs = FullRecords(exported)
  BY <1>1 DEF Document
<1>5. ASSUME NEW n \in 1..Len(FullRecords(exported))
      PROVE  \E p \in PaneIds : \E seq \in Nat :
                Taken(p, FullRecords(exported)[n], seq) /\ Newest(p, seq)
  <2> DEFINE p == layout[n]
  <2>1. p \in PaneIds /\ Taken(p, FullRecords(exported)[n], NewestSeq(pane[p].screen))
    BY <1>3
  <2>2. NewestSeq(pane[p].screen) \in Nat
    BY <2>1, Panes, Ranges DEF CheckpointInv
  <2>3. Newest(p, NewestSeq(pane[p].screen))
    BY FileBehind DEF CheckpointInv
  <2> QED BY <2>1, <2>2, <2>3
<1>6. Log!Publishes
  BY <1>2, <1>3, <1>4, <1>5, AllPublished
<1> QED BY <1>2, <1>6 DEF Log!Stop

LEMMA CrashStops ==
    ASSUME CheckpointInv, Crash
    PROVE  Log!Stop
<1>1. up /\ up' = FALSE /\ pane' = pane
  BY DEF Crash, Stop
<1>2. SavedScreens' = SavedScreens
  BY CrashKeeps, SavedAgain
<1> QED BY <1>1, <1>2 DEF Log!Stop

LEMMA BusyGrows ==
    ASSUME CheckpointInv, NEW p \in PaneIds, NEW event \in Events, Busy(p, event)
    PROVE  Log!Grow
<1> DEFINE old == [q \in PaneIds |-> pane[q].screen]
           new == [q \in PaneIds |-> pane'[q].screen]
<1>1. /\ up /\ up' = up /\ file' = file
  BY DEF Busy
<1>2. /\ Shows(p, pane'[p].screen, pane[p].screen, epoch)
      /\ pane'[p].screen # pane[p].screen
      /\ \A q \in PaneIds : q # p => pane'[q] = pane[q]
  BY BusyKeeps
<1>3. pane[p].screen \in Screens
  BY Panes DEF CheckpointInv
<1>4. Log!Extends(pane'[p].screen, pane[p].screen)
  <2>1. PICK f \in Frames : pane'[p].screen = Append(pane[p].screen, f)
    BY <1>2 DEF Shows
  <2> QED BY <1>3, <2>1 DEF Log!Extends, Screens
<1>5. new = [old EXCEPT ![p] = new[p]]
  BY <1>2
<1>6. SavedScreens' = SavedScreens
  BY <1>1, SavedAgain
<1>7. Log!Extends(new[p], old[p]) /\ p \in DOMAIN old
  BY <1>4
<1> QED BY <1>1, <1>5, <1>6, <1>7 DEF Log!Grow

LEMMA StartStarts ==
    ASSUME CheckpointInv, Start
    PROVE  Log!Start
<1>1. ~up /\ up' = TRUE /\ file' = file
  BY DEF Start
<1>2. SavedScreens' = SavedScreens
  BY <1>1, SavedAgain
<1>3. ASSUME NEW p \in PaneIds
      PROVE  \/ pane'[p].screen = <<>>
             \/ \E past \in SavedScreens : Log!Extends(pane'[p].screen, past.frames)
  <2>1. CASE pane'[p].screen = <<>>
    BY <2>1
  <2>2. CASE pane'[p].screen # <<>>
    <3>1. StartedOK(p, pane'[p])
      BY Started
    <3>2. PICK i \in 1..Len(file.recs), f \in Frames :
             pane'[p].screen = Append(Screen(file.recs[i]), f)
      BY <2>2, <3>1 DEF StartedOK
    <3>3. Screen(file.recs[i]) \in Screens
      BY Filed DEF RecordKnown, RecordOK
    <3>4. Log!Extends(pane'[p].screen, Screen(file.recs[i]))
      BY <3>2, <3>3 DEF Log!Extends, Screens
    <3>5. Image(file.recs[i]) \in SavedScreens /\ Image(file.recs[i]).frames = Screen(file.recs[i])
      BY SavedImages DEF Image
    <3> QED BY <3>4, <3>5
  <2> QED BY <2>1, <2>2
<1> QED BY <1>1, <1>2, <1>3 DEF Log!Start

(* The daemon keeps the promise of DurableLog: whatever is captured,        *)
(* written, torn, retried or cut short, the file reads as screens the panes *)
(* have shown, never older ones than before, and a start shows them again.  *)
THEOREM DurableLogImplemented == Spec => ImplementsDurableLog
<1>1. Init => Log!Init
  <2> SUFFICES ASSUME Init PROVE Log!Init
    OBVIOUS
  <2>1. up = TRUE /\ pane = [p \in PaneIds |-> FreshPane] /\ file.recs = <<>>
    BY DEF Init, Document
  <2>2. \A p \in PaneIds : pane[p].screen = <<>>
    BY <2>1, FreshOK
  <2>3. SavedScreens = {}
    <3>1. SavedScreens = {Image(file.recs[i]) : i \in 1..Len(file.recs)}
      BY InitOK, SavedImages
    <3>2. 1..Len(file.recs) = {}
      BY <2>1
    <3> QED BY <3>1, <3>2
  <2> QED BY <2>1, <2>2, <2>3 DEF Log!Init
<1>2. ASSUME CheckpointInv, [Next]_vars
      PROVE  [Log!Next]_<<up, [p \in PaneIds |-> pane[p].screen], SavedScreens>>
  <2>1. ASSUME up' = up, pane' = pane, file'.recs = file.recs
        PROVE  UNCHANGED <<up, [p \in PaneIds |-> pane[p].screen], SavedScreens>>
    <3>1. SavedScreens' = SavedScreens
      BY <1>2, <2>1, SavedAgain, Zenon
    <3> QED BY <2>1, <3>1
  <2>2. CASE TickEarly \/ TickDiscard \/ TickCapture
    <3>1. TickUnchanged
      BY <2>2, Zenon DEF TickEarly, TickDiscard, TickCapture
    <3>2. up' = up /\ pane' = pane /\ file' = file
      BY <3>1, Zenon DEF TickUnchanged
    <3> QED BY <2>1, <3>2
  <2>3. CASE WorkDone
    BY <1>2, <2>3, WorkPublishes DEF Log!Next
  <2>4. CASE WorkFailed
    <3>1. up' = up /\ pane' = pane /\ file' \in {file, AppendPart(file)}
      BY <2>4 DEF WorkFailed, WorkUnchanged
    <3>2. file \in [recs : Seq(SavedRecords) \cup {Corrupt}, torn : BOOLEAN]
      BY <1>2 DEF CheckpointInv, TypeOK
    <3>3. file'.recs = file.recs
      BY <3>1, <3>2 DEF AppendPart
    <3> QED BY <2>1, <3>1, <3>3
  <2>5. ASSUME NEW p \in PaneIds, Drain(p) \/ Resize(p)
        PROVE  Log!Next
    <3>1. PICK event \in Events : Busy(p, event)
      BY <2>5, BusyEvent
    <3> QED BY <1>2, <3>1, BusyGrows DEF Log!Next
  <2>6. CASE AddPane \/ RemovePane \/ SwapPanes
    BY <2>1, <2>6 DEF AddPane, RemovePane, SwapPanes, Rearrange
  <2>7. CASE SaveWorkspace
    BY <2>1, <2>7 DEF SaveWorkspace
  <2>8. CASE Crash
    BY <1>2, <2>8, CrashStops DEF Log!Next
  <2>9. CASE Flush
    BY <1>2, <2>9, FlushStops DEF Log!Next
  <2>10. CASE Start
    BY <1>2, <2>10, StartStarts DEF Log!Next
  <2>11. CASE UNCHANGED vars
    BY <2>1, <2>11 DEF vars
  <2> QED
    BY <1>2, <2>2, <2>3, <2>4, <2>5, <2>6, <2>7, <2>8, <2>9, <2>10, <2>11 DEF Next
<1>3. Spec => Init /\ [][Next]_vars
  BY DEF Spec
<1> QED BY <1>1, <1>2, <1>3, CheckpointInvariant, PTL DEF ImplementsDurableLog, Log!Spec

-----------------------------------------------------------------------------
LEMMA MarkHolds == CheckpointInv => MarkIsSaved
<1> SUFFICES ASSUME CheckpointInv, job = None, result = None, persistMark # Unmarked
             PROVE  LET saved == Saved IN
                    /\ DOMAIN saved = DOMAIN persistMark
                    /\ \A i \in DOMAIN persistMark :
                        /\ NewestSeq(saved[i]) >= persistMark[i].seq
                        /\ Log!IsPart(pane[persistMark[i].pane].screen, saved[i])
  BY DEF MarkIsSaved
<1>1. MarkSaved(persistMark) /\ persistMark \in Marks
  BY DEF CheckpointInv, PlaneOK, TypeOK
<1>2. /\ Len(file.recs) = Len(persistMark)
      /\ \A i \in 1..Len(persistMark) :
            /\ persistMark[i].pane \in PaneIds
            /\ persistMark[i].seq <= NewestSeq(Screen(file.recs[i]))
            /\ Within(Screen(file.recs[i]), pane[persistMark[i].pane].screen, FALSE)
  BY <1>1 DEF MarkSaved
<1>3. DOMAIN persistMark = 1..Len(persistMark)
      /\ \A i \in 1..Len(persistMark) : persistMark[i].seq \in Nat
  <2>1. \A i \in 1..Len(persistMark) : persistMark[i] \in [pane : Nat, seq : Nat]
    BY <1>1, ElementOfSeq DEF Marks
  <2> QED BY <1>1, <2>1 DEF Marks
<1>4. Saved = [i \in 1..Len(persistMark) |-> Screen(file.recs[i])]
  BY <1>2, Filed DEF Saved
<1>5. ASSUME NEW i \in 1..Len(persistMark)
      PROVE  /\ NewestSeq(Saved[i]) >= persistMark[i].seq
             /\ Log!IsPart(pane[persistMark[i].pane].screen, Saved[i])
  <2> DEFINE s == Screen(file.recs[i])
             t == pane[persistMark[i].pane].screen
  <2>1. Saved[i] = s /\ persistMark[i].seq <= NewestSeq(s) /\ Within(s, t, FALSE)
        /\ persistMark[i].pane \in PaneIds
    BY <1>2, <1>4
  <2>2. s \in Screens
    BY <1>2, Filed DEF RecordKnown, RecordOK
  <2>3. t \in Screens
    BY <2>1, Panes DEF CheckpointInv
  <2> HIDE DEF s, t
  <2>4. Log!IsPast(t, [whole |-> FALSE, frames |-> s])
    BY <2>1, <2>2, <2>3, WithinPast
  <2>5. Log!IsPart(t, s)
    BY <2>4 DEF Log!IsPast
  <2>6. NewestSeq(s) \in Nat
    BY <2>2, Ranges
  <2> QED BY <1>3, <2>1, <2>5, <2>6 DEF t
<1> QED BY <1>3, <1>4, <1>5

(* An unchanged daemon may skip its next checkpoint: while none is under    *)
(* way, the file holds every pane of the mark as far as the mark counts.    *)
THEOREM MarkSafe == Spec => []MarkIsSaved
BY MarkHolds, CheckpointInvariant, PTL

-----------------------------------------------------------------------------
(* Progress: while the panes and their layout rest and no write fails, the  *)
(* ticks and the worker bring the file up to date.                          *)

(* A checkpoint with that mark leaves a whole one to be made. *)
Unsaved(mark) == IF mark = Mark THEN 0 ELSE Len(layout) + 2

(* How many steps of the ticks and the worker are left at most. *)
Left ==
    IF job # None THEN 1 + Unsaved(pendingMark)
    ELSE IF capture = None THEN Unsaved(PersistMarkNow)
    ELSE IF capture.layout = layout
         THEN 1 + Len(layout) - Len(capture.panes) + Unsaved(capture.mark)
    ELSE Len(layout) + 3

(* When TickDiscard, TickCapture and WorkDone can be taken: their guards,   *)
(* with an emulator that can be exported.                                   *)
MayDiscard == up /\ PendingMarkNow = None /\ capture # None /\ capture.layout # layout

MayCapture ==
    /\ up
    /\ PendingMarkNow = None
    /\ IF capture = None THEN Mark # PersistMarkNow ELSE capture.layout = layout

MayWork == up /\ job # None /\ Complete

(* The worker never lacks the copy that an increment is for: its error path *)
(* "missing checkpoint cache" (pane_log_persist.rs) is not reached, what    *)
(* ever failed before.                                                      *)
LEMMA JobComplete == CheckpointInv => (job # None => Complete)
<1> SUFFICES ASSUME CheckpointInv, job # None, NEW p \in Ids
             PROVE  CachedNow[p] # None
  BY DEF Complete
<1>1. PICK n \in 1..Len(job) : p = job[n].id
  BY JobEntries
<1>2. CachedNow[p] = [index |-> n, record |-> NthRecord(n)] /\ NthRecord(n) \in SavedRecords
  BY <1>1, CachedAfter
<1>3. n \in Nat
  BY JobEntries
<1>4. CachedNow[p] \in Copies
  BY <1>2, <1>3 DEF Copies
<1> QED BY <1>4, Constants

THEOREM WorkerComplete == Spec => [](job # None => Complete)
BY JobComplete, CheckpointInvariant, PTL

LEMMA Added == \A m, n \in Nat : m + n \in Nat
OBVIOUS

LEMMA LeftNat == CheckpointInv => Left \in Nat
<1> SUFFICES ASSUME CheckpointInv PROVE Left \in Nat
  OBVIOUS
<1>1. Len(layout) \in Nat
  BY LayoutElements DEF CheckpointInv
<1>2. \A mark : Unsaved(mark) \in Nat
  BY <1>1 DEF Unsaved
<1>3. ASSUME capture # None, capture.layout = layout
      PROVE  1 + Len(layout) - Len(capture.panes) \in Nat
  <2>1. Len(capture.panes) < Len(layout)
    BY <1>3 DEF CheckpointInv, PlaneOK, CaptureOK
  <2>2. capture.panes \in Jobs
    BY <1>3 DEF CheckpointInv, TypeOK, Captures
  <2>3. Len(capture.panes) \in Nat
    BY <2>2 DEF Jobs
  <2> QED BY <1>1, <2>1, <2>3
<1>4. CASE job = None /\ capture # None /\ capture.layout = layout
  <2>1. Left = (1 + Len(layout) - Len(capture.panes)) + Unsaved(capture.mark)
    BY <1>4 DEF Left
  <2>2. (1 + Len(layout) - Len(capture.panes)) \in Nat /\ Unsaved(capture.mark) \in Nat
    BY <1>2, <1>3, <1>4
  <2> QED BY <2>1, <2>2, Added
<1>5. CASE ~(job = None /\ capture # None /\ capture.layout = layout)
  <2>1. Left \in {1 + Unsaved(pendingMark), Unsaved(PersistMarkNow), Len(layout) + 3}
    BY <1>5 DEF Left
  <2>2. Unsaved(pendingMark) \in Nat /\ Unsaved(PersistMarkNow) \in Nat
    BY <1>2
  <2> QED BY <1>1, <2>1, <2>2
<1> QED BY <1>4, <1>5

(* What the steps of the ticks and the worker leave alone. *)
LEMMA QuietSteps ==
    ASSUME up' = up, layout' = layout, pane' = pane
    PROVE  Mark' = Mark /\ \A mark : Unsaved(mark)' = Unsaved(mark)
BY DEF Mark, Unsaved

LEMMA TickTakes ==
    ASSUME CheckpointInv, TakeAnswer
    PROVE  PersistMarkNow' = PersistMarkNow
BY DEF TakeAnswer, PersistMarkNow, Answered

LEMMA EarlyLeft ==
    ASSUME CheckpointInv, TickEarly
    PROVE  Left' = Left
<1>1. /\ up' = up /\ layout' = layout /\ pane' = pane /\ capture' = capture /\ job' = job
      /\ pendingMark' = PendingMarkNow /\ TakeAnswer
  BY DEF TickEarly, TickUnchanged, topology
<1>2. \A mark : Unsaved(mark)' = Unsaved(mark)
  BY <1>1, QuietSteps
<1>3. PersistMarkNow' = PersistMarkNow
  BY <1>1, TickTakes
<1>4. job # None => pendingMark' = pendingMark
  BY <1>1 DEF CheckpointInv, PhaseOK, PendingMarkNow, Answered
<1> QED BY <1>1, <1>2, <1>3, <1>4 DEF Left, Unsaved

LEMMA SaveLeft ==
    ASSUME SaveWorkspace
    PROVE  Left' = Left
<1>1. /\ layout' = layout /\ pane' = pane /\ capture' = capture /\ job' = job
      /\ pendingMark' = pendingMark /\ persistMark' = persistMark /\ result' = result
  BY DEF SaveWorkspace, topology, plane, worker
<1> QED BY <1>1 DEF Left, Unsaved, Mark, PersistMarkNow, Answered

LEMMA DiscardLeft ==
    ASSUME CheckpointInv, TickDiscard
    PROVE  Left' < Left
<1>1. /\ up' = up /\ layout' = layout /\ pane' = pane /\ capture # None /\ capture' = None
      /\ capture.layout # layout /\ job' = job /\ TakeAnswer /\ PendingMarkNow = None
  BY DEF TickDiscard, TickUnchanged, topology
<1>2. job = None
  BY <1>1, AnswerTaken
<1>3. Len(layout) \in Nat
  BY LayoutElements DEF CheckpointInv
<1>4. Left = Len(layout) + 3
  BY <1>1, <1>2 DEF Left
<1>5. Left' = Unsaved(PersistMarkNow)'
  BY <1>1, <1>2 DEF Left
<1>6. Unsaved(PersistMarkNow)' \in {0, Len(layout) + 2}
  BY <1>1 DEF Unsaved
<1> QED BY <1>3, <1>4, <1>5, <1>6

LEMMA CaptureLeft ==
    ASSUME CheckpointInv, TickCapture
    PROVE  Left' < Left
<1> DEFINE begun == IF capture = None THEN NewCapture ELSE capture
           i == Len(begun.panes) + 1
<1>1. /\ up' = up /\ layout' = layout /\ pane' = pane /\ TakeAnswer /\ PendingMarkNow = None
      /\ capture # None => capture.layout = layout
      /\ capture = None => Mark # PersistMarkNow
  BY DEF TickCapture, TickUnchanged, topology
<1>2. PICK exported \in BOOLEAN :
        LET more == i <= Len(layout)
            taken == IF ~more THEN begun
                     ELSE [begun EXCEPT
                        !.panes = Append(@, Pending(layout[i], i, CapturedNow, exported)),
                        !.captured = [@ EXCEPT ![layout[i]] = Signature(layout[i], i)]]
        IN
        /\ Exports(exported)
        /\ IF i < Len(layout)
           THEN /\ capture' = taken
                /\ captured' = CapturedNow
                /\ pendingMark' = None
                /\ UNCHANGED job
           ELSE /\ capture' = None
                /\ captured' = taken.captured
                /\ pendingMark' = taken.mark
                /\ job' = taken.panes
  BY Zenon DEF TickCapture
<1> DEFINE taken == IF ~(i <= Len(layout)) THEN begun
                    ELSE [begun EXCEPT
                        !.panes = Append(@, Pending(layout[i], i, CapturedNow, exported)),
                        !.captured = [@ EXCEPT ![layout[i]] = Signature(layout[i], i)]]
<1>3. IF i < Len(layout)
      THEN capture' = taken /\ pendingMark' = None /\ job' = job
      ELSE capture' = None /\ pendingMark' = taken.mark /\ job' = taken.panes
  BY <1>2
<1>4. /\ begun \in Captures /\ begun.layout = layout
      /\ Len(begun.panes) \in Nat
      /\ \/ Len(begun.panes) < Len(layout)
         \/ Len(layout) = 0 /\ Len(begun.panes) = 0
  <2> HIDE DEF i, taken
  <2> QED BY <1>1, CaptureBegun
<1>5. begun.mark = IF capture = None THEN Mark ELSE capture.mark
  BY DEF NewCapture
<1>6. capture = None => begun.panes = <<>>
  BY DEF NewCapture
<1> HIDE DEF begun
<1>7. Len(layout) \in Nat /\ i \in Nat /\ i = Len(begun.panes) + 1
  BY <1>4, LayoutElements DEF CheckpointInv
<1>8. /\ taken \in Captures /\ taken.mark = begun.mark /\ taken.layout = layout
      /\ Len(taken.panes) = IF i <= Len(layout) THEN i ELSE Len(begun.panes)
  <2>1. CASE i <= Len(layout)
    <3>1. GatheredFor(begun, layout)
      BY <1>1, CaptureBegun DEF begun
    <3>2. Len(begun.panes) < Len(layout)
      BY <1>4, <1>7, <2>1
    <3>3. taken = PaneAdded(begun, exported)
      BY <2>1 DEF PaneAdded
    <3>4. taken.mark = begun.mark
      BY <1>4, <3>3 DEF PaneAdded, Captures
    <3> HIDE DEF taken, i
    <3>5. taken \in Captures /\ taken.layout = layout /\ Len(taken.panes) = Len(begun.panes) + 1
      BY <1>1, <1>4, <3>1, <3>2, <3>3, PaneTaken
    <3> QED BY <1>7, <2>1, <3>4, <3>5
  <2>2. CASE ~(i <= Len(layout))
    BY <1>4, <2>2
  <2> QED BY <2>1, <2>2
<1> HIDE DEF taken, i
<1>9. Mark' = Mark /\ \A mark : Unsaved(mark)' = Unsaved(mark)
  BY <1>1, QuietSteps
<1>10. job = None
  BY <1>1, AnswerTaken
<1>11. Unsaved(begun.mark) \in Nat
  BY <1>7 DEF Unsaved
<1>12. PICK n \in Nat, k \in Nat, u \in Nat :
        n = Len(layout) /\ k = Len(begun.panes) /\ u = Unsaved(begun.mark)
  BY <1>4, <1>7, <1>11
<1>13. Left \in Nat /\ Left >= u + 2 /\ (n # 0 => Left >= 1 + n - k + u)
  <2>1. CASE capture = None
    <3>1. Left = n + 2
      BY <1>1, <1>10, <1>12, <2>1 DEF Left, Unsaved
    <3>2. u = 0 /\ k = 0
      BY <1>5, <1>6, <1>12, <2>1 DEF Unsaved
    <3> QED BY <3>1, <3>2
  <2>2. CASE capture # None
    <3>1. Left = 1 + n - k + u
      BY <1>1, <1>10, <1>12, <2>2 DEF Left, begun
    <3>2. k < n
      BY <1>1, <1>12, <2>2 DEF CheckpointInv, PlaneOK, CaptureOK, begun
    <3> QED BY <3>1, <3>2
  <2> QED BY <2>1, <2>2
<1>14. CASE i < Len(layout)
  <2>1. capture' = taken /\ job' = None /\ capture' # None
    BY <1>3, <1>8, <1>10, <1>14, Constants
  <2>2. Left' = 1 + Len(layout) - Len(taken.panes) + Unsaved(taken.mark)
    <3>1. capture'.layout = layout'
      BY <1>1, <1>8, <2>1
    <3>2. Left' = 1 + Len(layout') - Len(capture'.panes) + Unsaved(capture.mark)'
      BY <2>1, <3>1 DEF Left
    <3>3. Unsaved(capture.mark)' = Unsaved(taken.mark)
      BY <1>1, <1>9, <2>1 DEF Unsaved
    <3> QED BY <1>1, <2>1, <3>2, <3>3
  <2>3. Len(taken.panes) = k + 1 /\ Unsaved(taken.mark) = u /\ k + 1 < n
    BY <1>7, <1>8, <1>12, <1>14
  <2>4. Left' = 1 + n - (k + 1) + u
    BY <1>12, <2>2, <2>3
  <2> QED BY <1>13, <2>3, <2>4
<1>15. CASE ~(i < Len(layout))
  <2>1. job' = taken.panes /\ job' # None /\ pendingMark' = begun.mark
    <3>1. taken.panes \in Jobs
      BY <1>8 DEF Captures
    <3> QED BY <1>3, <1>8, <1>15, <3>1, Constants
  <2>2. Left' = 1 + u
    <3>1. Left' = 1 + Unsaved(pendingMark)'
      BY <2>1 DEF Left
    <3>2. Unsaved(pendingMark)' = Unsaved(begun.mark)
      BY <1>1, <1>9, <2>1 DEF Unsaved
    <3> QED BY <1>12, <3>1, <3>2
  <2> QED BY <1>13, <2>2
<1> QED BY <1>14, <1>15

LEMMA WorkLeft ==
    ASSUME CheckpointInv, WorkDone
    PROVE  Left' < Left
<1>1. /\ up' = up /\ layout' = layout /\ pane' = pane /\ capture' = capture
      /\ pendingMark' = pendingMark /\ job # None /\ job' = None
      /\ result' = [ok |-> TRUE, compact |-> journaled' >= JournalLimit]
  BY DEF WorkDone, WorkUnchanged, topology, plane
<1>2. pendingMark # None /\ capture = None
  BY <1>1 DEF CheckpointInv, PhaseOK
<1>3. result' # None /\ result'.ok
  <2>1. result' \in Results
    BY <1>1 DEF Results
  <2> QED BY <1>1, <2>1, Constants
<1>4. PersistMarkNow' = pendingMark
  BY <1>1, <1>2, <1>3 DEF PersistMarkNow, Answered
<1>5. Left' = Unsaved(pendingMark)
  <2>1. Left' = Unsaved(PersistMarkNow)'
    BY <1>1, <1>2 DEF Left
  <2>2. Unsaved(PersistMarkNow)' = Unsaved(pendingMark)
    BY <1>1, <1>4, QuietSteps DEF Unsaved
  <2> QED BY <2>1, <2>2
<1>6. Left = 1 + Unsaved(pendingMark)
  BY <1>1 DEF Left
<1>7. Left \in Nat /\ Unsaved(pendingMark) \in Nat
  <2>1. Len(layout) \in Nat
    BY LayoutElements DEF CheckpointInv
  <2> QED BY <2>1, LeftNat DEF Unsaved
<1> QED BY <1>5, <1>6, <1>7

LEMMA SavedWhole ==
    ASSUME CheckpointInv, Left = 0
    PROVE  Settled
<1>1. Len(layout) \in Nat /\ DOMAIN layout = 1..Len(layout)
      /\ \A i \in 1..Len(layout) : layout[i] \in PaneIds
  BY LayoutElements DEF CheckpointInv
<1>2. \A mark : Unsaved(mark) \in Nat
  BY <1>1 DEF Unsaved
<1>3. job = None /\ capture = None
  <2>1. job = None
    <3>1. job # None => Left = 1 + Unsaved(pendingMark)
      BY DEF Left
    <3>2. Unsaved(pendingMark) \in Nat
      BY <1>1, <1>2
    <3> QED BY <3>1, <3>2
  <2>2. capture # None => Len(capture.panes) < Len(capture.layout) /\ Len(capture.panes) \in Nat
    <3> SUFFICES ASSUME capture # None
                 PROVE  Len(capture.panes) < Len(capture.layout) /\ Len(capture.panes) \in Nat
      OBVIOUS
    <3>1. capture.panes \in Jobs
      BY DEF CheckpointInv, TypeOK, Captures
    <3> QED BY <3>1 DEF CheckpointInv, PlaneOK, CaptureOK, Jobs
  <2>3. ASSUME capture # None
        PROVE  FALSE
    <3>0. Unsaved(capture.mark) \in Nat
      BY <1>2
    <3>1. PICK n \in Nat, u \in Nat : n = Len(layout) /\ u = Unsaved(capture.mark)
      BY <1>1, <3>0, Zenon
    <3>2. CASE capture.layout = layout
      <4>1. PICK k \in Nat : k = Len(capture.panes)
        BY <2>2, <2>3
      <4>2. k < n /\ Left = 1 + n - k + u
        BY <2>1, <2>2, <2>3, <3>1, <3>2, <4>1 DEF Left
      <4> QED BY <4>2
    <3>3. CASE capture.layout # layout
      <4>1. Left = n + 3
        BY <2>1, <2>3, <3>1, <3>3 DEF Left
      <4> QED BY <4>1
    <3> QED BY <3>2, <3>3
  <2> QED BY <2>1, <2>3
<1>4. PersistMarkNow = Mark
  BY <1>1, <1>3 DEF Left, Unsaved
<1>5. MarkSaved(Mark)
  BY <1>4, AnswerTaken
<1>6. Mark = [n \in 1..Len(layout) |->
                [pane |-> layout[n], seq |-> CurrentSeq(pane[layout[n]].log)]]
  BY <1>1 DEF Mark
<1>7. Mark # Unmarked
  <2>1. CASE Len(layout) = 0
    BY <1>6, <2>1 DEF Unmarked
  <2>2. CASE Len(layout) # 0
    <3>1. Mark[1].pane = layout[1] /\ layout[1] # 0
      BY <1>1, <1>6, <2>2 DEF PaneIds
    <3> QED BY <3>1 DEF Unmarked
  <2> QED BY <2>1, <2>2
<1>8. Len(Mark) = Len(layout)
  BY <1>1, <1>6
<1>9. Len(file.recs) = Len(layout)
  BY <1>5, <1>7, <1>8 DEF MarkSaved
<1>10. Saved = [i \in 1..Len(layout) |-> Screen(file.recs[i])]
  BY <1>9, Filed DEF Saved
<1>11. ASSUME NEW i \in 1..Len(layout)
       PROVE  NewestSeq(Saved[i]) = CurrentSeq(pane[layout[i]].log)
  <2> DEFINE s == Screen(file.recs[i])
             live == pane[layout[i]]
  <2>1. layout[i] \in PaneIds /\ live \in LivePanes /\ LogOK(live)
        /\ NewestSeq(live.screen) = Before(live.screen) + Len(live.screen)
    BY <1>1, Panes DEF CheckpointInv
  <2>2. CurrentSeq(live.log) = NewestSeq(live.screen) /\ NewestSeq(live.screen) \in Nat
    BY <2>1, LivePane
  <2>3. /\ Mark[i].seq = CurrentSeq(live.log) /\ Mark[i].pane = layout[i]
    BY <1>6
  <2>4. Mark[i].seq <= NewestSeq(s) /\ Within(s, live.screen, FALSE)
    BY <1>5, <1>7, <1>8, <2>3 DEF MarkSaved
  <2>5. s \in Screens /\ Numbered(s)
    BY <1>9, Filed DEF RecordKnown, RecordOK
  <2> HIDE DEF s
  <2>6. NewestSeq(s) = Before(s) + Len(s) /\ NewestSeq(s) \in Nat
    BY <2>5, Ranges
  <2>7. NewestSeq(s) <= NewestSeq(live.screen)
    BY <2>1, <2>4, <2>6 DEF Within
  <2> HIDE DEF live
  <2>8. NewestSeq(s) = CurrentSeq(live.log)
    BY <2>2, <2>3, <2>4, <2>6, <2>7
  <2> QED BY <1>10, <2>8 DEF s, live
<1>12. DOMAIN Saved = DOMAIN layout
  BY <1>1, <1>10
<1> QED BY <1>1, <1>11, <1>12 DEF Settled

LEMMA StepLeft ==
    ASSUME CheckpointInv, up, Left # 0
    PROVE  MayDiscard \/ MayCapture \/ MayWork
<1>1. CASE job # None
  BY <1>1, JobComplete DEF MayWork
<1>2. CASE job = None
  <2>1. PendingMarkNow = None
    BY <1>2, AnswerTaken
  <2> QED BY <1>2, <2>1 DEF MayDiscard, MayCapture, Left, Unsaved
<1> QED BY <1>1, <1>2

(* A running daemon is done, and then the file holds every pane whole, or   *)
(* a tick or the worker has something to do: no checkpoint is given up      *)
(* half-way, whatever failed, was discarded or was compacted before.        *)
THEOREM RestIsSaved ==
    Spec => [](up => IF Left = 0 THEN Settled ELSE MayDiscard \/ MayCapture \/ MayWork)
<1>1. CheckpointInv =>
        (up => IF Left = 0 THEN Settled ELSE MayDiscard \/ MayCapture \/ MayWork)
  BY SavedWhole, StepLeft
<1> QED BY <1>1, CheckpointInvariant, PTL

(* What they do brings the end nearer: the measure of what is left falls    *)
(* with each step of the ticks and the worker, and only output, a change of *)
(* the layout, a failed write or an end of the daemon can raise it.         *)
THEOREM CheckpointsAdvance ==
    Spec => [][/\ Left \in Nat
               /\ TickDiscard \/ TickCapture \/ WorkDone => Left' < Left
               /\ TickEarly \/ SaveWorkspace => Left' = Left]_vars
<1>1. CheckpointInv /\ [Next]_vars =>
        [/\ Left \in Nat
         /\ TickDiscard \/ TickCapture \/ WorkDone => Left' < Left
         /\ TickEarly \/ SaveWorkspace => Left' = Left]_vars
  BY LeftNat, DiscardLeft, CaptureLeft, WorkLeft, EarlyLeft, SaveLeft
<1> QED BY <1>1, CheckpointInvariant, PTL DEF Spec

=============================================================================
