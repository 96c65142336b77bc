-------------------------- MODULE MailWait_proofs --------------------------
(***************************************************************************)
(* Proofs about MailWait, for any number of threads, addresses and letters:*)
(* the types, that no wakeup is lost, and that only the cycle of the two   *)
(* locks can block everyone.  They rest on who holds the locks: a waiter   *)
(* keeps the watch from its predicate to its park, and only a rename keeps *)
(* the plane, until it has rung.                                           *)
(***************************************************************************)
EXTENDS MailWait, TLAPS

(* Which pc values a thread can have, by its role. *)
RolesOK ==
    /\ \A w \in Waiters : pc[w] \in WaiterPC
    /\ \A t \in Clients : pc[t] \in ClientPC
    /\ \A t \in Namers : pc[t] \in NamerPC

(* wait_until holds the watch from the check of its predicate to the park. *)
WatchHeld == \A w \in Waiters : pc[w] \in {"check", "sleep"} => watch = w

-----------------------------------------------------------------------------
(* The types of the shared state hold in every reachable state. *)
THEOREM TypeCorrect == Spec => []TypeOK
<1> USE ThreadsAssumption, AddrAssumption, BoundsAssumption
<1>1. Init => TypeOK
  BY DEF Init, TypeOK, Threads, WaiterPC, ClientPC, NamerPC
<1>2. TypeOK /\ [Next]_vars => TypeOK'
  <2> SUFFICES ASSUME TypeOK, [Next]_vars PROVE TypeOK'
    OBVIOUS
  <2> USE DEF TypeOK, locks, mail, Goto, Threads, WaiterPC, ClientPC, NamerPC
  <2>1. ASSUME NEW w \in Waiters, WaiterStep(w) PROVE TypeOK'
    BY <2>1 DEF WaiterStep, Prepare, LockWatch, Check, Park, Answer
  <2>2. ASSUME NEW w \in Waiters, Timer(w) PROVE TypeOK'
    BY <2>2 DEF Timer, Deadline, SpuriousWakeup
  <2>3. ASSUME NEW t \in Clients, NEW a \in Addr, MailSend(t, a) PROVE TypeOK'
    <3>1. Resolve(a) \in Addr
      BY DEF Resolve
    <3> QED BY <2>3, <3>1 DEF MailSend, Request
  <2>4. ASSUME NEW t \in Clients, MailClaim(t) PROVE TypeOK'
    BY <2>4 DEF MailClaim, Request
  <2>5. ASSUME NEW t \in Clients, MailCommit(t) PROVE TypeOK'
    BY <2>5 DEF MailCommit, Request
  <2>6. ASSUME NEW t \in Clients, MailRelease(t) PROVE TypeOK'
    BY <2>6 DEF MailRelease, Request
  <2>7. ASSUME NEW t \in Clients, RingStep(t) PROVE TypeOK'
    BY <2>7 DEF RingStep, FetchWatch, Ring, Woken
  <2>8. ASSUME NEW t \in Namers, NEW a \in Addr, Rename(t, a) PROVE TypeOK'
    BY <2>8 DEF Rename
  <2>9. ASSUME NEW t \in Namers, RingUnderPlane(t) PROVE TypeOK'
    BY <2>9 DEF RingUnderPlane, Woken
  <2>10. CASE UNCHANGED vars
    BY <2>10 DEF vars
  <2> QED
    BY <2>1, <2>2, <2>3, <2>4, <2>5, <2>6, <2>7, <2>8, <2>9, <2>10
    DEF Next, ClientStep, NamerStep
<1> QED BY <1>1, <1>2, PTL DEF Spec, Safe

-----------------------------------------------------------------------------
(* Who holds the watch.  Every step keeps the roles and WatchHeld.          *)
LEMMA WatchHolder == Spec => [](RolesOK /\ WatchHeld)
<1> USE ThreadsAssumption
<1>1. Init => RolesOK /\ WatchHeld
  BY DEF Init, RolesOK, WatchHeld, Threads, WaiterPC, ClientPC, NamerPC
<1>2. TypeOK /\ RolesOK /\ WatchHeld /\ [Next]_vars => (RolesOK /\ WatchHeld)'
  <2> SUFFICES ASSUME TypeOK, RolesOK, WatchHeld, [Next]_vars
               PROVE  (RolesOK /\ WatchHeld)'
    OBVIOUS
  <2> USE DEF TypeOK, RolesOK, WatchHeld, locks, mail, Goto, Threads,
              WaiterPC, ClientPC, NamerPC
  <2>1. ASSUME NEW w \in Waiters, WaiterStep(w) PROVE (RolesOK /\ WatchHeld)'
    BY <2>1 DEF WaiterStep, Prepare, LockWatch, Check, Park, Answer
  <2>2. ASSUME NEW w \in Waiters, Timer(w) PROVE (RolesOK /\ WatchHeld)'
    BY <2>2 DEF Timer, Deadline, SpuriousWakeup
  <2>3. ASSUME NEW t \in Clients, ClientStep(t) PROVE (RolesOK /\ WatchHeld)'
    BY <2>3 DEF ClientStep, MailSend, MailClaim, MailCommit, MailRelease, Request
  <2>4. ASSUME NEW t \in Clients, RingStep(t) PROVE (RolesOK /\ WatchHeld)'
    BY <2>4 DEF RingStep, FetchWatch, Ring, Woken
  <2>5. ASSUME NEW t \in Namers, NEW a \in Addr, Rename(t, a)
        PROVE  (RolesOK /\ WatchHeld)'
    BY <2>5 DEF Rename
  <2>6. ASSUME NEW t \in Namers, RingUnderPlane(t) PROVE (RolesOK /\ WatchHeld)'
    BY <2>6 DEF RingUnderPlane, Woken
  <2>7. CASE UNCHANGED vars
    BY <2>7 DEF vars
  <2> QED
    BY <2>1, <2>2, <2>3, <2>4, <2>5, <2>6, <2>7 DEF Next, NamerStep
<1> QED BY <1>1, <1>2, TypeCorrect, PTL DEF Spec, Safe

-----------------------------------------------------------------------------
(* MailboxWatch: a ring never slips between a check and a park.  A step     *)
(* that gives the agent mail leaves a ring to come, and the ring, which     *)
(* needs the watch, finds no waiter between its check and its park.         *)
THEOREM WakeupsKept == Spec => []NoLostWakeup
<1> USE ThreadsAssumption, AddrAssumption
<1>1. Init => NoLostWakeup
  BY DEF Init, NoLostWakeup, Threads
<1>2. ASSUME TypeOK, RolesOK, WatchHeld, NoLostWakeup, [Next]_vars
      PROVE  NoLostWakeup'
  <2> USE DEF locks, mail, Goto, Threads
  <2>0. /\ pc \in [Threads -> WaiterPC \cup ClientPC \cup NamerPC]
        /\ open \in [Addr -> Nat]
        /\ held \in [Addr -> Nat]
        /\ current \in Addr
        /\ Free \notin Waiters
    BY <1>2 DEF TypeOK
  <2>1. ASSUME NEW w \in Waiters, WaiterStep(w) PROVE NoLostWakeup'
    BY <1>2, <2>0, <2>1
    DEF NoLostWakeup, RingPending, HasMail,
        WaiterStep, Prepare, LockWatch, Check, Park, Answer
  <2>2. ASSUME NEW w \in Waiters, Timer(w) PROVE NoLostWakeup'
    BY <1>2, <2>0, <2>2
    DEF NoLostWakeup, RingPending, HasMail, Timer, Deadline, SpuriousWakeup
  <2>3. ASSUME NEW t \in Clients, NEW a \in Addr, MailSend(t, a) PROVE NoLostWakeup'
    BY <2>0, <2>3 DEF NoLostWakeup, RingPending, MailSend, Request
  <2>4. ASSUME NEW t \in Clients, MailRelease(t) PROVE NoLostWakeup'
    BY <2>0, <2>4 DEF NoLostWakeup, RingPending, MailRelease, Request
  <2>5. ASSUME NEW t \in Clients, MailClaim(t) PROVE NoLostWakeup'
    BY <2>0, <2>5 DEF NoLostWakeup, HasMail, MailClaim, Request
  <2>6. ASSUME NEW t \in Clients, MailCommit(t) PROVE NoLostWakeup'
    BY <1>2, <2>0, <2>6 DEF NoLostWakeup, RingPending, HasMail, MailCommit, Request
  <2>7. ASSUME NEW t \in Clients, RingStep(t) PROVE NoLostWakeup'
    <3>1. CASE FetchWatch(t)
      BY <2>0, <3>1 DEF NoLostWakeup, RingPending, FetchWatch
    <3>2. CASE Ring(t)
      BY <1>2, <2>0, <3>2 DEF NoLostWakeup, WatchHeld, Ring, Woken
    <3> QED BY <2>7, <3>1, <3>2 DEF RingStep
  <2>8. ASSUME NEW t \in Namers, NEW a \in Addr, Rename(t, a) PROVE NoLostWakeup'
    BY <2>0, <2>8 DEF NoLostWakeup, RingPending, Rename
  <2>9. ASSUME NEW t \in Namers, RingUnderPlane(t) PROVE NoLostWakeup'
    BY <1>2, <2>0, <2>9 DEF NoLostWakeup, WatchHeld, RingUnderPlane, Woken
  <2>10. CASE UNCHANGED vars
    BY <1>2, <2>10 DEF vars, NoLostWakeup, RingPending, HasMail
  <2> QED
    BY <1>2, <2>1, <2>2, <2>3, <2>4, <2>5, <2>6, <2>7, <2>8, <2>9, <2>10
    DEF Next, ClientStep, NamerStep
<1> QED BY <1>1, <1>2, TypeCorrect, WatchHolder, PTL DEF Spec, Safe

-----------------------------------------------------------------------------
(* A lock held between steps has a holder that is still at work with it. *)
LocksInUse ==
    /\ plane # Free => plane \in Namers /\ pc[plane] = "ring"
    /\ watch # Free => watch \in Waiters /\ pc[watch] \in {"check", "sleep"}
    /\ \A t \in Namers : pc[t] = "ring" => plane = t

(* A lock is held only by a thread that will let go of it. *)
LEMMA LockHolders == Spec => []LocksInUse
<1> USE ThreadsAssumption
<1>1. Init => LocksInUse
  BY DEF Init, LocksInUse, Threads
<1>2. ASSUME TypeOK, RolesOK, WatchHeld, LocksInUse, [Next]_vars
      PROVE  LocksInUse'
  <2> USE <1>2 DEF TypeOK, RolesOK, WatchHeld, LocksInUse, locks, mail, Goto, Threads,
                   WaiterPC, ClientPC, NamerPC
  <2>1. ASSUME NEW w \in Waiters, WaiterStep(w) PROVE LocksInUse'
    BY <2>1 DEF WaiterStep, Prepare, LockWatch, Check, Park, Answer
  <2>2. ASSUME NEW w \in Waiters, Timer(w) PROVE LocksInUse'
    BY <2>2 DEF Timer, Deadline, SpuriousWakeup
  <2>3. ASSUME NEW t \in Clients, ClientStep(t) PROVE LocksInUse'
    BY <2>3 DEF ClientStep, MailSend, MailClaim, MailCommit, MailRelease, Request
  <2>4. ASSUME NEW t \in Clients, RingStep(t) PROVE LocksInUse'
    BY <2>4 DEF RingStep, FetchWatch, Ring, Woken
  <2>5. ASSUME NEW t \in Namers, NEW a \in Addr, Rename(t, a) PROVE LocksInUse'
    BY <2>5 DEF Rename
  <2>6. ASSUME NEW t \in Namers, RingUnderPlane(t) PROVE LocksInUse'
    BY <2>6 DEF RingUnderPlane, Woken
  <2>7. CASE UNCHANGED vars
    BY <2>7 DEF vars
  <2> QED
    BY <2>1, <2>2, <2>3, <2>4, <2>5, <2>6, <2>7 DEF Next, NamerStep
<1> QED BY <1>1, <1>2, TypeCorrect, WatchHolder, PTL DEF Spec, Safe

(* The guards of WaiterStep, RingStep and RingUnderPlane: the next lock of  *)
(* the thread is free, or it needs none.                                    *)
WaiterReady(w) ==
    \/ pc[w] \in {"prepare", "answer"} /\ plane = Free
    \/ pc[w] = "lock" /\ watch = Free
    \/ pc[w] = "check" /\ watch = w /\ plane = Free
    \/ pc[w] = "sleep"

RingReady(t) ==
    \/ pc[t] = "fetch" /\ plane = Free
    \/ pc[t] = "ring" /\ watch = Free

RingUnderPlaneReady(t) == pc[t] = "ring" /\ watch = Free

(* The lock cycle of handle_mail_wait and name_session is the only way to   *)
(* block the daemon: in every other state in which a thread is in the       *)
(* middle of its work, one of them finds the lock it takes next free.       *)
THEOREM CycleAloneBlocks ==
    Spec => [](Busy /\ NoLockCycle =>
                  \/ \E w \in Waiters : WaiterReady(w)
                  \/ \E t \in Clients : RingReady(t)
                  \/ \E t \in Namers : RingUnderPlaneReady(t))
<1> DEFINE Ready == \/ \E w \in Waiters : WaiterReady(w)
                    \/ \E t \in Clients : RingReady(t)
                    \/ \E t \in Namers : RingUnderPlaneReady(t)
<1>1. ASSUME WatchHeld, LocksInUse, Busy, NoLockCycle
      PROVE  Ready
  <2>1. CASE watch # Free
    <3>1. watch \in Waiters /\ pc[watch] \in {"check", "sleep"}
      BY <1>1, <2>1 DEF LocksInUse
    <3>2. CASE plane = Free
      BY <3>1, <3>2 DEF WaiterReady
    <3>3. CASE plane # Free
      <4>1. plane \in Namers /\ pc[plane] = "ring"
        BY <1>1, <3>3 DEF LocksInUse
      <4>2. pc[watch] # "check"
        BY <1>1, <3>1, <4>1 DEF NoLockCycle
      <4> QED BY <3>1, <4>2 DEF WaiterReady
    <3> QED BY <3>2, <3>3
  <2>2. CASE watch = Free /\ plane # Free
    BY <1>1, <2>2 DEF LocksInUse, RingUnderPlaneReady
  <2>3. CASE watch = Free /\ plane = Free
    <3>1. CASE \E w \in Waiters : pc[w] \in {"prepare", "lock", "check", "sleep", "answer"}
      <4>1. PICK w \in Waiters : pc[w] \in {"prepare", "lock", "check", "sleep", "answer"}
        BY <3>1
      <4>2. pc[w] = "check" => watch = w
        BY <1>1 DEF WatchHeld
      <4> QED BY <2>3, <4>1, <4>2 DEF WaiterReady
    <3>2. CASE RingPending
      BY <2>3, <3>2 DEF RingPending, RingReady, RingUnderPlaneReady
    <3> QED BY <1>1, <3>1, <3>2 DEF Busy
  <2> QED BY <2>1, <2>2, <2>3
<1>2. WatchHeld /\ LocksInUse => (Busy /\ NoLockCycle => Ready)
  BY <1>1
<1> QED BY <1>2, WatchHolder, LockHolders, PTL

-----------------------------------------------------------------------------
(* Why mail ends every wait.  While the agent has mail, the way of a waiter *)
(* to its answer only gets shorter, with each step of its own and with the  *)
(* ring that wakes it; and the daemon does not come to rest before every    *)
(* waiter has answered.                                                     *)

(* How many steps a waiter is from its end while there is mail: one that    *)
(* has found none is on its way to the park and back.                       *)
Left(w) ==
    CASE pc[w] = "sleep" -> 5
      [] pc[w] \in {"prepare", "parked"} -> 4
      [] pc[w] = "lock" -> 3
      [] pc[w] = "check" -> 2
      [] pc[w] = "answer" -> 1
      [] OTHER -> 0

(* The rings that MailboxWatch::ring sends to all parked threads. *)
RingsAll ==
    \/ \E t \in Clients : Ring(t)
    \/ \E t \in Namers : RingUnderPlane(t)

(* With mail there, no step takes any waiter back, its own steps and the    *)
(* wakeups take it forward.                                                 *)
THEOREM MailMovesForward ==
    Spec => [][HasMail => \A w \in Waiters :
                  /\ Left(w)' <= Left(w)
                  /\ WaiterStep(w) => Left(w)' < Left(w)
                  /\ RingsAll /\ pc[w] = "parked" => Left(w)' < Left(w)]_vars
<1> USE ThreadsAssumption
<1> DEFINE Forward == HasMail => \A w \in Waiters :
                  /\ Left(w)' <= Left(w)
                  /\ WaiterStep(w) => Left(w)' < Left(w)
                  /\ RingsAll /\ pc[w] = "parked" => Left(w)' < Left(w)
<1>1. ASSUME TypeOK, RolesOK, HasMail, [Next]_vars, NEW w \in Waiters
      PROVE  /\ Left(w)' <= Left(w)
             /\ WaiterStep(w) => Left(w)' < Left(w)
             /\ RingsAll /\ pc[w] = "parked" => Left(w)' < Left(w)
  <2>0. pc \in [Threads -> WaiterPC \cup ClientPC \cup NamerPC] /\ w \in Threads
    BY <1>1 DEF TypeOK, Threads
  <2> USE DEF Goto
  <2>1. ASSUME WaiterStep(w) PROVE Left(w)' < Left(w) /\ pc[w] # "parked"
    BY <1>1, <2>0, <2>1 DEF Left, WaiterStep, Prepare, LockWatch, Check, Park, Answer
  <2>2. ASSUME RingsAll
        PROVE  pc'[w] = IF pc[w] = "parked" THEN "lock" ELSE pc[w]
    <3>1. ASSUME NEW t \in Clients, Ring(t)
          PROVE  pc'[w] = IF pc[w] = "parked" THEN "lock" ELSE pc[w]
      BY <2>0, <3>1 DEF Ring, Woken
    <3>2. ASSUME NEW t \in Namers, RingUnderPlane(t)
          PROVE  pc'[w] = IF pc[w] = "parked" THEN "lock" ELSE pc[w]
      BY <2>0, <3>2 DEF RingUnderPlane, Woken
    <3> QED BY <2>2, <3>1, <3>2 DEF RingsAll
  <2>3. ASSUME ~WaiterStep(w), ~RingsAll
        PROVE  pc'[w] = pc[w] \/ (pc[w] = "parked" /\ pc'[w] = "lock")
    <3>1. ASSUME NEW v \in Waiters \ {w}, WaiterStep(v) PROVE pc'[w] = pc[w]
      BY <2>0, <3>1 DEF WaiterStep, Prepare, LockWatch, Check, Park, Answer
    <3>2. ASSUME NEW v \in Waiters, Timer(v)
          PROVE  pc'[w] = pc[w] \/ (pc[w] = "parked" /\ pc'[w] = "lock")
      BY <2>0, <3>2 DEF Timer, Deadline, SpuriousWakeup
    <3>3. ASSUME NEW t \in Clients, ClientStep(t) \/ FetchWatch(t) PROVE pc'[w] = pc[w]
      BY <2>0, <3>3 DEF ClientStep, MailSend, MailClaim, MailCommit, MailRelease, Request,
         FetchWatch
    <3>4. ASSUME NEW t \in Namers, NamerStep(t) PROVE pc'[w] = pc[w]
      BY <2>0, <3>4 DEF NamerStep, Rename
    <3>5. CASE UNCHANGED vars
      BY <3>5 DEF vars
    <3> QED BY <1>1, <2>3, <3>1, <3>2, <3>3, <3>4, <3>5 DEF Next, RingStep, RingsAll
  <2>4. Left(w)' < Left(w) \/ pc'[w] = pc[w]
    BY <2>1, <2>2, <2>3 DEF Left
  <2>5. RingsAll /\ pc[w] = "parked" => Left(w)' < Left(w)
    BY <2>2 DEF Left
  <2>6. pc'[w] = pc[w] => Left(w)' = Left(w)
    BY DEF Left
  <2>7. Left(w) \in Nat /\ Left(w)' \in Nat
    BY DEF Left
  <2> QED BY <2>1, <2>4, <2>5, <2>6, <2>7
<1>2. TypeOK /\ RolesOK /\ [Next]_vars => [Forward]_vars
  BY <1>1
<1> QED BY <1>2, TypeCorrect, WatchHolder, PTL DEF Spec, Safe

(* The daemon rests, with mail there, only when every wait has ended: no    *)
(* waiter sleeps on behind a ring that is gone, and none is left in front   *)
(* of a lock.                                                               *)
THEOREM NoneSleepsOn ==
    Spec => [](/\ HasMail /\ NoLockCycle
               /\ \A w \in Waiters : ~WaiterReady(w)
               /\ \A t \in Clients : ~RingReady(t)
               /\ \A t \in Namers : ~RingUnderPlaneReady(t)
               => \A w \in Waiters : pc[w] = "done")
<1> DEFINE Ready == \/ \E w \in Waiters : WaiterReady(w)
                    \/ \E t \in Clients : RingReady(t)
                    \/ \E t \in Namers : RingUnderPlaneReady(t)
<1>1. /\ RolesOK
      /\ NoLostWakeup
      /\ Busy /\ NoLockCycle => Ready
      => (/\ HasMail /\ NoLockCycle
          /\ \A w \in Waiters : ~WaiterReady(w)
          /\ \A t \in Clients : ~RingReady(t)
          /\ \A t \in Namers : ~RingUnderPlaneReady(t)
          => \A w \in Waiters : pc[w] = "done")
  BY DEF RolesOK, WaiterPC, NoLostWakeup, Busy
<1> QED BY <1>1, WatchHolder, WakeupsKept, CycleAloneBlocks, PTL
=============================================================================
