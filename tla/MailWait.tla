------------------------------ MODULE MailWait ------------------------------
(***************************************************************************)
(* Threads of pmuxd around `MailWait`: a client thread that parks on the   *)
(* mailbox watch until its agent has open mail, and the client threads     *)
(* that store, take or rename mail meanwhile.                              *)
(*                                                                         *)
(* Two locks are shared.  The plane mutex guards the whole control plane;  *)
(* the watch mutex guards the condition variable of MailboxWatch.  A       *)
(* critical section that takes no other lock is one step here; a lock is   *)
(* recorded as held only across the steps in which its holder waits for    *)
(* the other lock.  The waiter holds the watch while its predicate takes   *)
(* the plane (`wait_until`); NameSession holds the plane while it takes    *)
(* the watch (`name_session` calls `mail_watch.ring()`).                   *)
(***************************************************************************)
EXTENDS Naturals, FiniteSets

CONSTANTS
    Waiters,      \* client threads that serve one MailWait each
    Clients,      \* client threads that serve MailSend, MailClaim, MailCommit, MailRelease
    Namers,       \* client threads that serve one NameSession each
    Addr,         \* mailbox addresses
    Home,         \* the agent's address at the start
    MaxLetters,   \* bound on the letters stored at one time
    MaxRequests,  \* bound on the requests one client thread serves
    Free          \* the holder of a lock nobody holds

Threads == Waiters \cup Clients \cup Namers

ASSUME ThreadsAssumption ==
    /\ Waiters \cap Clients = {}
    /\ Waiters \cap Namers = {}
    /\ Clients \cap Namers = {}
    /\ Free \notin Threads

ASSUME AddrAssumption == Home \in Addr

ASSUME BoundsAssumption == MaxLetters \in Nat /\ MaxRequests \in Nat

VARIABLES
    plane,     \* holder of the plane mutex between steps
    watch,     \* holder of the watch mutex between steps
    pc,        \* what each thread does next
    expired,   \* waiters whose deadline has passed
    served,    \* requests each client thread has served
    current,   \* address of the mailbox the waiters wait on
    former,    \* addresses that forward to it
    open,      \* open letters by recipient address
    held       \* claimed, uncommitted letters by recipient address

vars == <<plane, watch, pc, expired, served, current, former, open, held>>
locks == <<plane, watch>>
mail == <<current, former, open, held>>

WaiterPC == {"prepare", "lock", "check", "sleep", "parked", "answer", "done"}
ClientPC == {"idle", "fetch", "ring"}
NamerPC == {"idle", "ring", "done"}

(* Store::resolve: a former address resolves to the mailbox that took it over. *)
Resolve(a) == IF a \in former THEN current ELSE a

HasMail == open[current] > 0

Init ==
    /\ plane = Free
    /\ watch = Free
    /\ pc = [t \in Threads |-> IF t \in Waiters THEN "prepare" ELSE "idle"]
    /\ expired = {}
    /\ served = [t \in Clients |-> 0]
    /\ current = Home
    /\ former = {}
    /\ open = [a \in Addr |-> 0]
    /\ held = [a \in Addr |-> 0]

Goto(t, label) == pc' = [pc EXCEPT ![t] = label]

-----------------------------------------------------------------------------
(* The waiter: handle_mail_wait and MailboxWatch::wait_until. *)

(* The agent and the watch are read under the plane lock, then released. *)
Prepare(w) ==
    /\ pc[w] = "prepare"
    /\ plane = Free
    /\ Goto(w, "lock")
    /\ UNCHANGED <<locks, expired, served, mail>>

(* wait_until takes the watch lock, at entry and again after every wakeup. *)
LockWatch(w) ==
    /\ pc[w] = "lock"
    /\ watch = Free
    /\ watch' = w
    /\ Goto(w, "check")
    /\ UNCHANGED <<plane, expired, served, mail>>

(* Mutated Check: the watch is released between the predicate and the park. *)
CheckReleases(w) ==
    /\ pc[w] = "check"
    /\ watch = w
    /\ plane = Free
    /\ watch' = Free
    /\ Goto(w, IF HasMail THEN "answer" ELSE "sleep")
    /\ UNCHANGED <<plane, expired, served, mail>>

(* The predicate takes the plane lock with the watch lock held, and lets it *)
(* go.  Mail ends the wait; otherwise the watch stays held for the park.    *)
Check(w) ==
    /\ pc[w] = "check"
    /\ watch = w
    /\ plane = Free
    /\ watch' = IF HasMail THEN Free ELSE w
    /\ Goto(w, IF HasMail THEN "answer" ELSE "sleep")
    /\ UNCHANGED <<plane, expired, served, mail>>

(* Mutated Park: the thread sleeps with the watch lock held. *)
ParkKeepsWatch(w) ==
    /\ pc[w] = "sleep"
    /\ watch' = IF w \in expired THEN Free ELSE watch
    /\ Goto(w, IF w \in expired THEN "answer" ELSE "parked")
    /\ UNCHANGED <<plane, expired, served, mail>>

(* A passed deadline ends the wait; otherwise wait_timeout parks the thread *)
(* and releases the watch in one step.                                      *)
Park(w) ==
    /\ pc[w] = "sleep"
    /\ watch' = Free
    /\ Goto(w, IF w \in expired THEN "answer" ELSE "parked")
    /\ UNCHANGED <<plane, expired, served, mail>>

(* The deadline may pass at any time; it wakes a parked thread.             *)
Deadline(w) ==
    /\ w \notin expired
    /\ expired' = expired \cup {w}
    /\ pc' = [pc EXCEPT ![w] = IF @ = "parked" THEN "lock" ELSE @]
    /\ UNCHANGED <<locks, served, mail>>

(* A condition variable may also wake a thread for no reason. *)
SpuriousWakeup(w) ==
    /\ pc[w] = "parked"
    /\ Goto(w, "lock")
    /\ UNCHANGED <<locks, expired, served, mail>>

(* The answer reads the depth once more under the plane lock. *)
Answer(w) ==
    /\ pc[w] = "answer"
    /\ plane = Free
    /\ Goto(w, "done")
    /\ UNCHANGED <<locks, expired, served, mail>>

-----------------------------------------------------------------------------
(* Client threads: mail requests through handle_client_loop.  The handler   *)
(* runs under the plane lock; for a stored or released letter the thread    *)
(* then takes the plane once more to fetch the watch and rings it with no   *)
(* lock held.                                                               *)

Request(t, next) ==
    /\ pc[t] = "idle"
    /\ served[t] < MaxRequests
    /\ plane = Free
    /\ served' = [served EXCEPT ![t] = @ + 1]
    /\ Goto(t, next)
    /\ UNCHANGED <<locks, expired, current, former>>

(* Bound of the model: at most MaxLetters letters at one address. *)
HasRoom(a) == open[a] + held[a] < MaxLetters

MailSend(t, a) ==
    /\ HasRoom(Resolve(a))
    /\ Request(t, "fetch")
    /\ open' = [open EXCEPT ![Resolve(a)] = @ + 1]
    /\ UNCHANGED held

(* Store::claim: every open letter of the mailbox becomes held. *)
MailClaim(t) ==
    /\ HasMail
    /\ Request(t, "idle")
    /\ held' = [held EXCEPT ![current] = @ + open[current]]
    /\ open' = [open EXCEPT ![current] = 0]

(* Store::commit of one held letter. *)
MailCommit(t) ==
    /\ held[current] > 0
    /\ Request(t, "idle")
    /\ held' = [held EXCEPT ![current] = @ - 1]
    /\ UNCHANGED open

(* Store::release of one held letter. *)
MailRelease(t) ==
    /\ held[current] > 0
    /\ Request(t, "fetch")
    /\ held' = [held EXCEPT ![current] = @ - 1]
    /\ open' = [open EXCEPT ![current] = @ + 1]

FetchWatch(t) ==
    /\ t \in Clients
    /\ pc[t] = "fetch"
    /\ plane = Free
    /\ Goto(t, "ring")
    /\ UNCHANGED <<locks, expired, served, mail>>

(* Mutated Woken: notify_one for notify_all. *)
WokenOne(x) ==
    IF \E w \in Waiters : pc[w] = "parked" /\ x = CHOOSE v \in Waiters : pc[v] = "parked"
    THEN "lock" ELSE pc[x]

(* MailboxWatch::ring: take the watch, notify every parked waiter, release. *)
Woken(x) == IF x \in Waiters /\ pc[x] = "parked" THEN "lock" ELSE pc[x]

Ring(t) ==
    /\ t \in Clients
    /\ pc[t] = "ring"
    /\ watch = Free
    /\ pc' = [x \in Threads |-> IF x = t THEN "idle" ELSE Woken(x)]
    /\ UNCHANGED <<locks, expired, served, mail>>

-----------------------------------------------------------------------------
(* NameSession.  The handler runs under the plane lock and rings the watch  *)
(* from inside it, so the plane is held across the two steps.               *)

(* Store::rename: the letters follow, the old address forwards. *)
Rename(t, new) ==
    /\ t \in Namers
    /\ pc[t] = "idle"
    /\ plane = Free
    /\ new # current
    /\ open[new] + open[current] + held[new] + held[current] <= MaxLetters
    /\ plane' = t
    /\ current' = new
    /\ former' = (former \cup {current}) \ {new}
    /\ open' = [open EXCEPT ![new] = @ + open[current], ![current] = 0]
    /\ held' = [held EXCEPT ![new] = @ + held[current], ![current] = 0]
    /\ Goto(t, "ring")
    /\ UNCHANGED <<watch, expired, served>>

RingUnderPlane(t) ==
    /\ t \in Namers
    /\ pc[t] = "ring"
    /\ watch = Free
    /\ pc' = [x \in Threads |-> IF x = t THEN "done" ELSE Woken(x)]
    /\ plane' = Free
    /\ UNCHANGED <<watch, expired, served, mail>>

-----------------------------------------------------------------------------
WaiterStep(w) == Prepare(w) \/ LockWatch(w) \/ Check(w) \/ Park(w) \/ Answer(w)

Timer(w) == Deadline(w) \/ SpuriousWakeup(w)

ClientStep(t) ==
    \/ \E a \in Addr : MailSend(t, a)
    \/ MailClaim(t)
    \/ MailCommit(t)
    \/ MailRelease(t)

RingStep(t) == FetchWatch(t) \/ Ring(t)

NamerStep(t) == \E a \in Addr : Rename(t, a)

Next ==
    \/ \E w \in Waiters : WaiterStep(w) \/ Timer(w)
    \/ \E t \in Clients : ClientStep(t) \/ RingStep(t)
    \/ \E t \in Namers : NamerStep(t) \/ RingUnderPlane(t)

Safe == Init /\ [][Next]_vars

(* A thread that has begun its critical work is scheduled; which requests   *)
(* arrive is up to the clients, and a deadline need not come.               *)
Fairness ==
    /\ \A w \in Waiters : WF_vars(WaiterStep(w))
    /\ \A t \in Clients : WF_vars(RingStep(t))
    /\ \A t \in Namers : WF_vars(RingUnderPlane(t))

Spec == Safe /\ Fairness

-----------------------------------------------------------------------------
(* Types of the shared state of handle_mail_wait and of the mail requests. *)
TypeOK ==
    /\ plane \in Threads \cup {Free}
    /\ watch \in Threads \cup {Free}
    /\ pc \in [Threads -> WaiterPC \cup ClientPC \cup NamerPC]
    /\ expired \subseteq Waiters
    /\ served \in [Clients -> Nat]
    /\ current \in Addr
    /\ former \subseteq Addr
    /\ open \in [Addr -> Nat]
    /\ held \in [Addr -> Nat]

(* A thread that stored, released or moved mail and has still to ring. *)
RingPending ==
    \/ \E t \in Clients : pc[t] \in {"fetch", "ring"}
    \/ \E t \in Namers : pc[t] = "ring"

(* No lost wakeup.  MailboxWatch promises that a ring never slips between a *)
(* waiter's predicate check and its park: a waiter that found no mail and   *)
(* is about to sleep, or sleeps, while its agent has open mail always has a *)
(* ring still to come.                                                      *)
NoLostWakeup ==
    (\E w \in Waiters : pc[w] \in {"sleep", "parked"}) /\ HasMail => RingPending

(* The comments on `mail_watch` and in handle_client_loop rule this out: a  *)
(* thread that holds the plane waits for the watch, while the watch's       *)
(* holder waits for the plane.  Both locks are then held for ever and every *)
(* request of every client blocks.                                          *)
NoLockCycle ==
    ~ \E n \in Namers, w \in Waiters :
        /\ plane = n /\ pc[n] = "ring"
        /\ watch = w /\ pc[w] = "check"

(* A thread that is in the middle of its work. *)
Busy ==
    \/ \E w \in Waiters : pc[w] \in {"prepare", "lock", "check", "sleep", "answer"}
    \/ RingPending

(* The cycle above is the only way the two locks can block the daemon: in   *)
(* every other state in which some thread has work left, the step of some   *)
(* such thread can be taken.                                                *)
OnlyCycleBlocks ==
    Busy /\ NoLockCycle =>
        \/ \E w \in Waiters : ENABLED WaiterStep(w)
        \/ \E t \in Clients : ENABLED RingStep(t)
        \/ \E t \in Namers : ENABLED RingUnderPlane(t)

(* MailWait is answered without help from its timeout: once the agent's     *)
(* open mail stays, and unless the lock cycle stops the daemon, every       *)
(* waiter answers.  No deadline need pass.                                  *)
MailEndsWait ==
    <>[]HasMail /\ []NoLockCycle => \A w \in Waiters : <>(pc[w] = "done")
=============================================================================
