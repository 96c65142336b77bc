---------------------------- MODULE MailDoorbell ----------------------------
(***************************************************************************)
(* The doorbell of an agent's mailbox and the gates of the panes' input    *)
(* (control.rs, control/pane_write.rs, inject_submit.rs): a stored letter  *)
(* lights a lamp on the first pane of the agent's session and types a      *)
(* fixed token into it, unless somebody types there; clients write into    *)
(* the same panes.                                                         *)
(*                                                                         *)
(* Abstracted: time is whether a pane had input or output in the last      *)
(* minute; letters are counted; what is written is a piece of a line or a  *)
(* piece that submits it; no window has synchronized input; the sequence   *)
(* capacity of events is not reached.                                      *)
(***************************************************************************)
EXTENDS Naturals, Sequences, Functions

CONSTANTS
    None,       \* an absent value
    MaxPanes,   \* bound on the pane ids
    Clients,    \* registered clients
    Doorbell,   \* doorbell_client
    Reach,      \* the panes whose input each client uses
    Chunks,     \* in how many writes the agent of a pane takes the token, 0 for a shell
    QueueSize,  \* capacity of the channel to a pane's writer thread
    MaxMail,    \* bound on the letters
    MaxRev,     \* bound on the revisions of all queues together
    MaxMoves    \* bound on the exchanges of panes

Panes == 1..MaxPanes

Wakes == {"armed", "unset", "spent"}    \* spent: Stuck or Exhausted

(* mail_attention, mail_nudges and mail_inject of a pane. *)
Lamps == [rev : Nat, depth : Nat, wake : Wakes]
Nudges == [rev : Nat, verification : BOOLEAN]
Injections == [rev : Nat, stuck : BOOLEAN, writes : Nat]

ASSUME DoorbellAssumption ==
    /\ MaxPanes \in Nat
    /\ Doorbell \notin Clients
    /\ None \notin Clients \cup {Doorbell}
    /\ None \notin Lamps
    /\ None \notin Nudges
    /\ None \notin Injections
    /\ Reach \in [Clients -> SUBSET Panes]
    /\ Chunks \in [Panes -> 0..2]
    /\ QueueSize \in Nat \ {0}
    /\ MaxMail \in Nat
    /\ MaxRev \in Nat
    /\ MaxMoves \in Nat

VARIABLES
    leaves,     \* the panes of the agent's session, in layout order
    minted,     \* pane ids given out so far
    open,       \* open letters of the agent
    held,       \* its claimed letters
    bell,       \* mail_rev, mail_attention, mail_nudges, mail_inject of each pane
    tty,        \* lease, input ledger, input queue and line of each pane
    moves,      \* exchanges of panes so far
    disturbed   \* the lamp was changed otherwise since the last mail request

topology == <<leaves, minted, moves>>
mail == <<open, held>>
vars == <<topology, mail, bell, tty, disturbed>>

(* Of the revision that lights the lamp: `hidden` is TRUE while the pane     *)
(* shows what the token caused (hide_until_ms, hide_revision); `rings`      *)
(* records how often the whole token was written and `peeked` whether the   *)
(* agent asked for its inbox before.                                        *)
NewBell == [rev |-> 0, lamp |-> None, nudge |-> None, inject |-> None,
            hidden |-> FALSE, rings |-> 0, peeked |-> FALSE]

(* The line: `author` is the client whose unsubmitted bytes the gates       *)
(* protect.  None for an empty line, one left alone for a minute, or a      *)
(* token that broke off, which no gate knows of.  `crossed` records that    *)
(* other bytes got into the author's line.                                  *)
NewTty == [lease |-> None, unsent |-> FALSE, recent |-> FALSE, front |-> FALSE,
           room |-> QueueSize, author |-> None, crossed |-> FALSE]

-----------------------------------------------------------------------------
(* Input of a pane. *)

Less(a, b) == IF a < b THEN a ELSE b

(* dirty_input_still_open. *)
Dirty(t) == t.unsent /\ t.recent

(* How many of n writes the queue takes: the writer thread may make room    *)
(* while the plane sleeps between them.                                     *)
Accepted(t, n) == {k \in 0..n : k >= Less(t.room, n)}

(* The line after `by` has written k of n pieces, the last of which submits *)
(* if `submits` says so.                                                    *)
Typed(t, by, k, n, submits) ==
    [t EXCEPT !.room = @ - Less(@, k),
              !.author = IF k = n /\ submits THEN None
                         ELSE IF by \in Clients THEN by ELSE @,
              !.crossed = @ \/ (t.author \notin {None, by} /\ t.lease # by)]

(* Mutated LedgerOf: a write counts as submitted when its last piece asks. *)
LedgerOfAsked(t, k, n, submits) == [t EXCEPT !.unsent = ~submits, !.recent = TRUE]

(* The write ledger and last_input_at_ms after a write of a client. *)
LedgerOf(t, k, n, submits) ==
    [t EXCEPT !.unsent = ~(k = n /\ submits), !.recent = TRUE]

-----------------------------------------------------------------------------
(* The doorbell. *)

(* Mutated Arm: a nudge that is due stays. *)
ArmKeepsNudge(b, r, depth, wake) ==
    IF r <= b.rev THEN b
    ELSE [b EXCEPT !.rev = r, !.lamp = [rev |-> r, depth |-> depth, wake |-> wake],
                   !.nudge = IF wake = "armed" /\ @ = None
                             THEN [rev |-> r, verification |-> FALSE] ELSE @,
                   !.hidden = FALSE, !.rings = 0, !.peeked = FALSE]

(* arm_mail_attention: a stale revision changes nothing. *)
Arm(b, r, depth, wake) ==
    IF r <= b.rev THEN b
    ELSE [b EXCEPT !.rev = r, !.lamp = [rev |-> r, depth |-> depth, wake |-> wake],
                   !.nudge = IF wake = "armed"
                             THEN [rev |-> r, verification |-> FALSE] ELSE None,
                   !.hidden = FALSE, !.rings = 0, !.peeked = FALSE]

(* clear_mail_attention. *)
Clear(b, r) ==
    IF r <= b.rev THEN b
    ELSE [b EXCEPT !.rev = r, !.lamp = None, !.nudge = None,
                   !.hidden = FALSE, !.rings = 0, !.peeked = FALSE]

Lit(b, r) == b.lamp # None /\ b.lamp.rev = r
Injected(b, r) == b.inject # None /\ b.inject.rev = r

(* Mutated Spent: the write count is not looked at. *)
SpentNever(b, verification) == FALSE

(* One injection of a revision, and one more to verify it. *)
Spent(b, verification) == b.inject.writes > 0 /\ ~(verification /\ b.inject.writes = 1)

(* Mutated Busy: a half-typed line is as good as any recent input. *)
BusyAtMost(t) == IF t.recent THEN BOOLEAN ELSE {FALSE}

(* A half-typed line; within the minute perhaps also typing (ten seconds)   *)
(* or much output (three seconds).                                          *)
Busy(t) == IF Dirty(t) THEN {TRUE} ELSE IF t.recent THEN BOOLEAN ELSE {FALSE}

(* The gates of gated_mail_inject, in their order. *)
Gate(b, t, by, r, verification, busy) ==
    IF ~Lit(b, r) \/ b.lamp.wake = "spent" \/ (Injected(b, r) /\ b.inject.stuck) THEN "skip"
    ELSE IF busy THEN "defer"
    ELSE IF Injected(b, r) /\ b.hidden /\ ~verification THEN "hide"
    ELSE IF Injected(b, r) /\ Spent(b, verification) THEN "skip"
    ELSE IF ~t.front \/ t.lease \notin {None, by} THEN "defer"
    ELSE "open"

Same(b, t, outcome) == [outcome |-> outcome, bell |-> b, tty |-> t]

(* The whole token is in the pane; `bumped`: the pane answered in time. *)
Rung(b, t, n, r, bumped) ==
    LET writes == IF b.inject = None THEN 1 ELSE b.inject.writes + 1
    IN [outcome |-> "rung",
        bell |-> [b EXCEPT
            !.inject = [rev |-> r, stuck |-> ~bumped, writes |-> writes],
            !.hidden = bumped,
            !.nudge = IF bumped /\ writes = 1
                      THEN [rev |-> r, verification |-> TRUE] ELSE @,
            !.rings = @ + 1,
            !.peeked = FALSE],
        tty |-> [Typed(t, Doorbell, n, n, TRUE) EXCEPT !.unsent = FALSE,
                                                       !.recent = @ \/ bumped]]

(* The queue was full in the middle of the token. *)
Broken(b, t, n, k) ==
    Same(b, IF k = 0 THEN t ELSE Typed(t, Doorbell, k, n, FALSE), "error")

(* The n writes of the token. *)
Inject(b, t, n, r) ==
    {Rung(b, t, n, r, bumped) : bumped \in IF n \in Accepted(t, n) THEN BOOLEAN ELSE {}}
        \cup {Broken(b, t, n, k) : k \in Accepted(t, n) \ {n}}

(* gated_mail_inject: what it may lead to. *)
GatedInject(p, b, t, by, r, verification) ==
    UNION {LET gate == Gate(b, t, by, r, verification, busy)
           IN IF gate = "open" THEN Inject(b, t, Chunks[p], r) ELSE {Same(b, t, gate)} :
              busy \in Busy(t)}

(* Mutated Retried: a full queue counts as an attempt. *)
RetriedUnlessFull(p, b, t) ==
    LET nudge == b.nudge
        rest == [b EXCEPT !.nudge = None]
        armed(c) == Lit(c, nudge.rev) /\ c.lamp.wake = "armed"
        again(res) == res.outcome = "defer"
                        \/ (res.outcome = "hide" /\ nudge.verification)
    IN IF ~armed(rest) THEN {Same(rest, t, "skip")}
       ELSE {IF again(res) /\ armed(res.bell) THEN [res EXCEPT !.bell.nudge = nudge] ELSE res :
                res \in GatedInject(p, rest, t, Doorbell, nudge.rev, nudge.verification)}

(* retry_mail_nudges for one pane whose nudge is due.                       *)
Retried(p, b, t) ==
    LET nudge == b.nudge
        rest == [b EXCEPT !.nudge = None]
        armed(c) == Lit(c, nudge.rev) /\ c.lamp.wake = "armed"
        again(res) == res.outcome \in {"defer", "error"}
                        \/ (res.outcome = "hide" /\ nudge.verification)
    IN IF ~armed(rest) THEN {Same(rest, t, "skip")}
       ELSE {IF again(res) /\ armed(res.bell) THEN [res EXCEPT !.bell.nudge = nudge] ELSE res :
                res \in GatedInject(p, rest, t, Doorbell, nudge.rev, nudge.verification)}

-----------------------------------------------------------------------------
(* Requests about mail.  The doorbell pane is the first leaf. *)

Bell(p, b) == bell' = [bell EXCEPT ![p] = b]
Result(p, res) == Bell(p, res.bell) /\ tty' = [tty EXCEPT ![p] = res.tty]

(* All revisions given out so far. *)
Revisions ==
    LET sum[p \in 0..MaxPanes] == IF p = 0 THEN 0 ELSE bell[p].rev + sum[p - 1]
    IN sum[MaxPanes]

(* on_mail_stored, for the session in `panes` and n open letters. *)
OnMailStored(panes, n) ==
    IF panes = <<>> THEN UNCHANGED <<bell, tty>>
    ELSE LET p == panes[1]
             r == bell[p].rev + 1
         IN /\ Revisions < MaxRev
            /\ \E res \in GatedInject(p, Arm(bell[p], r, n, "armed"), tty[p], Doorbell, r, FALSE) :
                Result(p, res)

(* Mutated Refreshed: under the old revision. *)
RefreshedStale(b, n) == IF n = 0 THEN Clear(b, b.rev) ELSE Arm(b, b.rev, n, "unset")

Refreshed(b, n) == IF n = 0 THEN Clear(b, b.rev + 1) ELSE Arm(b, b.rev + 1, n, "unset")

(* refresh_mail_attention. *)
Refresh(n) ==
    /\ IF leaves = <<>> THEN UNCHANGED bell
       ELSE /\ Revisions < MaxRev
            /\ Bell(leaves[1], Refreshed([bell[leaves[1]] EXCEPT !.nudge = None], n))
    /\ UNCHANGED <<tty, topology>>
    /\ disturbed' = FALSE

MailSend ==
    /\ open + held < MaxMail
    /\ open' = open + 1
    /\ OnMailStored(leaves, open')
    /\ disturbed' = FALSE
    /\ UNCHANGED <<held, topology>>

MailClaim ==
    /\ open' = 0
    /\ held' = held + open
    /\ Refresh(open')

MailCommit ==
    /\ held' \in 0..held
    /\ UNCHANGED open
    /\ Refresh(open)

MailRelease ==
    /\ held' \in 0..held
    /\ open' = open + held - held'
    /\ Refresh(open')

(* mail_inbox: the agent looks. *)
MailInbox ==
    /\ leaves # <<>>
    /\ Bell(leaves[1], [bell[leaves[1]] EXCEPT !.nudge = None, !.peeked = (@ \/ bell[leaves[1]].rings = 0)])
    /\ UNCHANGED <<topology, mail, tty, disturbed>>

(* MailAttentionSet and MailAttentionClear of a client. *)
Disturbs(p) == disturbed' = (disturbed \/ leaves[1] = p)

MailAttentionSet(p, r, wake) ==
    /\ p \in Range(leaves)
    /\ Revisions + r <= MaxRev + bell[p].rev
    /\ Bell(p, Arm(bell[p], r, 1, wake))
    /\ Disturbs(p)
    /\ UNCHANGED <<topology, mail, tty>>

MailAttentionClear(p, r) ==
    /\ p \in Range(leaves)
    /\ Revisions + r <= MaxRev + bell[p].rev
    /\ Bell(p, Clear(bell[p], r))
    /\ Disturbs(p)
    /\ UNCHANGED <<topology, mail, tty>>

(* clear_mail_after_hive_drain. *)
HiveDrain(p) ==
    /\ p \in Range(leaves)
    /\ bell[p].lamp # None
    /\ MailAttentionClear(p, bell[p].lamp.rev + 1)

(* apply_mail_inject. *)
InjectMail(c, p, r) ==
    /\ p \in Range(leaves) \cap Reach[c]
    /\ \E res \in GatedInject(p, bell[p], tty[p], c, r, FALSE) : Result(p, res)
    /\ UNCHANGED <<topology, mail, disturbed>>

(* The maintenance thread; panes that are due at once do not affect each    *)
(* other.                                                                   *)
RetryMailNudges(p) ==
    /\ bell[p].nudge # None
    /\ \E res \in Retried(p, bell[p], tty[p]) : Result(p, res)
    /\ UNCHANGED <<topology, mail, disturbed>>

-----------------------------------------------------------------------------
(* Requests about input. *)

Tty(p, t) == tty' = [tty EXCEPT ![p] = t]

OnInput(c, p) ==
    /\ p \in Range(leaves) \cap Reach[c]
    /\ UNCHANGED <<topology, mail, bell, disturbed>>

WritePane(c, p, submits) ==
    /\ OnInput(c, p)
    /\ tty[p].lease = c \/ (tty[p].lease = None /\ ~Dirty(tty[p]))
    /\ tty[p].room > 0
    /\ Tty(p, LedgerOf(Typed(tty[p], c, 1, 1, submits), 1, 1, submits))

(* intentional_pane_write: a text, or a paste followed by the submit chord  *)
(* of the agent.                                                            *)
PaneWrite(c, p, auto, submits) ==
    /\ OnInput(c, p)
    /\ tty[p].lease \in {None, c}
    /\ ~Dirty(tty[p])
    /\ auto => submits /\ tty[p].front
    /\ LET n == IF auto THEN 2 ELSE 1
       IN \E k \in Accepted(tty[p], n) \ {0} :
            Tty(p, LedgerOf(Typed(tty[p], c, k, n, submits), k, n, submits))

(* AcquireLease or TakeoverLease. *)
TakeLease(c, p) == OnInput(c, p) /\ Tty(p, [tty[p] EXCEPT !.lease = c])

ReleaseLease(c, p) ==
    OnInput(c, p) /\ tty[p].lease = c /\ Tty(p, [tty[p] EXCEPT !.lease = None])

-----------------------------------------------------------------------------
(* Panes. *)

Fresh(p) == p = minted + 1 /\ minted' = p

CreateSession(p) ==
    /\ leaves = <<>>
    /\ Fresh(p)
    /\ leaves' = <<p>>
    /\ IF open = 0 THEN UNCHANGED <<bell, tty>> ELSE OnMailStored(leaves', open)
    /\ disturbed' = FALSE
    /\ UNCHANGED <<moves, mail>>

Split(p) ==
    /\ leaves # <<>>
    /\ Fresh(p)
    /\ \E i \in DOMAIN leaves :
        leaves' = SubSeq(leaves, 1, i) \o <<p>> \o SubSeq(leaves, i + 1, Len(leaves))
    /\ UNCHANGED <<moves, mail, bell, tty, disturbed>>

(* A pane is moved to the front of the layout. *)
MovePane(i) ==
    /\ i \in DOMAIN leaves \ {1}
    /\ moves < MaxMoves
    /\ moves' = moves + 1
    /\ leaves' = [j \in DOMAIN leaves |->
                    IF j = 1 THEN leaves[i] ELSE IF j <= i THEN leaves[j - 1] ELSE leaves[j]]
    /\ disturbed' = TRUE
    /\ UNCHANGED <<minted, mail, bell, tty>>

(* With forget_pane_mail; the last leaf takes the session with it. *)
ClosePane(i) ==
    /\ i \in DOMAIN leaves
    /\ leaves' = SubSeq(leaves, 1, i - 1) \o SubSeq(leaves, i + 1, Len(leaves))
    /\ Bell(leaves[i], NewBell)
    /\ Tty(leaves[i], NewTty)
    /\ disturbed' = (disturbed \/ i = 1)
    /\ UNCHANGED <<minted, moves, mail>>

-----------------------------------------------------------------------------
(* The children of the panes, the writer threads and time.  What happens in *)
(* the pane of a shell that nobody types in is not looked at by any gate.   *)

OnPane(p) == p \in Range(leaves) /\ Chunks[p] > 0 /\ UNCHANGED <<topology, mail, disturbed>>

Output(p) ==
    /\ OnPane(p)
    /\ Tty(p, [tty[p] EXCEPT !.recent = TRUE])
    /\ Bell(p, [bell[p] EXCEPT !.hidden = FALSE])

(* A minute without input and output. *)
Silence(p) ==
    /\ OnPane(p)
    /\ Tty(p, [tty[p] EXCEPT !.recent = FALSE, !.author = None])
    /\ UNCHANGED bell

(* MAIL_INJECT_HIDE_MS. *)
HideEnds(p) ==
    /\ OnPane(p)
    /\ Bell(p, [bell[p] EXCEPT !.hidden = FALSE])
    /\ UNCHANGED tty

WriterThread(p) ==
    /\ OnPane(p)
    /\ Tty(p, [tty[p] EXCEPT !.room = QueueSize])
    /\ UNCHANGED bell

(* The agent comes to the foreground or leaves it to a shell. *)
Foreground(p) ==
    /\ OnPane(p)
    /\ Tty(p, [tty[p] EXCEPT !.front = ~@])
    /\ UNCHANGED bell

-----------------------------------------------------------------------------
Init ==
    /\ leaves = <<>>
    /\ minted = 0
    /\ moves = 0
    /\ open = 0
    /\ held = 0
    /\ bell = [p \in Panes |-> NewBell]
    /\ tty = [p \in Panes |-> NewTty]
    /\ disturbed = FALSE

MailRequest ==
    \/ MailSend
    \/ MailClaim
    \/ MailCommit
    \/ MailRelease
    \/ MailInbox
    \/ \E p \in Panes, r \in 1..MaxRev :
        \/ \E wake \in Wakes : MailAttentionSet(p, r, wake)
        \/ MailAttentionClear(p, r)
        \/ \E c \in Clients : InjectMail(c, p, r)
    \/ \E p \in Panes : HiveDrain(p)

InputRequest ==
    \E c \in Clients, p \in Panes :
        \/ \E submits \in BOOLEAN :
            \/ WritePane(c, p, submits)
            \/ \E auto \in BOOLEAN : PaneWrite(c, p, auto, submits)
        \/ TakeLease(c, p)
        \/ ReleaseLease(c, p)

PaneRequest ==
    \/ \E p \in Panes : CreateSession(p) \/ Split(p)
    \/ \E i \in DOMAIN leaves : MovePane(i) \/ ClosePane(i)

Environment ==
    \E p \in Panes : Output(p) \/ Silence(p) \/ HideEnds(p) \/ WriterThread(p) \/ Foreground(p)

Next ==
    \/ MailRequest
    \/ InputRequest
    \/ PaneRequest
    \/ Environment
    \/ \E p \in Panes : RetryMailNudges(p)

(* The maintenance thread ticks and every nudge falls due. *)
Fairness == \A p \in Panes : WF_vars(RetryMailNudges(p))

Spec == Init /\ [][Next]_vars /\ Fairness

-----------------------------------------------------------------------------
Bells == [rev : Nat, lamp : Lamps \cup {None}, nudge : Nudges \cup {None},
          inject : Injections \cup {None}, hidden : BOOLEAN, rings : Nat, peeked : BOOLEAN]
Ttys == [lease : Clients \cup {None}, unsent : BOOLEAN, recent : BOOLEAN, front : BOOLEAN,
         room : 0..QueueSize, author : Clients \cup {None}, crossed : BOOLEAN]

(* Types; the panes of the session are different panes that were created.   *)
TypeOK ==
    /\ leaves \in Seq(Panes)
    /\ Range(leaves) \subseteq 1..minted
    /\ minted \in 0..MaxPanes
    /\ IsInjective(leaves)
    /\ moves \in Nat
    /\ open \in Nat
    /\ held \in Nat
    /\ bell \in [Panes -> Bells]
    /\ tty \in [Panes -> Ttys]
    /\ disturbed \in BOOLEAN

(* The gate of control.rs:4636: neither the token of the doorbell nor a     *)
(* client without the lease gets into a line another client is typing, and  *)
(* none submits it.                                                         *)
LinesNotCrossed == \A p \in Panes : ~tty[p].crossed

(* The ledger never takes a half-typed line for an empty one, whichever     *)
(* writes were refused, cut short or sent by the doorbell.                  *)
LedgerKnowsLine == \A p \in Panes : tty[p].author # None => Dirty(tty[p])

(* One revision of the queue rings twice at most: the token and one more to *)
(* verify it, however often nudges, clients and retries ask.                *)
RingsAtMostTwice == \A p \in Panes : bell[p].rings <= 2

(* An unseen letter that no ring has announced yet. *)
Waiting(p) ==
    LET b == bell[p]
    IN b.lamp # None /\ b.lamp.wake = "armed" /\ b.rings = 0 /\ ~b.peeked

(* A nudge is about the letter that lights the lamp now: none outlives its  *)
(* lamp or meets a newer revision.  And a letter that waits to be announced *)
(* keeps its nudge through every attempt that failed.                       *)
NudgeIsCurrent ==
    \A p \in Panes :
        /\ bell[p].nudge # None => Lit(bell[p], bell[p].nudge.rev)
        /\ Waiting(p) => bell[p].nudge # None

(* "Keep the sticky indicator truthful": from one request about mail on,    *)
(* until the layout or another client interferes, the lamp of the doorbell  *)
(* pane is lit exactly while letters are open and shows how many.           *)
LampTellsMail ==
    leaves # <<>> /\ ~disturbed =>
        LET lamp == bell[leaves[1]].lamp
        IN IF open = 0 THEN lamp = None ELSE lamp # None /\ lamp.depth = open

Ready(p) ==
    /\ ~tty[p].recent
    /\ tty[p].front
    /\ tty[p].lease = None
    /\ tty[p].room >= Chunks[p]

(* No gate of gated_mail_inject holds back a letter that waits at a ready   *)
(* pane: the maintenance thread finds its nudge and has something to do.    *)
ReadyLetterRings ==
    \A p \in Panes : Waiting(p) /\ Ready(p) => ENABLED <<RetryMailNudges(p)>>_vars

(* A letter does not wait for ever at a pane that stays ready for it:       *)
(* deferred and broken injections are tried again until one succeeds or the *)
(* agent looks or claims.                                                   *)
LettersRing == \A p \in Panes : <>[]Ready(p) => []<>~Waiting(p)
=============================================================================
