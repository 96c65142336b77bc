---------------------------- MODULE MailRouting -----------------------------
(***************************************************************************)
(* Mailbox addresses of pmuxd (control.rs, mailbox/store.rs): a session    *)
(* may be bound to one agent address, a renamed session leaves forwards    *)
(* from its former addresses, and an agent may take aliases.  A letter is  *)
(* stored under the address its recipient resolves to.  Every request runs *)
(* under the plane lock and is one step; its store transaction is atomic.  *)
(*                                                                         *)
(* Letters that agree in mailbox, recipient and state are one letter here: *)
(* their text, sender and number are left out.                             *)
(***************************************************************************)
EXTENDS Naturals, FiniteSets

CONSTANTS
    Sessions,    \* sessions; the id of a destroyed one may be taken again
    Labels,      \* display names
    Addr,        \* mailbox addresses
    AddressOf,   \* agent_id_from_label, a function from Labels to Addr
    Clients,     \* clients of the mail requests
    MaxLetters,  \* bound on the letters stored at one time
    None         \* Option::None

ASSUME RoutingAssumption ==
    /\ AddressOf \in [Labels -> Addr]
    /\ None \notin Sessions \cup Labels \cup Addr
    /\ MaxLetters \in Nat

VARIABLES
    label,    \* Session::name; None for a session that does not exist
    agent,    \* Session::agent_id
    forward,  \* mailbox_forwards: former address -> current address
    alias,    \* mail_aliases: alias -> address of its owner
    seat,     \* client_agents
    letters,  \* letters: mailbox, the session it was sent to, state
    robbed    \* a rename took an address that was not the session's own

vars == <<label, agent, forward, alias, seat, letters, robbed>>
naming == <<label, agent, forward, alias, robbed>>

Init ==
    /\ label = [s \in Sessions |-> None]
    /\ agent = [s \in Sessions |-> None]
    /\ forward = [a \in Addr |-> None]
    /\ alias = [a \in Addr |-> None]
    /\ seat = [c \in Clients |-> None]
    /\ letters = {}
    /\ robbed = FALSE

Live == {s \in Sessions : label[s] # None}
BoundTo(a) == {s \in Sessions : agent[s] = a}

(* Store::resolve. *)
Resolve(a) == IF forward[a] = None THEN a ELSE forward[a]

(* Mutated Recipient: the forwards are not followed. *)
RecipientUnforwarded(a) == IF alias[a] = None THEN a ELSE alias[a]

(* mail_resolve_recipient: an alias first, then the forwards. *)
Recipient(a) == Resolve(IF alias[a] = None THEN a ELSE alias[a])

-----------------------------------------------------------------------------
(* Sessions. *)

(* create_session: the address is nobody's and neither a former address nor *)
(* an alias.  What unique_agent_id derives from the label satisfies this    *)
(* too, so a derived address is one of those a caller could have chosen.    *)
CreateSession(s, l, new) ==
    /\ s \notin Live
    /\ \A t \in Live : label[t] # l
    /\ new # None => BoundTo(new) = {} /\ Resolve(new) = new /\ alias[new] = None
    /\ label' = [label EXCEPT ![s] = l]
    /\ agent' = [agent EXCEPT ![s] = new]
    /\ UNCHANGED <<forward, alias, seat, letters, robbed>>

(* destroy_session, or the end of the last window: the mailbox remains. *)
DestroySession(s) ==
    /\ s \in Live
    /\ label' = [label EXCEPT ![s] = None]
    /\ agent' = [agent EXCEPT ![s] = None]
    /\ letters' = {[l EXCEPT !.sentTo = IF @ = s THEN None ELSE @] : l \in letters}
    /\ UNCHANGED <<forward, alias, seat, robbed>>

(* Mutated StoreRename: older forwards stay. *)
StoreRenameChains(old, new) ==
    IF old = new
    THEN UNCHANGED <<forward, letters>>
    ELSE /\ forward' = [forward EXCEPT ![old] = new, ![new] = None]
         /\ letters' = {[l EXCEPT !.box = IF @ = old THEN new ELSE @] : l \in letters}

(* Mutated StoreRename: the letters stay behind. *)
StoreRenameForwardsOnly(old, new) ==
    /\ forward' = [a \in Addr |->
            CASE old = new -> forward[a]
              [] a = old -> new
              [] a = new -> None
              [] OTHER -> IF forward[a] = old THEN new ELSE forward[a]]
    /\ UNCHANGED letters

(* Store::rename: letters move, forwards to the old address are retargeted, *)
(* the old address forwards to the new one.                                 *)
StoreRename(old, new) ==
    IF old = new
    THEN UNCHANGED <<forward, letters>>
    ELSE /\ forward' = [a \in Addr |->
                CASE a = old -> new
                  [] a = new -> None
                  [] OTHER -> IF forward[a] = old THEN new ELSE forward[a]]
         /\ letters' = {[l EXCEPT !.box = IF @ = old THEN new ELSE @] : l \in letters}

(* The address a rename moves: the bound one, or what the label stands for. *)
OldAgent(s) == IF agent[s] = None THEN AddressOf[label[s]] ELSE agent[s]

(* name_session.  A derived address again passes the checks of a chosen one. *)
NameSession(s, l, new) ==
    LET old == OldAgent(s)
        others == {a \in Addr : BoundTo(a) \ {s} # {}}
    IN  /\ s \in Live
        /\ Resolve(new) \in {new, old}
        /\ new \notin others
        /\ alias[new] \in {None, old}
        /\ \A t \in Live \ {s} : label[t] # l
        /\ StoreRename(old, new)
        /\ alias' = [a \in Addr |->
              IF a = new THEN None ELSE IF alias[a] = old THEN new ELSE alias[a]]
        /\ label' = [label EXCEPT ![s] = l]
        /\ agent' = [agent EXCEPT ![s] = new]
        /\ robbed' = (robbed \/ /\ old # new
                                /\ \/ old \in others
                                   \/ agent[s] = None /\ (Resolve(old) # old \/ alias[old] # None))
        /\ UNCHANGED seat

(* Mutated TransferAgent: the source session keeps the binding. *)
TransferAgentCopies(s, t) ==
    /\ agent[s] # None
    /\ t \in Live
    /\ agent[t] = None
    /\ label' \in {label, [label EXCEPT ![s] = None]}
    /\ agent' = [agent EXCEPT ![t] = agent[s]]
    /\ letters' = {[l EXCEPT !.sentTo = IF @ = s THEN t ELSE @] : l \in letters}
    /\ UNCHANGED <<forward, alias, seat, robbed>>

(* transfer_space_pane of the pane that receives the agent's mail: the      *)
(* binding goes with it to a session that has none.  A session whose last   *)
(* pane it was ends.                                                        *)
TransferAgent(s, t) ==
    /\ agent[s] # None
    /\ t \in Live
    /\ agent[t] = None
    /\ label' \in {label, [label EXCEPT ![s] = None]}
    /\ agent' = [agent EXCEPT ![s] = None, ![t] = agent[s]]
    /\ letters' = {[l EXCEPT !.sentTo = IF @ = s THEN t ELSE @] : l \in letters}
    /\ UNCHANGED <<forward, alias, seat, robbed>>

(* A new pmuxd opens the same store (Store::open): its letters and forwards *)
(* are durable; sessions, seats and aliases end with the daemon.            *)
Restart ==
    /\ label' = [s \in Sessions |-> None]
    /\ agent' = [s \in Sessions |-> None]
    /\ alias' = [a \in Addr |-> None]
    /\ seat' = [c \in Clients |-> None]
    /\ letters' = {[l EXCEPT !.sentTo = None] : l \in letters}
    /\ UNCHANGED <<forward, robbed>>

-----------------------------------------------------------------------------
(* Mail. *)

(* mail_hello. *)
MailHello(c, a) ==
    /\ seat' = [seat EXCEPT ![c] = Resolve(a)]
    /\ UNCHANGED <<naming, letters>>

Seated(c) == seat[c] # None

(* DisconnectClient: letters the client claimed stay held. *)
Disconnect(c) ==
    /\ Seated(c)
    /\ seat' = [seat EXCEPT ![c] = None]
    /\ UNCHANGED <<naming, letters>>

(* mail_agent: the seat is resolved again at each request. *)
MailAgent(c) == Resolve(seat[c])

Letter(box) ==
    [box |-> box, state |-> "open",
     sentTo |-> IF BoundTo(box) = {} THEN None ELSE CHOOSE s \in BoundTo(box) : TRUE]

MailSend(c, to) ==
    /\ Seated(c)
    /\ letters' = letters \cup {Letter(Recipient(to))}
    /\ Cardinality(letters') <= MaxLetters
    /\ UNCHANGED <<naming, seat>>

(* mail_broadcast: to the address of every bound session but the sender's,  *)
(* not resolved.                                                            *)
MailBroadcast(c) ==
    /\ Seated(c)
    /\ letters' = letters \cup {Letter(a) : a \in {agent[s] : s \in Sessions} \ {None, MailAgent(c)}}
    /\ Cardinality(letters') <= MaxLetters
    /\ UNCHANGED <<naming, seat>>

(* mail_claim: every letter of the mailbox becomes held. *)
MailClaim(c) ==
    /\ Seated(c)
    /\ letters' = {[l EXCEPT !.state = IF l.box = MailAgent(c) THEN "held" ELSE @] : l \in letters}
    /\ UNCHANGED <<naming, seat>>

HeldBy(c) == {l \in letters : l.box = MailAgent(c) /\ l.state = "held"}

MailCommit(c, l) ==
    /\ Seated(c)
    /\ l \in HeldBy(c)
    /\ letters' = letters \ {l}
    /\ UNCHANGED <<naming, seat>>

MailRelease(c, l) ==
    /\ Seated(c)
    /\ l \in HeldBy(c)
    /\ letters' = (letters \ {l}) \cup {[l EXCEPT !.state = "open"]}
    /\ UNCHANGED <<naming, seat>>

(* Mutated MailAlias: bound addresses may be taken. *)
MailAliasAny(c, name) ==
    /\ Seated(c)
    /\ Resolve(name) \in {name, MailAgent(c)}
    /\ alias[name] \in {None, MailAgent(c)}
    /\ alias' = [alias EXCEPT ![name] = MailAgent(c)]
    /\ UNCHANGED <<label, agent, forward, seat, letters, robbed>>

(* mail_alias: the name is no bound address, no other agent's former        *)
(* address and no other agent's alias.                                      *)
MailAlias(c, name) ==
    /\ Seated(c)
    /\ BoundTo(name) = {}
    /\ Resolve(name) \in {name, MailAgent(c)}
    /\ alias[name] \in {None, MailAgent(c)}
    /\ alias' = [alias EXCEPT ![name] = MailAgent(c)]
    /\ UNCHANGED <<label, agent, forward, seat, letters, robbed>>

-----------------------------------------------------------------------------
Next ==
    \/ Restart
    \/ \E s \in Sessions :
        \/ DestroySession(s)
        \/ \E l \in Labels, new \in Addr \cup {None} : CreateSession(s, l, new)
        \/ \E l \in Labels, new \in Addr : NameSession(s, l, new)
        \/ \E t \in Sessions : TransferAgent(s, t)
    \/ \E c \in Clients :
        \/ \E a \in Addr : MailHello(c, a) \/ MailSend(c, a) \/ MailAlias(c, a)
        \/ Disconnect(c)
        \/ MailBroadcast(c)
        \/ MailClaim(c)
        \/ \E l \in letters : MailCommit(c, l) \/ MailRelease(c, l)

Spec == Init /\ [][Next]_vars

-----------------------------------------------------------------------------
(* Types of the routing tables. *)
TypeOK ==
    /\ label \in [Sessions -> Labels \cup {None}]
    /\ agent \in [Sessions -> Addr \cup {None}]
    /\ forward \in [Addr -> Addr \cup {None}]
    /\ alias \in [Addr -> Addr \cup {None}]
    /\ seat \in [Clients -> Addr \cup {None}]
    /\ letters \subseteq [box : Addr, sentTo : Sessions \cup {None}, state : {"open", "held"}]
    /\ robbed \in BOOLEAN

(* "Rename flattens every forwarding chain" (Store::resolve): one lookup    *)
(* always reaches the end of a chain, after any sequence of renames.        *)
ForwardsFlat == \A a \in Addr : forward[a] # None => forward[forward[a]] = None

(* An address is bound to one live session at most.                         *)
AgentsExclusive ==
    \A s, t \in Sessions : agent[s] # None =>
        s \in Live /\ (agent[s] = agent[t] => s = t)

(* While no rename took a foreign address: what is sent to the address of a *)
(* bound session, also past the aliases, is stored under that address.      *)
BoundAgentReceives ==
    ~robbed => \A s \in Sessions : agent[s] # None => Recipient(agent[s]) = agent[s]

(* While no rename took a foreign address: no letter lies under an address  *)
(* that forwards elsewhere, where no agent could claim it.                  *)
LettersReachable == ~robbed => \A l \in letters : Resolve(l.box) = l.box

(* "The control plane must validate ownership" (Store::rename): a letter    *)
(* stored for a session stays in the mailbox of that session.               *)
MailStaysWithOwner == \A l \in letters : l.sentTo # None => l.box = agent[l.sentTo]

(* While no rename took a foreign address, it does.                         *)
OwnerKeepsMail == ~robbed => MailStaysWithOwner
=============================================================================
