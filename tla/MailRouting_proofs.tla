------------------------- MODULE MailRouting_proofs -------------------------
(***************************************************************************)
(* Proofs about MailRouting, for any sessions, labels, addresses, clients  *)
(* and letters.                                                            *)
(***************************************************************************)
EXTENDS MailRouting, TLAPS

-----------------------------------------------------------------------------
LEMMA ResolveInAddr ==
    ASSUME TypeOK, NEW a \in Addr
    PROVE  Resolve(a) \in Addr
BY RoutingAssumption DEF TypeOK, Resolve

LEMMA RecipientInAddr ==
    ASSUME TypeOK, NEW a \in Addr
    PROVE  Recipient(a) \in Addr
BY ResolveInAddr, RoutingAssumption DEF TypeOK, Recipient

LEMMA OldAgentInAddr ==
    ASSUME TypeOK, NEW s \in Live
    PROVE  OldAgent(s) \in Addr
BY RoutingAssumption DEF TypeOK, OldAgent, Live

LEMMA LetterTyped ==
    ASSUME NEW box \in Addr
    PROVE  /\ Letter(box) \in [box : Addr, sentTo : Sessions \cup {None}, state : {"open", "held"}]
           /\ Letter(box).box = box
           /\ Letter(box).sentTo # None => agent[Letter(box).sentTo] = box
<1>1. CASE BoundTo(box) = {}
  BY <1>1 DEF Letter
<1>2. CASE BoundTo(box) # {}
  <2>1. PICK s : s = CHOOSE x \in BoundTo(box) : TRUE
    OBVIOUS
  <2>2. s \in BoundTo(box)
    BY <1>2, <2>1
  <2>3. Letter(box) = [box |-> box, state |-> "open", sentTo |-> s]
    BY <1>2, <2>1 DEF Letter
  <2> QED BY <2>2, <2>3 DEF BoundTo
<1> QED BY <1>1, <1>2

(* The rename of the store keeps the types of its two tables. *)
LEMMA StoreRenameTyped ==
    ASSUME TypeOK, NEW old \in Addr, NEW new \in Addr, StoreRename(old, new)
    PROVE  /\ forward' \in [Addr -> Addr \cup {None}]
           /\ letters' \subseteq
                [box : Addr, sentTo : Sessions \cup {None}, state : {"open", "held"}]
<1>1. CASE old = new
  BY <1>1 DEF StoreRename, TypeOK
<1>2. CASE old # new
  <2>1. /\ forward' = [a \in Addr |->
              CASE a = old -> new
                [] a = new -> None
                [] OTHER -> IF forward[a] = old THEN new ELSE forward[a]]
        /\ letters' = {[l EXCEPT !.box = IF @ = old THEN new ELSE @] : l \in letters}
    BY <1>2 DEF StoreRename
  <2>2. forward' \in [Addr -> Addr \cup {None}]
    BY <2>1 DEF TypeOK
  <2>3. ASSUME NEW l \in letters
        PROVE  [l EXCEPT !.box = IF @ = old THEN new ELSE @] \in
                 [box : Addr, sentTo : Sessions \cup {None}, state : {"open", "held"}]
    BY <2>3 DEF TypeOK
  <2> QED BY <2>1, <2>2, <2>3
<1> QED BY <1>1, <1>2

-----------------------------------------------------------------------------
(* The types hold in every reachable state. *)
THEOREM TypeCorrect == Spec => []TypeOK
<1> USE RoutingAssumption
<1> DEFINE LetterType == [box : Addr, sentTo : Sessions \cup {None}, state : {"open", "held"}]
<1>1. Init => TypeOK
  BY DEF Init, TypeOK
<1>2. ASSUME TypeOK, [Next]_vars
      PROVE  TypeOK'
  <2>0. letters \subseteq LetterType
    BY <1>2 DEF TypeOK
  <2> USE DEF naming
  <2>1. ASSUME NEW s \in Sessions, DestroySession(s) PROVE TypeOK'
    <3>1. \A l \in letters : [l EXCEPT !.sentTo = IF @ = s THEN None ELSE @] \in LetterType
      BY <2>0
    <3> QED BY <1>2, <2>1, <3>1 DEF DestroySession, TypeOK
  <2>2. ASSUME NEW s \in Sessions, NEW l \in Labels, NEW new \in Addr \cup {None},
               CreateSession(s, l, new)
        PROVE  TypeOK'
    BY <1>2, <2>2 DEF CreateSession, TypeOK
  <2>3. ASSUME NEW s \in Sessions, NEW l \in Labels, NEW new \in Addr, NameSession(s, l, new)
        PROVE  TypeOK'
    <3>1. s \in Live /\ StoreRename(OldAgent(s), new)
      BY <2>3 DEF NameSession
    <3>2. /\ forward' \in [Addr -> Addr \cup {None}]
          /\ letters' \subseteq LetterType
      BY <1>2, <3>1, OldAgentInAddr, StoreRenameTyped
    <3>3. alias' = [a \in Addr |->
            IF a = new THEN None ELSE IF alias[a] = OldAgent(s) THEN new ELSE alias[a]]
      BY <2>3 DEF NameSession
    <3>4. /\ label' = [label EXCEPT ![s] = l]
          /\ agent' = [agent EXCEPT ![s] = new]
          /\ robbed' \in BOOLEAN
          /\ UNCHANGED seat
      BY <1>2, <2>3 DEF NameSession, TypeOK
    <3> QED BY <1>2, <3>2, <3>3, <3>4 DEF TypeOK
  <2>4. ASSUME NEW s \in Sessions, NEW t \in Sessions, TransferAgent(s, t) PROVE TypeOK'
    <3>1. \A l \in letters : [l EXCEPT !.sentTo = IF @ = s THEN t ELSE @] \in LetterType
      BY <2>0
    <3> QED BY <1>2, <2>4, <3>1 DEF TransferAgent, TypeOK
  <2>5. ASSUME NEW c \in Clients, NEW a \in Addr, MailHello(c, a) PROVE TypeOK'
    BY <1>2, <2>5, ResolveInAddr DEF MailHello, TypeOK
  <2>6. ASSUME NEW c \in Clients, NEW a \in Addr, MailSend(c, a) PROVE TypeOK'
    <3>1. Letter(Recipient(a)) \in LetterType
      BY <1>2, RecipientInAddr, LetterTyped
    <3> QED BY <1>2, <2>6, <3>1 DEF MailSend, TypeOK
  <2>7. ASSUME NEW c \in Clients, NEW a \in Addr, MailAlias(c, a) PROVE TypeOK'
    <3>1. MailAgent(c) \in Addr
      BY <1>2, <2>7, ResolveInAddr DEF MailAlias, Seated, MailAgent, TypeOK
    <3> QED BY <1>2, <2>7, <3>1 DEF MailAlias, TypeOK
  <2>8. ASSUME NEW c \in Clients, MailBroadcast(c) PROVE TypeOK'
    <3>1. \A a \in {agent[s] : s \in Sessions} \ {None, MailAgent(c)} : a \in Addr
      BY <1>2 DEF TypeOK
    <3>2. \A a \in {agent[s] : s \in Sessions} \ {None, MailAgent(c)} : Letter(a) \in LetterType
      BY <3>1, LetterTyped
    <3> QED BY <1>2, <2>8, <3>2 DEF MailBroadcast, TypeOK
  <2>9. ASSUME NEW c \in Clients, MailClaim(c) PROVE TypeOK'
    <3>1. \A l \in letters :
            [l EXCEPT !.state = IF l.box = MailAgent(c) THEN "held" ELSE @] \in LetterType
      BY <2>0
    <3> QED BY <1>2, <2>9, <3>1 DEF MailClaim, TypeOK
  <2>10. ASSUME NEW c \in Clients, NEW l \in letters, MailCommit(c, l) PROVE TypeOK'
    BY <1>2, <2>10 DEF MailCommit, TypeOK
  <2>11. ASSUME NEW c \in Clients, NEW l \in letters, MailRelease(c, l) PROVE TypeOK'
    <3>1. [l EXCEPT !.state = "open"] \in LetterType
      BY <2>0
    <3> QED BY <1>2, <2>11, <3>1 DEF MailRelease, TypeOK
  <2>12. ASSUME NEW c \in Clients, Disconnect(c) PROVE TypeOK'
    BY <1>2, <2>12 DEF Disconnect, TypeOK
  <2>13. CASE Restart
    <3>1. \A l \in letters : [l EXCEPT !.sentTo = None] \in LetterType
      BY <2>0
    <3> QED BY <1>2, <2>13, <3>1 DEF Restart, TypeOK
  <2>14. CASE UNCHANGED vars
    BY <1>2, <2>14 DEF vars, TypeOK
  <2> QED
    BY <1>2, <2>1, <2>2, <2>3, <2>4, <2>5, <2>6, <2>7, <2>8, <2>9, <2>10, <2>11, <2>12,
       <2>13, <2>14
    DEF Next
<1> QED BY <1>1, <1>2, PTL DEF Spec

-----------------------------------------------------------------------------
(* What a rename does to one forward and to one letter. *)
LEMMA StoreRenameForwards ==
    ASSUME TypeOK, NEW old \in Addr, NEW new \in Addr, StoreRename(old, new), old # new
    PROVE  /\ forward'[old] = new
           /\ forward'[new] = None
           /\ \A a \in Addr \ {old, new} :
                forward'[a] = IF forward[a] = old THEN new ELSE forward[a]
BY DEF StoreRename, TypeOK

LEMMA StoreRenameLetters ==
    ASSUME TypeOK, NEW old \in Addr, NEW new \in Addr, StoreRename(old, new),
           NEW l \in letters'
    PROVE  \E k \in letters : /\ l.sentTo = k.sentTo
                              /\ l.box = IF k.box = old THEN new ELSE k.box
<1>1. CASE old = new
  BY <1>1 DEF StoreRename
<1>2. CASE old # new
  <2>1. letters' = {[l0 EXCEPT !.box = IF @ = old THEN new ELSE @] : l0 \in letters}
    BY <1>2 DEF StoreRename
  <2>2. PICK k \in letters : l = [k EXCEPT !.box = IF @ = old THEN new ELSE @]
    BY <2>1
  <2>3. k \in [box : Addr, sentTo : Sessions \cup {None}, state : {"open", "held"}]
    BY DEF TypeOK
  <2> QED BY <2>2, <2>3
<1> QED BY <1>1, <1>2

(* Only a rename writes the forwards. *)
LEMMA ForwardsWrittenByRename ==
    ASSUME [Next]_vars
    PROVE  \/ UNCHANGED forward
           \/ \E s \in Sessions, l \in Labels, new \in Addr : NameSession(s, l, new)
BY DEF Next, vars, naming, Restart, DestroySession, CreateSession, TransferAgent, MailHello,
       Disconnect, MailSend, MailAlias, MailBroadcast, MailClaim, MailCommit, MailRelease

(* One lookup reaches the end of every chain of forwards, whatever was      *)
(* renamed to what before.                                                  *)
LEMMA ForwardsFlatStep ==
    ASSUME TypeOK, ForwardsFlat, [Next]_vars
    PROVE  ForwardsFlat'
<1> USE RoutingAssumption
<1>1. CASE UNCHANGED forward
  BY <1>1 DEF ForwardsFlat
<1>2. ASSUME NEW s \in Sessions, NEW l \in Labels, NEW new \in Addr, NameSession(s, l, new)
      PROVE  ForwardsFlat'
  <2> DEFINE old == OldAgent(s)
  <2>1. s \in Live /\ StoreRename(old, new)
    BY <1>2 DEF NameSession
  <2>2. old \in Addr
    BY <2>1, OldAgentInAddr
  <2> HIDE DEF old
  <2>3. CASE old = new
    BY <2>1, <2>3 DEF StoreRename, ForwardsFlat
  <2>4. CASE old # new
    <3>1. /\ forward'[old] = new
          /\ forward'[new] = None
          /\ \A a \in Addr \ {old, new} :
               forward'[a] = IF forward[a] = old THEN new ELSE forward[a]
      BY <2>1, <2>2, <2>4, StoreRenameForwards
    <3>2. SUFFICES ASSUME NEW a \in Addr, forward'[a] # None
                   PROVE  forward'[forward'[a]] = None
      BY DEF ForwardsFlat
    <3>3. CASE a = old \/ a = new \/ forward[a] = old
      BY <3>1, <3>2, <3>3, <2>2
    <3>4. CASE a \in Addr \ {old, new} /\ forward[a] # old
      <4>1. forward'[a] = forward[a] /\ forward[a] \in Addr
        BY <3>1, <3>2, <3>4 DEF TypeOK
      <4>2. forward[forward[a]] = None
        BY <3>2, <4>1 DEF ForwardsFlat
      <4> QED BY <3>1, <3>4, <4>1, <4>2, <2>2
    <3> QED BY <3>3, <3>4
  <2> QED BY <2>3, <2>4
<1> QED BY <1>1, <1>2, ForwardsWrittenByRename

(* "Rename flattens every forwarding chain". *)
THEOREM ForwardsStayFlat == Spec => []ForwardsFlat
<1>1. Init => ForwardsFlat
  BY DEF Init, ForwardsFlat
<1> QED BY <1>1, TypeCorrect, ForwardsFlatStep, PTL DEF Spec

-----------------------------------------------------------------------------
(* An address is never bound to two sessions: a binding is created for a    *)
(* free address, renamed to a free address, or moved.                       *)
LEMMA AgentsExclusiveStep ==
    ASSUME TypeOK, AgentsExclusive, [Next]_vars
    PROVE  AgentsExclusive'
<1> USE RoutingAssumption DEF Live, BoundTo
<1>1. CASE UNCHANGED <<label, agent>>
  BY <1>1 DEF AgentsExclusive
<1>2. ASSUME NEW s \in Sessions, DestroySession(s) PROVE AgentsExclusive'
  BY <1>2 DEF DestroySession, AgentsExclusive, TypeOK
<1>3. ASSUME NEW s \in Sessions, NEW l \in Labels, NEW new \in Addr \cup {None},
             CreateSession(s, l, new)
      PROVE  AgentsExclusive'
  <2>1. l # None /\ label' = [label EXCEPT ![s] = l] /\ agent' = [agent EXCEPT ![s] = new]
    BY <1>3 DEF CreateSession
  <2>2. new # None => \A t \in Sessions : agent[t] # new
    BY <1>3 DEF CreateSession
  <2> QED BY <2>1, <2>2 DEF AgentsExclusive, TypeOK
<1>4. ASSUME NEW s \in Sessions, NEW l \in Labels, NEW new \in Addr, NameSession(s, l, new)
      PROVE  AgentsExclusive'
  <2>1. /\ l # None
        /\ label' = [label EXCEPT ![s] = l] /\ agent' = [agent EXCEPT ![s] = new]
        /\ \A t \in Sessions \ {s} : agent[t] # new
    BY <1>4 DEF NameSession
  <2> QED BY <2>1 DEF AgentsExclusive, TypeOK
<1>5. ASSUME NEW s \in Sessions, NEW t \in Sessions, TransferAgent(s, t) PROVE AgentsExclusive'
  BY <1>5 DEF TransferAgent, AgentsExclusive, TypeOK
<1>6. CASE Restart
  BY <1>6 DEF Restart, AgentsExclusive
<1> QED
  BY <1>1, <1>2, <1>3, <1>4, <1>5, <1>6
  DEF Next, vars, naming, MailHello, Disconnect, MailSend, MailAlias, MailBroadcast, MailClaim,
      MailCommit, MailRelease

THEOREM AgentsStayExclusive == Spec => []AgentsExclusive
<1>1. Init => AgentsExclusive
  BY DEF Init, AgentsExclusive
<1> QED BY <1>1, TypeCorrect, AgentsExclusiveStep, PTL DEF Spec

-----------------------------------------------------------------------------
(* BoundAgentReceives says where one lookup ends; what the steps preserve   *)
(* is that a bound address is neither an alias nor a former address.        *)
BoundIsPlain ==
    ~robbed => \A s \in Sessions : agent[s] # None =>
                  alias[agent[s]] = None /\ forward[agent[s]] = None

LEMMA PlainStep ==
    ASSUME TypeOK, ForwardsFlat, BoundIsPlain, [Next]_vars
    PROVE  BoundIsPlain'
<1> USE RoutingAssumption
<1>1. CASE UNCHANGED <<agent, alias, forward, robbed>>
  BY <1>1 DEF BoundIsPlain
<1>2. ASSUME NEW s \in Sessions, DestroySession(s) PROVE BoundIsPlain'
  BY <1>2 DEF DestroySession, BoundIsPlain, TypeOK
<1>3. ASSUME NEW s \in Sessions, NEW l \in Labels, NEW new \in Addr \cup {None},
             CreateSession(s, l, new)
      PROVE  BoundIsPlain'
  <2>1. new # None => alias[new] = None /\ forward[new] = None
    BY <1>3 DEF CreateSession, Resolve, ForwardsFlat
  <2> QED BY <1>3, <2>1 DEF CreateSession, BoundIsPlain, TypeOK
<1>4. ASSUME NEW s \in Sessions, NEW l \in Labels, NEW new \in Addr, NameSession(s, l, new)
      PROVE  BoundIsPlain'
  <2> DEFINE old == OldAgent(s)
             others == {a \in Addr : BoundTo(a) \ {s} # {}}
  <2>1. /\ s \in Live /\ StoreRename(old, new) /\ new \notin others
        /\ Resolve(new) \in {new, old}
        /\ alias' = [a \in Addr |->
              IF a = new THEN None ELSE IF alias[a] = old THEN new ELSE alias[a]]
        /\ agent' = [agent EXCEPT ![s] = new]
        /\ ~robbed' => ~robbed /\ (old = new \/ old \notin others)
    BY <1>4 DEF NameSession
  <2>2. old \in Addr
    BY <2>1, OldAgentInAddr
  <2>3. \A t \in Sessions \ {s} : agent[t] # None => agent[t] \in others
    BY DEF BoundTo, TypeOK
  <2> HIDE DEF old, others
  <2>4. SUFFICES ASSUME ~robbed', NEW t \in Sessions, agent'[t] # None
                 PROVE  alias'[agent'[t]] = None /\ forward'[agent'[t]] = None
    BY DEF BoundIsPlain
  <2>5. CASE t = s
    <3>1. agent'[t] = new
      BY <2>1, <2>5 DEF TypeOK
    <3>2. alias'[new] = None
      BY <2>1
    <3>3. forward'[new] = None
      <4>1. CASE old = new
        <5>1. forward' = forward /\ Resolve(new) = new
          BY <4>1, <2>1 DEF StoreRename
        <5> QED BY <5>1 DEF Resolve, ForwardsFlat
      <4>2. CASE old # new
        BY <4>2, <2>1, <2>2, StoreRenameForwards
      <4> QED BY <4>1, <4>2
    <3> QED BY <3>1, <3>2, <3>3
  <2>6. CASE t # s
    <3>1. agent'[t] = agent[t] /\ agent[t] \in Addr
      BY <2>1, <2>4, <2>6 DEF TypeOK
    <3>2. agent[t] \in others /\ agent[t] # new
      BY <2>1, <2>3, <2>4, <2>6, <3>1
    <3>3. alias[agent[t]] = None /\ forward[agent[t]] = None
      BY <2>1, <2>4, <3>1 DEF BoundIsPlain
    <3>4. alias'[agent[t]] = None
      BY <2>1, <2>2, <3>1, <3>2, <3>3
    <3>5. forward'[agent[t]] = None
      <4>1. CASE old = new
        BY <4>1, <2>1, <3>3 DEF StoreRename
      <4>2. CASE old # new
        <5>1. agent[t] # old
          BY <4>2, <2>1, <2>4, <3>2
        <5>2. forward'[agent[t]] = IF forward[agent[t]] = old THEN new ELSE forward[agent[t]]
          BY <4>2, <5>1, <2>1, <2>2, <3>1, <3>2, StoreRenameForwards
        <5> QED BY <5>2, <3>3, <2>2
      <4> QED BY <4>1, <4>2
    <3> QED BY <3>1, <3>4, <3>5
  <2> QED BY <2>5, <2>6
<1>5. ASSUME NEW s \in Sessions, NEW t \in Sessions, TransferAgent(s, t) PROVE BoundIsPlain'
  BY <1>5 DEF TransferAgent, BoundIsPlain, TypeOK
<1>6. ASSUME NEW c \in Clients, NEW a \in Addr, MailAlias(c, a) PROVE BoundIsPlain'
  <2>1. \A s \in Sessions : agent[s] # a
    BY <1>6 DEF MailAlias, BoundTo
  <2> QED BY <1>6, <2>1 DEF MailAlias, BoundIsPlain, TypeOK
<1>7. CASE Restart
  BY <1>7 DEF Restart, BoundIsPlain
<1> QED
  BY <1>1, <1>2, <1>3, <1>4, <1>5, <1>6, <1>7
  DEF Next, vars, naming, MailHello, Disconnect, MailSend, MailBroadcast, MailClaim, MailCommit, MailRelease

THEOREM BoundStaysPlain == Spec => []BoundIsPlain
<1>1. Init => BoundIsPlain
  BY DEF Init, BoundIsPlain
<1> QED BY <1>1, TypeCorrect, ForwardsStayFlat, PlainStep, PTL DEF Spec

(* Until a rename takes a foreign address, a bound agent gets what is sent  *)
(* to its address.                                                          *)
THEOREM BoundReceives == Spec => []BoundAgentReceives
<1>1. BoundIsPlain => BoundAgentReceives
  BY DEF BoundIsPlain, BoundAgentReceives, Recipient, Resolve
<1> QED BY <1>1, BoundStaysPlain, PTL

-----------------------------------------------------------------------------
(* Letters come from sends and broadcasts; every other request only moves,  *)
(* retargets or removes the ones that are there.                            *)
OnlyOld == \A l \in letters' : \E k \in letters : l.box = k.box /\ l.sentTo = k.sentTo

LEMMA MailKeepsAddressing ==
    ASSUME TypeOK, NEW c \in Clients,
           MailClaim(c) \/ \E l \in letters : MailCommit(c, l) \/ MailRelease(c, l)
    PROVE  OnlyOld
<1> DEFINE LetterType == [box : Addr, sentTo : Sessions \cup {None}, state : {"open", "held"}]
<1>0. \A l \in letters : l \in LetterType
  BY DEF TypeOK
<1>1. CASE MailClaim(c)
  <2>1. \A l \in letters' : \E k \in letters :
          l = [k EXCEPT !.state = IF k.box = MailAgent(c) THEN "held" ELSE @]
    BY <1>1 DEF MailClaim
  <2> QED BY <1>0, <2>1 DEF OnlyOld
<1>2. ASSUME NEW l \in letters, MailCommit(c, l) PROVE OnlyOld
  BY <1>2 DEF MailCommit, OnlyOld
<1>3. ASSUME NEW l \in letters, MailRelease(c, l) PROVE OnlyOld
  <2>1. letters' = (letters \ {l}) \cup {[l EXCEPT !.state = "open"]}
    BY <1>3 DEF MailRelease
  <2>2. [l EXCEPT !.state = "open"].box = l.box /\ [l EXCEPT !.state = "open"].sentTo = l.sentTo
    BY <1>0
  <2> QED BY <2>1, <2>2 DEF OnlyOld
<1> QED BY <1>1, <1>2, <1>3

LEMMA DestroyKeepsBoxes ==
    ASSUME TypeOK, NEW s \in Sessions, DestroySession(s)
    PROVE  \A l \in letters' : \E k \in letters :
              l.box = k.box /\ l.sentTo = IF k.sentTo = s THEN None ELSE k.sentTo
<1>0. \A l \in letters : l \in [box : Addr, sentTo : Sessions \cup {None}, state : {"open", "held"}]
  BY DEF TypeOK
<1>1. \A l \in letters' : \E k \in letters :
        l = [k EXCEPT !.sentTo = IF k.sentTo = s THEN None ELSE k.sentTo]
  BY DEF DestroySession
<1> QED BY <1>0, <1>1

LEMMA TransferKeepsBoxes ==
    ASSUME TypeOK, NEW s \in Sessions, NEW t \in Sessions, TransferAgent(s, t)
    PROVE  \A l \in letters' : \E k \in letters :
              l.box = k.box /\ l.sentTo = IF k.sentTo = s THEN t ELSE k.sentTo
<1>0. \A l \in letters : l \in [box : Addr, sentTo : Sessions \cup {None}, state : {"open", "held"}]
  BY DEF TypeOK
<1>1. \A l \in letters' : \E k \in letters :
        l = [k EXCEPT !.sentTo = IF k.sentTo = s THEN t ELSE k.sentTo]
  BY DEF TransferAgent
<1> QED BY <1>0, <1>1

LEMMA RestartKeepsBoxes ==
    ASSUME TypeOK, Restart
    PROVE  \A l \in letters' : l.sentTo = None /\ \E k \in letters : l.box = k.box
<1>0. \A l \in letters : l \in [box : Addr, sentTo : Sessions \cup {None}, state : {"open", "held"}]
  BY DEF TypeOK
<1>1. \A l \in letters' : \E k \in letters : l = [k EXCEPT !.sentTo = None]
  BY DEF Restart
<1> QED BY <1>0, <1>1

(* No letter lies under a former address: a send resolves its recipient, a  *)
(* broadcast uses bound addresses, and a rename takes the letters along.    *)
LEMMA ReachableStep ==
    ASSUME TypeOK, ForwardsFlat, BoundIsPlain, LettersReachable, [Next]_vars
    PROVE  LettersReachable'
<1> USE RoutingAssumption
<1> DEFINE Kept == /\ forward' = forward /\ robbed' = robbed
                   /\ \A l \in letters' : \E k \in letters : l.box = k.box
<1>1. CASE Kept
  BY <1>1 DEF LettersReachable, Resolve
<1>2. CASE UNCHANGED <<forward, robbed, letters>>
  BY <1>2 DEF LettersReachable, Resolve
<1>3. ASSUME NEW s \in Sessions, DestroySession(s) PROVE Kept
  BY <1>3, DestroyKeepsBoxes DEF DestroySession
<1>4. ASSUME NEW s \in Sessions, NEW t \in Sessions, TransferAgent(s, t) PROVE Kept
  <2>1. forward' = forward /\ robbed' = robbed
    BY <1>4 DEF TransferAgent
  <2>2. \A l \in letters' : \E k \in letters :
           l.box = k.box /\ l.sentTo = IF k.sentTo = s THEN t ELSE k.sentTo
    BY <1>4, TransferKeepsBoxes
  <2> QED BY <2>1, <2>2
<1>5. ASSUME NEW c \in Clients,
             MailClaim(c) \/ \E l \in letters : MailCommit(c, l) \/ MailRelease(c, l)
      PROVE  Kept
  <2>1. forward' = forward /\ robbed' = robbed
    BY <1>5 DEF MailClaim, MailCommit, MailRelease, naming
  <2> QED BY <2>1, <1>5, MailKeepsAddressing DEF OnlyOld
<1>6. ASSUME NEW s \in Sessions, NEW l \in Labels, NEW new \in Addr, NameSession(s, l, new)
      PROVE  LettersReachable'
  <2> DEFINE old == OldAgent(s)
  <2>1. s \in Live /\ StoreRename(old, new) /\ (robbed => robbed')
    BY <1>6 DEF NameSession
  <2>2. old \in Addr
    BY <2>1, OldAgentInAddr
  <2> HIDE DEF old
  <2>3. SUFFICES ASSUME ~robbed', NEW m \in letters' PROVE forward'[m.box] = None
    BY DEF LettersReachable, Resolve
  <2>4. PICK k \in letters : m.box = IF k.box = old THEN new ELSE k.box
    BY <2>1, <2>2, <2>3, StoreRenameLetters
  <2>5. k.box \in Addr
    BY DEF TypeOK
  <2>6. forward[k.box] = None
    BY <2>1, <2>3, <2>5 DEF LettersReachable, Resolve, ForwardsFlat
  <2>7. CASE old = new
    BY <2>1, <2>4, <2>6, <2>7 DEF StoreRename
  <2>8. CASE old # new
    <3>1. /\ forward'[new] = None
          /\ \A a \in Addr \ {old, new} :
               forward'[a] = IF forward[a] = old THEN new ELSE forward[a]
      BY <2>1, <2>2, <2>8, StoreRenameForwards
    <3> QED BY <2>2, <2>4, <2>5, <2>6, <3>1
  <2> QED BY <2>7, <2>8
<1>7. ASSUME NEW c \in Clients, NEW a \in Addr, MailSend(c, a) PROVE LettersReachable'
  <2>1. Recipient(a) \in Addr /\ Letter(Recipient(a)).box = Recipient(a)
    BY RecipientInAddr, LetterTyped
  <2>2. Resolve(Recipient(a)) = Recipient(a)
    BY DEF Recipient, Resolve, ForwardsFlat, TypeOK
  <2>3. letters' = letters \cup {Letter(Recipient(a))} /\ forward' = forward /\ robbed' = robbed
    BY <1>7 DEF MailSend, naming
  <2> QED BY <2>1, <2>2, <2>3 DEF LettersReachable, Resolve
<1>8. ASSUME NEW c \in Clients, MailBroadcast(c) PROVE LettersReachable'
  <2>1. /\ forward' = forward /\ robbed' = robbed
        /\ letters' = letters \cup
             {Letter(a) : a \in {agent[s] : s \in Sessions} \ {None, MailAgent(c)}}
    BY <1>8 DEF MailBroadcast, naming
  <2>2. SUFFICES ASSUME ~robbed, NEW l \in letters', l \notin letters
                 PROVE  forward[l.box] = None
    BY <2>1 DEF LettersReachable, Resolve
  <2>3. PICK s \in Sessions : agent[s] # None /\ l = Letter(agent[s])
    BY <2>1, <2>2
  <2>4. agent[s] \in Addr
    BY <2>3 DEF TypeOK
  <2>5. l.box = agent[s]
    BY <2>3, <2>4, LetterTyped
  <2> QED BY <2>2, <2>3, <2>5 DEF BoundIsPlain
<1>9. ASSUME NEW s \in Sessions, NEW l \in Labels, NEW new \in Addr \cup {None},
             CreateSession(s, l, new)
      PROVE  UNCHANGED <<forward, robbed, letters>>
  BY <1>9 DEF CreateSession
<1>10. ASSUME NEW c \in Clients, NEW a \in Addr, MailHello(c, a) \/ MailAlias(c, a)
       PROVE  UNCHANGED <<forward, robbed, letters>>
  BY <1>10 DEF MailHello, MailAlias, naming
<1>11. ASSUME Restart PROVE Kept
  <2>1. forward' = forward /\ robbed' = robbed
    BY <1>11 DEF Restart
  <2> QED BY <2>1, <1>11, RestartKeepsBoxes
<1>12. ASSUME NEW c \in Clients, Disconnect(c) PROVE UNCHANGED <<forward, robbed, letters>>
  BY <1>12 DEF Disconnect, naming
<1> HIDE DEF Kept
<1> QED
  BY <1>1, <1>2, <1>3, <1>4, <1>5, <1>6, <1>7, <1>8, <1>9, <1>10, <1>11, <1>12
  DEF Next, vars

THEOREM LettersStayReachable == Spec => []LettersReachable
<1>1. Init => LettersReachable
  BY DEF Init, LettersReachable
<1> QED BY <1>1, TypeCorrect, ForwardsStayFlat, BoundStaysPlain, ReachableStep, PTL DEF Spec

-----------------------------------------------------------------------------
(* A letter follows the binding of the session it was sent to.              *)
LEMMA OwnerStep ==
    ASSUME TypeOK, AgentsExclusive, OwnerKeepsMail, [Next]_vars
    PROVE  OwnerKeepsMail'
<1> USE RoutingAssumption
<1>1. CASE UNCHANGED <<agent, robbed>> /\ OnlyOld
  BY <1>1 DEF OnlyOld, OwnerKeepsMail, MailStaysWithOwner
<1>2. CASE UNCHANGED <<agent, robbed, letters>>
  BY <1>2 DEF OwnerKeepsMail, MailStaysWithOwner
<1>3. ASSUME NEW s \in Sessions, DestroySession(s) PROVE OwnerKeepsMail'
  <2>1. /\ agent' = [agent EXCEPT ![s] = None] /\ robbed' = robbed
        /\ \A l \in letters' : \E k \in letters :
             l.box = k.box /\ l.sentTo = IF k.sentTo = s THEN None ELSE k.sentTo
    BY <1>3, DestroyKeepsBoxes DEF DestroySession
  <2>2. \A k \in letters : k.sentTo \in Sessions \cup {None}
    BY DEF TypeOK
  <2> QED BY <2>1, <2>2 DEF OwnerKeepsMail, MailStaysWithOwner, TypeOK
<1>4. ASSUME NEW s \in Sessions, NEW l \in Labels, NEW new \in Addr \cup {None},
             CreateSession(s, l, new)
      PROVE  OwnerKeepsMail'
  <2>1. /\ agent' = [agent EXCEPT ![s] = new] /\ robbed' = robbed /\ letters' = letters
        /\ agent[s] = None
    BY <1>4 DEF CreateSession, AgentsExclusive
  <2>2. \A k \in letters : k.box # None /\ k.sentTo \in Sessions \cup {None}
    BY DEF TypeOK
  <2> QED BY <2>1, <2>2 DEF OwnerKeepsMail, MailStaysWithOwner, TypeOK
<1>5. ASSUME NEW s \in Sessions, NEW l \in Labels, NEW new \in Addr, NameSession(s, l, new)
      PROVE  OwnerKeepsMail'
  <2> DEFINE old == OldAgent(s)
             others == {a \in Addr : BoundTo(a) \ {s} # {}}
  <2>1. /\ s \in Live /\ StoreRename(old, new)
        /\ agent' = [agent EXCEPT ![s] = new]
        /\ ~robbed' => ~robbed /\ (old = new \/ old \notin others)
    BY <1>5 DEF NameSession
  <2>2. old \in Addr /\ (agent[s] # None => old = agent[s])
    BY <2>1, OldAgentInAddr DEF OldAgent
  <2>3. \A t \in Sessions \ {s} : agent[t] # None => agent[t] \in others
    BY DEF BoundTo, TypeOK
  <2> HIDE DEF old, others
  <2>4. SUFFICES ASSUME ~robbed', NEW m \in letters', m.sentTo # None
                 PROVE  m.box = agent'[m.sentTo]
    BY DEF OwnerKeepsMail, MailStaysWithOwner
  <2>5. PICK k \in letters : /\ m.sentTo = k.sentTo
                             /\ m.box = IF k.box = old THEN new ELSE k.box
    BY <2>1, <2>2, StoreRenameLetters
  <2>6. k.box \in Addr /\ k.sentTo \in Sessions /\ k.box = agent[k.sentTo]
    BY <2>1, <2>4, <2>5 DEF TypeOK, OwnerKeepsMail, MailStaysWithOwner
  <2>7. CASE k.sentTo = s
    BY <2>1, <2>2, <2>5, <2>6, <2>7 DEF TypeOK
  <2>8. CASE k.sentTo # s
    <3>1. agent'[k.sentTo] = k.box /\ k.box \in others
      BY <2>1, <2>3, <2>6, <2>8 DEF TypeOK
    <3> QED BY <3>1, <2>1, <2>4, <2>5
  <2> QED BY <2>7, <2>8
<1>6. ASSUME NEW s \in Sessions, NEW t \in Sessions, TransferAgent(s, t) PROVE OwnerKeepsMail'
  <2>1. /\ agent' = [agent EXCEPT ![s] = None, ![t] = agent[s]] /\ robbed' = robbed
        /\ \A l \in letters' : \E k \in letters :
             l.box = k.box /\ l.sentTo = IF k.sentTo = s THEN t ELSE k.sentTo
        /\ agent[s] # None /\ agent[t] = None
    BY <1>6, TransferKeepsBoxes DEF TransferAgent
  <2>2. \A k \in letters : k.box # None /\ k.sentTo \in Sessions \cup {None}
    BY DEF TypeOK
  <2> QED BY <2>1, <2>2 DEF OwnerKeepsMail, MailStaysWithOwner, TypeOK
<1>7. ASSUME NEW c \in Clients, NEW a \in Addr, MailSend(c, a) PROVE OwnerKeepsMail'
  <2>1. /\ Letter(Recipient(a)).sentTo # None =>
             agent[Letter(Recipient(a)).sentTo] = Letter(Recipient(a)).box
        /\ letters' = letters \cup {Letter(Recipient(a))} /\ agent' = agent /\ robbed' = robbed
    BY <1>7, RecipientInAddr, LetterTyped DEF MailSend, naming
  <2> QED BY <2>1 DEF OwnerKeepsMail, MailStaysWithOwner
<1>8. ASSUME NEW c \in Clients, MailBroadcast(c) PROVE OwnerKeepsMail'
  <2>1. /\ agent' = agent /\ robbed' = robbed
        /\ letters' = letters \cup
             {Letter(a) : a \in {agent[s] : s \in Sessions} \ {None, MailAgent(c)}}
    BY <1>8 DEF MailBroadcast, naming
  <2>2. \A a \in {agent[s] : s \in Sessions} \ {None, MailAgent(c)} :
          Letter(a).sentTo # None => Letter(a).box = agent[Letter(a).sentTo]
    BY LetterTyped DEF TypeOK
  <2> QED BY <2>1, <2>2 DEF OwnerKeepsMail, MailStaysWithOwner
<1>9. ASSUME NEW c \in Clients,
             MailClaim(c) \/ \E l \in letters : MailCommit(c, l) \/ MailRelease(c, l)
      PROVE  UNCHANGED <<agent, robbed>> /\ OnlyOld
  <2>1. UNCHANGED <<agent, robbed>>
    BY <1>9 DEF MailClaim, MailCommit, MailRelease, naming
  <2> QED BY <2>1, <1>9, MailKeepsAddressing
<1>10. ASSUME NEW c \in Clients, NEW a \in Addr, MailHello(c, a) \/ MailAlias(c, a)
       PROVE  UNCHANGED <<agent, robbed, letters>>
  BY <1>10 DEF MailHello, MailAlias, naming
<1>11. CASE Restart
  BY <1>11, RestartKeepsBoxes DEF OwnerKeepsMail, MailStaysWithOwner
<1>12. ASSUME NEW c \in Clients, Disconnect(c) PROVE UNCHANGED <<agent, robbed, letters>>
  BY <1>12 DEF Disconnect, naming
<1> QED
  BY <1>1, <1>2, <1>3, <1>4, <1>5, <1>6, <1>7, <1>8, <1>9, <1>10, <1>11, <1>12
  DEF Next, vars

(* While every rename moves an address of its own session, no session loses *)
(* a letter.                                                                *)
THEOREM OwnersKeepMail == Spec => []OwnerKeepsMail
<1>1. Init => OwnerKeepsMail
  BY DEF Init, OwnerKeepsMail, MailStaysWithOwner
<1> QED BY <1>1, TypeCorrect, AgentsStayExclusive, OwnerStep, PTL DEF Spec
=============================================================================
