------------------------- MODULE ControlPlane_proofs -------------------------
(***************************************************************************)
(* Proofs about ControlPlane for id spaces of every size and any number of *)
(* Spaces.  First the operators of MuxDomain: each keeps the types, the    *)
(* ownership tree and the freshness of the ids not yet given out.  Then    *)
(* the requests built from them.                                           *)
(***************************************************************************)
EXTENDS ControlPlane, TLAPS

(* What is alive was given out by the counters. *)
LiveIdsIssued ==
    /\ sessions \subseteq Issued(nextSession, MaxSession)
    /\ Windows \subseteq Issued(nextWindow, MaxWindow)
    /\ panes \subseteq Issued(nextPane, MaxPane)

(* The inductive invariant of the domain. *)
DomainInv == DomainTypeOK /\ ExclusiveOwnership /\ LiveIdsIssued

-----------------------------------------------------------------------------
(* Ids. *)

(* 0 is no id: Option::None is told from every id of the domain. *)
LEMMA NoneIsNoId ==
    None \notin SessionId /\ None \notin WindowId /\ None \notin PaneId /\ None \notin ClientId
BY DEF None, SessionId, WindowId, PaneId, ClientId

(* mint_raw returns an id never given out before, and counts it as given.   *)
LEMMA MintedIsFresh ==
    ASSUME NEW max \in Nat \ {0}, NEW n \in 0..max, n # 0
    PROVE  /\ n \in 1..max
           /\ n \notin Issued(n, max)
           /\ After(n, max) \in 0..max
           /\ Issued(After(n, max), max) = Issued(n, max) \cup {n}
BY DEF Issued, After

(* The three ids of the topology, minted. *)
LEMMA MintedIds ==
    ASSUME DomainTypeOK
    PROVE  /\ MintSession =>
                /\ nextSession \in SessionId
                /\ nextSession \notin Issued(nextSession, MaxSession)
                /\ nextSession' \in 0..MaxSession
                /\ Issued(nextSession', MaxSession)
                     = Issued(nextSession, MaxSession) \cup {nextSession}
           /\ MintWindow =>
                /\ nextWindow \in WindowId
                /\ nextWindow \notin Issued(nextWindow, MaxWindow)
                /\ nextWindow' \in 0..MaxWindow
                /\ Issued(nextWindow', MaxWindow)
                     = Issued(nextWindow, MaxWindow) \cup {nextWindow}
           /\ MintPane =>
                /\ nextPane \in PaneId
                /\ nextPane \notin Issued(nextPane, MaxPane)
                /\ nextPane' \in 0..MaxPane
                /\ Issued(nextPane', MaxPane) = Issued(nextPane, MaxPane) \cup {nextPane}
<1>1. ASSUME MintSession
      PROVE  /\ nextSession \in SessionId
             /\ nextSession \notin Issued(nextSession, MaxSession)
             /\ nextSession' \in 0..MaxSession
             /\ Issued(nextSession', MaxSession)
                  = Issued(nextSession, MaxSession) \cup {nextSession}
  BY <1>1, MintedIsFresh, IdAssumption DEF DomainTypeOK, MintSession, SessionId
<1>2. ASSUME MintWindow
      PROVE  /\ nextWindow \in WindowId
             /\ nextWindow \notin Issued(nextWindow, MaxWindow)
             /\ nextWindow' \in 0..MaxWindow
             /\ Issued(nextWindow', MaxWindow)
                  = Issued(nextWindow, MaxWindow) \cup {nextWindow}
  BY <1>2, MintedIsFresh, IdAssumption DEF DomainTypeOK, MintWindow, WindowId
<1>3. ASSUME MintPane
      PROVE  /\ nextPane \in PaneId
             /\ nextPane \notin Issued(nextPane, MaxPane)
             /\ nextPane' \in 0..MaxPane
             /\ Issued(nextPane', MaxPane) = Issued(nextPane, MaxPane) \cup {nextPane}
  BY <1>3, MintedIsFresh, IdAssumption DEF DomainTypeOK, MintPane, PaneId
<1> QED BY <1>1, <1>2, <1>3

-----------------------------------------------------------------------------
(* The ownership tree, given by its tables, except that the leaves of w may *)
(* have been claimed by other windows already (the move_pane handoff).      *)
Tree(w, sw, lay, own, live) ==
    /\ sw \in [SessionId -> SUBSET WindowId]
    /\ lay \in [WindowId -> SUBSET PaneId]
    /\ own \in [PaneId -> WindowId \cup {None}]
    /\ live \subseteq PaneId
    /\ \A v \in WindowId \ {w}, p \in PaneId : p \in lay[v] <=> own[p] = v
    /\ \A p \in lay[w] : own[p] # None
    /\ \A p \in PaneId : own[p] = w => p \in lay[w]
    /\ \A p \in PaneId : p \in live <=> own[p] # None
    /\ \A s \in SessionId : \A v \in sw[s] : lay[v] # {}
    /\ \A s \in SessionId \ sessions : sw[s] = {}
    /\ \A v \in WindowId : lay[v] # {} => \E s \in sessions : v \in sw[s]
    /\ \A s, t \in SessionId : s # t => sw[s] \cap sw[t] = {}

(* The state of the domain is such a tree. *)
LEMMA StateIsTree ==
    ASSUME DomainInv, NEW w \in WindowId
    PROVE  Tree(w, sessionWindows, layout, owner, panes)
BY NoneIsNoId
DEF Tree, DomainInv, DomainTypeOK, ExclusiveOwnership, LeavesAreOwned, WindowsAreListed, Windows

(* destroy_window frees the leaves still owned by w, and only those, and    *)
(* drops the session it empties.                                            *)
LEMMA DropWindowKeepsTree ==
    ASSUME DomainTypeOK,
           NEW w \in WindowId, NEW sw, NEW lay, NEW own, NEW live,
           NEW ctl \in [PaneId -> ClientId \cup {None}],
           Tree(w, sw, lay, own, live),
           DropWindow(w, sw, lay, own, live, ctl)
    PROVE  /\ sessions' \subseteq sessions
           /\ sessionWindows' \in [SessionId -> SUBSET WindowId]
           /\ spaceOf' \in [SessionId -> Spaces \cup {NoSpace}]
           /\ layout' \in [WindowId -> SUBSET PaneId]
           /\ panes' \subseteq live
           /\ owner' \in [PaneId -> WindowId \cup {None}]
           /\ controller' \in [PaneId -> ClientId \cup {None}]
           /\ Windows' = {v \in WindowId : lay[v] # {}} \ {w}
           /\ ExclusiveOwnership'
<1> USE NoneIsNoId
<1> DEFINE freed == Freed(w, lay, own)
           emptied == {s \in sessions : sw[s] = {w}}
<1>1. /\ layout' = [lay EXCEPT ![w] = {}]
      /\ panes' = live \ freed
      /\ owner' = [p \in PaneId |-> IF p \in freed THEN None ELSE own[p]]
      /\ controller' = [p \in PaneId |-> IF p \in freed THEN None ELSE ctl[p]]
      /\ sessions' = sessions \ emptied
      /\ sessionWindows' = [s \in SessionId |-> sw[s] \ {w}]
      /\ spaceOf' = [s \in SessionId |-> IF s \in emptied THEN NoSpace ELSE spaceOf[s]]
  BY DEF DropWindow
<1>2. freed = {p \in PaneId : own[p] = w}
  BY DEF Freed, Tree
<1> HIDE DEF freed
<1>3. /\ sessions' \subseteq sessions
      /\ sessionWindows' \in [SessionId -> SUBSET WindowId]
      /\ spaceOf' \in [SessionId -> Spaces \cup {NoSpace}]
      /\ layout' \in [WindowId -> SUBSET PaneId]
      /\ panes' \subseteq live
      /\ owner' \in [PaneId -> WindowId \cup {None}]
      /\ controller' \in [PaneId -> ClientId \cup {None}]
  BY <1>1 DEF Tree, DomainTypeOK
<1>4. Windows' = {v \in WindowId : lay[v] # {}} \ {w}
  BY <1>1 DEF Tree, Windows
<1>5. LeavesAreOwned'
  BY <1>1, <1>2 DEF Tree, LeavesAreOwned
<1>6. WindowsAreListed'
  <2>1. \A s \in SessionId : sessionWindows'[s] = sw[s] \ {w}
    BY <1>1
  <2>2. \A s \in SessionId : sessionWindows'[s] \subseteq Windows'
    BY <2>1, <1>4 DEF Tree
  <2>3. \A s \in SessionId \ sessions' : sessionWindows'[s] = {}
    BY <2>1, <1>1 DEF Tree
  <2>4. \A v \in Windows' : \E s \in sessions' : v \in sessionWindows'[s]
    <3> SUFFICES ASSUME NEW v \in Windows' PROVE \E s \in sessions' : v \in sessionWindows'[s]
      OBVIOUS
    <3>1. PICK s \in sessions : v \in sw[s]
      BY <1>4 DEF Tree
    <3>2. s \in sessions' /\ s \in SessionId
      BY <3>1, <1>1, <1>4 DEF DomainTypeOK
    <3> QED BY <3>1, <3>2, <2>1, <1>4
  <2>5. \A s, t \in SessionId : s # t => sessionWindows'[s] \cap sessionWindows'[t] = {}
    BY <2>1 DEF Tree
  <2> QED BY <2>2, <2>3, <2>4, <2>5 DEF WindowsAreListed
<1> QED BY <1>3, <1>4, <1>5, <1>6 DEF ExclusiveOwnership

-----------------------------------------------------------------------------
(* One lemma per operator of the domain. *)

LEMMA InitDomain == DomainInit => DomainInv
BY NoneIsNoId, IdAssumption, SpaceAssumption
DEF DomainInit, DomainInv, DomainTypeOK, ExclusiveOwnership, LeavesAreOwned,
    WindowsAreListed, LiveIdsIssued, Windows, Issued, None

LEMMA DestroyWindowKeeps ==
    ASSUME DomainInv, NEW w \in WindowId, DomainDestroyWindow(w)
    PROVE  DomainInv'
<1>1. Tree(w, sessionWindows, layout, owner, panes)
  BY StateIsTree
<1>2. DropWindow(w, sessionWindows, layout, owner, panes, controller) /\ UNCHANGED ids
  BY DEF DomainDestroyWindow
<1>3. DomainTypeOK /\ controller \in [PaneId -> ClientId \cup {None}]
  BY DEF DomainInv, DomainTypeOK
<1>4. /\ sessions' \subseteq sessions
      /\ Windows' = Windows \ {w}
      /\ panes' \subseteq panes
      /\ ExclusiveOwnership'
      /\ sessionWindows' \in [SessionId -> SUBSET WindowId]
      /\ spaceOf' \in [SessionId -> Spaces \cup {NoSpace}]
      /\ layout' \in [WindowId -> SUBSET PaneId]
      /\ owner' \in [PaneId -> WindowId \cup {None}]
      /\ controller' \in [PaneId -> ClientId \cup {None}]
  BY <1>1, <1>2, <1>3, DropWindowKeepsTree DEF Windows
<1> QED
  BY <1>2, <1>3, <1>4 DEF DomainInv, DomainTypeOK, LiveIdsIssued, ids

LEMMA BurnKeeps ==
    ASSUME DomainInv,
           NEW a \in BOOLEAN, NEW b \in BOOLEAN, NEW c \in BOOLEAN, DomainBurn(a, b, c)
    PROVE  DomainInv'
<1>1. /\ nextSession' \in 0..MaxSession
      /\ Issued(nextSession, MaxSession) \subseteq Issued(nextSession', MaxSession)
  BY MintedIds DEF DomainBurn, DomainInv, DomainTypeOK
<1>2. /\ nextWindow' \in 0..MaxWindow
      /\ Issued(nextWindow, MaxWindow) \subseteq Issued(nextWindow', MaxWindow)
  BY MintedIds DEF DomainBurn, DomainInv, DomainTypeOK
<1>3. /\ nextPane' \in 0..MaxPane
      /\ Issued(nextPane, MaxPane) \subseteq Issued(nextPane', MaxPane)
  BY MintedIds DEF DomainBurn, DomainInv, DomainTypeOK
<1>4. UNCHANGED <<nextClient, topology, spaceOf, controller>>
  BY DEF DomainBurn
<1> QED
  BY <1>1, <1>2, <1>3, <1>4
  DEF DomainInv, DomainTypeOK, ExclusiveOwnership, LeavesAreOwned, WindowsAreListed,
      LiveIdsIssued, Windows, topology

LEMMA CreateSessionKeeps ==
    ASSUME DomainInv, DomainCreateSession
    PROVE  DomainInv'
BY MintedIds
DEF DomainCreateSession, DomainInv, DomainTypeOK, ExclusiveOwnership, LeavesAreOwned,
    WindowsAreListed, LiveIdsIssued, Windows

(* A window with a fresh leaf, listed by session s, keeps the tree. *)
LEMMA AddWindowKeeps ==
    ASSUME DomainInv, NEW s \in SessionId, NEW w \in WindowId, NEW p \in PaneId,
           w \notin Windows, p \notin panes,
           s \in sessions', sessions \subseteq sessions', sessions' \subseteq SessionId,
           AddWindow(s, w, p)
    PROVE  /\ ExclusiveOwnership'
           /\ Windows' = Windows \cup {w}
           /\ panes' = panes \cup {p}
           /\ sessionWindows' \in [SessionId -> SUBSET WindowId]
           /\ layout' \in [WindowId -> SUBSET PaneId]
           /\ owner' \in [PaneId -> WindowId \cup {None}]
<1> USE NoneIsNoId
<1>1. /\ layout' = [layout EXCEPT ![w] = {p}]
      /\ panes' = panes \cup {p}
      /\ owner' = [owner EXCEPT ![p] = w]
      /\ sessionWindows' = [sessionWindows EXCEPT ![s] = @ \cup {w}]
  BY DEF AddWindow
<1>2. /\ sessionWindows \in [SessionId -> SUBSET WindowId]
      /\ layout \in [WindowId -> SUBSET PaneId]
      /\ owner \in [PaneId -> WindowId \cup {None}]
  BY DEF DomainInv, DomainTypeOK
<1>3. Windows' = Windows \cup {w}
  BY <1>1, <1>2 DEF Windows
<1>4. layout[w] = {} /\ owner[p] = None
  BY DEF Windows, DomainInv, ExclusiveOwnership, LeavesAreOwned
<1>5. LeavesAreOwned'
  BY <1>1, <1>2, <1>4 DEF DomainInv, ExclusiveOwnership, LeavesAreOwned
<1>6. WindowsAreListed'
  <2>1. \A t \in SessionId : sessionWindows[t] \subseteq Windows
    BY DEF DomainInv, ExclusiveOwnership, WindowsAreListed
  <2>2. \A t \in SessionId :
          sessionWindows'[t] = IF t = s THEN sessionWindows[t] \cup {w} ELSE sessionWindows[t]
    BY <1>1, <1>2
  <2>3. \A t \in SessionId : sessionWindows'[t] \subseteq Windows'
    BY <2>1, <2>2, <1>3
  <2>4. \A t \in SessionId \ sessions' : sessionWindows'[t] = {}
    BY <2>2 DEF DomainInv, ExclusiveOwnership, WindowsAreListed
  <2>5. \A v \in Windows' : \E t \in sessions' : v \in sessionWindows'[t]
    <3> SUFFICES ASSUME NEW v \in Windows'
                 PROVE  \E t \in sessions' : v \in sessionWindows'[t]
      OBVIOUS
    <3>1. CASE v = w
      BY <3>1, <2>2
    <3>2. CASE v \in Windows
      <4>1. PICK t \in sessions : v \in sessionWindows[t]
        BY <3>2 DEF DomainInv, ExclusiveOwnership, WindowsAreListed
      <4> QED BY <4>1, <2>2 DEF DomainInv, DomainTypeOK
    <3> QED BY <3>1, <3>2, <1>3
  <2>6. \A t, u \in SessionId : t # u => sessionWindows'[t] \cap sessionWindows'[u] = {}
    <3>1. \A t, u \in SessionId : t # u => sessionWindows[t] \cap sessionWindows[u] = {}
      BY DEF DomainInv, ExclusiveOwnership, WindowsAreListed
    <3>2. \A t \in SessionId : w \notin sessionWindows[t]
      BY <2>1
    <3>3. SUFFICES ASSUME NEW t \in SessionId, NEW u \in SessionId, t # u,
                          NEW v \in sessionWindows'[t], v \in sessionWindows'[u]
                   PROVE  FALSE
      OBVIOUS
    <3>4. CASE v = w
      BY <2>2, <3>2, <3>3, <3>4
    <3>5. CASE v # w
      <4>1. v \in sessionWindows[t] /\ v \in sessionWindows[u]
        BY <2>2, <3>3, <3>5
      <4> QED BY <3>1, <3>3, <4>1
    <3> QED BY <3>4, <3>5
  <2> QED BY <2>3, <2>4, <2>5, <2>6 DEF WindowsAreListed
<1> QED BY <1>1, <1>2, <1>3, <1>5, <1>6 DEF ExclusiveOwnership

LEMMA CreateWindowKeeps ==
    ASSUME DomainInv, NEW s \in SessionId, DomainCreateWindow(s)
    PROVE  DomainInv'
<1>1. /\ nextWindow \in WindowId /\ nextWindow \notin Windows
      /\ nextPane \in PaneId /\ nextPane \notin panes
  BY MintedIds DEF DomainCreateWindow, DomainInv, LiveIdsIssued
<1>2. /\ ExclusiveOwnership'
      /\ Windows' = Windows \cup {nextWindow}
      /\ panes' = panes \cup {nextPane}
      /\ sessionWindows' \in [SessionId -> SUBSET WindowId]
      /\ layout' \in [WindowId -> SUBSET PaneId]
      /\ owner' \in [PaneId -> WindowId \cup {None}]
  BY <1>1, AddWindowKeeps DEF DomainCreateWindow, DomainInv, DomainTypeOK
<1> QED
  BY <1>1, <1>2, MintedIds DEF DomainCreateWindow, DomainInv, DomainTypeOK, LiveIdsIssued

LEMMA CreateSessionWithWindowKeeps ==
    ASSUME DomainInv, DomainCreateSessionWithWindow
    PROVE  DomainInv'
<1>1. /\ nextWindow \in WindowId /\ nextWindow \notin Windows
      /\ nextPane \in PaneId /\ nextPane \notin panes
      /\ nextSession \in SessionId
  BY MintedIds DEF DomainCreateSessionWithWindow, DomainInv, LiveIdsIssued
<1>2. /\ ExclusiveOwnership'
      /\ Windows' = Windows \cup {nextWindow}
      /\ panes' = panes \cup {nextPane}
      /\ sessionWindows' \in [SessionId -> SUBSET WindowId]
      /\ layout' \in [WindowId -> SUBSET PaneId]
      /\ owner' \in [PaneId -> WindowId \cup {None}]
  BY <1>1, AddWindowKeeps DEF DomainCreateSessionWithWindow, DomainInv, DomainTypeOK
<1> QED
  BY <1>1, <1>2, MintedIds
  DEF DomainCreateSessionWithWindow, DomainInv, DomainTypeOK, LiveIdsIssued

(* The rollback of create_window: the tree is the one before. *)
LEMMA CreateThenDestroyKeeps ==
    ASSUME DomainInv, NEW s \in SessionId, DomainCreateThenDestroyWindow(s)
    PROVE  DomainInv'
<1> USE NoneIsNoId
<1> DEFINE sw == [sessionWindows EXCEPT ![s] = @ \cup {nextWindow}]
           lay == [layout EXCEPT ![nextWindow] = {nextPane}]
           own == [owner EXCEPT ![nextPane] = nextWindow]
           live == panes \cup {nextPane}
<1>1. /\ nextWindow \in WindowId /\ nextWindow \notin Windows
      /\ nextPane \in PaneId /\ nextPane \notin panes
      /\ s \in sessions
  BY MintedIds DEF DomainCreateThenDestroyWindow, DomainInv, LiveIdsIssued
<1>2. /\ sessionWindows \in [SessionId -> SUBSET WindowId]
      /\ layout \in [WindowId -> SUBSET PaneId]
      /\ owner \in [PaneId -> WindowId \cup {None}]
      /\ panes \subseteq PaneId
      /\ LeavesAreOwned
      /\ \A t \in SessionId : sessionWindows[t] \subseteq Windows
      /\ \A t \in SessionId \ sessions : sessionWindows[t] = {}
      /\ \A v \in Windows : \E t \in sessions : v \in sessionWindows[t]
      /\ \A t, u \in SessionId : t # u => sessionWindows[t] \cap sessionWindows[u] = {}
  BY DEF DomainInv, DomainTypeOK, ExclusiveOwnership, WindowsAreListed
<1>3. layout[nextWindow] = {} /\ owner[nextPane] = None
  BY <1>1, <1>2 DEF Windows, LeavesAreOwned
<1>4. /\ \A t \in SessionId :
            sw[t] = IF t = s THEN sessionWindows[t] \cup {nextWindow} ELSE sessionWindows[t]
      /\ \A v \in WindowId : lay[v] = IF v = nextWindow THEN {nextPane} ELSE layout[v]
      /\ \A p \in PaneId : own[p] = IF p = nextPane THEN nextWindow ELSE owner[p]
  BY <1>1, <1>2
<1>5. Tree(nextWindow, sw, lay, own, live)
  <2>1. /\ sw \in [SessionId -> SUBSET WindowId]
        /\ lay \in [WindowId -> SUBSET PaneId]
        /\ own \in [PaneId -> WindowId \cup {None}]
        /\ live \subseteq PaneId
    BY <1>1, <1>2
  <2> HIDE DEF sw, lay, own
  <2>2. /\ \A v \in WindowId \ {nextWindow}, p \in PaneId : p \in lay[v] <=> own[p] = v
        /\ \A p \in lay[nextWindow] : own[p] # None
        /\ \A p \in PaneId : own[p] = nextWindow => p \in lay[nextWindow]
        /\ \A p \in PaneId : p \in live <=> own[p] # None
    BY <1>1, <1>2, <1>3, <1>4 DEF LeavesAreOwned
  <2>3. /\ \A t \in SessionId : \A v \in sw[t] : lay[v] # {}
        /\ \A t \in SessionId \ sessions : sw[t] = {}
    <3>1. \A t \in SessionId : \A v \in sw[t] : v \in Windows \/ v = nextWindow
      <4> SUFFICES ASSUME NEW t \in SessionId, NEW v \in sw[t]
                   PROVE  v \in Windows \/ v = nextWindow
        OBVIOUS
      <4>1. v \in sessionWindows[t] \/ v = nextWindow
        BY <1>4
      <4> QED BY <1>2, <4>1
    <3>2. \A v \in Windows : v \in WindowId /\ v # nextWindow /\ layout[v] # {}
      BY <1>1 DEF Windows
    <3>3. \A t \in SessionId : \A v \in sw[t] : lay[v] # {}
      BY <1>1, <1>4, <3>1, <3>2
    <3> QED BY <1>1, <1>2, <1>4, <3>3
  <2>4. \A v \in WindowId : lay[v] # {} => \E t \in sessions : v \in sw[t]
    <3> SUFFICES ASSUME NEW v \in WindowId, lay[v] # {}
                 PROVE  \E t \in sessions : v \in sw[t]
      OBVIOUS
    <3>1. CASE v = nextWindow
      BY <1>1, <1>4, <3>1
    <3>2. CASE v # nextWindow
      <4>1. v \in Windows
        BY <1>4, <3>2 DEF Windows
      <4>2. PICK t \in sessions : v \in sessionWindows[t]
        BY <1>2, <4>1
      <4> QED BY <1>4, <4>2 DEF DomainInv, DomainTypeOK
    <3> QED BY <3>1, <3>2
  <2>5. \A t, u \in SessionId : t # u => sw[t] \cap sw[u] = {}
    <3>1. \A t \in SessionId : nextWindow \notin sessionWindows[t]
      BY <1>1, <1>2
    <3>2. SUFFICES ASSUME NEW t \in SessionId, NEW u \in SessionId, t # u,
                          NEW v \in sw[t], v \in sw[u]
                   PROVE  FALSE
      OBVIOUS
    <3>3. CASE v = nextWindow
      BY <1>4, <3>1, <3>2, <3>3
    <3>4. CASE v # nextWindow
      <4>1. v \in sessionWindows[t] /\ v \in sessionWindows[u]
        BY <1>4, <3>2, <3>4
      <4> QED BY <1>2, <3>2, <4>1
    <3> QED BY <3>3, <3>4
  <2> QED BY <2>1, <2>2, <2>3, <2>4, <2>5 DEF Tree
<1>6. /\ DropWindow(nextWindow, sw, lay, own, live, controller)
      /\ MintPane /\ MintWindow /\ UNCHANGED <<nextSession, nextClient>>
  BY DEF DomainCreateThenDestroyWindow
<1>7. {v \in WindowId : lay[v] # {}} \ {nextWindow} = Windows
  BY <1>1, <1>4 DEF Windows
<1>8. DomainTypeOK /\ controller \in [PaneId -> ClientId \cup {None}]
  BY DEF DomainInv, DomainTypeOK
<1> HIDE DEF sw, lay, own, live
<1>9. /\ sessions' \subseteq sessions
      /\ Windows' = {v \in WindowId : lay[v] # {}} \ {nextWindow}
      /\ panes' \subseteq live
      /\ ExclusiveOwnership'
      /\ sessionWindows' \in [SessionId -> SUBSET WindowId]
      /\ spaceOf' \in [SessionId -> Spaces \cup {NoSpace}]
      /\ layout' \in [WindowId -> SUBSET PaneId]
      /\ owner' \in [PaneId -> WindowId \cup {None}]
      /\ controller' \in [PaneId -> ClientId \cup {None}]
  BY <1>1, <1>5, <1>6, <1>8, DropWindowKeepsTree
<1>10. DomainTypeOK'
  BY <1>1, <1>2, <1>6, <1>8, <1>9, MintedIds DEF DomainTypeOK, live
<1>11. LiveIdsIssued'
  BY <1>1, <1>6, <1>7, <1>8, <1>9, MintedIds DEF DomainInv, LiveIdsIssued, live
<1> QED BY <1>9, <1>10, <1>11 DEF DomainInv

LEMMA DestroySessionKeeps ==
    ASSUME DomainInv, NEW s \in SessionId, DomainDestroySession(s)
    PROVE  DomainInv'
<1> USE NoneIsNoId
<1> DEFINE freed == UNION {Freed(w, layout, owner) : w \in sessionWindows[s]}
<1>1. /\ layout' = [w \in WindowId |-> IF w \in sessionWindows[s] THEN {} ELSE layout[w]]
      /\ panes' = panes \ freed
      /\ owner' = [p \in PaneId |-> IF p \in freed THEN None ELSE owner[p]]
      /\ controller' = [p \in PaneId |-> IF p \in freed THEN None ELSE controller[p]]
      /\ sessions' = sessions \ {s}
      /\ sessionWindows' = [sessionWindows EXCEPT ![s] = {}]
      /\ spaceOf' = [spaceOf EXCEPT ![s] = NoSpace]
      /\ UNCHANGED ids
  BY DEF DomainDestroySession
<1>2. DomainTypeOK /\ LeavesAreOwned /\ WindowsAreListed
  BY DEF DomainInv, ExclusiveOwnership
<1>3. sessionWindows[s] \subseteq WindowId
  BY <1>2 DEF DomainTypeOK
<1>4. freed = {p \in PaneId : owner[p] \in sessionWindows[s]}
  BY <1>2, <1>3 DEF Freed, DomainTypeOK, LeavesAreOwned
<1> HIDE DEF freed
<1>5. DomainTypeOK'
  BY <1>1, <1>2 DEF DomainTypeOK, ids
<1>6. LeavesAreOwned'
  BY <1>1, <1>2, <1>3, <1>4 DEF DomainTypeOK, LeavesAreOwned
<1>7. Windows' = Windows \ sessionWindows[s]
  BY <1>1, <1>3 DEF Windows
<1>8. WindowsAreListed'
  BY <1>1, <1>2, <1>7 DEF DomainTypeOK, WindowsAreListed
<1>9. LiveIdsIssued'
  BY <1>1, <1>7 DEF DomainInv, LiveIdsIssued, ids
<1> QED BY <1>5, <1>6, <1>8, <1>9 DEF DomainInv, ExclusiveOwnership

LEMMA SplitPaneKeeps ==
    ASSUME DomainInv, NEW w \in WindowId, NEW target \in PaneId, DomainSplitPane(w, target)
    PROVE  DomainInv'
<1> USE NoneIsNoId
<1>1. /\ nextPane \in PaneId /\ nextPane \notin panes /\ nextPane' \in 0..MaxPane
      /\ panes' \subseteq Issued(nextPane', MaxPane)
  BY MintedIds DEF DomainSplitPane, DomainInv, LiveIdsIssued
<1>2. DomainTypeOK /\ LeavesAreOwned /\ WindowsAreListed
  BY DEF DomainInv, ExclusiveOwnership
<1>3. DomainTypeOK'
  BY <1>1, <1>2 DEF DomainSplitPane, DomainTypeOK
<1>4. LeavesAreOwned'
  BY <1>1, <1>2 DEF DomainSplitPane, DomainTypeOK, LeavesAreOwned
<1>5. Windows' = Windows
  BY <1>2 DEF DomainSplitPane, DomainTypeOK, Windows
<1>6. WindowsAreListed' /\ LiveIdsIssued'
  BY <1>1, <1>2, <1>5 DEF DomainSplitPane, WindowsAreListed, DomainInv, LiveIdsIssued
<1> QED BY <1>3, <1>4, <1>6 DEF DomainInv, ExclusiveOwnership

LEMMA ClosePaneKeeps ==
    ASSUME DomainInv, NEW w \in WindowId, NEW p \in PaneId, DomainClosePane(w, p)
    PROVE  DomainInv'
<1> USE NoneIsNoId
<1>1. DomainTypeOK /\ LeavesAreOwned /\ WindowsAreListed
  BY DEF DomainInv, ExclusiveOwnership
<1>2. DomainTypeOK'
  BY <1>1 DEF DomainClosePane, DomainTypeOK, ids
<1>3. LeavesAreOwned'
  BY <1>1 DEF DomainClosePane, DomainTypeOK, LeavesAreOwned
<1>4. Windows' = Windows
  BY <1>1 DEF DomainClosePane, DomainTypeOK, Windows
<1>5. WindowsAreListed' /\ LiveIdsIssued'
  BY <1>1, <1>4 DEF DomainClosePane, WindowsAreListed, DomainInv, LiveIdsIssued, ids
<1> QED BY <1>2, <1>3, <1>5 DEF DomainInv, ExclusiveOwnership

(* The leaf that move_pane hands over has one owner before and after, and   *)
(* the source window, when emptied, does not free it.                       *)
LEMMA MovePaneKeeps ==
    ASSUME DomainInv,
           NEW src \in WindowId, NEW dst \in WindowId, NEW p \in PaneId,
           NEW ctl \in [PaneId -> ClientId \cup {None}],
           DomainMovePane(src, dst, p, ctl)
    PROVE  DomainInv'
<1> USE NoneIsNoId
<1> DEFINE handoff == [layout EXCEPT ![dst] = @ \cup {p}]
           claimed == [owner EXCEPT ![p] = dst]
<1>1. DomainTypeOK /\ LeavesAreOwned /\ WindowsAreListed
  BY DEF DomainInv, ExclusiveOwnership
<1>2. src # dst /\ p \in layout[src] /\ dst \in Windows /\ UNCHANGED ids
  BY DEF DomainMovePane
<1>3. /\ \A v \in WindowId : handoff[v] = IF v = dst THEN layout[v] \cup {p} ELSE layout[v]
      /\ \A q \in PaneId : claimed[q] = IF q = p THEN dst ELSE owner[q]
      /\ handoff \in [WindowId -> SUBSET PaneId]
      /\ claimed \in [PaneId -> WindowId \cup {None}]
  BY <1>1 DEF DomainTypeOK
<1>4. {v \in WindowId : handoff[v] # {}} = Windows
  BY <1>2, <1>3 DEF Windows
<1>5. owner[p] = src
  BY <1>1, <1>2 DEF LeavesAreOwned
<1>6. CASE layout[src] = {p}
  <2>1. DropWindow(src, sessionWindows, handoff, claimed, panes, ctl)
    BY <1>6 DEF DomainMovePane
  <2> HIDE DEF handoff, claimed
  <2>2. Tree(src, sessionWindows, handoff, claimed, panes)
    <3>1. /\ \A v \in WindowId \ {src}, q \in PaneId : q \in handoff[v] <=> claimed[q] = v
          /\ \A q \in handoff[src] : claimed[q] # None
          /\ \A q \in PaneId : claimed[q] = src => q \in handoff[src]
          /\ \A q \in PaneId : q \in panes <=> claimed[q] # None
      BY <1>1, <1>2, <1>3, <1>5, <1>6 DEF LeavesAreOwned
    <3>2. \A v \in WindowId : handoff[v] # {} <=> v \in Windows
      BY <1>4
    <3>3. \A s \in SessionId : \A v \in sessionWindows[s] : handoff[v] # {}
      <4> SUFFICES ASSUME NEW s \in SessionId, NEW v \in sessionWindows[s]
                   PROVE  handoff[v] # {}
        OBVIOUS
      <4>1. v \in Windows /\ v \in WindowId
        BY <1>1 DEF WindowsAreListed, Windows
      <4> QED BY <4>1, <3>2
    <3> QED
      BY <1>1, <1>3, <3>1, <3>2, <3>3 DEF Tree, DomainTypeOK, WindowsAreListed
  <2>3. /\ sessions' \subseteq sessions
        /\ sessionWindows' \in [SessionId -> SUBSET WindowId]
        /\ spaceOf' \in [SessionId -> Spaces \cup {NoSpace}]
        /\ layout' \in [WindowId -> SUBSET PaneId]
        /\ panes' \subseteq panes
        /\ owner' \in [PaneId -> WindowId \cup {None}]
        /\ controller' \in [PaneId -> ClientId \cup {None}]
        /\ Windows' = {v \in WindowId : handoff[v] # {}} \ {src}
        /\ ExclusiveOwnership'
    BY <2>1, <2>2, <1>1, DropWindowKeepsTree
  <2> QED
    BY <2>3, <1>1, <1>2, <1>4 DEF DomainInv, DomainTypeOK, LiveIdsIssued, ids
<1>7. CASE layout[src] # {p}
  <2>1. /\ layout' = [handoff EXCEPT ![src] = @ \ {p}]
        /\ owner' = claimed
        /\ controller' = ctl
        /\ UNCHANGED <<sessions, sessionWindows, panes, spaceOf>>
    BY <1>7 DEF DomainMovePane
  <2> HIDE DEF handoff, claimed
  <2>2. \A v \in WindowId : layout'[v] = IF v = src THEN layout[v] \ {p}
                                       ELSE IF v = dst THEN layout[v] \cup {p} ELSE layout[v]
    BY <1>2, <1>3, <2>1
  <2>3. LeavesAreOwned'
    BY <1>1, <1>2, <1>3, <1>5, <2>1, <2>2 DEF LeavesAreOwned
  <2>4. Windows' = Windows
    BY <1>2, <1>7, <2>2 DEF Windows
  <2>5. DomainTypeOK'
    BY <1>1, <1>2, <1>3, <2>1 DEF DomainTypeOK, ids
  <2>6. WindowsAreListed' /\ LiveIdsIssued'
    BY <1>1, <1>2, <2>1, <2>4 DEF WindowsAreListed, DomainInv, LiveIdsIssued, ids
  <2> QED BY <2>3, <2>5, <2>6 DEF DomainInv, ExclusiveOwnership
<1> QED BY <1>6, <1>7

LEMMA OpenWindowWithPaneKeeps ==
    ASSUME DomainInv, NEW s \in SessionId, NEW p \in PaneId,
           NEW ctl \in [PaneId -> ClientId \cup {None}],
           DomainOpenWindowWithPane(s, p, ctl)
    PROVE  DomainInv'
<1> USE NoneIsNoId
<1> DEFINE src == owner[p]
           w == nextWindow
           placed == [layout EXCEPT ![w] = {p}]
           claimed == [owner EXCEPT ![p] = w]
           listed == [sessionWindows EXCEPT ![s] = @ \cup {w}]
<1>1. DomainTypeOK /\ LeavesAreOwned /\ WindowsAreListed
  BY DEF DomainInv, ExclusiveOwnership
<1>2. /\ s \in sessions /\ p \in panes /\ MintWindow
      /\ UNCHANGED <<nextSession, nextPane, nextClient>>
  BY DEF DomainOpenWindowWithPane
<1>3. /\ w \in WindowId /\ w \notin Windows /\ nextWindow' \in 0..MaxWindow
      /\ Issued(nextWindow', MaxWindow) = Issued(nextWindow, MaxWindow) \cup {w}
  BY <1>1, <1>2, MintedIds DEF DomainInv, LiveIdsIssued
<1>4. src \in WindowId /\ p \in layout[src] /\ src # w /\ layout[w] = {}
  <2>1. src \in WindowId
    BY <1>1, <1>2 DEF DomainTypeOK, LeavesAreOwned
  <2>2. p \in layout[src]
    BY <1>1, <2>1 DEF LeavesAreOwned
  <2>3. src \in Windows
    BY <2>1, <2>2 DEF Windows
  <2> QED BY <1>3, <2>1, <2>2, <2>3 DEF Windows
<1>5. /\ \A v \in WindowId : placed[v] = IF v = w THEN {p} ELSE layout[v]
      /\ \A q \in PaneId : claimed[q] = IF q = p THEN w ELSE owner[q]
      /\ \A t \in SessionId, v \in WindowId :
            v \in listed[t] <=> v \in sessionWindows[t] \/ (t = s /\ v = w)
      /\ placed \in [WindowId -> SUBSET PaneId]
      /\ claimed \in [PaneId -> WindowId \cup {None}]
      /\ listed \in [SessionId -> SUBSET WindowId]
  BY <1>1, <1>3 DEF DomainTypeOK
<1>6. {v \in WindowId : placed[v] # {}} = Windows \cup {w}
  BY <1>3, <1>5 DEF Windows
<1>7. /\ DomainTypeOK
      /\ \A t \in SessionId, v \in WindowId : v \in sessionWindows[t] => v \in Windows
      /\ \A t \in SessionId : sessionWindows[t] \subseteq WindowId
      /\ sessions \subseteq SessionId
  BY <1>1 DEF DomainTypeOK, WindowsAreListed
(* The sessions list the windows, the new one included, each once. *)
<1>8. /\ \A t \in SessionId : listed[t] \subseteq Windows \cup {w}
      /\ \A t \in SessionId \ sessions : listed[t] = {}
      /\ \A v \in Windows \cup {w} : \E t \in sessions : v \in listed[t]
      /\ \A t, u \in SessionId : t # u => listed[t] \cap listed[u] = {}
  <2> HIDE DEF placed, claimed, listed, w, src
  <2>0. \A t \in SessionId : listed[t] \subseteq WindowId
    BY <1>5
  <2>1. \A t \in SessionId : listed[t] \subseteq Windows \cup {w}
    BY <1>5, <1>7, <2>0
  <2>2. \A t \in SessionId \ sessions : listed[t] = {}
    BY <1>1, <1>2, <1>5, <2>0 DEF WindowsAreListed
  <2>3. ASSUME NEW v \in Windows \cup {w} PROVE \E t \in sessions : v \in listed[t]
    <3>1. CASE v = w
      BY <1>2, <1>3, <1>5, <1>7, <3>1
    <3>2. CASE v \in Windows
      <4>1. PICK t \in sessions : v \in sessionWindows[t]
        BY <1>1, <3>2 DEF WindowsAreListed
      <4> QED BY <1>5, <1>7, <4>1
    <3> QED BY <3>1, <3>2
  <2>4. ASSUME NEW t \in SessionId, NEW u \in SessionId, t # u,
               NEW v \in listed[t], v \in listed[u]
        PROVE  FALSE
    <3>1. CASE v = w
      <4>1. \A z \in SessionId : w \notin sessionWindows[z]
        BY <1>3, <1>7
      <4> QED BY <1>3, <1>5, <2>4, <3>1, <4>1
    <3>2. CASE v # w
      <4>1. v \in sessionWindows[t] /\ v \in sessionWindows[u]
        BY <1>5, <2>0, <2>4, <3>2
      <4> QED BY <1>1, <2>4, <4>1 DEF WindowsAreListed
    <3> QED BY <3>1, <3>2
  <2> QED BY <2>1, <2>2, <2>3, <2>4
<1>9. CASE layout[src] = {p}
  <2>1. DropWindow(src, listed, placed, claimed, panes, ctl)
    BY <1>9 DEF DomainOpenWindowWithPane
  <2> HIDE DEF placed, claimed, listed, w, src
  <2>2. Tree(src, listed, placed, claimed, panes)
    <3>1. /\ \A v \in WindowId \ {src}, q \in PaneId : q \in placed[v] <=> claimed[q] = v
          /\ \A q \in placed[src] : claimed[q] # None
          /\ \A q \in PaneId : claimed[q] = src => q \in placed[src]
          /\ \A q \in PaneId : q \in panes <=> claimed[q] # None
      BY <1>1, <1>2, <1>3, <1>4, <1>5, <1>9 DEF LeavesAreOwned, src
    <3>2. \A v \in WindowId : placed[v] # {} <=> v \in Windows \cup {w}
      BY <1>6
    <3>3. \A t \in SessionId : \A v \in listed[t] : placed[v] # {}
      BY <1>5, <1>8, <3>2
    <3>4. panes \subseteq PaneId
      BY <1>1 DEF DomainTypeOK
    <3> QED BY <1>5, <1>8, <3>1, <3>2, <3>3, <3>4 DEF Tree
  <2>3. /\ sessions' \subseteq sessions
        /\ sessionWindows' \in [SessionId -> SUBSET WindowId]
        /\ spaceOf' \in [SessionId -> Spaces \cup {NoSpace}]
        /\ layout' \in [WindowId -> SUBSET PaneId]
        /\ panes' \subseteq panes
        /\ owner' \in [PaneId -> WindowId \cup {None}]
        /\ controller' \in [PaneId -> ClientId \cup {None}]
        /\ Windows' = {v \in WindowId : placed[v] # {}} \ {src}
        /\ ExclusiveOwnership'
    BY <2>1, <2>2, <1>1, <1>4, DropWindowKeepsTree
  <2>4. Windows' \subseteq Windows \cup {w}
    BY <2>3, <1>6
  <2> QED
    BY <2>3, <2>4, <1>1, <1>2, <1>3 DEF DomainInv, DomainTypeOK, LiveIdsIssued
<1>10. CASE layout[src] # {p}
  <2>1. /\ layout' = [placed EXCEPT ![src] = @ \ {p}]
        /\ owner' = claimed
        /\ sessionWindows' = listed
        /\ controller' = ctl
        /\ UNCHANGED <<sessions, panes, spaceOf>>
    BY <1>10 DEF DomainOpenWindowWithPane
  <2> HIDE DEF placed, claimed, listed, w
  <2>2. \A v \in WindowId : layout'[v] = IF v = src THEN layout[v] \ {p}
                                       ELSE IF v = w THEN {p} ELSE layout[v]
    BY <1>4, <1>5, <2>1
  <2>3. LeavesAreOwned'
    BY <1>1, <1>2, <1>3, <1>4, <1>5, <2>1, <2>2 DEF LeavesAreOwned
  <2>4. Windows' = Windows \cup {w}
    BY <1>3, <1>4, <1>10, <2>2 DEF Windows
  <2>5. DomainTypeOK'
    BY <1>1, <1>2, <1>3, <1>4, <1>5, <2>1 DEF DomainTypeOK
  <2>6. WindowsAreListed'
    BY <1>8, <2>1, <2>4 DEF WindowsAreListed
  <2>7. LiveIdsIssued'
    BY <1>2, <1>3, <2>1, <2>4 DEF DomainInv, LiveIdsIssued
  <2> QED BY <2>3, <2>5, <2>6, <2>7 DEF DomainInv, ExclusiveOwnership
<1> QED BY <1>9, <1>10

(* Leases and Spaces leave the tree alone. *)
LEMMA ControllerKeeps ==
    ASSUME DomainInv, controller' \in [PaneId -> ClientId \cup {None}],
           UNCHANGED <<ids, topology, spaceOf>>
    PROVE  DomainInv'
BY DEF DomainInv, DomainTypeOK, ExclusiveOwnership, LeavesAreOwned, WindowsAreListed,
       LiveIdsIssued, Windows, ids, topology

LEMMA TransferSessionsKeeps ==
    ASSUME DomainInv, NEW S \in SUBSET SessionId,
           NEW from \in Spaces \cup {NoSpace}, NEW to \in Spaces \cup {NoSpace},
           DomainTransferSessions(S, from, to),
           controller' \in [PaneId -> ClientId \cup {None}], UNCHANGED <<ids, topology>>
    PROVE  DomainInv'
BY DEF DomainTransferSessions, DomainInv, DomainTypeOK, ExclusiveOwnership, LeavesAreOwned,
       WindowsAreListed, LiveIdsIssued, Windows, ids, topology
-----------------------------------------------------------------------------
(* What the operators do to the windows and panes that are alive, for the   *)
(* tables kept beside the domain.                                           *)

(* A leaf of an owned window is freed with it. *)
LEMMA OwnedLeavesFreed ==
    ASSUME DomainInv, NEW w \in WindowId
    PROVE  Freed(w, layout, owner) = layout[w]
BY DEF DomainInv, DomainTypeOK, ExclusiveOwnership, LeavesAreOwned, Freed

(* A window with a fresh leaf joins what is alive. *)
LEMMA AddWindowEffect ==
    ASSUME DomainInv, NEW s, NEW w \in WindowId, NEW p, AddWindow(s, w, p)
    PROVE  Windows' = Windows \cup {w} /\ panes' = panes \cup {p}
BY DEF DomainInv, DomainTypeOK, AddWindow, Windows

LEMMA CreateWindowEffect ==
    ASSUME DomainInv, NEW s, DomainCreateWindow(s)
    PROVE  Windows' = Windows \cup {nextWindow} /\ panes' = panes \cup {nextPane}
<1>1. nextWindow \in WindowId
  BY MintedIds DEF DomainCreateWindow, DomainInv
<1> QED BY <1>1, AddWindowEffect DEF DomainCreateWindow

LEMMA CreateSessionEffect ==
    ASSUME DomainInv, DomainCreateSessionWithWindow
    PROVE  Windows' = Windows \cup {nextWindow} /\ panes' = panes \cup {nextPane}
<1>1. nextWindow \in WindowId
  BY MintedIds DEF DomainCreateSessionWithWindow, DomainInv
<1> QED BY <1>1, AddWindowEffect DEF DomainCreateSessionWithWindow

LEMMA DestroyWindowEffect ==
    ASSUME DomainInv, NEW w \in WindowId, DomainDestroyWindow(w)
    PROVE  Windows' = Windows \ {w} /\ panes' = panes \ layout[w]
<1>1. layout \in [WindowId -> SUBSET PaneId]
  BY DEF DomainInv, DomainTypeOK
<1>2. layout' = [layout EXCEPT ![w] = {}] /\ panes' = panes \ Freed(w, layout, owner)
  BY DEF DomainDestroyWindow, DropWindow
<1> QED BY <1>1, <1>2, OwnedLeavesFreed DEF Windows

LEMMA DestroySessionEffect ==
    ASSUME DomainInv, NEW s \in SessionId, DomainDestroySession(s)
    PROVE  /\ Windows' = Windows \ sessionWindows[s]
           /\ panes' = panes \ UNION {layout[w] : w \in sessionWindows[s]}
<1>1. sessionWindows[s] \subseteq WindowId
  BY DEF DomainInv, DomainTypeOK
<1>2. \A w \in sessionWindows[s] : Freed(w, layout, owner) = layout[w]
  BY <1>1, OwnedLeavesFreed
<1>3. UNION {Freed(w, layout, owner) : w \in sessionWindows[s]}
        = UNION {layout[w] : w \in sessionWindows[s]}
  BY <1>2
<1>4. /\ layout' = [w \in WindowId |-> IF w \in sessionWindows[s] THEN {} ELSE layout[w]]
      /\ panes' = panes \ UNION {Freed(w, layout, owner) : w \in sessionWindows[s]}
  BY DEF DomainDestroySession
<1> QED BY <1>3, <1>4 DEF Windows

LEMMA SplitPaneEffect ==
    ASSUME DomainInv, NEW w \in WindowId, NEW p \in PaneId, DomainSplitPane(w, p)
    PROVE  Windows' = Windows /\ panes' = panes \cup {nextPane}
BY DEF DomainInv, DomainTypeOK, DomainSplitPane, Windows

LEMMA ClosePaneEffect ==
    ASSUME DomainInv, NEW w \in WindowId, NEW p \in PaneId, DomainClosePane(w, p)
    PROVE  Windows' = Windows /\ panes' = panes \ {p}
BY DEF DomainInv, DomainTypeOK, DomainClosePane, Windows

(* A move frees no pane, and takes its source window away if it emptied it. *)
LEMMA MovePaneEffect ==
    ASSUME DomainInv,
           NEW src \in WindowId, NEW dst \in WindowId, NEW p \in PaneId, NEW ctl,
           DomainMovePane(src, dst, p, ctl)
    PROVE  /\ Windows' = Windows \ (IF layout'[src] = {} THEN {src} ELSE {})
           /\ panes' = panes
<1> DEFINE handoff == [layout EXCEPT ![dst] = @ \cup {p}]
           claimed == [owner EXCEPT ![p] = dst]
<1>1. layout \in [WindowId -> SUBSET PaneId] /\ owner \in [PaneId -> WindowId \cup {None}]
  BY DEF DomainInv, DomainTypeOK
<1>2. src # dst /\ p \in layout[src] /\ dst \in Windows
  BY DEF DomainMovePane
<1>3. /\ \A v \in WindowId : handoff[v] = IF v = dst THEN layout[v] \cup {p} ELSE layout[v]
      /\ claimed[p] = dst
      /\ DOMAIN handoff = WindowId
  BY <1>1
<1> HIDE DEF handoff, claimed
<1>4. CASE layout[src] = {p}
  <2>1. /\ layout' = [handoff EXCEPT ![src] = {}]
        /\ panes' = panes \ Freed(src, handoff, claimed)
    BY <1>4 DEF DomainMovePane, DropWindow, handoff, claimed
  <2>2. Freed(src, handoff, claimed) = {}
    <3>1. handoff[src] = {p}
      BY <1>2, <1>3, <1>4
    <3>2. dst \notin {None, src}
      BY <1>2, NoneIsNoId
    <3> QED BY <1>3, <3>1, <3>2 DEF Freed
  <2>3. \A v \in WindowId : layout'[v] = IF v = src THEN {} ELSE handoff[v]
    BY <1>3, <2>1
  <2>4. Windows' = Windows \ {src}
    BY <1>2, <1>3, <2>3 DEF Windows
  <2> QED BY <2>1, <2>2, <2>3, <2>4
<1>5. CASE layout[src] # {p}
  <2>1. layout' = [handoff EXCEPT ![src] = @ \ {p}] /\ panes' = panes
    BY <1>5 DEF DomainMovePane, handoff
  <2>2. \A v \in WindowId : layout'[v] = IF v = src THEN layout[v] \ {p} ELSE handoff[v]
    BY <1>2, <1>3, <2>1
  <2>3. layout'[src] # {}
    BY <1>2, <1>5, <2>2
  <2>4. \A v \in WindowId : layout'[v] # {} <=> layout[v] # {}
    <3>1. layout[src] # {} /\ layout[dst] # {}
      BY <1>2 DEF Windows
    <3> QED BY <1>3, <2>2, <2>3, <3>1
  <2>5. Windows' = Windows
    BY <2>4 DEF Windows
  <2> QED BY <2>1, <2>3, <2>5
<1> QED BY <1>4, <1>5

(* The same for a move into a new window, which is there afterwards. *)
LEMMA OpenWindowEffect ==
    ASSUME DomainInv, NEW s \in SessionId, NEW p \in PaneId, NEW ctl,
           DomainOpenWindowWithPane(s, p, ctl)
    PROVE  /\ Windows' = (Windows \ (IF layout'[owner[p]] = {} THEN {owner[p]} ELSE {}))
                            \cup {nextWindow}
           /\ panes' = panes
<1> DEFINE src == owner[p]
           placed == [layout EXCEPT ![nextWindow] = {p}]
           claimed == [owner EXCEPT ![p] = nextWindow]
<1>1. layout \in [WindowId -> SUBSET PaneId] /\ owner \in [PaneId -> WindowId \cup {None}]
  BY DEF DomainInv, DomainTypeOK
<1>2. nextWindow \in WindowId /\ nextWindow \notin Windows /\ layout[nextWindow] = {}
  <2>1. nextWindow \in WindowId /\ nextWindow \notin Windows
    BY MintedIds DEF DomainOpenWindowWithPane, DomainInv, LiveIdsIssued
  <2> QED BY <2>1 DEF Windows
<1>3. src \in WindowId /\ p \in layout[src] /\ src # nextWindow
  BY <1>1, <1>2 DEF DomainOpenWindowWithPane, DomainInv, ExclusiveOwnership, LeavesAreOwned
<1>4. /\ \A v \in WindowId : placed[v] = IF v = nextWindow THEN {p} ELSE layout[v]
      /\ claimed[p] = nextWindow
      /\ DOMAIN placed = WindowId
  BY <1>1, <1>2
<1> HIDE DEF placed, claimed
<1>5. CASE layout[src] = {p}
  <2>1. /\ layout' = [placed EXCEPT ![src] = {}]
        /\ panes' = panes \ Freed(src, placed, claimed)
    BY <1>5 DEF DomainOpenWindowWithPane, DropWindow, placed, claimed
  <2>2. Freed(src, placed, claimed) = {}
    <3>1. placed[src] = {p}
      BY <1>3, <1>4, <1>5
    <3>2. nextWindow \notin {None, src}
      BY <1>2, <1>3, NoneIsNoId
    <3> QED BY <1>4, <3>1, <3>2 DEF Freed
  <2>3. \A v \in WindowId : layout'[v] = IF v = src THEN {} ELSE placed[v]
    BY <1>4, <2>1
  <2>4. Windows' = (Windows \ {src}) \cup {nextWindow}
    BY <1>2, <1>3, <1>4, <2>3 DEF Windows
  <2>5. layout'[src] = {}
    BY <1>3, <2>3
  <2> QED BY <2>1, <2>2, <2>4, <2>5
<1>6. CASE layout[src] # {p}
  <2>1. layout' = [placed EXCEPT ![src] = @ \ {p}] /\ panes' = panes
    BY <1>6 DEF DomainOpenWindowWithPane, placed
  <2>2. \A v \in WindowId : layout'[v] = IF v = src THEN layout[v] \ {p} ELSE placed[v]
    BY <1>3, <1>4, <2>1
  <2>3. layout'[src] # {}
    BY <1>3, <1>6, <2>2
  <2>4. \A v \in WindowId : layout'[v] # {} <=> (layout[v] # {} \/ v = nextWindow)
    <3>1. layout[src] # {} /\ placed[nextWindow] # {}
      BY <1>2, <1>3, <1>4
    <3> QED BY <1>3, <1>4, <2>2, <2>3, <3>1
  <2>5. Windows' = Windows \cup {nextWindow}
    BY <1>2, <2>4 DEF Windows
  <2> QED BY <2>1, <2>3, <2>5
<1> QED BY <1>5, <1>6

(* Rolling back create_window leaves every window, pane and owner as it was. *)
LEMMA CreateThenDestroyEffect ==
    ASSUME DomainInv, NEW s \in SessionId, DomainCreateThenDestroyWindow(s)
    PROVE  /\ UNCHANGED <<sessionWindows, layout, panes, owner>>
           /\ \A p \in PaneId : controller'[p] = IF p = nextPane THEN None ELSE controller[p]
           /\ controller' \in [PaneId -> {controller[p] : p \in PaneId} \cup {None}]
           /\ nextPane \in PaneId \ panes
<1> DEFINE w == nextWindow
           p == nextPane
           sw == [sessionWindows EXCEPT ![s] = @ \cup {w}]
           lay == [layout EXCEPT ![w] = {p}]
           own == [owner EXCEPT ![p] = w]
           freed == Freed(w, lay, own)
<1>1. /\ layout \in [WindowId -> SUBSET PaneId]
      /\ owner \in [PaneId -> WindowId \cup {None}]
      /\ sessionWindows \in [SessionId -> SUBSET WindowId]
  BY DEF DomainInv, DomainTypeOK
<1>2. /\ w \in WindowId /\ w \notin Windows /\ p \in PaneId /\ p \notin panes
  BY MintedIds DEF DomainCreateThenDestroyWindow, DomainInv, LiveIdsIssued
<1>3. layout[w] = {} /\ owner[p] = None /\ \A t \in SessionId : w \notin sessionWindows[t]
  BY <1>1, <1>2 DEF DomainInv, ExclusiveOwnership, LeavesAreOwned, WindowsAreListed, Windows
<1>4. freed = {p}
  BY <1>1, <1>2 DEF Freed
<1>5. /\ layout' = [lay EXCEPT ![w] = {}]
      /\ panes' = (panes \cup {p}) \ freed
      /\ owner' = [q \in PaneId |-> IF q \in freed THEN None ELSE own[q]]
      /\ controller' = [q \in PaneId |-> IF q \in freed THEN None ELSE controller[q]]
      /\ sessionWindows' = [t \in SessionId |-> sw[t] \ {w}]
  BY DEF DomainCreateThenDestroyWindow, DropWindow
<1> HIDE DEF freed
<1>6. layout' = layout
  BY <1>1, <1>2, <1>3, <1>5
<1>7. owner' = owner /\ panes' = panes
  BY <1>1, <1>2, <1>3, <1>4, <1>5
<1>8. sessionWindows' = sessionWindows
  <2>1. \A t \in SessionId : sw[t] \ {w} = sessionWindows[t]
    BY <1>1, <1>3
  <2> QED BY <1>1, <1>5, <2>1
<1> QED BY <1>2, <1>4, <1>5, <1>6, <1>7, <1>8

-----------------------------------------------------------------------------
(* The control plane. *)

(* The types of the tables beside the domain. *)
PlaneTypeOK ==
    /\ activeClients \subseteq ClientId
    /\ clientSpace \in [ClientId -> Spaces \cup {NoSpace}]
    /\ windowView \in [ClientId -> WindowId \cup {None}]
    /\ bounds \subseteq WindowId
    /\ spawned \subseteq PaneId
    /\ shutdownPending \in BOOLEAN

-----------------------------------------------------------------------------
(* A fresh client id. *)
LEMMA MintedClient ==
    ASSUME DomainTypeOK, MintClient
    PROVE  /\ nextClient \in ClientId
           /\ nextClient \notin Issued(nextClient, MaxClient)
           /\ nextClient' \in 0..MaxClient
           /\ Issued(nextClient', MaxClient) = Issued(nextClient, MaxClient) \cup {nextClient}
BY MintedIsFresh, IdAssumption DEF DomainTypeOK, MintClient, ClientId

LEMMA DomainUnchanged ==
    ASSUME DomainInv, UNCHANGED domainVars
    PROVE  DomainInv'
BY DEF domainVars, ids, topology, DomainInv, DomainTypeOK, ExclusiveOwnership,
       LeavesAreOwned, WindowsAreListed, LiveIdsIssued, Windows

(* Every request keeps the invariant of the domain. *)
LEMMA RequestKeepsDomain ==
    ASSUME DomainInv, [Next]_vars
    PROVE  DomainInv'
<1>1. controller \in [PaneId -> ClientId \cup {None}]
  BY DEF DomainInv, DomainTypeOK
<1>2. \A P \in SUBSET PaneId : Revoked(P) \in [PaneId -> ClientId \cup {None}]
  BY <1>1 DEF Revoked
<1>3. CASE RegisterClient
  <2>1. nextClient' \in 0..MaxClient
    BY <1>3, MintedClient DEF RegisterClient, DomainInv
  <2> QED
    BY <1>3, <2>1
    DEF RegisterClient, topology, DomainInv, DomainTypeOK, ExclusiveOwnership,
        LeavesAreOwned, WindowsAreListed, LiveIdsIssued, Windows
<1>4. CASE CreateSession
  BY <1>4, CreateSessionWithWindowKeeps DEF CreateSession
<1>5. CASE CreateHeadlessSession
  BY <1>5, CreateSessionKeeps DEF CreateHeadlessSession
<1>6. ASSUME NEW c \in ClientId, ClientRequest(c) PROVE DomainInv'
  <2>1. CASE DisconnectClient(c)
    <3>1. controller' \in [PaneId -> ClientId \cup {None}]
      BY <1>1, <2>1 DEF DisconnectClient, DomainReleaseAll
    <3> QED BY <2>1, <3>1, ControllerKeeps DEF DisconnectClient
  <2>2. CASE ShutdownIdle(c)
    BY <2>2, DomainUnchanged DEF ShutdownIdle
  <2>3. ASSUME NEW space \in Spaces, SetClientSpace(c, space) PROVE DomainInv'
    BY <2>3, DomainUnchanged DEF SetClientSpace
  <2>4. ASSUME NEW p \in PaneId, AcquireLease(c, p) \/ ReleaseLease(c, p) \/ TakeoverLease(c, p)
        PROVE  DomainInv'
    <3>1. controller' \in [PaneId -> ClientId \cup {None}]
      BY <1>1, <2>4 DEF AcquireLease, ReleaseLease, TakeoverLease,
                        DomainAcquire, DomainRelease, DomainTakeover
    <3>2. UNCHANGED <<ids, topology, spaceOf>>
      BY <2>4 DEF AcquireLease, ReleaseLease, TakeoverLease
    <3> QED BY <3>1, <3>2, ControllerKeeps
  <2>5. ASSUME NEW w \in WindowId, SwitchWindow(c, w) PROVE DomainInv'
    BY <2>5, DomainUnchanged DEF SwitchWindow
  <2> QED BY <1>6, <2>1, <2>2, <2>3, <2>4, <2>5 DEF ClientRequest
<1>7. ASSUME NEW s \in SessionId, SessionRequest(s) PROVE DomainInv'
  <2>1. CASE CreateWindow(s)
    BY <2>1, CreateWindowKeeps DEF CreateWindow
  <2>2. CASE DestroySession(s)
    BY <2>2, DestroySessionKeeps DEF DestroySession
  <2>3. ASSUME NEW p \in PaneId, TransferSpacePane(p, s) PROVE DomainInv'
    <3>1. Revoked({p}) \in [PaneId -> ClientId \cup {None}]
      BY <1>2
    <3>2. p \in panes /\ sessionWindows[s] \subseteq WindowId
      BY <2>3 DEF TransferSpacePane, DomainInv, DomainTypeOK
    <3>3. owner[p] \in WindowId
      BY <3>2 DEF DomainInv, DomainTypeOK, ExclusiveOwnership, LeavesAreOwned
    <3>4. ASSUME NEW dst \in sessionWindows[s], DomainMovePane(owner[p], dst, p, Revoked({p}))
          PROVE  DomainInv'
      BY <3>1, <3>2, <3>3, <3>4, MovePaneKeeps
    <3>5. CASE DomainOpenWindowWithPane(s, p, Revoked({p}))
      BY <3>1, <3>5, OpenWindowWithPaneKeeps
    <3> QED BY <2>3, <3>4, <3>5 DEF TransferSpacePane
  <2> QED BY <1>7, <2>1, <2>2, <2>3 DEF SessionRequest
<1>8. ASSUME NEW w \in WindowId, WindowRequest(w) PROVE DomainInv'
  <2>1. CASE DestroyWindow(w)
    BY <2>1, DestroyWindowKeeps DEF DestroyWindow
  <2>2. ASSUME NEW p \in PaneId, Split(w, p) PROVE DomainInv'
    BY <2>2, SplitPaneKeeps DEF Split
  <2>3. ASSUME NEW p \in PaneId, Close(w, p) PROVE DomainInv'
    BY <2>3, ClosePaneKeeps DEF Close
  <2>4. ASSUME NEW p \in PaneId, NEW dst \in WindowId, MovePane(w, dst, p) PROVE DomainInv'
    BY <1>1, <2>4, MovePaneKeeps DEF MovePane
  <2> QED BY <1>8, <2>1, <2>2, <2>3, <2>4 DEF WindowRequest
<1>9. ASSUME NEW S \in SUBSET SessionId,
             NEW from \in Spaces \cup {NoSpace}, NEW to \in Spaces \cup {NoSpace},
             TransferSpaceSessions(S, from, to)
      PROVE  DomainInv'
  <2>1. controller' \in [PaneId -> ClientId \cup {None}]
    BY <1>1, <1>9 DEF TransferSpaceSessions, Revoked
  <2> QED BY <1>9, <2>1, TransferSessionsKeeps DEF TransferSpaceSessions
<1>10. CASE Refusal
  <2>1. CASE CreateSessionFails
    BY <2>1, BurnKeeps DEF CreateSessionFails
  <2>2. ASSUME NEW s \in SessionId, CreateWindowFails(s) PROVE DomainInv'
    BY <2>2, BurnKeeps, CreateThenDestroyKeeps DEF CreateWindowFails
  <2>3. ASSUME NEW w \in WindowId, NEW p \in PaneId, SplitFails(w, p) PROVE DomainInv'
    BY <2>3, BurnKeeps DEF SplitFails
  <2> QED BY <1>10, <2>1, <2>2, <2>3 DEF Refusal
<1>11. CASE UNCHANGED vars
  BY <1>11, DomainUnchanged DEF vars
<1> QED
  BY <1>3, <1>4, <1>5, <1>6, <1>7, <1>8, <1>9, <1>10, <1>11 DEF Next

(* In every reachable state the sessions, windows, panes and leases of the  *)
(* domain have their types, and what is alive has been given an id.         *)
LEMMA DomainInvariant == Spec => []DomainInv
<1>1. Init => DomainInv
  BY InitDomain DEF Init
<1> QED BY <1>1, RequestKeepsDomain, PTL DEF Spec

-----------------------------------------------------------------------------
(* Every pane is a leaf of exactly one window and every window is listed by *)
(* exactly one session, after any sequence of requests and refusals.        *)
THEOREM OwnershipExclusive == Spec => []ExclusiveOwnership
<1>1. DomainInv => ExclusiveOwnership
  BY DEF DomainInv
<1> QED BY <1>1, DomainInvariant, PTL

(* The tables beside the domain keep their types. *)
LEMMA RequestKeepsPlaneTypes ==
    ASSUME DomainInv, PlaneTypeOK, [Next]_vars
    PROVE  PlaneTypeOK'
<1> USE DEF PlaneTypeOK, planeVars, ViewsWithout
<1>1. /\ DomainTypeOK
      /\ layout \in [WindowId -> SUBSET PaneId]
      /\ sessionWindows \in [SessionId -> SUBSET WindowId]
  BY DEF DomainInv, DomainTypeOK
<1>2. CASE RegisterClient
  BY <1>1, <1>2, MintedClient DEF RegisterClient
<1>3. CASE CreateSession
  <2>1. nextWindow \in WindowId /\ nextPane \in PaneId
    BY <1>1, <1>3, MintedIds DEF CreateSession, DomainCreateSessionWithWindow
  <2> QED BY <1>3, <2>1 DEF CreateSession
<1>4. CASE CreateHeadlessSession
  BY <1>4 DEF CreateHeadlessSession
<1>5. ASSUME NEW c \in ClientId, ClientRequest(c) PROVE PlaneTypeOK'
  BY <1>5
  DEF ClientRequest, DisconnectClient, ShutdownIdle, SetClientSpace, AcquireLease,
      ReleaseLease, TakeoverLease, SwitchWindow
<1>6. ASSUME NEW s \in SessionId, SessionRequest(s) PROVE PlaneTypeOK'
  <2>1. CASE CreateWindow(s)
    <3>1. nextWindow \in WindowId /\ nextPane \in PaneId
      BY <1>1, <2>1, MintedIds DEF CreateWindow, DomainCreateWindow
    <3> QED BY <2>1, <3>1 DEF CreateWindow
  <2>2. CASE DestroySession(s)
    BY <2>2 DEF DestroySession
  <2>3. ASSUME NEW p \in PaneId, TransferSpacePane(p, s) PROVE PlaneTypeOK'
    <3>1. DomainOpenWindowWithPane(s, p, Revoked({p})) => nextWindow \in WindowId
      BY <1>1, MintedIds DEF DomainOpenWindowWithPane
    <3>2. bounds' \subseteq WindowId
      BY <2>3, <3>1 DEF TransferSpacePane
    <3> QED BY <2>3, <3>2 DEF TransferSpacePane
  <2> QED BY <1>6, <2>1, <2>2, <2>3 DEF SessionRequest
<1>7. ASSUME NEW w \in WindowId, WindowRequest(w) PROVE PlaneTypeOK'
  <2>1. ASSUME NEW p \in PaneId, Split(w, p) PROVE PlaneTypeOK'
    <3>1. nextPane \in PaneId
      BY <1>1, <2>1, MintedIds DEF Split, DomainSplitPane
    <3> QED BY <2>1, <3>1 DEF Split
  <2>2. CASE DestroyWindow(w)
    BY <2>2 DEF DestroyWindow
  <2>3. ASSUME NEW p \in PaneId, Close(w, p) PROVE PlaneTypeOK'
    BY <2>3 DEF Close
  <2>4. ASSUME NEW p \in PaneId, NEW dst \in WindowId, MovePane(w, dst, p) PROVE PlaneTypeOK'
    BY <2>4 DEF MovePane
  <2> QED BY <1>7, <2>1, <2>2, <2>3, <2>4 DEF WindowRequest
<1>8. ASSUME NEW S \in SUBSET SessionId, NEW from, NEW to, TransferSpaceSessions(S, from, to)
      PROVE  PlaneTypeOK'
  BY <1>8 DEF TransferSpaceSessions
<1>9. CASE Refusal
  BY <1>9 DEF Refusal, CreateSessionFails, CreateWindowFails, SplitFails
<1>10. CASE UNCHANGED vars
  BY <1>10 DEF vars
<1> QED
  BY <1>2, <1>3, <1>4, <1>5, <1>6, <1>7, <1>8, <1>9, <1>10 DEF Next

(* The types of all tables hold in every reachable state. *)
THEOREM TypeCorrect == Spec => []TypeOK
<1>1. Init => PlaneTypeOK
  BY DEF Init, PlaneTypeOK
<1>2. DomainInv /\ PlaneTypeOK => TypeOK
  BY DEF DomainInv, PlaneTypeOK, TypeOK
<1> QED BY <1>1, <1>2, DomainInvariant, RequestKeepsPlaneTypes, PTL DEF Spec

-----------------------------------------------------------------------------
(* After an accepted ShutdownIdle no session exists or appears. *)
THEOREM ShutdownFinal == Spec => []IdleShutdownFinal
<1>1. Init => IdleShutdownFinal
  BY DEF Init, IdleShutdownFinal
<1>2. ASSUME IdleShutdownFinal, [Next]_vars
      PROVE  IdleShutdownFinal'
  <2>1. CASE UNCHANGED vars
    BY <1>2, <2>1 DEF vars, domainVars, topology, planeVars, IdleShutdownFinal
  <2>2. ASSUME NEW c \in ClientId, ShutdownIdle(c) PROVE IdleShutdownFinal'
    BY <2>2 DEF ShutdownIdle, domainVars, topology, IdleShutdownFinal
  <2>3. CASE Next /\ ~ \E c \in ClientId : ShutdownIdle(c)
    <3>1. Served /\ UNCHANGED shutdownPending
      BY <2>3
      DEF Next, ClientRequest, SessionRequest, WindowRequest, Refusal, planeVars,
          RegisterClient, CreateSession, CreateHeadlessSession, DisconnectClient,
          SetClientSpace, AcquireLease, ReleaseLease, TakeoverLease, SwitchWindow,
          CreateWindow, DestroySession, TransferSpacePane, DestroyWindow, Split, Close,
          MovePane, TransferSpaceSessions, CreateSessionFails, CreateWindowFails, SplitFails
    <3> QED BY <3>1 DEF Served, IdleShutdownFinal
  <2> QED BY <1>2, <2>1, <2>2, <2>3
<1> QED BY <1>1, <1>2, PTL DEF Spec

-----------------------------------------------------------------------------
(* The leases held after a step were held before on panes that stay, or     *)
(* were just taken on a live pane by a registered client.                   *)
LEMMA RequestKeepsLeases ==
    ASSUME DomainInv, LeaseHolderRegistered, [Next]_vars
    PROVE  LeaseHolderRegistered'
<1> USE NoneIsNoId DEF LeaseHolderRegistered
<1>1. controller \in [PaneId -> ClientId \cup {None}]
  BY DEF DomainInv, DomainTypeOK
(* A step that keeps the clients and takes no lease, and drops the leases   *)
(* of the panes it removes.                                                 *)
<1>2. ASSUME activeClients \subseteq activeClients',
             \A p \in PaneId : controller'[p] # None =>
                controller'[p] = controller[p] /\ (p \in panes => p \in panes')
      PROVE  LeaseHolderRegistered'
  BY <1>2
<1>3. ASSUME NEW w, NEW sw, NEW lay, NEW own, NEW live, NEW ctl,
             panes \subseteq live,
             \A p \in PaneId : ctl[p] # None => ctl[p] = controller[p],
             DropWindow(w, sw, lay, own, live, ctl)
      PROVE  \A p \in PaneId : controller'[p] # None =>
                controller'[p] = controller[p] /\ (p \in panes => p \in panes')
  BY <1>3 DEF DropWindow
<1>4. \A P : \A p \in PaneId : Revoked(P)[p] # None => Revoked(P)[p] = controller[p]
  BY DEF Revoked
<1>5. ASSUME NEW src, NEW dst, NEW p, NEW ctl,
             \A q \in PaneId : ctl[q] # None => ctl[q] = controller[q],
             DomainMovePane(src, dst, p, ctl)
      PROVE  \A q \in PaneId : controller'[q] # None =>
                controller'[q] = controller[q] /\ (q \in panes => q \in panes')
  <2>1. CASE layout[src] = {p}
    BY <1>3, <1>5, <2>1 DEF DomainMovePane
  <2>2. CASE layout[src] # {p}
    BY <1>5, <2>2 DEF DomainMovePane
  <2> QED BY <2>1, <2>2
<1>6. CASE RegisterClient
  BY <1>2, <1>6 DEF RegisterClient, topology
<1>7. CASE CreateSession
  BY <1>2, <1>7 DEF CreateSession, DomainCreateSessionWithWindow, AddWindow
<1>8. CASE CreateHeadlessSession
  BY <1>2, <1>8 DEF CreateHeadlessSession, DomainCreateSession, planeVars
<1>9. ASSUME NEW c \in ClientId, ClientRequest(c) PROVE LeaseHolderRegistered'
  <2>1. CASE DisconnectClient(c)
    BY <1>1, <2>1 DEF DisconnectClient, DomainReleaseAll, topology
  <2>2. CASE ShutdownIdle(c)
    BY <1>2, <2>2 DEF ShutdownIdle, domainVars, topology
  <2>3. ASSUME NEW space, SetClientSpace(c, space) PROVE LeaseHolderRegistered'
    BY <1>2, <2>3 DEF SetClientSpace, domainVars, topology
  <2>4. ASSUME NEW p \in PaneId, AcquireLease(c, p) PROVE LeaseHolderRegistered'
    BY <1>1, <2>4 DEF AcquireLease, DomainAcquire, topology, planeVars
  <2>5. ASSUME NEW p \in PaneId, ReleaseLease(c, p) PROVE LeaseHolderRegistered'
    BY <1>1, <2>5 DEF ReleaseLease, DomainRelease, topology, planeVars
  <2>6. ASSUME NEW p \in PaneId, TakeoverLease(c, p) PROVE LeaseHolderRegistered'
    BY <1>1, <2>6 DEF TakeoverLease, DomainTakeover, topology, planeVars
  <2>7. ASSUME NEW w, SwitchWindow(c, w) PROVE LeaseHolderRegistered'
    BY <1>2, <2>7 DEF SwitchWindow, domainVars, topology
  <2> QED BY <1>9, <2>1, <2>2, <2>3, <2>4, <2>5, <2>6, <2>7 DEF ClientRequest
<1>10. ASSUME NEW s \in SessionId, SessionRequest(s) PROVE LeaseHolderRegistered'
  <2>1. CASE CreateWindow(s)
    BY <1>2, <2>1 DEF CreateWindow, DomainCreateWindow, AddWindow
  <2>2. CASE DestroySession(s)
    BY <1>2, <2>2 DEF DestroySession, DomainDestroySession
  <2>3. ASSUME NEW p \in PaneId, TransferSpacePane(p, s) PROVE LeaseHolderRegistered'
    <3>1. UNCHANGED activeClients
      BY <2>3 DEF TransferSpacePane
    <3>2. ASSUME NEW dst, DomainMovePane(owner[p], dst, p, Revoked({p}))
          PROVE  LeaseHolderRegistered'
      BY <1>2, <1>4, <1>5, <3>1, <3>2
    <3>3. CASE DomainOpenWindowWithPane(s, p, Revoked({p}))
      <4>1. CASE layout[owner[p]] = {p}
        BY <1>2, <1>3, <1>4, <3>1, <3>3, <4>1 DEF DomainOpenWindowWithPane
      <4>2. CASE layout[owner[p]] # {p}
        BY <1>2, <1>4, <3>1, <3>3, <4>2 DEF DomainOpenWindowWithPane
      <4> QED BY <4>1, <4>2
    <3> QED BY <2>3, <3>2, <3>3 DEF TransferSpacePane
  <2> QED BY <1>10, <2>1, <2>2, <2>3 DEF SessionRequest
<1>11. ASSUME NEW w \in WindowId, WindowRequest(w) PROVE LeaseHolderRegistered'
  <2>1. CASE DestroyWindow(w)
    BY <1>2, <1>3, <2>1 DEF DestroyWindow, DomainDestroyWindow
  <2>2. ASSUME NEW p, Split(w, p) PROVE LeaseHolderRegistered'
    BY <1>2, <2>2 DEF Split, DomainSplitPane
  <2>3. ASSUME NEW p \in PaneId, Close(w, p) PROVE LeaseHolderRegistered'
    BY <1>1, <1>2, <2>3 DEF Close, DomainClosePane
  <2>4. ASSUME NEW p, NEW dst, MovePane(w, dst, p) PROVE LeaseHolderRegistered'
    BY <1>2, <1>5, <2>4 DEF MovePane
  <2> QED BY <1>11, <2>1, <2>2, <2>3, <2>4 DEF WindowRequest
<1>12. ASSUME NEW S, NEW from, NEW to, TransferSpaceSessions(S, from, to)
       PROVE  LeaseHolderRegistered'
  BY <1>2, <1>4, <1>12 DEF TransferSpaceSessions, topology, planeVars
<1>13. CASE Refusal
  <2>1. UNCHANGED activeClients
    BY <1>13 DEF Refusal, CreateSessionFails, CreateWindowFails, SplitFails, planeVars
  <2>2. ASSUME NEW a, NEW b, NEW c, DomainBurn(a, b, c) PROVE LeaseHolderRegistered'
    BY <2>1, <2>2 DEF DomainBurn, topology
  <2>3. ASSUME NEW s, DomainCreateThenDestroyWindow(s) PROVE LeaseHolderRegistered'
    BY <1>2, <1>3, <2>1, <2>3 DEF DomainCreateThenDestroyWindow
  <2> QED
    BY <1>13, <2>2, <2>3 DEF Refusal, CreateSessionFails, CreateWindowFails, SplitFails
<1>14. CASE UNCHANGED vars
  BY <1>14 DEF vars, domainVars, topology, planeVars
<1> QED
  BY <1>6, <1>7, <1>8, <1>9, <1>10, <1>11, <1>12, <1>13, <1>14 DEF Next

(* No lease outlives its client or its pane. *)
THEOREM LeasesRegistered == Spec => []LeaseHolderRegistered
<1>1. Init => LeaseHolderRegistered
  BY DEF Init, DomainInit, LeaseHolderRegistered
<1> QED BY <1>1, DomainInvariant, RequestKeepsLeases, PTL DEF Spec
-----------------------------------------------------------------------------
(* A client never views a window that went away with the step, if the views *)
(* of the windows W that went away are dropped.                             *)
LEMMA ViewsFollow ==
    ASSUME NEW W,
           \A c \in ClientId : windowView[c] # None =>
                c \in activeClients /\ windowView[c] \in Windows,
           windowView' = ViewsWithout(W),
           Windows \ W \subseteq Windows',
           activeClients \subseteq activeClients'
    PROVE  \A c \in ClientId : windowView'[c] # None =>
                c \in activeClients' /\ windowView'[c] \in Windows'
BY DEF ViewsWithout

LEMMA RequestKeepsTables ==
    ASSUME DomainInv, PlaneTypeOK, SideTablesTrackTopology, [Next]_vars
    PROVE  SideTablesTrackTopology'
<1>1. /\ bounds = Windows
      /\ spawned = panes
      /\ \A c \in ClientId : windowView[c] # None =>
            c \in activeClients /\ windowView[c] \in Windows
      /\ windowView \in [ClientId -> WindowId \cup {None}]
  BY DEF SideTablesTrackTopology, PlaneTypeOK
<1> DEFINE Views == \A c \in ClientId : windowView'[c] # None =>
                        c \in activeClients' /\ windowView'[c] \in Windows'
(* A step that takes no window away and selects none. *)
<1>2. ASSUME Windows \subseteq Windows', UNCHANGED <<activeClients, windowView>>
      PROVE  Views
  BY <1>1, <1>2
(* A step that leaves the layout and the panes alone. *)
<1>3. ASSUME UNCHANGED <<layout, panes, bounds, spawned>>, Views
      PROVE  SideTablesTrackTopology'
  BY <1>1, <1>3 DEF SideTablesTrackTopology, Windows
<1>4. ASSUME UNCHANGED <<layout, panes, planeVars>>
      PROVE  SideTablesTrackTopology'
  BY <1>2, <1>3, <1>4 DEF planeVars, Windows
<1>5. CASE RegisterClient
  <2>1. Views
    BY <1>1, <1>5 DEF RegisterClient, topology, Windows
  <2> QED BY <1>3, <1>5, <2>1 DEF RegisterClient, topology
<1>6. CASE CreateSession
  <2>1. Windows' = Windows \cup {nextWindow} /\ panes' = panes \cup {nextPane}
    BY <1>6, CreateSessionEffect DEF CreateSession
  <2>2. Views
    BY <1>2, <1>6, <2>1 DEF CreateSession
  <2> QED BY <1>1, <1>6, <2>1, <2>2 DEF CreateSession, SideTablesTrackTopology
<1>7. CASE CreateHeadlessSession
  BY <1>4, <1>7 DEF CreateHeadlessSession, DomainCreateSession
<1>8. ASSUME NEW c \in ClientId, ClientRequest(c)
      PROVE  SideTablesTrackTopology'
  <2>1. CASE DisconnectClient(c)
    <3>1. Views
      BY <1>1, <2>1 DEF DisconnectClient, topology, Windows
    <3> QED BY <1>3, <2>1, <3>1 DEF DisconnectClient, topology
  <2>2. ASSUME NEW w \in WindowId, SwitchWindow(c, w)
        PROVE  SideTablesTrackTopology'
    <3>1. UNCHANGED <<layout, panes, bounds, spawned, activeClients>>
      BY <2>2 DEF SwitchWindow, domainVars, topology
    <3>2. c \in activeClients /\ w \in Windows /\ windowView' = [windowView EXCEPT ![c] = w]
      BY <2>2 DEF SwitchWindow
    <3>3. Views
      BY <1>1, <3>1, <3>2 DEF Windows
    <3> QED BY <1>3, <3>1, <3>3
  <2>3. CASE ShutdownIdle(c)
    BY <1>2, <1>3, <2>3 DEF ShutdownIdle, domainVars, topology, Windows
  <2>4. ASSUME NEW space, SetClientSpace(c, space)
        PROVE  SideTablesTrackTopology'
    BY <1>2, <1>3, <2>4 DEF SetClientSpace, domainVars, topology, Windows
  <2>5. ASSUME NEW p, AcquireLease(c, p) \/ ReleaseLease(c, p) \/ TakeoverLease(c, p)
        PROVE  SideTablesTrackTopology'
    BY <1>4, <2>5 DEF AcquireLease, ReleaseLease, TakeoverLease, topology
  <2> QED BY <1>8, <2>1, <2>2, <2>3, <2>4, <2>5 DEF ClientRequest
<1>9. ASSUME NEW s \in SessionId, SessionRequest(s)
      PROVE  SideTablesTrackTopology'
  <2>1. CASE CreateWindow(s)
    <3>1. Windows' = Windows \cup {nextWindow} /\ panes' = panes \cup {nextPane}
      BY <2>1, CreateWindowEffect DEF CreateWindow
    <3>2. Views
      BY <1>2, <2>1, <3>1 DEF CreateWindow
    <3> QED BY <1>1, <2>1, <3>1, <3>2 DEF CreateWindow, SideTablesTrackTopology
  <2>2. CASE DestroySession(s)
    <3>1. /\ Windows' = Windows \ sessionWindows[s]
          /\ panes' = panes \ UNION {layout[w] : w \in sessionWindows[s]}
      BY <2>2, DestroySessionEffect DEF DestroySession
    <3>2. /\ bounds' = bounds \ sessionWindows[s]
          /\ spawned' = spawned \ UNION {layout[w] : w \in sessionWindows[s]}
          /\ windowView' = ViewsWithout(sessionWindows[s])
          /\ activeClients' = activeClients
      BY <2>2 DEF DestroySession
    <3>3. Views
      BY <1>1, <3>1, <3>2, ViewsFollow
    <3> QED BY <1>1, <3>1, <3>2, <3>3 DEF SideTablesTrackTopology
  <2>3. ASSUME NEW p \in PaneId, TransferSpacePane(p, s)
        PROVE  SideTablesTrackTopology'
    <3> DEFINE src == owner[p]
    <3>1. /\ windowView' = ViewsWithout(Gone(src))
          /\ UNCHANGED <<activeClients, spawned>>
          /\ p \in panes
      BY <2>3 DEF TransferSpacePane
    <3>2. src \in WindowId /\ sessionWindows[s] \subseteq WindowId
      BY <3>1 DEF DomainInv, DomainTypeOK, ExclusiveOwnership, LeavesAreOwned
    <3>3. ASSUME NEW dst \in sessionWindows[s], DomainMovePane(src, dst, p, Revoked({p})),
                 bounds' = bounds \ Gone(src)
          PROVE  SideTablesTrackTopology'
      <4>1. Windows' = Windows \ Gone(src) /\ panes' = panes
        BY <3>2, <3>3, MovePaneEffect DEF Gone
      <4>2. Views
        BY <1>1, <3>1, <4>1, ViewsFollow
      <4> QED BY <1>1, <3>1, <3>3, <4>1, <4>2 DEF SideTablesTrackTopology
    <3>4. ASSUME DomainOpenWindowWithPane(s, p, Revoked({p})),
                 bounds' = (bounds \ Gone(src)) \cup {nextWindow}
          PROVE  SideTablesTrackTopology'
      <4>1. Windows' = (Windows \ Gone(src)) \cup {nextWindow} /\ panes' = panes
        BY <3>4, OpenWindowEffect DEF Gone
      <4>2. Views
        BY <1>1, <3>1, <4>1, ViewsFollow
      <4> QED BY <1>1, <3>1, <3>4, <4>1, <4>2 DEF SideTablesTrackTopology
    <3> QED BY <2>3, <3>3, <3>4 DEF TransferSpacePane
  <2> QED BY <1>9, <2>1, <2>2, <2>3 DEF SessionRequest
<1>10. ASSUME NEW w \in WindowId, WindowRequest(w)
       PROVE  SideTablesTrackTopology'
  <2>1. CASE DestroyWindow(w)
    <3>1. Windows' = Windows \ {w} /\ panes' = panes \ layout[w]
      BY <2>1, DestroyWindowEffect DEF DestroyWindow
    <3>2. /\ bounds' = bounds \ {w}
          /\ spawned' = spawned \ layout[w]
          /\ windowView' = ViewsWithout({w})
          /\ activeClients' = activeClients
      BY <2>1 DEF DestroyWindow
    <3>3. Views
      BY <1>1, <3>1, <3>2, ViewsFollow
    <3> QED BY <1>1, <3>1, <3>2, <3>3 DEF SideTablesTrackTopology
  <2>2. ASSUME NEW p \in PaneId, Split(w, p)
        PROVE  SideTablesTrackTopology'
    <3>1. Windows' = Windows /\ panes' = panes \cup {nextPane}
      BY <2>2, SplitPaneEffect DEF Split
    <3>2. Views
      BY <1>2, <2>2, <3>1 DEF Split
    <3> QED BY <1>1, <2>2, <3>1, <3>2 DEF Split, SideTablesTrackTopology
  <2>3. ASSUME NEW p \in PaneId, Close(w, p)
        PROVE  SideTablesTrackTopology'
    <3>1. Windows' = Windows /\ panes' = panes \ {p}
      BY <2>3, ClosePaneEffect DEF Close
    <3>2. Views
      BY <1>2, <2>3, <3>1 DEF Close
    <3> QED BY <1>1, <2>3, <3>1, <3>2 DEF Close, SideTablesTrackTopology
  <2>4. ASSUME NEW p \in PaneId, NEW dst \in WindowId, MovePane(w, dst, p)
        PROVE  SideTablesTrackTopology'
    <3>1. Windows' = Windows \ Gone(w) /\ panes' = panes
      BY <2>4, MovePaneEffect DEF MovePane, Gone
    <3>2. /\ bounds' = bounds \ Gone(w)
          /\ windowView' = ViewsWithout(Gone(w))
          /\ UNCHANGED <<activeClients, spawned>>
      BY <2>4 DEF MovePane
    <3>3. Views
      BY <1>1, <3>1, <3>2, ViewsFollow
    <3> QED BY <1>1, <3>1, <3>2, <3>3 DEF SideTablesTrackTopology
  <2> QED BY <1>10, <2>1, <2>2, <2>3, <2>4 DEF WindowRequest
<1>11. ASSUME NEW S, NEW from, NEW to, TransferSpaceSessions(S, from, to)
       PROVE  SideTablesTrackTopology'
  BY <1>4, <1>11 DEF TransferSpaceSessions, topology
<1>12. CASE Refusal
  <2>1. UNCHANGED planeVars
    BY <1>12 DEF Refusal, CreateSessionFails, CreateWindowFails, SplitFails
  <2>2. ASSUME NEW a, NEW b, NEW c, DomainBurn(a, b, c) PROVE SideTablesTrackTopology'
    BY <1>4, <2>1, <2>2 DEF DomainBurn, topology
  <2>3. ASSUME NEW s \in SessionId, DomainCreateThenDestroyWindow(s)
        PROVE  SideTablesTrackTopology'
    BY <1>4, <2>1, <2>3, CreateThenDestroyEffect
  <2> QED
    BY <1>12, <2>2, <2>3 DEF Refusal, CreateSessionFails, CreateWindowFails, SplitFails
<1>13. CASE UNCHANGED vars
  BY <1>4, <1>13 DEF vars, domainVars, topology
<1> QED
  BY <1>5, <1>6, <1>7, <1>8, <1>9, <1>10, <1>11, <1>12, <1>13 DEF Next

(* The bounds, spawn and view tables of the plane follow the domain through *)
(* every request, move and rollback.                                        *)
THEOREM TablesFollow == Spec => []SideTablesTrackTopology
<1>1. Init => SideTablesTrackTopology /\ PlaneTypeOK
  BY DEF Init, DomainInit, SideTablesTrackTopology, Windows, PlaneTypeOK
<1>2. DomainInv /\ SideTablesTrackTopology /\ PlaneTypeOK /\ [Next]_vars
        => SideTablesTrackTopology' /\ PlaneTypeOK'
  BY RequestKeepsTables, RequestKeepsPlaneTypes
<1> QED BY <1>1, <1>2, DomainInvariant, PTL DEF Spec
-----------------------------------------------------------------------------
(* How a step may change an id space and what is alive in it: either no id  *)
(* is minted and nothing new is alive, or only the minted id is new.        *)
SessionsMinted ==
    \/ UNCHANGED nextSession /\ sessions' \subseteq sessions
    \/ MintSession /\ sessions' \subseteq sessions \cup {nextSession}

WindowsMinted ==
    \/ UNCHANGED nextWindow /\ Windows' \subseteq Windows
    \/ MintWindow /\ Windows' \subseteq Windows \cup {nextWindow}

PanesMinted ==
    \/ UNCHANGED nextPane /\ panes' \subseteq panes
    \/ MintPane /\ panes' \subseteq panes \cup {nextPane}

ClientsMinted ==
    \/ UNCHANGED nextClient /\ activeClients' \subseteq activeClients
    \/ MintClient /\ activeClients' \subseteq activeClients \cup {nextClient}

OnlyMintedAppear == SessionsMinted /\ WindowsMinted /\ PanesMinted /\ ClientsMinted

LEMMA MoveDropsSessions ==
    ASSUME NEW src, NEW dst, NEW p, NEW ctl, DomainMovePane(src, dst, p, ctl)
    PROVE  sessions' \subseteq sessions
<1>1. CASE layout[src] = {p}
  BY <1>1 DEF DomainMovePane, DropWindow
<1>2. CASE layout[src] # {p}
  BY <1>2 DEF DomainMovePane
<1> QED BY <1>1, <1>2

LEMMA OpenDropsSessions ==
    ASSUME NEW s, NEW p, NEW ctl, DomainOpenWindowWithPane(s, p, ctl)
    PROVE  sessions' \subseteq sessions
<1>1. CASE layout[owner[p]] = {p}
  BY <1>1 DEF DomainOpenWindowWithPane, DropWindow
<1>2. CASE layout[owner[p]] # {p}
  BY <1>2 DEF DomainOpenWindowWithPane
<1> QED BY <1>1, <1>2

LEMMA RequestMints ==
    ASSUME DomainInv, [Next]_vars
    PROVE  OnlyMintedAppear
<1> USE DEF OnlyMintedAppear, SessionsMinted, WindowsMinted, PanesMinted, ClientsMinted
<1>1. ASSUME UNCHANGED <<ids, sessions, layout, panes>>, activeClients' \subseteq activeClients
      PROVE  OnlyMintedAppear
  BY <1>1 DEF ids, Windows
<1>2. CASE RegisterClient
  BY <1>2 DEF RegisterClient, topology, Windows
<1>3. CASE CreateSession
  <2>1. Windows' = Windows \cup {nextWindow} /\ panes' = panes \cup {nextPane}
    BY <1>3, CreateSessionEffect DEF CreateSession
  <2> QED BY <1>3, <2>1 DEF CreateSession, DomainCreateSessionWithWindow
<1>4. CASE CreateHeadlessSession
  BY <1>4 DEF CreateHeadlessSession, DomainCreateSession, planeVars, Windows
<1>5. ASSUME NEW c \in ClientId, ClientRequest(c)
      PROVE  OnlyMintedAppear
  <2>1. UNCHANGED <<ids, sessions, layout, panes>> /\ activeClients' \subseteq activeClients
    BY <1>5 DEF ClientRequest, DisconnectClient, ShutdownIdle, SetClientSpace, AcquireLease,
                ReleaseLease, TakeoverLease, SwitchWindow, domainVars, topology, planeVars
  <2> QED BY <2>1, <1>1
<1>6. ASSUME NEW s \in SessionId, SessionRequest(s)
      PROVE  OnlyMintedAppear
  <2>1. CASE CreateWindow(s)
    <3>1. Windows' = Windows \cup {nextWindow} /\ panes' = panes \cup {nextPane}
      BY <2>1, CreateWindowEffect DEF CreateWindow
    <3> QED BY <2>1, <3>1 DEF CreateWindow, DomainCreateWindow
  <2>2. CASE DestroySession(s)
    <3>1. Windows' \subseteq Windows /\ panes' \subseteq panes
      BY <2>2, DestroySessionEffect DEF DestroySession
    <3> QED BY <2>2, <3>1 DEF DestroySession, DomainDestroySession, ids
  <2>3. ASSUME NEW p \in PaneId, TransferSpacePane(p, s)
        PROVE  OnlyMintedAppear
    <3>1. UNCHANGED activeClients /\ p \in panes
      BY <2>3 DEF TransferSpacePane
    <3>2. owner[p] \in WindowId /\ sessionWindows[s] \subseteq WindowId
      BY <3>1 DEF DomainInv, DomainTypeOK, ExclusiveOwnership, LeavesAreOwned
    <3>3. ASSUME NEW dst \in sessionWindows[s], DomainMovePane(owner[p], dst, p, Revoked({p}))
          PROVE  OnlyMintedAppear
      <4>1. Windows' \subseteq Windows /\ panes' = panes /\ sessions' \subseteq sessions
        BY <3>2, <3>3, MovePaneEffect, MoveDropsSessions
      <4>2. UNCHANGED ids
        BY <3>3 DEF DomainMovePane
      <4> QED BY <3>1, <4>1, <4>2 DEF ids
    <3>4. CASE DomainOpenWindowWithPane(s, p, Revoked({p}))
      <4>1. /\ Windows' \subseteq Windows \cup {nextWindow}
            /\ panes' = panes
            /\ sessions' \subseteq sessions
        BY <3>4, OpenWindowEffect, OpenDropsSessions
      <4>2. MintWindow /\ UNCHANGED <<nextSession, nextPane, nextClient>>
        BY <3>4 DEF DomainOpenWindowWithPane
      <4> QED BY <3>1, <4>1, <4>2
    <3> QED BY <2>3, <3>3, <3>4 DEF TransferSpacePane
  <2> QED BY <1>6, <2>1, <2>2, <2>3 DEF SessionRequest
<1>7. ASSUME NEW w \in WindowId, WindowRequest(w)
      PROVE  OnlyMintedAppear
  <2>1. CASE DestroyWindow(w)
    <3>1. Windows' \subseteq Windows /\ panes' \subseteq panes
      BY <2>1, DestroyWindowEffect DEF DestroyWindow
    <3> QED BY <2>1, <3>1 DEF DestroyWindow, DomainDestroyWindow, DropWindow, ids
  <2>2. ASSUME NEW p \in PaneId, Split(w, p) PROVE OnlyMintedAppear
    <3>1. Windows' = Windows /\ panes' = panes \cup {nextPane}
      BY <2>2, SplitPaneEffect DEF Split
    <3> QED BY <2>2, <3>1 DEF Split, DomainSplitPane
  <2>3. ASSUME NEW p \in PaneId, Close(w, p) PROVE OnlyMintedAppear
    <3>1. Windows' = Windows /\ panes' \subseteq panes
      BY <2>3, ClosePaneEffect DEF Close
    <3> QED BY <2>3, <3>1 DEF Close, DomainClosePane, ids
  <2>4. ASSUME NEW p \in PaneId, NEW dst \in WindowId, MovePane(w, dst, p)
        PROVE  OnlyMintedAppear
    <3>1. Windows' \subseteq Windows /\ panes' = panes /\ sessions' \subseteq sessions
      BY <2>4, MovePaneEffect, MoveDropsSessions DEF MovePane
    <3>2. UNCHANGED <<ids, activeClients>>
      BY <2>4 DEF MovePane, DomainMovePane
    <3> QED BY <3>1, <3>2 DEF ids
  <2> QED BY <1>7, <2>1, <2>2, <2>3, <2>4 DEF WindowRequest
<1>8. ASSUME NEW S, NEW from, NEW to, TransferSpaceSessions(S, from, to)
      PROVE  OnlyMintedAppear
  BY <1>1, <1>8 DEF TransferSpaceSessions, topology, planeVars
<1>9. CASE Refusal
  <2>1. UNCHANGED activeClients
    BY <1>9 DEF Refusal, CreateSessionFails, CreateWindowFails, SplitFails, planeVars
  <2>2. ASSUME NEW a, NEW b, NEW c, DomainBurn(a, b, c) PROVE OnlyMintedAppear
    <3>1. UNCHANGED <<sessions, layout, panes, nextClient>>
      BY <2>2 DEF DomainBurn, topology
    <3>2. /\ MintSession \/ UNCHANGED nextSession
          /\ MintWindow \/ UNCHANGED nextWindow
          /\ MintPane \/ UNCHANGED nextPane
      BY <2>2 DEF DomainBurn
    <3>3. Windows' = Windows
      BY <3>1 DEF Windows
    <3> QED BY <2>1, <3>1, <3>2, <3>3
  <2>3. ASSUME NEW s \in SessionId, DomainCreateThenDestroyWindow(s) PROVE OnlyMintedAppear
    <3>1. UNCHANGED <<layout, panes>>
      BY <2>3, CreateThenDestroyEffect
    <3>2. /\ MintPane /\ MintWindow /\ UNCHANGED <<nextSession, nextClient>>
          /\ sessions' \subseteq sessions
      BY <2>3 DEF DomainCreateThenDestroyWindow, DropWindow
    <3> QED BY <2>1, <3>1, <3>2 DEF Windows
  <2> QED
    BY <1>9, <2>2, <2>3 DEF Refusal, CreateSessionFails, CreateWindowFails, SplitFails
<1>10. CASE UNCHANGED vars
  BY <1>1, <1>10 DEF vars, domainVars, topology, planeVars
<1> QED BY <1>2, <1>3, <1>4, <1>5, <1>6, <1>7, <1>8, <1>9, <1>10 DEF Next

(* The step of IdsNeverReissued. *)
ReissuesNothing ==
    /\ \A s \in Issued(nextSession, MaxSession) :
          s \in Issued(nextSession', MaxSession) /\ (s \in sessions' => s \in sessions)
    /\ \A w \in Issued(nextWindow, MaxWindow) :
          w \in Issued(nextWindow', MaxWindow) /\ (w \in Windows' => w \in Windows)
    /\ \A p \in Issued(nextPane, MaxPane) :
          p \in Issued(nextPane', MaxPane) /\ (p \in panes' => p \in panes)
    /\ \A c \in Issued(nextClient, MaxClient) :
          /\ c \in Issued(nextClient', MaxClient)
          /\ c \in activeClients' => c \in activeClients

(* No sequence of requests and rollbacks brings an id to life again that    *)
(* was given out before, nor makes a counter give one out twice.            *)
THEOREM NothingReissued == Spec => IdsNeverReissued
<1>1. ASSUME DomainInv, [Next]_vars
      PROVE  [ReissuesNothing]_vars
  <2>1. OnlyMintedAppear
    BY <1>1, RequestMints
  <2>2. DomainTypeOK
    BY <1>1 DEF DomainInv
  <2>3. \A s \in Issued(nextSession, MaxSession) :
            s \in Issued(nextSession', MaxSession) /\ (s \in sessions' => s \in sessions)
    BY <2>1, <2>2, MintedIds DEF OnlyMintedAppear, SessionsMinted
  <2>4. \A w \in Issued(nextWindow, MaxWindow) :
            w \in Issued(nextWindow', MaxWindow) /\ (w \in Windows' => w \in Windows)
    BY <2>1, <2>2, MintedIds DEF OnlyMintedAppear, WindowsMinted
  <2>5. \A p \in Issued(nextPane, MaxPane) :
            p \in Issued(nextPane', MaxPane) /\ (p \in panes' => p \in panes)
    BY <2>1, <2>2, MintedIds DEF OnlyMintedAppear, PanesMinted
  <2>6. \A c \in Issued(nextClient, MaxClient) :
            /\ c \in Issued(nextClient', MaxClient)
            /\ c \in activeClients' => c \in activeClients
    BY <2>1, <2>2, MintedClient DEF OnlyMintedAppear, ClientsMinted
  <2> QED BY <2>3, <2>4, <2>5, <2>6 DEF ReissuesNothing
<1> QED
  BY <1>1, DomainInvariant, PTL DEF Spec, IdsNeverReissued, ReissuesNothing

-----------------------------------------------------------------------------
(* The step of RefusalIsAtomic. *)
RefusalLeavesAll ==
    Refusal => UNCHANGED <<sessionWindows, layout, panes, owner, controller, planeVars>>

(* A refused request leaves every pane, window, lease and table as it was:  *)
(* the pane minted in between cannot have been leased.                      *)
THEOREM RefusalsAreAtomic == Spec => RefusalIsAtomic
<1>1. ASSUME DomainInv, LeaseHolderRegistered, [Next]_vars
      PROVE  [RefusalLeavesAll]_vars
  <2>1. SUFFICES ASSUME Refusal
                 PROVE  UNCHANGED <<sessionWindows, layout, panes, owner, controller, planeVars>>
    BY DEF RefusalLeavesAll
  <2>2. UNCHANGED planeVars
    BY <2>1 DEF Refusal, CreateSessionFails, CreateWindowFails, SplitFails
  <2>3. ASSUME NEW a, NEW b, NEW c, DomainBurn(a, b, c)
        PROVE  UNCHANGED <<sessionWindows, layout, panes, owner, controller>>
    BY <2>3 DEF DomainBurn, topology
  <2>4. ASSUME NEW s \in SessionId, DomainCreateThenDestroyWindow(s)
        PROVE  UNCHANGED <<sessionWindows, layout, panes, owner, controller>>
    <3>1. /\ UNCHANGED <<sessionWindows, layout, panes, owner>>
          /\ \A p \in PaneId : controller'[p] = IF p = nextPane THEN None ELSE controller[p]
          /\ controller' \in [PaneId -> {controller[p] : p \in PaneId} \cup {None}]
          /\ nextPane \in PaneId \ panes
      BY <1>1, <2>4, CreateThenDestroyEffect
    <3>2. controller[nextPane] = None
      BY <1>1, <3>1 DEF LeaseHolderRegistered
    <3>3. controller \in [PaneId -> ClientId \cup {None}]
      BY <1>1 DEF DomainInv, DomainTypeOK
    <3>4. controller' = controller
      BY <3>1, <3>2, <3>3
    <3> QED BY <3>1, <3>4
  <2> QED
    BY <2>1, <2>2, <2>3, <2>4 DEF Refusal, CreateSessionFails, CreateWindowFails, SplitFails
<1> QED
  BY <1>1, DomainInvariant, LeasesRegistered, PTL DEF Spec, RefusalIsAtomic, RefusalLeavesAll

-----------------------------------------------------------------------------
(* The step of SpaceChangeRevokes. *)
ChangeRevokes ==
    \A s \in sessions \cap sessions' :
        spaceOf'[s] # spaceOf[s] => \A p \in PanesOf({s}) : controller'[p] = None

(* Whatever moves a session to another Space leaves none of its panes with  *)
(* a controller of the old one.                                             *)
THEOREM ChangesRevoke == Spec => SpaceChangeRevokes
<1>1. ASSUME DomainInv, [Next]_vars
      PROVE  [ChangeRevokes]_vars
  <2> USE DEF ChangeRevokes
  <2>1. sessions \subseteq SessionId /\ spaceOf \in [SessionId -> Spaces \cup {NoSpace}]
    BY <1>1 DEF DomainInv, DomainTypeOK
  (* A step after which the sessions that stay are in the same Spaces. *)
  <2>2. ASSUME \A s \in sessions \cap sessions' : spaceOf'[s] = spaceOf[s]
        PROVE  ChangeRevokes
    BY <2>2
  <2>3. ASSUME NEW w, NEW sw, NEW lay, NEW own, NEW live, NEW ctl,
               DropWindow(w, sw, lay, own, live, ctl)
        PROVE  ChangeRevokes
    BY <2>1, <2>2, <2>3 DEF DropWindow
  <2>4. ASSUME NEW S \in SUBSET SessionId, NEW from, NEW to, TransferSpaceSessions(S, from, to)
        PROVE  ChangeRevokes
    <3>1. /\ \A s \in SessionId : s \notin S => spaceOf'[s] = spaceOf[s]
          /\ controller' = Revoked(PanesOf(S))
      BY <2>1, <2>4 DEF TransferSpaceSessions, DomainTransferSessions
    <3>2. \A s \in S : PanesOf({s}) \subseteq PanesOf(S)
      BY DEF PanesOf
    <3>3. PanesOf(S) \subseteq PaneId
      BY <1>1 DEF PanesOf, DomainInv, DomainTypeOK
    <3>4. \A p \in PanesOf(S) : controller'[p] = None
      BY <3>1, <3>3 DEF Revoked
    <3>5. \A s \in sessions : spaceOf'[s] # spaceOf[s] => s \in S
      BY <2>1, <3>1
    <3> QED BY <3>2, <3>4, <3>5
  <2>5. ASSUME NEW src, NEW dst, NEW p, NEW ctl, DomainMovePane(src, dst, p, ctl)
        PROVE  ChangeRevokes
    <3>1. CASE layout[src] = {p}
      BY <2>3, <2>5, <3>1 DEF DomainMovePane
    <3>2. CASE layout[src] # {p}
      BY <2>2, <2>5, <3>2 DEF DomainMovePane
    <3> QED BY <3>1, <3>2
  <2>6. ASSUME NEW s, NEW p, NEW ctl, DomainOpenWindowWithPane(s, p, ctl)
        PROVE  ChangeRevokes
    <3>1. CASE layout[owner[p]] = {p}
      BY <2>3, <2>6, <3>1 DEF DomainOpenWindowWithPane
    <3>2. CASE layout[owner[p]] # {p}
      BY <2>2, <2>6, <3>2 DEF DomainOpenWindowWithPane
    <3> QED BY <3>1, <3>2
  <2>7. CASE RegisterClient \/ CreateSession \/ CreateHeadlessSession
    BY <2>2, <2>7 DEF RegisterClient, CreateSession, CreateHeadlessSession,
                      DomainCreateSessionWithWindow, DomainCreateSession
  <2>8. ASSUME NEW c \in ClientId, ClientRequest(c) PROVE ChangeRevokes
    <3>1. UNCHANGED spaceOf
      BY <2>8 DEF ClientRequest, DisconnectClient, ShutdownIdle, SetClientSpace, AcquireLease,
                  ReleaseLease, TakeoverLease, SwitchWindow, domainVars
    <3> QED BY <2>2, <3>1
  <2>9. ASSUME NEW s \in SessionId, SessionRequest(s) PROVE ChangeRevokes
    <3>1. CASE CreateWindow(s)
      BY <2>2, <3>1 DEF CreateWindow, DomainCreateWindow
    <3>2. CASE DestroySession(s)
      BY <2>1, <2>2, <3>2 DEF DestroySession, DomainDestroySession
    <3>3. ASSUME NEW p \in PaneId, TransferSpacePane(p, s) PROVE ChangeRevokes
      BY <2>5, <2>6, <3>3 DEF TransferSpacePane
    <3> QED BY <2>9, <3>1, <3>2, <3>3 DEF SessionRequest
  <2>10. ASSUME NEW w \in WindowId, WindowRequest(w) PROVE ChangeRevokes
    <3>1. CASE DestroyWindow(w)
      BY <2>3, <3>1 DEF DestroyWindow, DomainDestroyWindow
    <3>2. ASSUME NEW p, Split(w, p) \/ Close(w, p) PROVE ChangeRevokes
      BY <2>2, <3>2 DEF Split, DomainSplitPane, Close, DomainClosePane
    <3>3. ASSUME NEW p, NEW dst, MovePane(w, dst, p) PROVE ChangeRevokes
      BY <2>5, <3>3 DEF MovePane
    <3> QED BY <2>10, <3>1, <3>2, <3>3 DEF WindowRequest
  <2>11. CASE Refusal
    <3>1. ASSUME NEW a, NEW b, NEW c, DomainBurn(a, b, c) PROVE ChangeRevokes
      BY <2>2, <3>1 DEF DomainBurn
    <3>2. ASSUME NEW s, DomainCreateThenDestroyWindow(s) PROVE ChangeRevokes
      BY <2>3, <3>2 DEF DomainCreateThenDestroyWindow
    <3> QED
      BY <2>11, <3>1, <3>2 DEF Refusal, CreateSessionFails, CreateWindowFails, SplitFails
  <2>12. CASE UNCHANGED vars
    BY <2>12
  <2> QED BY <1>1, <2>4, <2>7, <2>8, <2>9, <2>10, <2>11, <2>12 DEF Next
<1> QED
  BY <1>1, DomainInvariant, PTL DEF Spec, SpaceChangeRevokes, ChangeRevokes
=============================================================================
