------------------------------ MODULE MuxDomain ------------------------------
(***************************************************************************)
(* The topology root of pmuxd (domain.rs): sessions own windows, a window  *)
(* owns the panes that are the leaves of its layout tree, a pane has at    *)
(* most one controller, and a session belongs to at most one Space.        *)
(*                                                                         *)
(* A layout tree is abstracted to its set of leaves.  The code never holds *)
(* an empty tree, so the empty set stands for "no such window".  Titles,   *)
(* split ratios and leaf order are left out.                               *)
(*                                                                         *)
(* This module holds the state and one operator per Domain method that     *)
(* changes it; ControlPlane gives the requests that call them.  Ids are    *)
(* u64 in the code; Max* is the largest id of each space.                  *)
(***************************************************************************)
EXTENDS Naturals, FiniteSets

CONSTANTS
    MaxSession, MaxWindow, MaxPane, MaxClient,  \* u64::MAX of each id space
    Spaces,                                     \* Space ids
    NoSpace                                     \* Option::None of `space_id`

ASSUME IdAssumption ==
    /\ MaxSession \in Nat \ {0}
    /\ MaxWindow \in Nat \ {0}
    /\ MaxPane \in Nat \ {0}
    /\ MaxClient \in Nat \ {0}

ASSUME SpaceAssumption == NoSpace \notin Spaces

SessionId == 1..MaxSession
WindowId == 1..MaxWindow
PaneId == 1..MaxPane
ClientId == 1..MaxClient

None == 0   \* Option::None for an id: raw ids start at 1

VARIABLES
    nextSession, nextWindow, nextPane, nextClient,  \* next id; 0 = exhausted
    sessions,        \* ids of the live sessions
    sessionWindows,  \* Session::windows
    spaceOf,         \* Session::space_id
    layout,          \* Window::layout, as its set of leaves
    panes,           \* ids of the live pane records
    owner,           \* pane_owner
    controller       \* Pane::controller

ids == <<nextSession, nextWindow, nextPane, nextClient>>
topology == <<sessions, sessionWindows, layout, panes, owner>>
domainVars == <<ids, topology, spaceOf, controller>>

DomainInit ==
    /\ nextSession = 1 /\ nextWindow = 1 /\ nextPane = 1 /\ nextClient = 1
    /\ sessions = {}
    /\ sessionWindows = [s \in SessionId |-> {}]
    /\ spaceOf = [s \in SessionId |-> NoSpace]
    /\ layout = [w \in WindowId |-> {}]
    /\ panes = {}
    /\ owner = [p \in PaneId |-> None]
    /\ controller = [p \in PaneId |-> None]

Windows == {w \in WindowId : layout[w] # {}}

SessionOf(w) == CHOOSE s \in sessions : w \in sessionWindows[s]
PaneSpace(p) == spaceOf[SessionOf(owner[p])]

-----------------------------------------------------------------------------
(* Id minting. *)

(* Mutated After: the counter wraps. *)
AfterWraps(next, max) == IF next = max THEN 1 ELSE next + 1

(* mint_raw: after the last id the counter is 0, and minting fails. *)
After(next, max) == IF next = max THEN 0 ELSE next + 1

(* The ids an id space has given out so far. *)
Issued(next, max) == IF next = 0 THEN 1..max ELSE 1..(next - 1)

MintPane == nextPane # 0 /\ nextPane' = After(nextPane, MaxPane)
MintWindow == nextWindow # 0 /\ nextWindow' = After(nextWindow, MaxWindow)
MintSession == nextSession # 0 /\ nextSession' = After(nextSession, MaxSession)
MintClient == nextClient # 0 /\ nextClient' = After(nextClient, MaxClient)

-----------------------------------------------------------------------------
(* Windows and panes. *)

(* Ids consumed by a mutation that was rolled back. *)
DomainBurn(session, window, pane) ==
    /\ IF session THEN MintSession ELSE UNCHANGED nextSession
    /\ IF window THEN MintWindow ELSE UNCHANGED nextWindow
    /\ IF pane THEN MintPane ELSE UNCHANGED nextPane
    /\ UNCHANGED <<nextClient, topology, spaceOf, controller>>

(* A window with one new leaf, at the end of session s. *)
AddWindow(s, w, p) ==
    /\ layout' = [layout EXCEPT ![w] = {p}]
    /\ panes' = panes \cup {p}
    /\ owner' = [owner EXCEPT ![p] = w]
    /\ sessionWindows' = [sessionWindows EXCEPT ![s] = @ \cup {w}]

(* create_window. *)
DomainCreateWindow(s) ==
    /\ s \in sessions
    /\ MintPane /\ MintWindow
    /\ AddWindow(s, nextWindow, nextPane)
    /\ UNCHANGED <<nextSession, nextClient, sessions, spaceOf, controller>>

(* create_session, with no window. *)
DomainCreateSession ==
    /\ MintSession
    /\ sessions' = sessions \cup {nextSession}
    /\ UNCHANGED <<nextWindow, nextPane, nextClient, sessionWindows, layout,
                   panes, owner, spaceOf, controller>>

(* create_session followed by create_window, as `bootstrap` and the         *)
(* CreateSession request do.                                                *)
DomainCreateSessionWithWindow ==
    /\ MintSession /\ MintPane /\ MintWindow
    /\ sessions' = sessions \cup {nextSession}
    /\ AddWindow(nextSession, nextWindow, nextPane)
    /\ UNCHANGED <<nextClient, spaceOf, controller>>

(* Mutated Freed: a leaf that was moved away is freed with its old window. *)
FreedAll(w, lay, own) == lay[w]

(* destroy_window_inner: the leaves of w whose record dies with it.  A leaf *)
(* another window has claimed is kept (the move_pane handoff).              *)
Freed(w, lay, own) == {p \in lay[w] : own[p] \in {None, w}}

(* destroy_window on the topology <<sw, lay, own, live>> and leases ctl.  A *)
(* session left without windows is dropped.                                 *)
DropWindow(w, sw, lay, own, live, ctl) ==
    LET freed == Freed(w, lay, own)
        emptied == {s \in sessions : sw[s] = {w}}
    IN  /\ layout' = [lay EXCEPT ![w] = {}]
        /\ panes' = live \ freed
        /\ owner' = [p \in PaneId |-> IF p \in freed THEN None ELSE own[p]]
        /\ controller' = [p \in PaneId |-> IF p \in freed THEN None ELSE ctl[p]]
        /\ sessions' = sessions \ emptied
        /\ sessionWindows' = [s \in SessionId |-> sw[s] \ {w}]
        /\ spaceOf' = [s \in SessionId |-> IF s \in emptied THEN NoSpace ELSE spaceOf[s]]

DomainDestroyWindow(w) ==
    /\ w \in Windows
    /\ DropWindow(w, sessionWindows, layout, owner, panes, controller)
    /\ UNCHANGED ids

(* create_window followed by destroy_window: the ids stay consumed. *)
DomainCreateThenDestroyWindow(s) ==
    /\ s \in sessions
    /\ MintPane /\ MintWindow
    /\ DropWindow(nextWindow,
                  [sessionWindows EXCEPT ![s] = @ \cup {nextWindow}],
                  [layout EXCEPT ![nextWindow] = {nextPane}],
                  [owner EXCEPT ![nextPane] = nextWindow],
                  panes \cup {nextPane},
                  controller)
    /\ UNCHANGED <<nextSession, nextClient>>

(* destroy_session: every window of s goes with its leaves. *)
DomainDestroySession(s) ==
    /\ s \in sessions
    /\ LET freed == UNION {Freed(w, layout, owner) : w \in sessionWindows[s]}
       IN  /\ layout' = [w \in WindowId |->
                            IF w \in sessionWindows[s] THEN {} ELSE layout[w]]
           /\ panes' = panes \ freed
           /\ owner' = [p \in PaneId |-> IF p \in freed THEN None ELSE owner[p]]
           /\ controller' = [p \in PaneId |-> IF p \in freed THEN None ELSE controller[p]]
    /\ sessions' = sessions \ {s}
    /\ sessionWindows' = [sessionWindows EXCEPT ![s] = {}]
    /\ spaceOf' = [spaceOf EXCEPT ![s] = NoSpace]
    /\ UNCHANGED ids

(* split_pane: a new leaf beside `target` in the same window. *)
DomainSplitPane(w, target) ==
    /\ target \in layout[w]
    /\ MintPane
    /\ layout' = [layout EXCEPT ![w] = @ \cup {nextPane}]
    /\ panes' = panes \cup {nextPane}
    /\ owner' = [owner EXCEPT ![nextPane] = w]
    /\ UNCHANGED <<nextSession, nextWindow, nextClient, sessions, sessionWindows,
                   spaceOf, controller>>

(* close_pane: refuses the last leaf of a window. *)
DomainClosePane(w, p) ==
    /\ p \in layout[w]
    /\ layout[w] # {p}
    /\ layout' = [layout EXCEPT ![w] = @ \ {p}]
    /\ panes' = panes \ {p}
    /\ owner' = [owner EXCEPT ![p] = None]
    /\ controller' = [controller EXCEPT ![p] = None]
    /\ UNCHANGED <<ids, sessions, sessionWindows, spaceOf>>

(* move_pane: the leaf changes window with its record.  The last leaf takes *)
(* its source window, and perhaps the session, with it.  ctl is what the    *)
(* caller leaves of the leases.                                             *)
DomainMovePane(src, dst, p, ctl) ==
    /\ src # dst
    /\ p \in layout[src]
    /\ dst \in Windows
    /\ LET handoff == [layout EXCEPT ![dst] = @ \cup {p}]
           claimed == [owner EXCEPT ![p] = dst]
       IN  IF layout[src] = {p}
           THEN DropWindow(src, sessionWindows, handoff, claimed, panes, ctl)
           ELSE /\ layout' = [handoff EXCEPT ![src] = @ \ {p}]
                /\ owner' = claimed
                /\ controller' = ctl
                /\ UNCHANGED <<sessions, sessionWindows, panes, spaceOf>>
    /\ UNCHANGED ids

(* open_window_with_pane: p leaves its window for a new window of s. *)
DomainOpenWindowWithPane(s, p, ctl) ==
    /\ s \in sessions
    /\ p \in panes
    /\ MintWindow
    /\ LET src == owner[p]
           w == nextWindow
           placed == [layout EXCEPT ![w] = {p}]
           claimed == [owner EXCEPT ![p] = w]
           listed == [sessionWindows EXCEPT ![s] = @ \cup {w}]
       IN  IF layout[src] = {p}
           THEN DropWindow(src, listed, placed, claimed, panes, ctl)
           ELSE /\ layout' = [placed EXCEPT ![src] = @ \ {p}]
                /\ owner' = claimed
                /\ sessionWindows' = listed
                /\ controller' = ctl
                /\ UNCHANGED <<sessions, panes, spaceOf>>
    /\ UNCHANGED <<nextSession, nextPane, nextClient>>

-----------------------------------------------------------------------------
(* Controller leases and Space ownership. *)

(* acquire_controller: free, or already ours. *)
DomainAcquire(p, c) ==
    /\ p \in panes
    /\ controller[p] \in {None, c}
    /\ controller' = [controller EXCEPT ![p] = c]

(* release_controller: only the holder. *)
DomainRelease(p, c) ==
    /\ p \in panes
    /\ controller[p] = c
    /\ controller' = [controller EXCEPT ![p] = None]

(* takeover_controller: replaces any holder. *)
DomainTakeover(p, c) ==
    /\ p \in panes
    /\ controller' = [controller EXCEPT ![p] = c]

(* Mutated DomainReleaseAll: the leases of a client outlive it. *)
DomainReleaseNone(c) == UNCHANGED controller

(* release_all_controller_leases. *)
DomainReleaseAll(c) ==
    controller' = [p \in PaneId |-> IF controller[p] = c THEN None ELSE controller[p]]

(* transfer_space_sessions: every owner is compared before any is changed. *)
DomainTransferSessions(S, from, to) ==
    /\ S \subseteq sessions
    /\ \A s \in S : spaceOf[s] = from
    /\ spaceOf' = [s \in SessionId |-> IF s \in S THEN to ELSE spaceOf[s]]

-----------------------------------------------------------------------------
DomainTypeOK ==
    /\ nextSession \in 0..MaxSession
    /\ nextWindow \in 0..MaxWindow
    /\ nextPane \in 0..MaxPane
    /\ nextClient \in 0..MaxClient
    /\ sessions \subseteq SessionId
    /\ sessionWindows \in [SessionId -> SUBSET WindowId]
    /\ spaceOf \in [SessionId -> Spaces \cup {NoSpace}]
    /\ layout \in [WindowId -> SUBSET PaneId]
    /\ panes \subseteq PaneId
    /\ owner \in [PaneId -> WindowId \cup {None}]
    /\ controller \in [PaneId -> ClientId \cup {None}]

(* A pane is a leaf of exactly the window that `pane_owner` names, a leaf   *)
(* has a pane record and a pane record is a leaf: the handoffs of move_pane *)
(* and open_window_with_pane neither free the moved leaf nor share it.      *)
LeavesAreOwned ==
    /\ \A w \in WindowId, p \in PaneId : p \in layout[w] <=> owner[p] = w
    /\ \A p \in PaneId : p \in panes <=> owner[p] # None

(* Every window is listed by exactly one session, and a session lists only  *)
(* windows that exist.                                                      *)
WindowsAreListed ==
    /\ \A s \in SessionId : sessionWindows[s] \subseteq Windows
    /\ \A s \in SessionId \ sessions : sessionWindows[s] = {}
    /\ \A w \in Windows : \E s \in sessions : w \in sessionWindows[s]
    /\ \A s, t \in SessionId : s # t => sessionWindows[s] \cap sessionWindows[t] = {}

(* The ownership tree of the domain, over any sequence of requests.         *)
ExclusiveOwnership == LeavesAreOwned /\ WindowsAreListed
=============================================================================
