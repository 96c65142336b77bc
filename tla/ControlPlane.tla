---------------------------- MODULE ControlPlane ----------------------------
(***************************************************************************)
(* The control plane of pmuxd (control.rs): the requests that change the   *)
(* topology, the controller leases, the Space bindings and the tables the  *)
(* plane keeps beside the domain.  A request runs under the plane mutex    *)
(* from its first check to its reply, so one request is one step; the      *)
(* order in which the requests of different connections are served is      *)
(* free.  A request refused before it changed anything is a stuttering     *)
(* step; a request refused after a change and its rollback is an action.   *)
(*                                                                         *)
(* Left out: the event ring (EventStream), mail, window sizes, pane input, *)
(* and client_views, which nothing reads.                                  *)
(***************************************************************************)
EXTENDS MuxDomain

VARIABLES
    activeClients,    \* registered clients
    clientSpace,      \* client_spaces: the Space a connection is bound to
    windowView,       \* client_window_views: the window a client selected
    bounds,           \* windows with an entry in `bounds`
    spawned,          \* panes with an entry in `spawn`
    shutdownPending   \* ShutdownIdle was accepted

planeVars == <<activeClients, clientSpace, windowView, bounds, spawned, shutdownPending>>
vars == <<domainVars, planeVars>>

Init ==
    /\ DomainInit
    /\ activeClients = {}
    /\ clientSpace = [c \in ClientId |-> NoSpace]
    /\ windowView = [c \in ClientId |-> None]
    /\ bounds = {}
    /\ spawned = {}
    /\ shutdownPending = FALSE

(* Mutated Served: requests are served after an accepted ShutdownIdle. *)
ServedAlways == TRUE

(* handle(): nothing is served once an idle shutdown was accepted. *)
Served == ~shutdownPending

(* require_client_space: a client bound to a Space reaches only its panes. *)
SpaceAllows(c, p) ==
    /\ p \in panes
    /\ clientSpace[c] \in {NoSpace, PaneSpace(p)}

(* client_window_views without the views of the windows W. *)
ViewsWithout(W) == [c \in ClientId |-> IF windowView[c] \in W THEN None ELSE windowView[c]]

-----------------------------------------------------------------------------
(* Clients and leases. *)

RegisterClient ==
    /\ Served
    /\ MintClient
    /\ activeClients' = activeClients \cup {nextClient}
    /\ UNCHANGED <<nextSession, nextWindow, nextPane, topology, spaceOf, controller,
                   clientSpace, windowView, bounds, spawned, shutdownPending>>

(* DisconnectClient, sent by the client or by its connection's thread. *)
DisconnectClient(c) ==
    /\ Served
    /\ c \in activeClients
    /\ DomainReleaseAll(c)
    /\ activeClients' = activeClients \ {c}
    /\ clientSpace' = [clientSpace EXCEPT ![c] = NoSpace]
    /\ windowView' = [windowView EXCEPT ![c] = None]
    /\ UNCHANGED <<ids, topology, spaceOf, bounds, spawned, shutdownPending>>

(* The binding of a connection to a Space is set once. *)
SetClientSpace(c, space) ==
    /\ Served
    /\ c \in activeClients
    /\ clientSpace[c] \in {NoSpace, space}
    /\ clientSpace' = [clientSpace EXCEPT ![c] = space]
    /\ UNCHANGED <<domainVars, activeClients, windowView, bounds, spawned, shutdownPending>>

AcquireLease(c, p) ==
    /\ Served
    /\ c \in activeClients
    /\ SpaceAllows(c, p)
    /\ DomainAcquire(p, c)
    /\ UNCHANGED <<ids, topology, spaceOf, planeVars>>

ReleaseLease(c, p) ==
    /\ Served
    /\ c \in activeClients
    /\ DomainRelease(p, c)
    /\ UNCHANGED <<ids, topology, spaceOf, planeVars>>

TakeoverLease(c, p) ==
    /\ Served
    /\ c \in activeClients
    /\ SpaceAllows(c, p)
    /\ DomainTakeover(p, c)
    /\ UNCHANGED <<ids, topology, spaceOf, planeVars>>

SwitchWindow(c, w) ==
    /\ Served
    /\ c \in activeClients
    /\ w \in Windows
    /\ windowView' = [windowView EXCEPT ![c] = w]
    /\ UNCHANGED <<domainVars, activeClients, clientSpace, bounds, spawned, shutdownPending>>

-----------------------------------------------------------------------------
(* Sessions and windows. *)

CreateSession ==
    /\ Served
    /\ DomainCreateSessionWithWindow
    /\ bounds' = bounds \cup {nextWindow}
    /\ spawned' = spawned \cup {nextPane}
    /\ UNCHANGED <<activeClients, clientSpace, windowView, shutdownPending>>

CreateHeadlessSession ==
    /\ Served
    /\ DomainCreateSession
    /\ UNCHANGED planeVars

(* The agent id is taken, an id space is exhausted, the bounds are invalid  *)
(* or the child cannot be spawned: the session is destroyed again.          *)
CreateSessionFails ==
    /\ Served
    /\ \/ DomainBurn(TRUE, FALSE, FALSE)
       \/ nextWindow = 0 /\ DomainBurn(TRUE, FALSE, TRUE)
       \/ DomainBurn(TRUE, TRUE, TRUE)
    /\ UNCHANGED planeVars

CreateWindow(s) ==
    /\ Served
    /\ DomainCreateWindow(s)
    /\ bounds' = bounds \cup {nextWindow}
    /\ spawned' = spawned \cup {nextPane}
    /\ UNCHANGED <<activeClients, clientSpace, windowView, shutdownPending>>

(* Mutated CreateWindowFails: the bounds of the destroyed window stay. *)
CreateWindowFailsKeepsBounds(s) ==
    /\ Served
    /\ DomainCreateThenDestroyWindow(s)
    /\ bounds' = bounds \cup {nextWindow}
    /\ UNCHANGED <<activeClients, clientSpace, windowView, spawned, shutdownPending>>

(* No window id is left, or the new window is destroyed again because its   *)
(* bounds are invalid or its child cannot be spawned.                       *)
CreateWindowFails(s) ==
    /\ Served
    /\ \/ s \in sessions /\ nextWindow = 0 /\ DomainBurn(FALSE, FALSE, TRUE)
       \/ DomainCreateThenDestroyWindow(s)
    /\ UNCHANGED planeVars

DestroyWindow(w) ==
    /\ Served
    /\ DomainDestroyWindow(w)
    /\ bounds' = bounds \ {w}
    /\ spawned' = spawned \ layout[w]
    /\ windowView' = ViewsWithout({w})
    /\ UNCHANGED <<activeClients, clientSpace, shutdownPending>>

DestroySession(s) ==
    /\ Served
    /\ DomainDestroySession(s)
    /\ bounds' = bounds \ sessionWindows[s]
    /\ spawned' = spawned \ UNION {layout[w] : w \in sessionWindows[s]}
    /\ windowView' = ViewsWithout(sessionWindows[s])
    /\ UNCHANGED <<activeClients, clientSpace, shutdownPending>>

-----------------------------------------------------------------------------
(* Panes.  Split, Close and MovePane check the lease of their client_id,    *)
(* which is optional: without it anybody may send them, and so here.        *)

Split(w, target) ==
    /\ Served
    /\ DomainSplitPane(w, target)
    /\ spawned' = spawned \cup {nextPane}
    /\ UNCHANGED <<activeClients, clientSpace, windowView, bounds, shutdownPending>>

(* Too small, or the child cannot be spawned: the new leaf is closed again. *)
SplitFails(w, target) ==
    /\ Served
    /\ target \in layout[w]
    /\ DomainBurn(FALSE, FALSE, TRUE)
    /\ UNCHANGED planeVars

Close(w, p) ==
    /\ Served
    /\ DomainClosePane(w, p)
    /\ spawned' = spawned \ {p}
    /\ UNCHANGED <<activeClients, clientSpace, windowView, bounds, shutdownPending>>

(* Mutated Gone: the source window of a move is always kept in the tables. *)
GoneNever(src) == {}

(* The source window, when the move took its last leaf. *)
Gone(src) == IF layout'[src] = {} THEN {src} ELSE {}

(* A failed geometry or live update restores the whole domain. *)
MovePane(src, dst, p) ==
    /\ Served
    /\ DomainMovePane(src, dst, p, controller)
    /\ bounds' = bounds \ Gone(src)
    /\ windowView' = ViewsWithout(Gone(src))
    /\ UNCHANGED <<activeClients, clientSpace, spawned, shutdownPending>>

-----------------------------------------------------------------------------
(* Space ownership. *)

(* revoke_space_controller on each pane of P. *)
Revoked(P) == [p \in PaneId |-> IF p \in P THEN None ELSE controller[p]]

(* The pane joins the first window of the session, or opens its first one. *)
TransferSpacePane(p, s) ==
    LET src == owner[p]
    IN  /\ Served
        /\ p \in panes
        /\ s \in sessions
        /\ {PaneSpace(p), spaceOf[s]} \subseteq Spaces
        /\ PaneSpace(p) # spaceOf[s]
        /\ \/ \E dst \in sessionWindows[s] :
                /\ DomainMovePane(src, dst, p, Revoked({p}))
                /\ bounds' = bounds \ Gone(src)
           \/ /\ sessionWindows[s] = {}
              /\ DomainOpenWindowWithPane(s, p, Revoked({p}))
              /\ bounds' = (bounds \ Gone(src)) \cup {nextWindow}
        /\ windowView' = ViewsWithout(Gone(src))
        /\ UNCHANGED <<activeClients, clientSpace, spawned, shutdownPending>>

PanesOf(S) == UNION {layout[w] : w \in UNION {sessionWindows[s] : s \in S}}

(* Mutated TransferSpaceSessions: the controllers of the old Space stay. *)
TransferSpaceSessionsOnly(S, from, to) ==
    /\ Served
    /\ DomainTransferSessions(S, from, to)
    /\ UNCHANGED <<ids, topology, controller, planeVars>>

(* An empty batch changes nothing. *)
TransferSpaceSessions(S, from, to) ==
    /\ Served
    /\ S # {}
    /\ DomainTransferSessions(S, from, to)
    /\ controller' = Revoked(PanesOf(S))
    /\ UNCHANGED <<ids, topology, planeVars>>

-----------------------------------------------------------------------------
(* ShutdownIdle is refused while any session is live. *)
ShutdownIdle(c) ==
    /\ Served
    /\ c \in activeClients
    /\ sessions = {}
    /\ shutdownPending' = TRUE
    /\ UNCHANGED <<domainVars, activeClients, clientSpace, windowView, bounds, spawned>>

(* The requests refused after a change and its rollback. *)
Refusal ==
    \/ CreateSessionFails
    \/ \E s \in SessionId : CreateWindowFails(s)
    \/ \E w \in WindowId, p \in PaneId : SplitFails(w, p)

ClientRequest(c) ==
    \/ DisconnectClient(c)
    \/ ShutdownIdle(c)
    \/ \E space \in Spaces : SetClientSpace(c, space)
    \/ \E p \in PaneId : AcquireLease(c, p) \/ ReleaseLease(c, p) \/ TakeoverLease(c, p)
    \/ \E w \in WindowId : SwitchWindow(c, w)

SessionRequest(s) ==
    \/ CreateWindow(s)
    \/ DestroySession(s)
    \/ \E p \in PaneId : TransferSpacePane(p, s)

WindowRequest(w) ==
    \/ DestroyWindow(w)
    \/ \E p \in PaneId :
        \/ Split(w, p)
        \/ Close(w, p)
        \/ \E dst \in WindowId : MovePane(w, dst, p)

Next ==
    \/ RegisterClient
    \/ CreateSession
    \/ CreateHeadlessSession
    \/ \E c \in ClientId : ClientRequest(c)
    \/ \E s \in SessionId : SessionRequest(s)
    \/ \E w \in WindowId : WindowRequest(w)
    \/ \E S \in SUBSET SessionId, from, to \in Spaces \cup {NoSpace} :
        TransferSpaceSessions(S, from, to)
    \/ Refusal

Spec == Init /\ [][Next]_vars

-----------------------------------------------------------------------------
(* Types of the tables of MuxDomain and ControlPlane. *)
TypeOK ==
    /\ DomainTypeOK
    /\ activeClients \subseteq ClientId
    /\ clientSpace \in [ClientId -> Spaces \cup {NoSpace}]
    /\ windowView \in [ClientId -> WindowId \cup {None}]
    /\ bounds \subseteq WindowId
    /\ spawned \subseteq PaneId
    /\ shutdownPending \in BOOLEAN

(* A lease is held only on a pane that exists and only by a registered      *)
(* client: DisconnectClient and the removal of panes leave none behind.     *)
LeaseHolderRegistered ==
    \A p \in PaneId : controller[p] # None => p \in panes /\ controller[p] \in activeClients

(* The tables the plane keeps beside the domain follow it: a window has     *)
(* bounds and a pane a spawn record exactly while it exists, and the window *)
(* a client views exists.                                                   *)
SideTablesTrackTopology ==
    /\ bounds = Windows
    /\ spawned = panes
    /\ \A c \in ClientId : windowView[c] # None =>
            c \in activeClients /\ windowView[c] \in Windows

(* "IDs are never reissued" (destroy_session): an id that comes alive was   *)
(* never given out before, and an id given out stays so, whatever mutations *)
(* were rolled back in between.                                             *)
IdsNeverReissued ==
    [][/\ \A s \in Issued(nextSession, MaxSession) :
            s \in Issued(nextSession', MaxSession) /\ (s \in sessions' => s \in sessions)
       /\ \A w \in Issued(nextWindow, MaxWindow) :
            w \in Issued(nextWindow', MaxWindow) /\ (w \in Windows' => w \in Windows)
       /\ \A p \in Issued(nextPane, MaxPane) :
            p \in Issued(nextPane', MaxPane) /\ (p \in panes' => p \in panes)
       /\ \A c \in Issued(nextClient, MaxClient) :
            /\ c \in Issued(nextClient', MaxClient)
            /\ c \in activeClients' => c \in activeClients]_vars

(* When a session changes Space, nobody keeps the control of its panes.     *)
SpaceChangeRevokes ==
    [][\A s \in sessions \cap sessions' :
          spaceOf'[s] # spaceOf[s] => \A p \in PanesOf({s}) : controller'[p] = None]_vars

(* docs/update-and-restart.md: the daemon checks that it is empty           *)
(* atomically and refuses later requests; no session can appear between the *)
(* accepted ShutdownIdle and the exit.                                      *)
IdleShutdownFinal == shutdownPending => sessions = {}

(* A request that is refused after it changed something leaves every pane,  *)
(* every window and every table of the plane as it was.                     *)
RefusalIsAtomic ==
    [][Refusal =>
          UNCHANGED <<sessionWindows, layout, panes, owner, controller, planeVars>>]_vars

(* docs/control-plane.md says CreateWindow registers its window atomically: *)
(* a refused one would leave the sessions as they were.  It does not for a  *)
(* headless session, whose rollback window was its only one.                *)
RefusalKeepsSessions == [][Refusal => UNCHANGED sessions]_vars
=============================================================================
