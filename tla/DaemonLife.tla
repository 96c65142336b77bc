----------------------------- MODULE DaemonLife -----------------------------
(***************************************************************************)
(* The life of one pmuxd instance: the daemon processes (pmuxd main,       *)
(* DaemonLock, ControlServer::bind and its Drop, ShutdownGate), the        *)
(* commands `pmux up`, `pmux stop` and the idle part of `pmux restart`,    *)
(* and the login supervisor.  They meet only in files: the lock, the       *)
(* socket, the pidfile and the marker of an intentional stop.              *)
(*                                                                         *)
(* A wait that polls may end by its deadline at any poll.  A daemon that   *)
(* answers may be too slow for a probe (IO_TIMEOUT).  A daemon killed      *)
(* leaves its socket and its pidfile; the kernel releases its lock.        *)
(* Left out: foreign sockets, errors of the file system, failures of a     *)
(* daemon between its bind and its end other than a kill, and what the     *)
(* daemon serves (ControlPlane); SIGTERM has its default action.  Exit is  *)
(* the drop of the lock with the end of the process behind it.             *)
(***************************************************************************)
EXTENDS Naturals, FiniteSets

CONSTANTS
    Daemons,     \* processes that may become daemons, by pid
    Callers,     \* processes that run one pmux command each
    Login,       \* the login supervisor
    None,
    Plays,       \* the commands they run: where each one begins
    MaxFaults    \* bound on failed startups and crashes

Start == {"start", "stopLook", "idleLook"}

ASSUME LifeAssumption ==
    /\ Login \notin Callers \cup Daemons
    /\ Callers \cap Daemons = {}
    /\ None \notin Daemons \cup Callers \cup {Login}
    /\ Plays \subseteq [Callers -> Start]
    /\ MaxFaults \in Nat

VARIABLES
    lock,        \* who holds the instance lock
    owner,       \* the pid written in the lock file
    socket,      \* the daemon whose listener is bound to the path
    pidfile,     \* the pid in the pidfile
    stopped,     \* the marker of an intentional stop exists
    phase,       \* how far each daemon has come
    gate,        \* ShutdownGate::flag of each daemon
    pending,     \* ControlPlane::shutdown_pending of each daemon
    pc,          \* where each command, and the supervisor, is
    child,       \* the daemon it spawned, asked or wants to signal
    observed,    \* observed_live of the supervisor
    faults

files == <<lock, owner, socket, pidfile, stopped>>
daemon == <<phase, gate, pending>>
caller == <<pc, child, observed>>
vars == <<files, daemon, caller, faults>>

Ended == {"exited", "dead"}
Answering == {"bound", "ready", "leaving"}
Alive(d) == phase[d] \notin Ended \cup {"unborn"}

(* probe_socket_liveness finds a live socket only if this holds, and may    *)
(* always miss it: a daemon that is slow looks stale.                       *)
Answers == socket # None /\ phase[socket] \in Answering

Processes == Callers \cup {Login}

Init ==
    /\ lock = None /\ owner = None /\ socket = None /\ pidfile = None
    /\ stopped = FALSE
    /\ phase = [d \in Daemons |-> "unborn"]
    /\ gate = [d \in Daemons |-> FALSE]
    /\ pending = [d \in Daemons |-> FALSE]
    /\ \E play \in Plays, login \in {"watch", "off"} :
          pc = [c \in Processes |-> IF c = Login THEN login ELSE play[c]]
    /\ child = [c \in Processes |-> None]
    /\ observed = FALSE
    /\ faults = 0

-----------------------------------------------------------------------------
(* The daemon. *)

Advance(d, from, to) ==
    /\ phase[d] = from
    /\ phase' = [phase EXCEPT ![d] = to]
    /\ UNCHANGED <<gate, pending, caller, faults>>

(* Mutated TakeLock: the socket alone decides. *)
TakeLockBySocket(d) ==
    /\ Advance(d, "spawned", "starting")
    /\ ~Answers
    /\ lock' = d
    /\ owner' = d
    /\ stopped' = FALSE
    /\ UNCHANGED <<socket, pidfile>>

(* DaemonLock::acquire; main then removes the marker of the last stop. *)
TakeLock(d) ==
    /\ Advance(d, "spawned", "starting")
    /\ lock = None
    /\ ~Answers
    /\ lock' = d
    /\ owner' = d
    /\ stopped' = FALSE
    /\ UNCHANGED <<socket, pidfile>>

LoseLock(d) ==
    /\ Advance(d, "spawned", "dead")
    /\ lock # None \/ Answers
    /\ UNCHANGED files

(* ControlServer::bind: a stale socket is replaced. *)
Bind(d) ==
    /\ Advance(d, "starting", "bound")
    /\ ~Answers
    /\ socket' = d
    /\ UNCHANGED <<lock, owner, pidfile, stopped>>

Publish(d) ==
    /\ Advance(d, "bound", "ready")
    /\ pidfile' = d
    /\ UNCHANGED <<lock, owner, socket, stopped>>

(* Mutated Wake: the marker is forgotten. *)
WakeUnmarked(d) ==
    /\ Advance(d, "ready", "leaving")
    /\ gate[d]
    /\ UNCHANGED files

(* wait_shutdown returns; main writes the marker and drops the workers. *)
Wake(d) ==
    /\ Advance(d, "ready", "leaving")
    /\ gate[d]
    /\ stopped' = TRUE
    /\ UNCHANGED <<lock, owner, socket, pidfile>>

(* Drop of ControlServer: the accept loop ends, then the socket goes. *)
StopAccepting(d) ==
    /\ Advance(d, "leaving", "closing")
    /\ UNCHANGED files

RemoveSocket(d) ==
    /\ Advance(d, "closing", "closed")
    /\ socket' = None
    /\ UNCHANGED <<lock, owner, pidfile, stopped>>

Exit(d) ==
    /\ phase[d] = "closed"
    /\ phase' = [phase EXCEPT ![d] = "exited"]
    /\ gate' = [gate EXCEPT ![d] = FALSE]
    /\ pending' = [pending EXCEPT ![d] = FALSE]
    /\ lock' = None
    /\ UNCHANGED <<owner, socket, pidfile, stopped, caller, faults>>

(* The end of a process that runs no more code: its memory and its lock go. *)
Die(d) ==
    /\ phase' = [phase EXCEPT ![d] = "dead"]
    /\ gate' = [gate EXCEPT ![d] = FALSE]
    /\ pending' = [pending EXCEPT ![d] = FALSE]
    /\ lock' = IF lock = d THEN None ELSE lock
    /\ UNCHANGED <<owner, socket, pidfile, stopped>>

(* A startup fails before the bind, or the process is killed. *)
Crash(d) ==
    /\ Alive(d)
    /\ faults < MaxFaults
    /\ faults' = faults + 1
    /\ Die(d)
    /\ UNCHANGED caller

DaemonStep(d) ==
    \/ TakeLock(d)
    \/ LoseLock(d)
    \/ Bind(d)
    \/ Publish(d)
    \/ Wake(d)
    \/ StopAccepting(d)
    \/ RemoveSocket(d)
    \/ Exit(d)

-----------------------------------------------------------------------------
(* Steps that only move a command; those that start or kill a daemon.       *)
Go(c, from, to) ==
    /\ pc[c] = from
    /\ pc' = [pc EXCEPT ![c] = to]

Quiet(c, from, to) ==
    /\ Go(c, from, to)
    /\ UNCHANGED <<files, daemon, child, observed, faults>>

Fresh == CHOOSE d \in Daemons : phase[d] = "unborn"

(* Mutated Launch: the caller writes the pid of its child. *)
LaunchPublishes(c, from, to) ==
    /\ Go(c, from, to)
    /\ \E d \in Daemons : phase[d] = "unborn"
    /\ phase' = [phase EXCEPT ![Fresh] = "spawned"]
    /\ child' = [child EXCEPT ![c] = Fresh]
    /\ pidfile' = Fresh
    /\ UNCHANGED <<lock, owner, socket, stopped, gate, pending, observed, faults>>

Launch(c, from, to) ==
    /\ Go(c, from, to)
    /\ \E d \in Daemons : phase[d] = "unborn"
    /\ phase' = [phase EXCEPT ![Fresh] = "spawned"]
    /\ child' = [child EXCEPT ![c] = Fresh]
    /\ UNCHANGED <<files, gate, pending, observed, faults>>

(* A command, or a round of the supervisor, ends: its handle of the child goes. *)
Finish(c, from, to) ==
    /\ Go(c, from, to)
    /\ child' = [child EXCEPT ![c] = None]
    /\ UNCHANGED <<files, daemon, observed, faults>>

(* kill(pid): nothing happens to a process that has ended.  No command uses *)
(* the pid again.                                                           *)
Kill(c, from, to) ==
    /\ Go(c, from, to)
    /\ IF child[c] # None /\ Alive(child[c])
       THEN Die(child[c])
       ELSE UNCHANGED <<files, daemon>>
    /\ child' = [child EXCEPT ![c] = None]
    /\ UNCHANGED <<observed, faults>>

-----------------------------------------------------------------------------
(* `pmux up`. *)

(* DaemonLock::is_held takes the lock itself and gives it back. *)
FindHeld(c) ==
    /\ lock # None
    /\ \/ Quiet(c, "start", "held")
       \/ Quiet(c, "reprobe", "poll")

TakeProbe(c) ==
    /\ lock = None
    /\ lock' = c
    /\ \/ Go(c, "start", "probing")
       \/ Go(c, "reprobe", "reprobing")
    /\ UNCHANGED <<owner, socket, pidfile, stopped, daemon, child, observed, faults>>

DropProbe(c) ==
    /\ \/ Go(c, "probing", "look")
       \/ Go(c, "reprobing", "failed")
    /\ lock' = None
    /\ child' = [child EXCEPT ![c] = None]
    /\ UNCHANGED <<owner, socket, pidfile, stopped, daemon, observed, faults>>

WaitHeld(c) ==
    \/ Answers /\ Quiet(c, "held", "look")
    \/ Quiet(c, "held", "start")

Look(c) ==
    \/ Answers /\ Quiet(c, "look", "done")
    \/ Launch(c, "look", "poll")

(* child.try_wait. *)
Poll(c) ==
    Quiet(c, "poll", IF Alive(child[c]) THEN "ask" ELSE "askExited")

Ask(c) ==
    \/ Answers /\ Quiet(c, "ask", "readPid")
    \/ Quiet(c, "ask", "poll")

(* Mutated ReadPid: a child that still runs is taken for the daemon that    *)
(* answered.                                                                *)
ReadPidByLife(c) ==
    /\ pc[c] = "readPid"
    /\ IF Alive(child[c])
       THEN Finish(c, "readPid", "started")
       ELSE Quiet(c, "readPid", "poll")

(* read_valid_pid, after a probe that was answered: what answered may have  *)
(* been another daemon, and may have begun to leave since.                  *)
ReadPid(c) ==
    /\ pc[c] = "readPid"
    /\ IF pidfile = child[c] /\ Alive(child[c])
       THEN Finish(c, "readPid", "started")
       ELSE Quiet(c, "readPid", "poll")

(* The probe for a child that has ended: no pidfile can name it as running. *)
AskExited(c) ==
    \/ Answers /\ Finish(c, "askExited", "done")
    \/ Quiet(c, "askExited", "reprobe")

(* The deadline UP_WAIT.  The child is killed. *)
GiveUp(c) ==
    \/ Quiet(c, "held", "failed")
    \/ Kill(c, "poll", "failed")

Up(c) ==
    \/ FindHeld(c)
    \/ TakeProbe(c)
    \/ DropProbe(c)
    \/ WaitHeld(c)
    \/ Look(c)
    \/ Poll(c)
    \/ Ask(c)
    \/ ReadPid(c)
    \/ AskExited(c)
    \/ GiveUp(c)

-----------------------------------------------------------------------------
(* `pmux stop`. *)

StopLook(c) ==
    \/ socket = None /\ Quiet(c, "stopLook", "forget")
    \/ Answers /\ Quiet(c, "stopLook", "stopLive")
    \/ socket # None /\ Quiet(c, "stopLook", "stopStale")

(* read_valid_pid, else find_server_pid: the process that holds the bound   *)
(* socket or, when no process does, any daemon of this instance.            *)
Pids ==
    IF pidfile # None /\ Alive(pidfile) THEN {pidfile}
    ELSE IF socket # None /\ Alive(socket) THEN {socket}
    ELSE LET running == {d \in Daemons : Alive(d)}
         IN  IF running = {} THEN {None} ELSE running

FindPid(c) ==
    \E p \in Pids :
        /\ \/ Go(c, "stopLive", "verb")
           \/ p # None /\ Go(c, "stopStale", "verb")
           \/ p = None /\ Go(c, "stopStale", "forget")
        /\ child' = [child EXCEPT ![c] = p]
        /\ UNCHANGED <<files, daemon, observed, faults>>

(* Mutated Request: the flag is not kept for a daemon that does not wait yet. *)
RequestUnkept(d) ==
    gate' = [gate EXCEPT ![d] = phase[d] = "ready"]

(* ShutdownGate::request, after the reply has been written. *)
Request(d) ==
    gate' = [gate EXCEPT ![d] = TRUE]

(* try_shutdown_via_verb: accepted, accepted with a reply that comes too    *)
(* late, or not accepted.                                                   *)
Verb(c) ==
    \/ /\ Answers
       /\ ~pending[socket]
       /\ Request(socket)
       /\ \/ Go(c, "verb", "grace")
          \/ Go(c, "verb", "term")
       /\ UNCHANGED <<files, phase, pending, child, observed, faults>>
    \/ Quiet(c, "verb", "term")

Grace(c) ==
    \/ /\ child[c] # None => ~Alive(child[c])
       /\ Quiet(c, "grace", "forget")
    \/ Quiet(c, "grace", "term")

Term(c) ==
    \/ child[c] = None /\ Quiet(c, "term", "done")
    \/ child[c] # None /\ Kill(c, "term", "forget")

Forget(c) ==
    /\ Go(c, "forget", "done")
    /\ pidfile' = None
    /\ child' = [child EXCEPT ![c] = None]
    /\ UNCHANGED <<lock, owner, socket, stopped, daemon, observed, faults>>

Stop(c) ==
    \/ StopLook(c)
    \/ FindPid(c)
    \/ Verb(c)
    \/ Grace(c)
    \/ Term(c)
    \/ Forget(c)

-----------------------------------------------------------------------------
(* The idle part of `pmux restart`, which ends with `pmux up`. *)

IdleLook(c) ==
    \/ socket = None /\ Quiet(c, "idleLook", "start")
    \/ Answers /\ Quiet(c, "idleLook", "idle")
    \/ socket # None /\ Quiet(c, "idleLook", "done")

(* Mutated Idle: the request is accepted, but the gate stays shut.          *)
IdleUngated(c) ==
    \/ /\ Answers
       /\ ~pending[socket]
       /\ pending' = [pending EXCEPT ![socket] = TRUE]
       /\ child' = [child EXCEPT ![c] = socket]
       /\ \/ Go(c, "idle", "idleWait")
          \/ Go(c, "idle", "done")
       /\ UNCHANGED <<files, phase, gate, observed, faults>>
    \/ Quiet(c, "idle", "done")

(* ShutdownIdle of a daemon without sessions.  The gate opens only when the *)
(* reply could be written.                                                  *)
Idle(c) ==
    \/ /\ Answers
       /\ ~pending[socket]
       /\ pending' = [pending EXCEPT ![socket] = TRUE]
       /\ \/ /\ Request(socket)
             /\ Go(c, "idle", "idleWait")
             /\ child' = [child EXCEPT ![c] = socket]
          \/ /\ Request(socket) \/ UNCHANGED gate
             /\ Go(c, "idle", "done")
             /\ UNCHANGED child
       /\ UNCHANGED <<files, phase, observed, faults>>
    \/ Quiet(c, "idle", "done")

IdleWait(c) ==
    /\ \/ socket = None /\ Go(c, "idleWait", "start")
       \/ Go(c, "idleWait", "done")
    /\ child' = [child EXCEPT ![c] = None]
    /\ UNCHANGED <<files, daemon, observed, faults>>

IdleRestart(c) ==
    \/ IdleLook(c)
    \/ Idle(c)
    \/ IdleWait(c)

-----------------------------------------------------------------------------
(* The login supervisor, `pmux login run`. *)

Watch ==
    \/ /\ Answers
       /\ Go(Login, "watch", "watch")
       /\ observed' = TRUE
       /\ UNCHANGED <<files, daemon, child, faults>>
    \/ Quiet(Login, "watch", "decide")

(* Nobody answered: the marker of an intentional stop is looked for, but    *)
(* only by a supervisor that has seen a daemon.                             *)
Decide ==
    Quiet(Login, "decide", IF observed /\ stopped THEN "off" ELSE "launch")

Spawn == Launch(Login, "launch", "wait")

Reap ==
    /\ pc[Login] = "wait"
    /\ \/ phase[child[Login]] = "exited" /\ Finish(Login, "wait", "off")
       \/ phase[child[Login]] = "dead" /\ Finish(Login, "wait", "watch")

(* The setting is read at the head of both loops. *)
Disabled ==
    \/ Finish(Login, "watch", "off")
    \/ Finish(Login, "wait", "off")

Supervisor ==
    \/ Watch
    \/ Decide
    \/ Spawn
    \/ Reap
    \/ Disabled

-----------------------------------------------------------------------------
Next ==
    \/ \E d \in Daemons : DaemonStep(d) \/ Crash(d)
    \/ \E c \in Callers : Up(c) \/ Stop(c) \/ IdleRestart(c)
    \/ Supervisor

(* A daemon that runs goes on: its main thread and its accept thread wait   *)
(* for nothing but the gate.                                                *)
Fairness == \A d \in Daemons : WF_vars(DaemonStep(d))

Spec == Init /\ [][Next]_vars /\ Fairness

-----------------------------------------------------------------------------
UpStates == {"start", "held", "probing", "look", "poll", "ask", "readPid",
             "askExited", "reprobe", "reprobing", "started", "failed"}
StopStates == {"stopLook", "stopLive", "stopStale", "verb", "grace", "term",
               "forget", "done"}
IdleStates == {"idleLook", "idle", "idleWait"}
LoginStates == {"watch", "decide", "launch", "wait", "off"}

(* Every process, file and flag has a value of its type. *)
TypeOK ==
    /\ lock \in Daemons \cup Callers \cup {None}
    /\ {owner, socket, pidfile} \subseteq Daemons \cup {None}
    /\ stopped \in BOOLEAN
    /\ phase \in [Daemons -> {"unborn", "spawned", "starting", "closing", "closed"}
                             \cup Answering \cup Ended]
    /\ gate \in [Daemons -> BOOLEAN]
    /\ pending \in [Daemons -> BOOLEAN]
    /\ pc \in [Processes -> UpStates \cup StopStates \cup IdleStates \cup LoginStates]
    /\ child \in [Processes -> Daemons \cup {None}]
    /\ observed \in BOOLEAN
    /\ faults \in Nat

(* daemon_lock.rs, docs/login-restore.md: only one daemon serves an         *)
(* instance.  Whoever answers holds the instance lock, and the socket that  *)
(* clients connect to is its own.                                           *)
OneServer ==
    \A d \in Daemons : phase[d] \in Answering => lock = d /\ socket = d

(* bin/pmux.rs read_valid_pid: the pid that `pmux stop` will signal, if it  *)
(* runs, is the owner of the instance, never the loser of a start.          *)
PidfileNamesOwner ==
    pidfile # None /\ Alive(pidfile) => lock = pidfile

(* bin/pmux.rs cmd_up, its comment on the pidfile: "started" is said only   *)
(* of the caller's own child, and only when that child is the daemon of the *)
(* instance: it holds the lock and has bound the socket, which is still its *)
(* own unless it has begun to leave since the probe and has removed it.  A  *)
(* start that has failed leaves no child behind that could bind later.      *)
UpTellsTruth ==
    [][\A c \in Callers :
          /\ pc'[c] = "started" /\ pc[c] # "started" =>
                /\ lock = child[c]
                /\ socket = child[c] \/ phase[child[c]] = "closed"
          /\ pc'[c] = "failed" /\ child[c] # None =>
                phase'[child[c]] \in Ended]_vars

(* docs/login-restore.md, bin/pmux.rs run_login_supervisor: a supervisor    *)
(* that has seen a daemon answer does not go past its look for the marker   *)
(* when the last daemon was stopped on purpose: no order of starts, lost    *)
(* starts, stops and kills takes the marker of that stop away.  (A stop     *)
(* that comes between this look and the start is not seen.)                 *)
StopRespected ==
    [][observed /\ pc[Login] = "decide" /\ pc'[Login] = "launch" =>
          owner = None \/ phase[owner] \notin {"leaving", "closing", "closed", "exited"}]_vars

(* ShutdownGate::wait_shutdown: a daemon that was asked to end, or that a   *)
(* command waits for, never waits itself: the request cannot come too early *)
(* for a daemon that is not at its gate yet, nor be lost before it wakes.   *)
HeardMoves ==
    \A d \in Daemons :
        \/ gate[d]
        \/ phase[d] \notin Ended /\ \E c \in Callers : pc[c] = "idleWait" /\ child[c] = d
        => ENABLED <<DaemonStep(d)>>_vars

(* ShutdownGate: a daemon whose idle restart was accepted and heard ends,   *)
(* also when it was asked before it waits at the gate.                      *)
AcceptedEnds ==
    \A d \in Daemons :
        (\E c \in Callers : pc[c] = "idleWait" /\ child[c] = d) ~> phase[d] \in Ended
=============================================================================
