-------------------------- MODULE DaemonLife_proofs --------------------------
(***************************************************************************)
(* Proofs about DaemonLife for any number of daemons, commands and faults. *)
(*                                                                         *)
(* LifeInv is inductive.  Its first part says what the files mean: a       *)
(* daemon between its startup and its exit holds the lock, one that        *)
(* listens has the socket, the pidfile names a daemon that has published   *)
(* it, and the owner of the lock leaves only behind its marker.  The       *)
(* second says what a command knows: when it holds the lock as a probe,    *)
(* whether it has a child and whether the child has ended.                 *)
(*                                                                         *)
(* AskedInv adds that a request waits only at a daemon that serves, and    *)
(* that what a command waits for is a daemon with such a request or one    *)
(* that has ended; from it, and from the fairness of the daemons, a        *)
(* daemon that was asked ends.                                             *)
(***************************************************************************)
EXTENDS DaemonLife, TLAPS

Owning == {"starting", "bound", "ready", "leaving", "closing", "closed"}
Listening == {"bound", "ready", "leaving", "closing"}
Published == {"ready", "leaving", "closing", "closed", "exited", "dead"}
Departed == {"leaving", "closing", "closed", "exited"}

LockHeld == \A d \in Daemons : phase[d] \in Owning => lock = d
SocketHeld == \A d \in Daemons : phase[d] \in Listening => socket = d
PidPublished == pidfile # None => phase[pidfile] \in Published
LeavingMarked == owner # None /\ phase[owner] \in Departed => stopped

FilesInv == LockHeld /\ SocketHeld /\ PidPublished /\ LeavingMarked

Alone == {"start", "held", "probing", "look", "started", "failed", "idleLook", "idle"}
Parent == {"poll", "ask", "readPid", "askExited", "reprobe", "reprobing"}
Bereft == {"askExited", "reprobe", "reprobing"}
Commands == UpStates \cup StopStates \cup IdleStates

Typed == \A c \in Callers : pc[c] \in Commands
ProbesHold == \A c \in Callers : pc[c] \in {"probing", "reprobing"} => lock = c
ChildBorn == \A c \in Processes : child[c] # None => phase[child[c]] # "unborn"
NoChild == \A c \in Callers : pc[c] \in Alone => child[c] = None
HasChild == \A c \in Callers : pc[c] \in Parent => child[c] # None
ChildEnded == \A c \in Callers :
                 pc[c] \in Bereft /\ child[c] # None => phase[child[c]] \in Ended

CommandInv == Typed /\ ProbesHold /\ ChildBorn /\ NoChild /\ HasChild /\ ChildEnded

LifeInv == TypeOK /\ FilesInv /\ CommandInv

(* A daemon that moves forward: what the commands know stays true as long   *)
(* as an ended process stays ended and probes keep the lock.                *)
LEMMA CommandsKept ==
    ASSUME LifeInv, UNCHANGED <<pc, child>>,
           \A d \in Daemons : phase[d] \in Ended => phase'[d] \in Ended,
           \A d \in Daemons : phase[d] # "unborn" => phase'[d] # "unborn",
           \A c \in Callers : lock = c => lock' = c
    PROVE  CommandInv'
<1>. USE DEF Processes
<1>1. Typed'
  BY DEF LifeInv, CommandInv, Typed
<1>2. ProbesHold'
  BY DEF LifeInv, CommandInv, ProbesHold
<1>3. ChildBorn'
  BY DEF LifeInv, CommandInv, ChildBorn, TypeOK
<1>4. NoChild' /\ HasChild'
  BY DEF LifeInv, CommandInv, NoChild, HasChild
<1>5. ChildEnded'
  BY DEF LifeInv, CommandInv, ChildEnded, TypeOK
<1>. QED
  BY <1>1, <1>2, <1>3, <1>4, <1>5 DEF CommandInv

LEMMA InitLife == Init => LifeInv
<1>. SUFFICES ASSUME Init PROVE LifeInv
  OBVIOUS
<1>. USE LifeAssumption DEF Init, Processes, Start
<1>1. TypeOK
  BY DEF TypeOK, UpStates, StopStates, IdleStates, LoginStates, Answering, Ended
<1>2. FilesInv
  BY DEF FilesInv, LockHeld, SocketHeld, PidPublished, LeavingMarked, Owning, Listening
<1>3. CommandInv
  BY DEF CommandInv, Typed, ProbesHold, ChildBorn, NoChild, HasChild, ChildEnded,
         Commands, UpStates, StopStates, IdleStates, Alone, Parent, Bereft
<1>. QED
  BY <1>1, <1>2, <1>3 DEF LifeInv

-----------------------------------------------------------------------------
(* The steps of a daemon. *)

Phases == {"unborn", "spawned", "starting", "closing", "closed"} \cup Answering \cup Ended

LEMMA DaemonKeeps ==
    ASSUME LifeInv, NEW d \in Daemons, DaemonStep(d)
    PROVE  LifeInv'
<1>. USE LifeAssumption
<1>0. /\ lock \in Daemons \cup Callers \cup {None}
      /\ {owner, socket, pidfile} \subseteq Daemons \cup {None}
      /\ phase \in [Daemons -> Phases]
      /\ LockHeld /\ SocketHeld /\ PidPublished /\ LeavingMarked
  BY DEF LifeInv, FilesInv, TypeOK, Phases
<1>1. TypeOK'
  <2>1. PICK to \in Phases : phase' = [phase EXCEPT ![d] = to]
    BY DEF DaemonStep, TakeLock, LoseLock, Bind, Publish, Wake, StopAccepting, RemoveSocket,
           Exit, Advance, Phases, Answering, Ended
  <2>2. /\ lock' \in {lock, d, None} /\ owner' \in {owner, d}
        /\ socket' \in {socket, d, None} /\ pidfile' \in {pidfile, d}
        /\ stopped' \in {stopped, TRUE, FALSE}
        /\ gate' = gate \/ gate' = [gate EXCEPT ![d] = FALSE]
        /\ pending' = pending \/ pending' = [pending EXCEPT ![d] = FALSE]
        /\ UNCHANGED <<pc, child, observed, faults>>
    BY DEF DaemonStep, TakeLock, LoseLock, Bind, Publish, Wake, StopAccepting, RemoveSocket,
           Exit, Advance, files, caller
  <2>3. phase' \in [Daemons -> Phases]
    BY <1>0, <2>1
  <2>4. gate' \in [Daemons -> BOOLEAN] /\ pending' \in [Daemons -> BOOLEAN]
    BY <2>2 DEF LifeInv, TypeOK
  <2>5. lock' \in Daemons \cup Callers \cup {None} /\ stopped' \in BOOLEAN
    BY <1>0, <2>2 DEF LifeInv, TypeOK
  <2>6. {owner', socket', pidfile'} \subseteq Daemons \cup {None}
    BY <1>0, <2>2
  <2>. QED
    BY <2>2, <2>3, <2>4, <2>5, <2>6 DEF LifeInv, TypeOK, Phases
<1>2. CASE TakeLock(d)
  <2>1. FilesInv'
    BY <1>0, <1>2 DEF TakeLock, Advance, FilesInv, LockHeld, SocketHeld, PidPublished,
       LeavingMarked, Owning, Listening, Published, Departed
  <2>2. CommandInv'
    BY <1>0, <1>2, CommandsKept DEF TakeLock, Advance, caller, Ended
  <2>. QED
    BY <1>1, <2>1, <2>2 DEF LifeInv
<1>3. CASE LoseLock(d)
  <2>1. FilesInv'
    BY <1>0, <1>3 DEF LoseLock, Advance, files, FilesInv, LockHeld, SocketHeld,
       PidPublished, LeavingMarked, Owning, Listening, Published, Departed
  <2>2. CommandInv'
    BY <1>0, <1>3, CommandsKept DEF LoseLock, Advance, files, caller, Ended
  <2>. QED
    BY <1>1, <2>1, <2>2 DEF LifeInv
<1>4. CASE Bind(d)
  <2>1. FilesInv'
    BY <1>0, <1>4 DEF Bind, Advance, FilesInv, LockHeld, SocketHeld, PidPublished,
       LeavingMarked, Owning, Listening, Published, Departed
  <2>2. CommandInv'
    BY <1>0, <1>4, CommandsKept DEF Bind, Advance, caller, Ended
  <2>. QED
    BY <1>1, <2>1, <2>2 DEF LifeInv
<1>5. CASE Publish(d)
  <2>1. FilesInv'
    BY <1>0, <1>5 DEF Publish, Advance, FilesInv, LockHeld, SocketHeld, PidPublished,
       LeavingMarked, Owning, Listening, Published, Departed
  <2>2. CommandInv'
    BY <1>0, <1>5, CommandsKept DEF Publish, Advance, caller, Ended
  <2>. QED
    BY <1>1, <2>1, <2>2 DEF LifeInv
<1>6. CASE Wake(d)
  <2>1. FilesInv'
    BY <1>0, <1>6 DEF Wake, Advance, FilesInv, LockHeld, SocketHeld, PidPublished,
       LeavingMarked, Owning, Listening, Published, Departed
  <2>2. CommandInv'
    BY <1>0, <1>6, CommandsKept DEF Wake, Advance, caller, Ended
  <2>. QED
    BY <1>1, <2>1, <2>2 DEF LifeInv
<1>7. CASE StopAccepting(d)
  <2>1. FilesInv'
    BY <1>0, <1>7 DEF StopAccepting, Advance, files, FilesInv, LockHeld, SocketHeld,
       PidPublished, LeavingMarked, Owning, Listening, Published, Departed
  <2>2. CommandInv'
    BY <1>0, <1>7, CommandsKept DEF StopAccepting, Advance, files, caller, Ended
  <2>. QED
    BY <1>1, <2>1, <2>2 DEF LifeInv
<1>8. CASE RemoveSocket(d)
  <2>1. FilesInv'
    BY <1>0, <1>8 DEF RemoveSocket, Advance, FilesInv, LockHeld, SocketHeld, PidPublished,
       LeavingMarked, Owning, Listening, Published, Departed
  <2>2. CommandInv'
    BY <1>0, <1>8, CommandsKept DEF RemoveSocket, Advance, caller, Ended
  <2>. QED
    BY <1>1, <2>1, <2>2 DEF LifeInv
<1>9. CASE Exit(d)
  <2>1. FilesInv'
    BY <1>0, <1>9 DEF Exit, FilesInv, LockHeld, SocketHeld, PidPublished,
       LeavingMarked, Owning, Listening, Published, Departed
  <2>2. CommandInv'
    <3>1. lock = d
      BY <1>0, <1>9 DEF Exit, LockHeld, Owning
    <3>. QED
      BY <1>0, <1>9, <3>1, CommandsKept DEF Exit, caller, Ended
  <2>. QED
    BY <1>1, <2>1, <2>2 DEF LifeInv
<1>. QED
  BY <1>2, <1>3, <1>4, <1>5, <1>6, <1>7, <1>8, <1>9 DEF DaemonStep

(* A killed process: its lock is free again, everything else stands.        *)
LEMMA DieKeepsFiles ==
    ASSUME LifeInv, NEW d \in Daemons, Die(d), phase[d] # "unborn"
    PROVE  /\ FilesInv'
           /\ \A e \in Daemons : phase[e] \in Ended => phase'[e] \in Ended
           /\ \A e \in Daemons : phase[e] # "unborn" => phase'[e] # "unborn"
           /\ \A c \in Callers : lock = c => lock' = c
           /\ phase' \in [Daemons -> Phases]
           /\ phase'[d] = "dead"
           /\ lock' \in Daemons \cup Callers \cup {None}
           /\ gate' \in [Daemons -> BOOLEAN] /\ pending' \in [Daemons -> BOOLEAN]
<1>. USE LifeAssumption
<1>0. /\ lock \in Daemons \cup Callers \cup {None}
      /\ {owner, socket, pidfile} \subseteq Daemons \cup {None}
      /\ phase \in [Daemons -> Phases]
      /\ gate \in [Daemons -> BOOLEAN] /\ pending \in [Daemons -> BOOLEAN]
      /\ LockHeld /\ SocketHeld /\ PidPublished /\ LeavingMarked
  BY DEF LifeInv, FilesInv, TypeOK, Phases
<1>1. FilesInv'
  BY <1>0 DEF Die, FilesInv, LockHeld, SocketHeld, PidPublished, LeavingMarked, Owning,
     Listening, Published, Departed
<1>2. phase' \in [Daemons -> Phases] /\ phase'[d] = "dead"
  BY <1>0 DEF Die, Phases, Ended
<1>3. lock' \in Daemons \cup Callers \cup {None}
  BY <1>0 DEF Die
<1>4. /\ gate' \in [Daemons -> BOOLEAN] /\ pending' \in [Daemons -> BOOLEAN]
      /\ \A c \in Callers : lock = c => lock' = c
  BY <1>0 DEF Die
<1>5. /\ \A e \in Daemons : phase[e] \in Ended => phase'[e] \in Ended
      /\ \A e \in Daemons : phase[e] # "unborn" => phase'[e] # "unborn"
  BY <1>0 DEF Die, Ended
<1>. QED
  BY <1>1, <1>2, <1>3, <1>4, <1>5

-----------------------------------------------------------------------------
(* The steps of the commands. *)

(* Caller c goes to `to` with child k. *)
LEMMA CommandMoves ==
    ASSUME LifeInv, NEW c \in Callers, NEW to \in Commands, NEW k \in Daemons \cup {None},
           pc' = [pc EXCEPT ![c] = to],
           child' = [child EXCEPT ![c] = k],
           \A d \in Daemons : phase[d] \in Ended => phase'[d] \in Ended,
           \A d \in Daemons : phase[d] # "unborn" => phase'[d] # "unborn",
           \A e \in Callers : e # c /\ lock = e => lock' = e,
           to \in {"probing", "reprobing"} => lock' = c,
           k # None => phase'[k] # "unborn",
           to \in Alone => k = None,
           to \in Parent => k # None,
           to \in Bereft /\ k # None => phase'[k] \in Ended
    PROVE  /\ CommandInv'
           /\ child' \in [Processes -> Daemons \cup {None}]
           /\ pc' \in [Processes -> UpStates \cup StopStates \cup IdleStates \cup LoginStates]
<1>. USE LifeAssumption DEF Processes
<1>0. /\ child \in [Processes -> Daemons \cup {None}]
      /\ pc \in [Processes -> UpStates \cup StopStates \cup IdleStates \cup LoginStates]
      /\ Typed /\ ProbesHold /\ ChildBorn /\ NoChild /\ HasChild /\ ChildEnded
  BY DEF LifeInv, CommandInv, TypeOK
<1>1. Typed' /\ pc' \in [Processes -> UpStates \cup StopStates \cup IdleStates \cup LoginStates]
  BY <1>0 DEF Typed, Commands
<1>2. ProbesHold'
  BY <1>0 DEF ProbesHold
<1>3. ChildBorn' /\ child' \in [Processes -> Daemons \cup {None}]
  BY <1>0 DEF ChildBorn
<1>4. NoChild' /\ HasChild'
  BY <1>0 DEF NoChild, HasChild
<1>5. ChildEnded'
  BY <1>0 DEF ChildEnded
<1>. QED
  BY <1>1, <1>2, <1>3, <1>4, <1>5 DEF CommandInv

(* A step that only moves a command. *)
LEMMA QuietKeeps ==
    ASSUME LifeInv, NEW c \in Callers, NEW from \in Commands, NEW to \in Commands,
           Quiet(c, from, to),
           to \notin {"probing", "reprobing"},
           to \in Alone => from \in Alone,
           to \in Parent => from \in Parent,
           to \in Bereft => \/ from \in Bereft \cup Alone
                            \/ child[c] # None => phase[child[c]] \in Ended
    PROVE  LifeInv'
<1>. USE DEF Processes
<1>0. /\ pc[c] = from
      /\ pc' = [pc EXCEPT ![c] = to]
      /\ UNCHANGED <<lock, owner, socket, pidfile, stopped, phase, gate, pending, child,
                     observed, faults>>
  BY DEF Quiet, Go, files, daemon
<1>1. FilesInv'
  BY <1>0 DEF LifeInv, FilesInv, LockHeld, SocketHeld, PidPublished, LeavingMarked
<1>2. /\ child[c] \in Daemons \cup {None}
      /\ child' = [child EXCEPT ![c] = child[c]]
  BY <1>0 DEF LifeInv, TypeOK
<1>3. /\ child[c] # None => phase'[child[c]] # "unborn"
      /\ to \in Alone => child[c] = None
      /\ to \in Parent => child[c] # None
      /\ to \in Bereft /\ child[c] # None => phase'[child[c]] \in Ended
  BY <1>0, <1>2 DEF LifeInv, CommandInv, ChildBorn, NoChild, HasChild, ChildEnded
<1>4. /\ CommandInv'
      /\ child' \in [Processes -> Daemons \cup {None}]
      /\ pc' \in [Processes -> UpStates \cup StopStates \cup IdleStates \cup LoginStates]
  BY <1>0, <1>2, <1>3, CommandMoves
<1>5. TypeOK'
  BY <1>0, <1>4 DEF LifeInv, TypeOK
<1>. QED
  BY <1>1, <1>4, <1>5 DEF LifeInv

(* A new process has no part in any file yet. *)
LEMMA LaunchStarts ==
    ASSUME LifeInv, NEW c \in Processes, NEW from, NEW to, Launch(c, from, to)
    PROVE  /\ FilesInv'
           /\ Fresh \in Daemons
           /\ phase' \in [Daemons -> Phases]
           /\ phase'[Fresh] # "unborn"
           /\ \A d \in Daemons : phase[d] \in Ended => phase'[d] \in Ended
           /\ \A d \in Daemons : phase[d] # "unborn" => phase'[d] # "unborn"
<1>. USE LifeAssumption
<1>0. /\ {owner, socket, pidfile} \subseteq Daemons \cup {None}
      /\ phase \in [Daemons -> Phases]
      /\ LockHeld /\ SocketHeld /\ PidPublished /\ LeavingMarked
  BY DEF LifeInv, FilesInv, TypeOK, Phases
<1>1. Fresh \in Daemons /\ phase[Fresh] = "unborn"
  BY DEF Launch, Fresh
<1>. HIDE DEF Fresh
<1>2. /\ phase' = [phase EXCEPT ![Fresh] = "spawned"]
      /\ UNCHANGED <<lock, owner, socket, pidfile, stopped>>
  BY DEF Launch, files
<1>3. FilesInv'
  BY <1>0, <1>1, <1>2 DEF FilesInv, LockHeld, SocketHeld, PidPublished, LeavingMarked,
     Owning, Listening, Published, Departed
<1>4. phase' \in [Daemons -> Phases] /\ phase'[Fresh] # "unborn"
  BY <1>0, <1>1, <1>2 DEF Phases
<1>5. /\ \A d \in Daemons : phase[d] \in Ended => phase'[d] \in Ended
      /\ \A d \in Daemons : phase[d] # "unborn" => phase'[d] # "unborn"
  BY <1>0, <1>1, <1>2 DEF Ended
<1>. QED
  BY <1>1, <1>3, <1>4, <1>5

(* A command that ends has no child any more. *)
LEMMA FinishKeeps ==
    ASSUME LifeInv, NEW c \in Callers, NEW from \in Commands, NEW to \in Commands,
           Finish(c, from, to), to \notin Parent \cup {"probing"}
    PROVE  LifeInv'
<1>0. /\ pc' = [pc EXCEPT ![c] = to]
      /\ child' = [child EXCEPT ![c] = None]
      /\ UNCHANGED <<lock, owner, socket, pidfile, stopped, phase, gate, pending,
                     observed, faults>>
  BY DEF Finish, Go, files, daemon
<1>1. FilesInv'
  BY <1>0 DEF LifeInv, FilesInv, LockHeld, SocketHeld, PidPublished, LeavingMarked
<1>2. /\ CommandInv'
      /\ child' \in [Processes -> Daemons \cup {None}]
      /\ pc' \in [Processes -> UpStates \cup StopStates \cup IdleStates \cup LoginStates]
  <2>1. to \notin {"probing", "reprobing"}
    BY DEF Parent
  <2>. QED
    BY <1>0, <2>1, CommandMoves
<1>3. TypeOK'
  BY <1>0, <1>2 DEF LifeInv, TypeOK
<1>. QED
  BY <1>1, <1>2, <1>3 DEF LifeInv

(* The child, if it lives, dies. *)
LEMMA KillKeeps ==
    ASSUME LifeInv, NEW c \in Callers, NEW from \in Commands, NEW to \in Commands,
           Kill(c, from, to), to \notin Parent \cup {"probing"}
    PROVE  LifeInv' /\ (child[c] # None => phase'[child[c]] \in Ended)
<1>. USE LifeAssumption DEF Processes
<1>0. /\ pc' = [pc EXCEPT ![c] = to]
      /\ child' = [child EXCEPT ![c] = None]
      /\ child[c] \in Daemons \cup {None}
      /\ child[c] # None => phase[child[c]] # "unborn"
      /\ UNCHANGED <<owner, socket, pidfile, stopped, observed, faults>>
  BY DEF LifeInv, CommandInv, ChildBorn, TypeOK, Kill, Go, Die, files, daemon
<1>1. /\ FilesInv'
      /\ \A e \in Daemons : phase[e] \in Ended => phase'[e] \in Ended
      /\ \A e \in Daemons : phase[e] # "unborn" => phase'[e] # "unborn"
      /\ \A e \in Callers : lock = e => lock' = e
      /\ phase' \in [Daemons -> Phases]
      /\ child[c] # None => phase'[child[c]] \in Ended
      /\ lock' \in Daemons \cup Callers \cup {None}
      /\ gate' \in [Daemons -> BOOLEAN] /\ pending' \in [Daemons -> BOOLEAN]
  <2>1. CASE child[c] # None /\ Alive(child[c])
    BY <1>0, <2>1, DieKeepsFiles DEF Kill, Ended
  <2>2. CASE ~(child[c] # None /\ Alive(child[c]))
    <3>1. UNCHANGED <<lock, owner, socket, pidfile, stopped, phase, gate, pending>>
      BY <2>2 DEF Kill, files, daemon
    <3>2. FilesInv'
      BY <3>1 DEF LifeInv, FilesInv, LockHeld, SocketHeld, PidPublished, LeavingMarked
    <3>. QED
      BY <1>0, <2>2, <3>1, <3>2 DEF LifeInv, TypeOK, Alive, Phases
  <2>. QED
    BY <2>1, <2>2
<1>2. /\ CommandInv'
      /\ child' \in [Processes -> Daemons \cup {None}]
      /\ pc' \in [Processes -> UpStates \cup StopStates \cup IdleStates \cup LoginStates]
  <2>1. to \notin {"probing", "reprobing"}
    BY DEF Parent
  <2>. QED
    BY <1>0, <1>1, <2>1, CommandMoves
<1>3. TypeOK'
  BY <1>0, <1>1, <1>2 DEF LifeInv, TypeOK, Phases
<1>. QED
  BY <1>1, <1>2, <1>3 DEF LifeInv

LEMMA UpKeeps ==
    ASSUME LifeInv, NEW c \in Callers, Up(c)
    PROVE  LifeInv'
<1>. USE LifeAssumption DEF Commands, UpStates, Alone, Parent, Bereft
<1>1. CASE FindHeld(c)
  <2>1. CASE Quiet(c, "start", "held")
    BY <2>1, QuietKeeps
  <2>2. CASE Quiet(c, "reprobe", "poll")
    BY <2>2, QuietKeeps
  <2>. QED
    BY <1>1, <2>1, <2>2 DEF FindHeld
<1>2. CASE TakeProbe(c)
  <2>1. PICK to \in {"probing", "reprobing"} :
          /\ pc' = [pc EXCEPT ![c] = to]
          /\ to = "probing" => pc[c] = "start"
          /\ to = "reprobing" => pc[c] = "reprobe"
    BY <1>2 DEF TakeProbe, Go
  <2>2. /\ lock = None /\ lock' = c
        /\ UNCHANGED <<owner, socket, pidfile, stopped, phase, gate, pending, child,
                       observed, faults>>
    BY <1>2 DEF TakeProbe, daemon
  <2>3. /\ child[c] \in Daemons \cup {None}
        /\ child' = [child EXCEPT ![c] = child[c]]
        /\ child[c] # None => phase'[child[c]] # "unborn"
        /\ to \in Alone => child[c] = None
        /\ to \in Parent => child[c] # None
        /\ to \in Bereft /\ child[c] # None => phase'[child[c]] \in Ended
    BY <2>1, <2>2 DEF LifeInv, TypeOK, CommandInv, ChildBorn, NoChild, HasChild,
       ChildEnded, Processes
  <2>4. /\ \A e \in Callers : e # c /\ lock = e => lock' = e
        /\ to \in {"probing", "reprobing"} => lock' = c
        /\ \A d \in Daemons : phase[d] \in Ended => phase'[d] \in Ended
        /\ \A d \in Daemons : phase[d] # "unborn" => phase'[d] # "unborn"
    BY <2>2
  <2>5. to \in Commands /\ pc' = [pc EXCEPT ![c] = to]
    BY <2>1
  <2>6. /\ CommandInv'
        /\ pc' \in [Processes -> UpStates \cup StopStates \cup IdleStates \cup LoginStates]
    <3>. HIDE DEF Commands, UpStates, Alone, Parent, Bereft
    <3>. QED
      BY <2>3, <2>4, <2>5, CommandMoves
  <2>7. FilesInv'
    BY <2>2 DEF LifeInv, FilesInv, LockHeld, SocketHeld, PidPublished, LeavingMarked
  <2>8. TypeOK'
    BY <2>2, <2>6 DEF LifeInv, TypeOK
  <2>. QED
    BY <2>6, <2>7, <2>8 DEF LifeInv
<1>3. CASE DropProbe(c)
  <2>1. PICK to \in {"look", "failed"} :
          /\ pc' = [pc EXCEPT ![c] = to]
          /\ child' = [child EXCEPT ![c] = None]
    BY <1>3 DEF DropProbe, Go
  <2>2. /\ lock = c /\ lock' = None
        /\ UNCHANGED <<owner, socket, pidfile, stopped, phase, gate, pending, observed, faults>>
    BY <1>3 DEF DropProbe, Go, daemon, LifeInv, CommandInv, ProbesHold
  <2>3. /\ CommandInv'
        /\ child' \in [Processes -> Daemons \cup {None}]
        /\ pc' \in [Processes -> UpStates \cup StopStates \cup IdleStates \cup LoginStates]
    BY <2>1, <2>2, CommandMoves
  <2>4. FilesInv'
    BY <2>2 DEF LifeInv, FilesInv, LockHeld, SocketHeld, PidPublished, LeavingMarked
  <2>5. TypeOK'
    BY <2>2, <2>3 DEF LifeInv, TypeOK
  <2>. QED
    BY <2>3, <2>4, <2>5 DEF LifeInv
<1>4. CASE WaitHeld(c)
  <2>1. CASE Quiet(c, "held", "look")
    BY <2>1, QuietKeeps
  <2>2. CASE Quiet(c, "held", "start")
    BY <2>2, QuietKeeps
  <2>. QED
    BY <1>4, <2>1, <2>2 DEF WaitHeld
<1>5. CASE Look(c)
  <2>1. CASE Quiet(c, "look", "done")
    BY <2>1, QuietKeeps DEF StopStates
  <2>2. CASE Launch(c, "look", "poll")
    <3>1. /\ pc' = [pc EXCEPT ![c] = "poll"]
          /\ child' = [child EXCEPT ![c] = Fresh]
          /\ UNCHANGED <<lock, owner, socket, pidfile, stopped, gate, pending, observed, faults>>
      BY <2>2 DEF Launch, Go, files
    <3>2. c \in Processes
      BY DEF Processes
    <3>3. /\ CommandInv'
          /\ child' \in [Processes -> Daemons \cup {None}]
          /\ pc' \in [Processes -> UpStates \cup StopStates \cup IdleStates \cup LoginStates]
      BY <2>2, <3>1, <3>2, LaunchStarts, CommandMoves
    <3>4. TypeOK'
      BY <2>2, <3>1, <3>2, <3>3, LaunchStarts DEF LifeInv, TypeOK, Phases
    <3>. QED
      BY <2>2, <3>2, <3>3, <3>4, LaunchStarts DEF LifeInv
  <2>. QED
    BY <1>5, <2>1, <2>2 DEF Look
<1>6. CASE Poll(c)
  <2>1. child[c] # None /\ child[c] \in Daemons /\ phase[child[c]] # "unborn"
    BY <1>6 DEF Poll, Quiet, Go, LifeInv, CommandInv, HasChild, ChildBorn, TypeOK, Processes
  <2>2. CASE Alive(child[c])
    <3>1. Quiet(c, "poll", "ask")
      BY <1>6, <2>2 DEF Poll
    <3>. QED
      BY <3>1, QuietKeeps
  <2>3. CASE ~Alive(child[c])
    <3>1. Quiet(c, "poll", "askExited") /\ phase[child[c]] \in Ended
      BY <1>6, <2>1, <2>3 DEF Poll, Alive
    <3>. QED
      BY <3>1, QuietKeeps
  <2>. QED
    BY <2>2, <2>3
<1>7. CASE Ask(c)
  <2>1. CASE Quiet(c, "ask", "readPid")
    BY <2>1, QuietKeeps
  <2>2. CASE Quiet(c, "ask", "poll")
    BY <2>2, QuietKeeps
  <2>. QED
    BY <1>7, <2>1, <2>2 DEF Ask
<1>8. CASE ReadPid(c)
  <2>1. CASE Finish(c, "readPid", "started")
    BY <2>1, FinishKeeps
  <2>2. CASE Quiet(c, "readPid", "poll")
    BY <2>2, QuietKeeps
  <2>. QED
    BY <1>8, <2>1, <2>2 DEF ReadPid
<1>9. CASE AskExited(c)
  <2>1. CASE Finish(c, "askExited", "done")
    BY <2>1, FinishKeeps DEF StopStates
  <2>2. CASE Quiet(c, "askExited", "reprobe")
    BY <2>2, QuietKeeps
  <2>. QED
    BY <1>9, <2>1, <2>2 DEF AskExited
<1>10. CASE GiveUp(c)
  <2>1. CASE Quiet(c, "held", "failed")
    BY <2>1, QuietKeeps
  <2>2. CASE Kill(c, "poll", "failed")
    BY <2>2, KillKeeps
  <2>. QED
    BY <1>10, <2>1, <2>2 DEF GiveUp
<1>. QED
  BY <1>1, <1>2, <1>3, <1>4, <1>5, <1>6, <1>7, <1>8, <1>9, <1>10 DEF Up

LEMMA StopKeeps ==
    ASSUME LifeInv, NEW c \in Callers, Stop(c)
    PROVE  LifeInv'
<1>. USE LifeAssumption DEF Commands, StopStates, Alone, Parent, Bereft
<1>1. CASE StopLook(c)
  <2>1. CASE Quiet(c, "stopLook", "forget")
    BY <2>1, QuietKeeps
  <2>2. CASE Quiet(c, "stopLook", "stopLive")
    BY <2>2, QuietKeeps
  <2>3. CASE Quiet(c, "stopLook", "stopStale")
    BY <2>3, QuietKeeps
  <2>. QED
    BY <1>1, <2>1, <2>2, <2>3 DEF StopLook
<1>2. CASE FindPid(c)
  <2>1. PICK p \in Pids, to \in {"verb", "forget"} :
          /\ pc' = [pc EXCEPT ![c] = to]
          /\ child' = [child EXCEPT ![c] = p]
          /\ UNCHANGED <<lock, owner, socket, pidfile, stopped, phase, gate, pending,
                         observed, faults>>
    BY <1>2 DEF FindPid, Go, files, daemon
  <2>2. p \in Daemons \cup {None} /\ (p # None => phase[p] # "unborn")
    BY <2>1 DEF Pids, Alive, LifeInv, TypeOK
  <2>3. /\ CommandInv'
        /\ child' \in [Processes -> Daemons \cup {None}]
        /\ pc' \in [Processes -> UpStates \cup StopStates \cup IdleStates \cup LoginStates]
    BY <2>1, <2>2, CommandMoves
  <2>4. FilesInv'
    BY <2>1 DEF LifeInv, FilesInv, LockHeld, SocketHeld, PidPublished, LeavingMarked
  <2>5. TypeOK'
    BY <2>1, <2>3 DEF LifeInv, TypeOK
  <2>. QED
    BY <2>3, <2>4, <2>5 DEF LifeInv
<1>3. CASE Verb(c)
  <2>1. CASE Quiet(c, "verb", "term")
    BY <2>1, QuietKeeps
  <2>2. CASE ~Quiet(c, "verb", "term")
    <3>1. PICK to \in {"grace", "term"} :
            /\ pc' = [pc EXCEPT ![c] = to]
            /\ gate' = [gate EXCEPT ![socket] = TRUE]
            /\ UNCHANGED <<lock, owner, socket, pidfile, stopped, phase, pending, child,
                           observed, faults>>
      BY <1>3, <2>2 DEF Verb, Request, Go, files
    <3>2. /\ child[c] \in Daemons \cup {None}
          /\ child' = [child EXCEPT ![c] = child[c]]
          /\ child[c] # None => phase'[child[c]] # "unborn"
      BY <3>1 DEF LifeInv, TypeOK, CommandInv, ChildBorn, Processes
    <3>3. /\ CommandInv'
          /\ pc' \in [Processes -> UpStates \cup StopStates \cup IdleStates \cup LoginStates]
      BY <3>1, <3>2, CommandMoves
    <3>4. FilesInv'
      BY <3>1 DEF LifeInv, FilesInv, LockHeld, SocketHeld, PidPublished, LeavingMarked
    <3>5. TypeOK'
      BY <3>1, <3>3 DEF LifeInv, TypeOK
    <3>. QED
      BY <3>3, <3>4, <3>5 DEF LifeInv
  <2>. QED
    BY <2>1, <2>2
<1>4. CASE Grace(c)
  <2>1. CASE Quiet(c, "grace", "forget")
    BY <2>1, QuietKeeps
  <2>2. CASE Quiet(c, "grace", "term")
    BY <2>2, QuietKeeps
  <2>. QED
    BY <1>4, <2>1, <2>2 DEF Grace
<1>5. CASE Term(c)
  <2>1. CASE Quiet(c, "term", "done")
    BY <2>1, QuietKeeps
  <2>2. CASE Kill(c, "term", "forget")
    BY <2>2, KillKeeps
  <2>. QED
    BY <1>5, <2>1, <2>2 DEF Term
<1>6. CASE Forget(c)
  <2>1. /\ pc' = [pc EXCEPT ![c] = "done"]
        /\ child' = [child EXCEPT ![c] = None]
        /\ pidfile' = None
        /\ UNCHANGED <<lock, owner, socket, stopped, phase, gate, pending, observed, faults>>
    BY <1>6 DEF Forget, Go, daemon
  <2>2. /\ CommandInv'
        /\ child' \in [Processes -> Daemons \cup {None}]
        /\ pc' \in [Processes -> UpStates \cup StopStates \cup IdleStates \cup LoginStates]
    BY <2>1, CommandMoves
  <2>3. FilesInv'
    BY <2>1 DEF LifeInv, FilesInv, LockHeld, SocketHeld, PidPublished, LeavingMarked
  <2>4. TypeOK'
    BY <2>1, <2>2 DEF LifeInv, TypeOK
  <2>. QED
    BY <2>2, <2>3, <2>4 DEF LifeInv
<1>. QED
  BY <1>1, <1>2, <1>3, <1>4, <1>5, <1>6 DEF Stop

LEMMA IdleKeeps ==
    ASSUME LifeInv, NEW c \in Callers, IdleRestart(c)
    PROVE  LifeInv'
<1>. USE LifeAssumption DEF Commands, IdleStates, Alone, Parent, Bereft
<1>1. CASE IdleLook(c)
  <2>1. CASE Quiet(c, "idleLook", "start")
    BY <2>1, QuietKeeps DEF UpStates
  <2>2. CASE Quiet(c, "idleLook", "idle")
    BY <2>2, QuietKeeps
  <2>3. CASE Quiet(c, "idleLook", "done")
    BY <2>3, QuietKeeps DEF StopStates
  <2>. QED
    BY <1>1, <2>1, <2>2, <2>3 DEF IdleLook
<1>2. CASE Idle(c)
  <2>1. CASE Quiet(c, "idle", "done")
    BY <2>1, QuietKeeps DEF StopStates
  <2>2. CASE ~Quiet(c, "idle", "done")
    <3>1. PICK to \in {"idleWait", "done"}, k \in {socket, child[c]} :
            /\ pc' = [pc EXCEPT ![c] = to]
            /\ child' = [child EXCEPT ![c] = k]
            /\ gate' = [gate EXCEPT ![socket] = TRUE] \/ gate' = gate
            /\ pending' = [pending EXCEPT ![socket] = TRUE]
            /\ UNCHANGED <<lock, owner, socket, pidfile, stopped, phase, observed, faults>>
      <4>1. child = [child EXCEPT ![c] = child[c]]
        BY DEF LifeInv, TypeOK
      <4>. QED
        BY <1>2, <2>2, <4>1 DEF Idle, Request, Go, files
    <3>2. socket \in Daemons /\ phase[socket] # "unborn"
      BY <1>2, <2>2 DEF Idle, Answers, Answering, LifeInv, TypeOK
    <3>3. k \in Daemons \cup {None} /\ (k # None => phase[k] # "unborn")
      BY <3>1, <3>2 DEF LifeInv, CommandInv, ChildBorn, TypeOK, Processes
    <3>4. /\ CommandInv'
          /\ child' \in [Processes -> Daemons \cup {None}]
          /\ pc' \in [Processes -> UpStates \cup StopStates \cup IdleStates \cup LoginStates]
      BY <3>1, <3>3, CommandMoves DEF StopStates
    <3>5. FilesInv'
      BY <3>1 DEF LifeInv, FilesInv, LockHeld, SocketHeld, PidPublished, LeavingMarked
    <3>6. TypeOK'
      BY <3>1, <3>4 DEF LifeInv, TypeOK
    <3>. QED
      BY <3>4, <3>5, <3>6 DEF LifeInv
  <2>. QED
    BY <2>1, <2>2
<1>3. CASE IdleWait(c)
  <2>1. PICK to \in {"start", "done"} :
          /\ pc' = [pc EXCEPT ![c] = to]
          /\ child' = [child EXCEPT ![c] = None]
          /\ UNCHANGED <<lock, owner, socket, pidfile, stopped, phase, gate, pending,
                         observed, faults>>
    BY <1>3 DEF IdleWait, Go, files, daemon
  <2>2. /\ CommandInv'
        /\ child' \in [Processes -> Daemons \cup {None}]
        /\ pc' \in [Processes -> UpStates \cup StopStates \cup IdleStates \cup LoginStates]
    BY <2>1, CommandMoves DEF UpStates, StopStates
  <2>3. FilesInv'
    BY <2>1 DEF LifeInv, FilesInv, LockHeld, SocketHeld, PidPublished, LeavingMarked
  <2>4. TypeOK'
    BY <2>1, <2>2 DEF LifeInv, TypeOK
  <2>. QED
    BY <2>2, <2>3, <2>4 DEF LifeInv
<1>. QED
  BY <1>1, <1>2, <1>3 DEF IdleRestart

(* The supervisor: it changes nothing that a command knows. *)
LEMMA SupervisorKeeps ==
    ASSUME LifeInv, Supervisor
    PROVE  LifeInv'
<1>. USE LifeAssumption DEF Processes
<1>0. /\ child \in [Processes -> Daemons \cup {None}]
      /\ pc \in [Processes -> UpStates \cup StopStates \cup IdleStates \cup LoginStates]
      /\ Typed /\ ProbesHold /\ ChildBorn /\ NoChild /\ HasChild /\ ChildEnded
  BY DEF LifeInv, CommandInv, TypeOK
<1>1. CASE \E to \in LoginStates : Launch(Login, "launch", to)
  <2>1. PICK to \in LoginStates : Launch(Login, "launch", to)
    BY <1>1
  <2>2. /\ pc' = [pc EXCEPT ![Login] = to]
        /\ child' = [child EXCEPT ![Login] = Fresh]
        /\ UNCHANGED <<lock, owner, socket, pidfile, stopped, gate, pending, observed, faults>>
    BY <2>1 DEF Launch, Go, files
  <2>3. /\ FilesInv' /\ Fresh \in Daemons
        /\ phase' \in [Daemons -> Phases]
        /\ phase'[Fresh] # "unborn"
        /\ \A d \in Daemons : phase[d] \in Ended => phase'[d] \in Ended
        /\ \A d \in Daemons : phase[d] # "unborn" => phase'[d] # "unborn"
    BY <2>1, LaunchStarts
  <2>. HIDE DEF Fresh
  <2>4. /\ \A c \in Callers : pc'[c] = pc[c] /\ child'[c] = child[c]
        /\ child'[Login] = Fresh
        /\ child' \in [Processes -> Daemons \cup {None}]
        /\ pc' \in [Processes -> UpStates \cup StopStates \cup IdleStates \cup LoginStates]
    BY <1>0, <2>2, <2>3
  <2>5. Typed' /\ ProbesHold' /\ NoChild' /\ HasChild'
    BY <1>0, <2>2, <2>4 DEF Typed, ProbesHold, NoChild, HasChild
  <2>6. ChildBorn' /\ ChildEnded'
    BY <1>0, <2>3, <2>4 DEF ChildBorn, ChildEnded
  <2>7. TypeOK'
    BY <2>2, <2>3, <2>4 DEF LifeInv, TypeOK, Phases
  <2>. QED
    BY <2>3, <2>5, <2>6, <2>7 DEF LifeInv, CommandInv
<1>2. CASE ~\E to \in LoginStates : Launch(Login, "launch", to)
  <2>1. PICK to \in LoginStates : pc' = [pc EXCEPT ![Login] = to]
    BY <1>2 DEF Supervisor, Watch, Decide, Spawn, Reap, Disabled, Quiet, Finish, Go, LoginStates
  <2>2. /\ UNCHANGED <<lock, owner, socket, pidfile, stopped, phase, gate, pending, faults>>
        /\ child' = child \/ child' = [child EXCEPT ![Login] = None]
        /\ observed' \in BOOLEAN
    BY <1>2 DEF Supervisor, Watch, Decide, Spawn, Reap, Disabled, Quiet, Finish, LoginStates,
       files, daemon, LifeInv, TypeOK
  <2>3. /\ \A c \in Callers : pc'[c] = pc[c] /\ child'[c] = child[c]
        /\ child'[Login] \in {child[Login], None}
        /\ child' \in [Processes -> Daemons \cup {None}]
        /\ pc' \in [Processes -> UpStates \cup StopStates \cup IdleStates \cup LoginStates]
    BY <1>0, <2>1, <2>2
  <2>4. Typed' /\ ProbesHold' /\ ChildBorn' /\ NoChild' /\ HasChild' /\ ChildEnded'
    BY <1>0, <2>2, <2>3 DEF Typed, ProbesHold, ChildBorn, NoChild, HasChild, ChildEnded
  <2>5. FilesInv'
    BY <2>2 DEF LifeInv, FilesInv, LockHeld, SocketHeld, PidPublished, LeavingMarked
  <2>6. TypeOK'
    BY <2>2, <2>3 DEF LifeInv, TypeOK
  <2>. QED
    BY <2>4, <2>5, <2>6 DEF LifeInv, CommandInv
<1>. QED
  BY <1>1, <1>2

LEMMA NextLife == LifeInv /\ [Next]_vars => LifeInv'
<1>. SUFFICES ASSUME LifeInv, [Next]_vars PROVE LifeInv'
  OBVIOUS
<1>1. CASE \E d \in Daemons : DaemonStep(d)
  BY <1>1, DaemonKeeps
<1>2. CASE \E d \in Daemons : Crash(d)
  <2>1. PICK d \in Daemons : Crash(d)
    BY <1>2
  <2>2. phase[d] # "unborn" /\ Die(d) /\ UNCHANGED <<pc, child, observed>> /\ faults' \in Nat
    BY <2>1 DEF Crash, Alive, caller, LifeInv, TypeOK
  <2>3. CommandInv'
    BY <2>2, DieKeepsFiles, CommandsKept
  <2>4. TypeOK'
    BY <2>2, DieKeepsFiles DEF LifeInv, TypeOK, Die, Phases
  <2>. QED
    BY <2>2, <2>3, <2>4, DieKeepsFiles DEF LifeInv
<1>3. CASE \E c \in Callers : Up(c) \/ Stop(c) \/ IdleRestart(c)
  BY <1>3, UpKeeps, StopKeeps, IdleKeeps
<1>4. CASE Supervisor
  BY <1>4, SupervisorKeeps
<1>5. CASE UNCHANGED vars
  <2>1. FilesInv'
    BY <1>5 DEF vars, files, daemon, LifeInv, FilesInv, LockHeld, SocketHeld, PidPublished,
       LeavingMarked
  <2>2. CommandInv'
    BY <1>5 DEF vars, files, daemon, caller, LifeInv, CommandInv, Typed, ProbesHold,
       ChildBorn, NoChild, HasChild, ChildEnded
  <2>3. TypeOK'
    BY <1>5 DEF vars, files, daemon, caller, LifeInv, TypeOK
  <2>. QED
    BY <2>1, <2>2, <2>3 DEF LifeInv
<1>. QED
  BY <1>1, <1>2, <1>3, <1>4, <1>5 DEF Next

(* DaemonLife keeps LifeInv, whatever dies and whatever is lost. *)
LEMMA Life == Spec => []LifeInv
<1>. QED
  BY InitLife, NextLife, PTL DEF Spec

-----------------------------------------------------------------------------
(* Every process, file and flag keeps its type. *)
THEOREM TypeCorrect == Spec => []TypeOK
<1>1. LifeInv => TypeOK
  BY DEF LifeInv
<1>. QED
  BY Life, <1>1, PTL

(* Whoever answers holds the instance lock and owns the socket: no order of *)
(* starts, stops, crashes and takeovers yields two servers.                 *)
THEOREM OneServes == Spec => []OneServer
<1>1. LifeInv => OneServer
  BY DEF LifeInv, FilesInv, LockHeld, SocketHeld, Owning, Listening, OneServer, Answering
<1>. QED
  BY Life, <1>1, PTL

(* The pid in the pidfile, while it runs, is the owner of the instance.     *)
THEOREM PidfileTrue == Spec => []PidfileNamesOwner
<1>1. LifeInv => PidfileNamesOwner
  BY DEF LifeInv, TypeOK, FilesInv, LockHeld, PidPublished, Owning, Published,
     PidfileNamesOwner, Alive, Ended
<1>. QED
  BY Life, <1>1, PTL

(* Only `pmux up` moves a caller to the end of a start. *)
LEMMA UpReports ==
    ASSUME LifeInv, [Next]_vars, NEW c \in Callers,
           pc'[c] # pc[c], pc'[c] \in {"started", "failed"}
    PROVE  \/ pc'[c] = "started" /\ ReadPid(c)
           \/ pc'[c] = "failed" /\ (DropProbe(c) \/ GiveUp(c))
<1>. USE LifeAssumption DEF Processes
<1>1. pc \in [Processes -> UpStates \cup StopStates \cup IdleStates \cup LoginStates]
  BY DEF LifeInv, TypeOK
<1>2. ASSUME NEW e \in Processes, NEW to, pc' = [pc EXCEPT ![e] = to]
      PROVE  e = c /\ to = pc'[c]
  BY <1>1, <1>2
<1>3. ~UNCHANGED pc
  OBVIOUS
<1>4. \A d \in Daemons : ~DaemonStep(d) /\ ~Crash(d)
  BY <1>3 DEF DaemonStep, TakeLock, LoseLock, Bind, Publish, Wake, StopAccepting,
     RemoveSocket, Exit, Advance, Crash, caller
<1>5. ~Supervisor
  BY <1>2 DEF Supervisor, Watch, Decide, Spawn, Reap, Disabled, Quiet, Finish, Launch, Go
<1>6. \A e \in Callers : ~Stop(e)
  BY <1>2 DEF Stop, StopLook, FindPid, Verb, Grace, Term, Forget, Quiet, Kill, Go
<1>7. \A e \in Callers : ~IdleRestart(e)
  BY <1>2 DEF IdleRestart, IdleLook, Idle, IdleWait, Quiet, Go
<1>8. PICK e \in Callers : Up(e)
  BY <1>3, <1>4, <1>5, <1>6, <1>7 DEF Next, vars, caller
<1>. QED
  BY <1>2, <1>8 DEF Up, FindHeld, TakeProbe, DropProbe, WaitHeld, Look, Poll, Ask, ReadPid,
     AskExited, GiveUp, Quiet, Finish, Launch, Kill, Go

(* `pmux up` reports a start only of its own child, when that one owns the  *)
(* instance, and a failure only when its child has ended.                   *)
THEOREM UpIsTrue == Spec => UpTellsTruth
<1>. DEFINE Truth(c) == /\ pc'[c] = "started" /\ pc[c] # "started" =>
                              /\ lock = child[c]
                              /\ socket = child[c] \/ phase[child[c]] = "closed"
                        /\ pc'[c] = "failed" /\ child[c] # None =>
                              phase'[child[c]] \in Ended
<1>1. ASSUME LifeInv, LifeInv', [Next]_vars, NEW c \in Callers PROVE Truth(c)
  <2>. USE LifeAssumption
  <2>0. /\ child[c] \in Daemons \cup {None}
        /\ pc \in [Processes -> UpStates \cup StopStates \cup IdleStates \cup LoginStates]
    BY <1>1 DEF LifeInv, TypeOK, Processes
  <2>1. ASSUME pc'[c] = "started", pc[c] # "started"
        PROVE  lock = child[c] /\ (socket = child[c] \/ phase[child[c]] = "closed")
    <3>1. ReadPid(c)
      BY <1>1, <2>1, UpReports
    <3>2. ~Quiet(c, "readPid", "poll")
      BY <2>0, <2>1 DEF Quiet, Go, Processes
    <3>3. pc[c] = "readPid" /\ pidfile = child[c] /\ Alive(child[c])
      BY <3>1, <3>2 DEF ReadPid
    <3>4. child[c] \in Daemons
      BY <1>1, <2>0, <3>3 DEF LifeInv, CommandInv, HasChild, Parent
    <3>5. phase[child[c]] \in {"ready", "leaving", "closing", "closed"}
      BY <1>1, <3>3, <3>4 DEF LifeInv, FilesInv, PidPublished, Published, Alive, Ended
    <3>. QED
      BY <1>1, <3>4, <3>5 DEF LifeInv, FilesInv, LockHeld, SocketHeld, Owning, Listening
  <2>2. ASSUME pc'[c] = "failed", child[c] # None PROVE phase'[child[c]] \in Ended
    <3>1. pc[c] # "failed"
      BY <1>1, <2>2 DEF LifeInv, CommandInv, NoChild, Alone
    <3>2. DropProbe(c) \/ GiveUp(c)
      BY <1>1, <2>2, <3>1, UpReports
    <3>3. CASE DropProbe(c)
      <4>1. pc[c] = "probing" \/ (pc[c] = "reprobing" /\ UNCHANGED phase)
        BY <3>3 DEF DropProbe, Go, daemon
      <4>2. pc[c] # "probing"
        BY <1>1, <2>2 DEF LifeInv, CommandInv, NoChild, Alone
      <4>. QED
        BY <1>1, <2>2, <4>1, <4>2 DEF LifeInv, CommandInv, ChildEnded, Bereft
    <3>4. CASE GiveUp(c)
      <4>1. pc[c] # "held"
        BY <1>1, <2>2 DEF LifeInv, CommandInv, NoChild, Alone
      <4>2. Kill(c, "poll", "failed")
        BY <3>4, <4>1 DEF GiveUp, Quiet, Go
      <4>. QED
        BY <1>1, <2>2, <4>2, KillKeeps DEF Commands, UpStates, Parent
    <3>. QED
      BY <3>2, <3>3, <3>4
  <2>. QED
    BY <2>1, <2>2
<1>2. LifeInv /\ LifeInv' /\ [Next]_vars => [\A c \in Callers : Truth(c)]_vars
  BY <1>1
<1>. QED
  BY Life, <1>2, PTL DEF Spec, UpTellsTruth

(* A supervisor that has seen a daemon answer does not go past its look for *)
(* the marker after a stop on purpose.                                      *)
THEOREM StopIsRespected == Spec => StopRespected
<1>. DEFINE Respect == observed /\ pc[Login] = "decide" /\ pc'[Login] = "launch" =>
                          owner = None \/ phase[owner] \notin Departed
<1>1. ASSUME LifeInv, [Next]_vars PROVE Respect
  <2>. SUFFICES ASSUME observed, pc[Login] = "decide", pc'[Login] = "launch"
                PROVE  owner = None \/ phase[owner] \notin Departed
    OBVIOUS
  <2>. USE LifeAssumption
  <2>1. pc \in [Processes -> UpStates \cup StopStates \cup IdleStates \cup LoginStates]
    BY <1>1 DEF LifeInv, TypeOK
  <2>2. ASSUME NEW e \in Callers, NEW to, pc' = [pc EXCEPT ![e] = to] PROVE FALSE
    BY <2>1, <2>2 DEF Processes
  <2>3. ~UNCHANGED pc
    OBVIOUS
  <2>4. \A d \in Daemons : ~DaemonStep(d) /\ ~Crash(d)
    BY <2>3 DEF DaemonStep, TakeLock, LoseLock, Bind, Publish, Wake, StopAccepting,
       RemoveSocket, Exit, Advance, Crash, caller
  <2>5. \A e \in Callers : ~Stop(e)
    BY <2>2 DEF Stop, StopLook, FindPid, Verb, Grace, Term, Forget, Quiet, Kill, Go
  <2>6. \A e \in Callers : ~IdleRestart(e)
    BY <2>2 DEF IdleRestart, IdleLook, Idle, IdleWait, Quiet, Go
  <2>7. \A e \in Callers : ~Up(e)
    BY <2>2 DEF Up, FindHeld, TakeProbe, DropProbe, WaitHeld, Look, Poll, Ask, ReadPid,
       AskExited, GiveUp, Quiet, Finish, Launch, Kill, Go
  <2>8. Supervisor
    BY <1>1, <2>3, <2>4, <2>5, <2>6, <2>7 DEF Next, vars, caller
  <2>9. ~stopped
    BY <2>1, <2>8 DEF Supervisor, Watch, Decide, Spawn, Reap, Disabled, Quiet, Finish, Launch,
       Go, Processes
  <2>. QED
    BY <1>1, <2>9 DEF LifeInv, FilesInv, LeavingMarked
<1>2. LifeInv /\ [Next]_vars => [Respect]_vars
  BY <1>1
<1>. QED
  BY Life, <1>2, PTL DEF Spec, StopRespected, Departed

-----------------------------------------------------------------------------
(* A daemon that was asked to end. *)

(* The phases of a daemon that was or could be asked. *)
Serving == {"bound", "ready", "leaving", "closing", "closed"}

GateInv == \A d \in Daemons : gate[d] => phase[d] \in Serving

(* The request a command waits for has not been forgotten. *)
WaitInv ==
    \A c \in Callers : pc[c] = "idleWait" /\ child[c] # None =>
        gate[child[c]] \/ phase[child[c]] \in Ended

(* What a step can do to a daemon: its own step, its death, its birth, or   *)
(* a request.                                                               *)
Moves(d) ==
    \/ DaemonStep(d)
    \/ phase'[d] = "dead" /\ ~gate'[d]
    \/ phase[d] = "unborn" /\ phase'[d] = "spawned" /\ gate'[d] = gate[d]
    \/ /\ phase'[d] = phase[d]
       /\ gate'[d] = gate[d] \/ (gate'[d] /\ phase[d] \in Answering)

LEMMA PhaseMoves ==
    ASSUME LifeInv, [Next]_vars, NEW d \in Daemons
    PROVE  Moves(d)
<1>0. /\ phase \in [Daemons -> Phases]
      /\ gate \in [Daemons -> BOOLEAN]
  BY DEF LifeInv, TypeOK, Phases
<1>1. ASSUME UNCHANGED <<phase, gate>> PROVE Moves(d)
  BY <1>1 DEF Moves
<1>2. ASSUME NEW e \in Daemons, DaemonStep(e) PROVE Moves(d)
  BY <1>0, <1>2 DEF Moves, DaemonStep, TakeLock, LoseLock, Bind, Publish, Wake, StopAccepting,
     RemoveSocket, Exit, Advance
<1>3. ASSUME NEW e \in Daemons, Die(e) PROVE Moves(d)
  BY <1>0, <1>3 DEF Moves, Die
<1>4. ASSUME NEW c, NEW from, NEW to, Launch(c, from, to) PROVE Moves(d)
  <2>1. phase[Fresh] = "unborn"
    BY <1>4 DEF Launch, Fresh
  <2>. HIDE DEF Fresh
  <2>. QED
    BY <1>0, <1>4, <2>1 DEF Moves, Launch
<1>5. ASSUME Answers, gate' = [gate EXCEPT ![socket] = TRUE], UNCHANGED phase PROVE Moves(d)
  BY <1>0, <1>5 DEF Moves, Answers
<1>6. ASSUME NEW c \in Callers, Up(c) PROVE Moves(d)
  <2>1. CASE \E from, to : Launch(c, from, to)
    BY <2>1, <1>4
  <2>2. CASE \E e \in Daemons : Die(e)
    BY <2>2, <1>3
  <2>3. CASE /\ ~\E from, to : Launch(c, from, to)
             /\ ~\E e \in Daemons : Die(e)
    <3>1. child[c] \in Daemons \cup {None}
      BY DEF LifeInv, TypeOK, Processes
    <3>. QED
      BY <1>1, <1>6, <2>3, <3>1 DEF Up, FindHeld, TakeProbe, DropProbe, WaitHeld, Look, Poll,
         Ask, ReadPid, AskExited, GiveUp, Quiet, Finish, Kill, daemon
  <2>. QED
    BY <2>1, <2>2, <2>3
<1>7. ASSUME NEW c \in Callers, Stop(c) PROVE Moves(d)
  <2>1. CASE \E e \in Daemons : Die(e)
    BY <2>1, <1>3
  <2>2. CASE ~\E e \in Daemons : Die(e)
    <3>1. child[c] \in Daemons \cup {None}
      BY DEF LifeInv, TypeOK, Processes
    <3>. QED
      BY <1>1, <1>5, <1>7, <2>2, <3>1 DEF Stop, StopLook, FindPid, Verb, Request, Grace, Term,
         Forget, Quiet, Kill, daemon
  <2>. QED
    BY <2>1, <2>2
<1>8. ASSUME NEW c \in Callers, IdleRestart(c) PROVE Moves(d)
  BY <1>1, <1>5, <1>8 DEF IdleRestart, IdleLook, Idle, IdleWait, Request, Quiet, daemon
<1>9. ASSUME Supervisor PROVE Moves(d)
  BY <1>1, <1>4, <1>9 DEF Supervisor, Watch, Decide, Spawn, Reap, Disabled, Quiet, Finish, daemon
<1>10. ASSUME NEW e \in Daemons, Crash(e) PROVE Moves(d)
  BY <1>3, <1>10 DEF Crash
<1>11. ASSUME UNCHANGED vars PROVE Moves(d)
  BY <1>1, <1>11 DEF vars, daemon
<1>. QED
  BY <1>2, <1>6, <1>7, <1>8, <1>9, <1>10, <1>11 DEF Next

(* A request stands until its daemon has ended. *)
LEMMA GateStands ==
    ASSUME LifeInv, GateInv, [Next]_vars, NEW d \in Daemons
    PROVE  /\ phase'[d] \in Ended \/ (gate[d] => gate'[d])
           /\ gate'[d] => phase'[d] \in Serving
           /\ phase[d] \in Ended => phase'[d] \in Ended
<1>1. Moves(d)
  BY PhaseMoves
<1>2. CASE DaemonStep(d)
  <2>1. /\ phase \in [Daemons -> Phases]
        /\ gate \in [Daemons -> BOOLEAN]
    BY DEF LifeInv, TypeOK, Phases
  <2>. QED
    BY <1>2, <2>1 DEF GateInv, Serving, Ended, DaemonStep, TakeLock, LoseLock, Bind, Publish,
       Wake, StopAccepting, RemoveSocket, Exit, Advance
<1>3. CASE ~DaemonStep(d)
  BY <1>1, <1>3 DEF Moves, GateInv, Serving, Answering, Ended
<1>. QED
  BY <1>2, <1>3

(* A command begins to wait only by having its request heard. *)
LEMMA WaitBegins ==
    ASSUME LifeInv, [Next]_vars, NEW c \in Callers,
           pc'[c] = "idleWait", child'[c] # None
    PROVE  \/ pc[c] = "idleWait" /\ child'[c] = child[c]
           \/ child'[c] \in Daemons /\ gate'[child'[c]]
<1>. USE LifeAssumption
<1>1. /\ child \in [Processes -> Daemons \cup {None}]
      /\ pc \in [Processes -> UpStates \cup StopStates \cup IdleStates \cup LoginStates]
      /\ gate \in [Daemons -> BOOLEAN]
      /\ socket \in Daemons \cup {None}
  BY DEF LifeInv, TypeOK
<1>2. CASE UNCHANGED <<pc, child>>
  BY <1>2
<1>3. CASE \E d \in Daemons : DaemonStep(d) \/ Crash(d)
  BY <1>2, <1>3 DEF DaemonStep, TakeLock, LoseLock, Bind, Publish, Wake, StopAccepting,
     RemoveSocket, Exit, Advance, Crash, caller
<1>4. ASSUME NEW e \in Processes, NEW from, NEW to, Go(e, from, to), e # c, UNCHANGED child
      PROVE  pc[c] = "idleWait" /\ child'[c] = child[c]
  BY <1>1, <1>4 DEF Go, Processes
<1>5. ASSUME NEW e \in Processes, NEW from, NEW to, Go(e, from, to), to # "idleWait"
      PROVE  e # c /\ pc[c] = "idleWait"
  BY <1>1, <1>5 DEF Go, Processes
<1>6. ASSUME NEW e \in Processes, NEW k, child' = [child EXCEPT ![e] = k], e # c
      PROVE  child'[c] = child[c]
  BY <1>1, <1>6 DEF Processes
<1>7. ASSUME NEW e \in Callers, Up(e) PROVE pc[c] = "idleWait" /\ child'[c] = child[c]
  <2>1. e \in Processes
    BY DEF Processes
  <2>. QED
    BY <1>5, <1>6, <1>7, <2>1 DEF Up, FindHeld, TakeProbe, DropProbe, WaitHeld, Look, Poll,
       Ask, ReadPid, AskExited, GiveUp, Quiet, Finish, Launch, Kill
<1>8. ASSUME NEW e \in Callers, Stop(e) PROVE pc[c] = "idleWait" /\ child'[c] = child[c]
  <2>1. e \in Processes
    BY DEF Processes
  <2>. QED
    BY <1>5, <1>6, <1>8, <2>1 DEF Stop, StopLook, FindPid, Verb, Grace, Term, Forget, Quiet, Kill
<1>9. CASE Supervisor
  <2>1. Login \in Processes
    BY DEF Processes
  <2>. QED
    BY <1>5, <1>6, <1>9, <2>1 DEF Supervisor, Watch, Decide, Spawn, Reap, Disabled, Quiet,
       Finish, Launch
<1>10. ASSUME NEW e \in Callers, IdleRestart(e)
       PROVE  \/ pc[c] = "idleWait" /\ child'[c] = child[c]
              \/ child'[c] \in Daemons /\ gate'[child'[c]]
  <2>1. e \in Processes
    BY DEF Processes
  <2>2. CASE IdleLook(e) \/ IdleWait(e)
    BY <1>5, <1>6, <2>1, <2>2 DEF IdleLook, IdleWait, Quiet
  <2>3. CASE Idle(e)
    <3>1. CASE Quiet(e, "idle", "done")
      BY <1>5, <2>1, <3>1 DEF Quiet
    <3>2. CASE Go(e, "idle", "done") /\ UNCHANGED child
      BY <1>5, <2>1, <3>2
    <3>3. CASE /\ Go(e, "idle", "idleWait")
               /\ Answers
               /\ Request(socket)
               /\ child' = [child EXCEPT ![e] = socket]
      <4>1. CASE e = c
        BY <1>1, <2>1, <3>3, <4>1 DEF Request, Answers
      <4>2. CASE e # c
        BY <1>1, <2>1, <3>3, <4>2 DEF Go, Processes
      <4>. QED
        BY <4>1, <4>2
    <3>. QED
      BY <2>3, <3>1, <3>2, <3>3 DEF Idle
  <2>. QED
    BY <1>10, <2>2, <2>3 DEF IdleRestart
<1>11. CASE UNCHANGED vars
  BY <1>2, <1>11 DEF vars, caller
<1>. QED
  BY <1>3, <1>7, <1>8, <1>9, <1>10, <1>11 DEF Next

AskedInv == LifeInv /\ GateInv /\ WaitInv

LEMMA NextAsked == AskedInv /\ [Next]_vars => AskedInv'
<1>. SUFFICES ASSUME AskedInv, [Next]_vars PROVE AskedInv'
  OBVIOUS
<1>0. LifeInv /\ GateInv /\ WaitInv
  BY DEF AskedInv
<1>1. LifeInv'
  BY <1>0, NextLife
<1>2. GateInv'
  BY <1>0, GateStands DEF GateInv
<1>3. WaitInv'
  <2>. SUFFICES ASSUME NEW c \in Callers, pc'[c] = "idleWait", child'[c] # None
                PROVE  gate'[child'[c]] \/ phase'[child'[c]] \in Ended
    BY DEF WaitInv
  <2>1. child'[c] \in Daemons
    BY <1>1 DEF LifeInv, TypeOK, Processes
  <2>2. CASE pc[c] = "idleWait" /\ child'[c] = child[c]
    <3>1. gate[child[c]] \/ phase[child[c]] \in Ended
      BY <1>0, <2>2 DEF WaitInv
    <3>. QED
      BY <1>0, <2>1, <2>2, <3>1, GateStands
  <2>. QED
    BY <1>0, <2>2, WaitBegins
<1>. QED
  BY <1>1, <1>2, <1>3 DEF AskedInv

LEMMA Asked == Init /\ [][Next]_vars => []AskedInv
<1>1. Init => GateInv /\ WaitInv
  BY DEF Init, GateInv, WaitInv, Processes
<1>2. Init => AskedInv
  BY <1>1, InitLife DEF AskedInv
<1>. QED
  BY <1>2, NextAsked, PTL

(* The stages of a daemon whose gate is open. *)
At(d, x) == gate[d] /\ phase[d] = x
Gone(d) == phase[d] \in Ended
Awaited(d) == \E c \in Callers : pc[c] = "idleWait" /\ child[c] = d
Onward(d) ==
    \/ At(d, "bound")
    \/ At(d, "ready")
    \/ At(d, "leaving")
    \/ At(d, "closing")
    \/ At(d, "closed")

After(x) ==
    CASE x = "bound" -> "ready"
      [] x = "ready" -> "leaving"
      [] x = "leaving" -> "closing"
      [] x = "closing" -> "closed"
      [] x = "closed" -> "exited"

(* The guards of the steps of a daemon that serves. *)
MayStep(d) ==
    \/ phase[d] = "bound"
    \/ phase[d] = "ready" /\ gate[d]
    \/ phase[d] \in {"leaving", "closing", "closed"}

(* A daemon that was asked to end, or that a command waits for, can always  *)
(* take its next step: it never waits for a lock, a socket or a second      *)
(* request.  (HeardMoves with the guards of the steps written out.)         *)
THEOREM HeardMayStep ==
    Spec => [](\A d \in Daemons : gate[d] \/ (Awaited(d) /\ ~Gone(d)) => MayStep(d))
<1>1. AskedInv => \A d \in Daemons : gate[d] \/ (Awaited(d) /\ ~Gone(d)) => MayStep(d)
  <2>. SUFFICES ASSUME AskedInv, NEW d \in Daemons, gate[d] \/ (Awaited(d) /\ ~Gone(d))
                PROVE  MayStep(d)
    OBVIOUS
  <2>1. gate[d]
    BY LifeAssumption DEF AskedInv, WaitInv, Awaited, Gone
  <2>2. phase[d] \in Serving
    BY <2>1 DEF AskedInv, GateInv
  <2>. QED
    BY <2>1, <2>2 DEF MayStep, Serving
<1>. QED
  BY <1>1, Asked, PTL DEF Spec

(* A daemon whose gate is open goes to its next stage with each step of its *)
(* own, and no other step takes it back.                                    *)
LEMMA StageStep ==
    ASSUME AskedInv, [Next]_vars, NEW d \in Daemons, NEW x \in Serving, At(d, x)
    PROVE  /\ At(d, x)' \/ At(d, After(x))' \/ Gone(d)'
           /\ DaemonStep(d) => At(d, After(x))' \/ Gone(d)'
<1>0. /\ phase \in [Daemons -> Phases]
      /\ gate \in [Daemons -> BOOLEAN]
      /\ LifeInv
  BY DEF AskedInv, LifeInv, TypeOK, Phases
<1>1. ASSUME DaemonStep(d) PROVE At(d, After(x))' \/ Gone(d)'
  BY <1>0, <1>1 DEF At, After, Gone, Serving, Ended, DaemonStep, TakeLock, LoseLock, Bind,
     Publish, Wake, StopAccepting, RemoveSocket, Exit, Advance
<1>2. ASSUME ~DaemonStep(d) PROVE At(d, x)' \/ Gone(d)'
  <2>1. Moves(d)
    BY <1>0, PhaseMoves
  <2>. QED
    BY <1>0, <1>2, <2>1 DEF Moves, At, Gone, Ended, Serving
<1>. QED
  BY <1>1, <1>2

Turn(d) == WF_vars(DaemonStep(d))

LEMMA TurnsTaken == Fairness => \A d \in Daemons : Turn(d)
  BY PTL DEF Fairness, Turn

(* A daemon whose idle restart was heard ends: WF1 along its stages.  That  *)
(* the daemon can take its next step at each stage is HeardMoves, which the *)
(* run checks: the prover has HeardMayStep, and no backend of it takes the  *)
(* last step from a guard to ENABLED.                                       *)
LEMMA DaemonEnds ==
    ASSUME NEW d \in Daemons
    PROVE  Init /\ [][Next]_vars /\ Turn(d) /\ []HeardMoves => (Awaited(d) ~> Gone(d))
<1>1. Init /\ [][Next]_vars => []AskedInv
  BY Asked
<1>2. AskedInv /\ Awaited(d) => Gone(d) \/ Onward(d)
  <2>. SUFFICES ASSUME AskedInv, Awaited(d), ~Gone(d) PROVE Onward(d)
    OBVIOUS
  <2>1. gate[d]
    BY LifeAssumption DEF AskedInv, WaitInv, Awaited, Gone
  <2>2. phase[d] \in Serving
    BY <2>1 DEF AskedInv, GateInv
  <2>. QED
    BY <2>1, <2>2 DEF Onward, At, Serving
<1>3. HeardMoves /\ Onward(d) => ENABLED <<DaemonStep(d)>>_vars
  BY DEF HeardMoves, Onward, At
<1>4. \A x \in Serving : AskedInv /\ At(d, x) /\ [Next]_vars
         => /\ At(d, x)' \/ At(d, After(x))' \/ Gone(d)'
            /\ DaemonStep(d) => At(d, After(x))' \/ Gone(d)'
  BY StageStep
<1>5. AskedInv /\ At(d, "bound") /\ [Next]_vars
         => /\ (At(d, "bound") \/ At(d, "ready") \/ Gone(d))'
            /\ DaemonStep(d) => (At(d, "ready") \/ Gone(d))'
  BY <1>4 DEF Serving, After
<1>6. AskedInv /\ At(d, "ready") /\ [Next]_vars
         => /\ (At(d, "ready") \/ At(d, "leaving") \/ Gone(d))'
            /\ DaemonStep(d) => (At(d, "leaving") \/ Gone(d))'
  BY <1>4 DEF Serving, After
<1>7. AskedInv /\ At(d, "leaving") /\ [Next]_vars
         => /\ (At(d, "leaving") \/ At(d, "closing") \/ Gone(d))'
            /\ DaemonStep(d) => (At(d, "closing") \/ Gone(d))'
  BY <1>4 DEF Serving, After
<1>8. AskedInv /\ At(d, "closing") /\ [Next]_vars
         => /\ (At(d, "closing") \/ At(d, "closed") \/ Gone(d))'
            /\ DaemonStep(d) => (At(d, "closed") \/ Gone(d))'
  BY <1>4 DEF Serving, After
<1>9. AskedInv /\ At(d, "closed") /\ [Next]_vars
         => /\ (At(d, "closed") \/ Gone(d))'
            /\ DaemonStep(d) => Gone(d)'
  BY <1>4 DEF Serving, After, At, Gone, Ended
<1>. QED
  BY <1>1, <1>2, <1>3, <1>5, <1>6, <1>7, <1>8, <1>9, PTL DEF Turn, Onward

(* ShutdownGate: a daemon whose idle restart was accepted and heard ends,   *)
(* however many commands, daemons and faults there are, also when it was    *)
(* asked before it came to its gate.                                        *)
THEOREM HeardEnds == Spec /\ []HeardMoves => AcceptedEnds
  BY DaemonEnds, TurnsTaken DEF Spec, AcceptedEnds, Awaited, Gone
=============================================================================
