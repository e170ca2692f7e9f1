-------------------------------- MODULE Daemon --------------------------------
(***************************************************************************)
(* The life of the daemon process and the two commands that start and stop *)
(* it: CoreApp.run with the lock of its home, the port and the control     *)
(* file; `core start`, which spawns a process and waits until that process *)
(* answers; `core stop`, which reads the control file and asks for a       *)
(* shutdown with the token found there.  Commands, processes of several    *)
(* homes and SIGKILL meet in any order; the files and the port are what    *)
(* they share.  A launch stands for its `core start` command, its launch   *)
(* id, the process it spawns and the token of that process.                *)
(***************************************************************************)
EXTENDS Naturals

CONSTANTS Launches,  \* `core start` commands, each with its process
          Stops,     \* `core stop` commands
          Homes,     \* state directories; all of them use one port
          HomeOf,    \* the home of a command
          None,
          MaxKills   \* bound: processes killed from outside

Commands == Launches \cup Stops

ASSUME DaemonAssumption ==
  /\ None \notin Launches /\ Launches \cap Stops = {}
  /\ HomeOf \in [Commands -> Homes] /\ MaxKills \in Nat

VARIABLES
  cmd,      \* what a command is at, and whose control record it read (_.of)
  told,     \* what it told its user
  late,     \* the commands that gave up on a daemon that has their request in its hands
  daemon,   \* the process of a launch
  shut,     \* the processes whose shutdown event is set
  control,  \* whose record the control file of a home holds
  lock,     \* who holds core.lock of a home
  port,     \* who listens
  kills

vars == <<cmd, told, late, daemon, shut, control, lock, port, kills>>
process == <<late, daemon, shut, lock, port, kills>>

Stages == {"none", "spawned", "recovering", "starting", "bound", "serving", "cleaning",
           "removing", "unlinking", "unlocking", "gone"}
Points == {"idle", "missing", "waiting", "pinging", "failing", "asking", "settling",
           "refused", "forgetting", "unlinking", "terminating", "killing", "ended"}
Home(x)  == HomeOf[x]
Alive(d) == daemon[d] \notin {"none", "gone"}

TypeOK ==
  /\ cmd \in [Commands -> [at : Points, of : Launches \cup {None}]]
  /\ told \in [Commands -> {"nothing", "already", "started", "failed", "stopped", "absent", "error"}]
  /\ late \subseteq Commands
  /\ daemon \in [Launches -> Stages]
  /\ shut \subseteq Launches
  /\ control \in [Homes -> Launches \cup {None}]
  /\ lock \in [Homes -> Launches \cup {None}]
  /\ port \in Launches \cup {None}
  /\ kills \in 0..MaxKills

Init ==
  /\ cmd = [x \in Commands |-> [at |-> "idle", of |-> None]]
  /\ told = [x \in Commands |-> "nothing"] /\ late = {}
  /\ daemon = [d \in Launches |-> "none"] /\ shut = {}
  /\ control = [h \in Homes |-> None] /\ lock = [h \in Homes |-> None] /\ port = None
  /\ kills = 0

-----------------------------------------------------------------------------
(* The process: CoreApp.run                                                *)

Becomes(d, stage) == daemon' = [daemon EXCEPT ![d] = stage]
Leaves(f, d)      == [h \in Homes |-> IF f[h] = d THEN None ELSE f[h]]

Lock(d) ==
  /\ daemon[d] = "spawned"
  /\ \/ lock[Home(d)] = None /\ Becomes(d, "recovering") /\ lock' = [lock EXCEPT ![Home(d)] = d]
     \/ lock[Home(d)] # None /\ Becomes(d, "gone") /\ UNCHANGED lock
  /\ UNCHANGED <<cmd, told, late, shut, control, port, kills>>

\* recover_core_sandboxes, the resources, recover_interrupted.
Recover(d) ==
  /\ daemon[d] = "recovering" /\ Becomes(d, "starting")
  /\ UNCHANGED <<cmd, told, late, shut, control, lock, port, kills>>

\* SocketServer.start gives way to whoever listens.
Bind(d) ==
  /\ daemon[d] = "starting"
  /\ \/ port = None /\ Becomes(d, "bound") /\ port' = d
     \/ port # None /\ Becomes(d, "cleaning") /\ UNCHANGED port
  /\ UNCHANGED <<cmd, told, late, shut, control, lock, kills>>

Announce(d) ==
  /\ daemon[d] = "bound" /\ Becomes(d, "serving")
  /\ control' = [control EXCEPT ![Home(d)] = d]
  /\ UNCHANGED <<cmd, told, late, shut, lock, port, kills>>

\* The shutdown event, or a startup that fails: the server goes first.
Leave(d) ==
  /\ daemon[d] \in {"recovering", "starting", "bound"} \/ (daemon[d] = "serving" /\ d \in shut)
  /\ Becomes(d, "cleaning")
  /\ port' = IF port = d THEN None ELSE port
  /\ UNCHANGED <<cmd, told, late, shut, control, lock, kills>>

\* Defect: the lock is released before the resources are closed.
ReleasesFirst(d) == lock' = Leaves(lock, d)
KeepsLock(d) == lock' = lock

CleanUp(d) ==
  /\ daemon[d] = "cleaning" /\ Becomes(d, "removing")
  /\ KeepsLock(d)
  /\ UNCHANGED <<cmd, told, late, shut, control, port, kills>>

\* remove_control_file reads the file, compares the token, and then unlinks the path.
ReadOwn(d) ==
  /\ daemon[d] = "removing"
  /\ Becomes(d, IF control[Home(d)] = d THEN "unlinking" ELSE "unlocking")
  /\ UNCHANGED <<cmd, told, late, shut, control, lock, port, kills>>

UnlinkOwn(d) ==
  /\ daemon[d] = "unlinking" /\ Becomes(d, "unlocking")
  /\ control' = [control EXCEPT ![Home(d)] = None]
  /\ UNCHANGED <<cmd, told, late, shut, lock, port, kills>>

Release(d) ==
  /\ daemon[d] = "unlocking" /\ Becomes(d, "gone")
  /\ lock' = Leaves(lock, d)
  /\ UNCHANGED <<cmd, told, late, shut, control, port, kills>>

\* The operating system takes back the lock and the port; the control file stays.
Dies(d) ==
  /\ Becomes(d, "gone")
  /\ lock' = Leaves(lock, d)
  /\ port' = IF port = d THEN None ELSE port

Kill(d) ==
  /\ Alive(d) /\ kills < MaxKills /\ kills' = kills + 1
  /\ Dies(d)
  /\ UNCHANGED <<cmd, told, late, shut, control>>

-----------------------------------------------------------------------------
(* Both commands: asking for the shutdown, waiting for it, forgetting the  *)
(* control file.                                                           *)

At(x, stage)  == cmd' = [cmd EXCEPT ![x].at = stage]
Ends(x, what) == At(x, "ended") /\ told' = [told EXCEPT ![x] = what]
Of(x)         == cmd[x].of

\* Defect: a daemon takes every token.
AnyToken(x) == port # None
TokenFits(x) == port = Of(x)

\* A stop that finds nobody says so and removes the record.
FindsNobody(x) ==
  At(x, "forgetting") /\ told' = [told EXCEPT ![x] = IF x \in Stops THEN "absent" ELSE @]

(***************************************************************************)
(* A start that cleans up goes on whatever the answer is.  A TimeoutError  *)
(* is an OSError: a stop takes a daemon that is late for one that is gone. *)
(***************************************************************************)
Ask(x) ==
  /\ cmd[x].at = "asking"
  /\ \/ /\ TokenFits(x) /\ daemon[port] = "serving"
        /\ shut' = shut \cup {port} /\ At(x, "settling") /\ UNCHANGED <<told, late>>
     \/ /\ port = None /\ FindsNobody(x) /\ UNCHANGED <<shut, late>>    \* refused
     \/ /\ UNCHANGED <<shut, late>>                                  \* no such token, or hung up
        /\ IF x \in Stops THEN Ends(x, "error") ELSE At(x, "forgetting") /\ UNCHANGED told
     \/ /\ port # None /\ FindsNobody(x)                            \* no answer in time
        /\ late' = IF TokenFits(x) THEN late \cup {x} ELSE late
        /\ UNCHANGED shut
  /\ UNCHANGED <<daemon, control, lock, port, kills>>

\* The daemon comes to a request whose command has given up.
AnswerLate(x) ==
  /\ x \in late /\ TokenFits(x) /\ daemon[port] = "serving"
  /\ shut' = shut \cup {port} /\ late' = late \ {x}
  /\ UNCHANGED <<cmd, told, daemon, control, lock, port, kills>>

ConnectionRefused == port = None

\* _wait_until_stopped: the port is refused, and then the file holds another token.
Settle(x) ==
  /\ \/ /\ cmd[x].at = "settling" /\ ConnectionRefused
        /\ At(x, "refused") /\ UNCHANGED told
     \/ /\ cmd[x].at = "refused"
        /\ \/ control[Home(x)] = Of(x) /\ At(x, "settling") /\ UNCHANGED told
           \/ /\ control[Home(x)] # Of(x) /\ At(x, "forgetting")
              /\ told' = [told EXCEPT ![x] = IF x \in Stops THEN "stopped" ELSE @]
     \/ /\ cmd[x].at \in {"settling", "refused"}                   \* the deadline
        /\ IF x \in Stops THEN Ends(x, "error") ELSE At(x, "forgetting") /\ UNCHANGED told
  /\ UNCHANGED <<process, control>>

AfterForget(x) == IF x \in Stops THEN "ended" ELSE "terminating"

Forget(x) ==
  /\ \/ /\ cmd[x].at = "forgetting" /\ UNCHANGED control
        /\ At(x, IF control[Home(x)] = Of(x) THEN "unlinking" ELSE AfterForget(x))
     \/ /\ cmd[x].at = "unlinking" /\ At(x, AfterForget(x))
        /\ control' = [control EXCEPT ![Home(x)] = None]
  /\ UNCHANGED <<told, process>>

-----------------------------------------------------------------------------
(* `core start`                                                            *)

\* A daemon that is slow to answer is as good as none.
Ping(l) ==
  /\ cmd[l].at = "idle"
  /\ \/ port # None /\ Ends(l, "already")
     \/ At(l, "missing") /\ UNCHANGED told
  /\ UNCHANGED <<process, control>>

Spawn(l) ==
  /\ cmd[l].at = "missing" /\ At(l, "waiting")
  /\ Becomes(l, "spawned")
  /\ UNCHANGED <<told, late, shut, control, lock, port, kills>>

\* Defect: any daemon that answers will do.
AnyPong(l) == port # None
OwnPong(l) == port = l

\* _wait_until_ready: the record of this launch, then an answer with this launch id.
Await(l) ==
  /\ \/ cmd[l].at = "waiting" /\ control[Home(l)] = l /\ At(l, "pinging") /\ UNCHANGED told
     \/ /\ cmd[l].at = "pinging"
        /\ \/ OwnPong(l) /\ Ends(l, "started")
           \/ At(l, "waiting") /\ UNCHANGED told
     \/ cmd[l].at = "waiting" /\ At(l, "failing") /\ UNCHANGED told          \* 45 s
  /\ UNCHANGED <<process, control>>

\* _cleanup_failed_start
Fail(l) ==
  /\ cmd[l].at = "failing"
  /\ cmd' = [cmd EXCEPT ![l] = IF control[Home(l)] = l THEN [at |-> "asking", of |-> l]
                               ELSE [at |-> "terminating", of |-> None]]
  /\ UNCHANGED <<told, process, control>>

\* SIGTERM: the handler is there while the daemon serves, before and after that it is deadly.
Terminate(l) ==
  /\ cmd[l].at = "terminating" /\ At(l, "killing")
  /\ IF Alive(l) /\ daemon[l] # "serving" THEN Dies(l) ELSE UNCHANGED <<daemon, lock, port>>
  /\ shut' = IF daemon[l] = "serving" THEN shut \cup {l} ELSE shut
  /\ UNCHANGED <<told, late, control, kills>>

KillIt(l) == Alive(l)

Finish(l) ==
  /\ cmd[l].at = "killing" /\ Ends(l, "failed")
  /\ IF KillIt(l) THEN Dies(l) ELSE UNCHANGED <<daemon, lock, port>>
  /\ UNCHANGED <<late, shut, control, kills>>

-----------------------------------------------------------------------------
(* `core stop`                                                             *)

ReadControl(s) ==
  /\ cmd[s].at = "idle"
  /\ \/ control[Home(s)] = None /\ Ends(s, "absent")
     \/ /\ control[Home(s)] # None
        /\ cmd' = [cmd EXCEPT ![s] = [at |-> "asking", of |-> control[Home(s)]]]
        /\ UNCHANGED told
  /\ UNCHANGED <<process, control>>

-----------------------------------------------------------------------------
Process(d) == Lock(d) \/ Recover(d) \/ Bind(d) \/ Announce(d) \/ Leave(d) \/ CleanUp(d)
              \/ ReadOwn(d) \/ UnlinkOwn(d) \/ Release(d)
Start(l)   == Ping(l) \/ Spawn(l) \/ Await(l) \/ Fail(l) \/ Terminate(l) \/ Finish(l)
Either(x)  == Ask(x) \/ AnswerLate(x) \/ Settle(x) \/ Forget(x)

Next ==
  \/ \E d \in Launches : Process(d) \/ Kill(d) \/ Start(d)
  \/ \E x \in Commands : Either(x)
  \/ \E s \in Stops : ReadControl(s)

Spec == Init /\ [][Next]_vars

-----------------------------------------------------------------------------
(* Properties                                                              *)

Working == {d \in Launches : daemon[d] \in Stages \ {"none", "spawned", "gone"}}

\* From the recovery of its sandboxes and runs until all its resources are closed, a daemon is
\* alone in its home, whatever ports and control files say.
OneCorePerHome == \A d, e \in Working : Home(d) = Home(e) => d = e

\* A daemon is shut down only by a command that read its own control record, or by the start
\* that spawned it: never in the place of one whose port or file it took over.
ShutdownsAreMeant ==
  \A d \in shut : (\E x \in Commands : Of(x) = d) \/ cmd[d].at \in {"killing", "ended"}

(***************************************************************************)
(* The commands tell the truth: a start that reported a failure has left   *)
(* no process behind that could serve later, "stopped" is said only when   *)
(* the daemon that was asked has closed its port, "started" only while the *)
(* process of this very launch listens, and "not running" only when there  *)
(* is no record, the daemon of the record does not listen, or it did not   *)
(* answer in time.                                                         *)
(***************************************************************************)
CommandsTellTheTruth ==
  [][ /\ \A l \in Launches : told'[l] = "failed" => ~Alive(l)'
      /\ \A s \in Stops : told'[s] = "stopped" => (port # Of(s))'
      /\ \A l \in Launches : told[l] # "started" /\ told'[l] = "started" => port = l
      /\ \A s \in Stops : told[s] # "absent" /\ told'[s] = "absent" =>
            control[Home(s)] = None \/ port # Of(s) \/ s \in late' ]_vars
=============================================================================
