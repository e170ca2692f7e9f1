------------------------------ MODULE Subagents ------------------------------
(***************************************************************************)
(* Sub-agents: the registry that owns their tasks and rows, the tool that  *)
(* spawns them, the cancellation of a tree of runs, and shutdown.          *)
(*                                                                         *)
(* A cancellation of an asyncio task is two things: an exception that is   *)
(* thrown at the task's next step (thrown) and a count (cancelling) which  *)
(* asyncio.timeout, the timer around every tool call, lowers when it turns *)
(* the exception it asked for into a timeout.  Both are state here, for    *)
(* the code looks at the count before it cancels.  A transaction is one    *)
(* step.  The run of the root is that of RunLifecycle, as far as           *)
(* sub-agents see it.                                                      *)
(***************************************************************************)
EXTENDS Naturals, FiniteSets

CONSTANTS
    Children,   \* run ids of sub-agents
    Root,       \* the run of the client
    NoAgent,
    Outcomes,   \* how an agent loop ends by itself
    Cancels,    \* bound on requests to cancel
    Timeouts,   \* bound on tool timers that expire
    Mishaps,    \* bound on cleanups that cannot be confirmed
    Shutdowns   \* 1 if the daemon may shut down

ASSUME SubagentsAssumption ==
    /\ IsFiniteSet(Children) /\ Root \notin Children /\ NoAgent \notin Children \union {Root}
    /\ Outcomes \subseteq {"succeeded", "failed"}
    /\ {Cancels, Timeouts, Mishaps, Shutdowns} \subseteq Nat

Agents == Children \union {Root}
Terminal == {"succeeded", "failed", "cancelled"}
Unfinished == {"queued", "running"}

VARIABLES
    parent,     \* _parents
    blocked,    \* _blocked
    closed,     \* _closed
    row,        \* the status column of runs
    ends,       \* SubagentFinished events published for a run
    task,       \* none, ready, mark, loop, clean, finish, done
    outcome,    \* context.status once the loop has ended
    result,     \* how the task ended: ok, error (an exception) or cancelled
    thrown,     \* CancelledError is to be thrown at the next step of the task
    cancelling, \* task.cancelling()
    spawn,      \* the spawn_agent call an agent is in
    lost,       \* history: agents whose call ended without settling their queued row
    timer,      \* the timer of that call has expired
    pending,    \* _cleanup_pending
    op,         \* _cancellations: the task of _cancel_one
    tree,       \* RuntimeService._cancellations: the task of _cancel_tree
    members,    \* the runs such a task has still to settle
    failing,    \* _failed_cleanup_roots
    settled,    \* history: trees whose cancellation completed
    provider,   \* the provider the root's run owns
    down,       \* the daemon's shutdown: no, stopping, root, registry, done
    rootCancelled, \* RunSupervisor._cancelling names the root
    entries,    \* the tasks the registry's shutdown waits for
    requests, expired, unconfirmed

runVars == <<row, ends, task, outcome, result>>
cancelVars == <<thrown, cancelling>>
spawnVars == <<parent, spawn, timer, lost>>
gateVars == <<blocked, closed>>
treeVars == <<op, tree, members, failing, settled>>
endVars == <<provider, down, entries, rootCancelled>>
boundVars == <<requests, expired, unconfirmed>>
vars == <<runVars, cancelVars, spawnVars, gateVars, pending, treeVars, endVars, boundVars>>

Idle == [at |-> "idle", child |-> NoAgent, background |-> FALSE, exc |-> "none", base |-> 0]

Init ==
    /\ parent = [c \in Children |-> NoAgent]
    /\ blocked = {} /\ closed = FALSE
    /\ row = [a \in Agents |-> IF a = Root THEN "running" ELSE "none"]
    /\ ends = [c \in Children |-> 0]
    /\ task = [a \in Agents |-> IF a = Root THEN "loop" ELSE "none"]
    /\ outcome = [a \in Agents |-> "succeeded"]
    /\ result = [a \in Agents |-> "ok"]
    /\ thrown = [a \in Agents |-> FALSE]
    /\ cancelling = [a \in Agents |-> 0]
    /\ spawn = [a \in Agents |-> Idle] /\ lost = {}
    /\ timer = [a \in Agents |-> FALSE]
    /\ pending = {}
    /\ op = [c \in Children |-> "none"]
    /\ tree = [a \in Agents |-> "none"]
    /\ members = [a \in Agents |-> {}]
    /\ failing = {} /\ settled = {}
    /\ provider = "open" /\ down = "no" /\ entries = {} /\ rootCancelled = FALSE
    /\ requests = 0 /\ expired = 0 /\ unconfirmed = 0

-------------------------------------------------------------------------------
(* Helpers *)

Live(a) == task[a] \notin {"none", "done"}

\* descendant_ids: what has a parent in the set is in it, and nothing is that needs not be.
Descendants(S) ==
    {a \in Agents : \A set \in SUBSET Agents :
        S \subseteq set /\ (\A c \in Children : parent[c] \in set => c \in set) => a \in set}

Below(a) == Descendants({a}) \ {a}

\* The tool of an agent at depth 2 refuses, and such an agent does not get the tool.
MayNest(a) == a \in Children => parent[a] = Root

\* assert_can_spawn
MaySpawn(p) == ~ closed /\ p \notin blocked

\* task.cancel() for every task of S
CancelTasks(S) ==
    /\ thrown' = [a \in Agents |-> thrown[a] \/ a \in S]
    /\ cancelling' = [a \in Agents |-> IF a \in S THEN cancelling[a] + 1 ELSE cancelling[a]]

\* The tasks of S that are live and not already being cancelled
Cancellable(S) == {a \in S : Live(a) /\ cancelling[a] = 0}

\* task.uncancel()
Uncancelled(n) == IF n = 0 THEN 0 ELSE n - 1

\* Defect: the last to finish a row decides how it ended.
FinishAlways(c, status) ==
    /\ row' = [row EXCEPT ![c] = status]
    /\ ends' = [ends EXCEPT ![c] = @ + 1]

\* BackgroundTaskRegistry.finish, in a task of its own that cancellation waits for
Finish(c, status) ==
    IF row[c] \in Unfinished
    THEN row' = [row EXCEPT ![c] = status] /\ ends' = [ends EXCEPT ![c] = @ + 1]
    ELSE UNCHANGED <<row, ends>>

At(p, place) == spawn[p].at = place

Goes(p, place) == spawn' = [spawn EXCEPT ![p].at = place]

Fails(p, place, exc) == spawn' = [spawn EXCEPT ![p].at = place, ![p].exc = exc]

\* thrown and cancelling when p has taken its exception and the tasks of S are cancelled
Passes(p, count, S) ==
    /\ thrown' = [a \in Agents |-> IF a = p THEN FALSE ELSE thrown[a] \/ a \in S]
    /\ cancelling' = [a \in Agents |-> IF a = p THEN count
                                        ELSE IF a \in S THEN cancelling[a] + 1 ELSE cancelling[a]]

(***************************************************************************)
(* An exception leaves the spawn_agent call of p, passed on to S: the      *)
(* timer around the call, if it has expired, takes back its own            *)
(* cancellation and makes a timeout of CancelledError, unless another      *)
(* cancellation came after it; an Exception is the result of a failed tool *)
(* and the loop goes on.                                                   *)
(***************************************************************************)
Leaves(p, exc, count, S) ==
    LET left   == IF timer[p] THEN Uncancelled(count) ELSE count
        goesOn == exc = "error" \/ (timer[p] /\ left <= spawn[p].base)
    IN /\ spawn' = [spawn EXCEPT ![p] = Idle]
       /\ timer' = [timer EXCEPT ![p] = FALSE]
       /\ Passes(p, left, S)
       /\ task' = IF goesOn THEN task ELSE [task EXCEPT ![p] = "clean"]
       /\ outcome' = IF goesOn THEN outcome ELSE [outcome EXCEPT ![p] = "cancelled"]

-------------------------------------------------------------------------------
(* SpawnAgentTool.invoke *)

InLoop(p) == task[p] = "loop" /\ ~ thrown[p]

\* create_run up to its transaction
SpawnBegin(p, c, background) ==
    /\ InLoop(p) /\ At(p, "idle") /\ MayNest(p) /\ MaySpawn(p)
    /\ parent[c] = NoAgent
    /\ parent' = [parent EXCEPT ![c] = p]
    /\ spawn' = [spawn EXCEPT ![p] = [Idle EXCEPT !.at = "create", !.child = c,
                                          !.background = background, !.base = cancelling[p]]]
    /\ UNCHANGED <<runVars, cancelVars, timer, lost, gateVars, pending, treeVars, endVars, boundVars>>

\* Inside the transaction the gate and the parent's row are looked at again.
SpawnCheck(p) ==
    /\ InLoop(p) /\ At(p, "create")
    /\ IF MaySpawn(p) /\ row[p] # "cancelled"
       THEN /\ Goes(p, "commit")
            /\ UNCHANGED <<timer, cancelVars, task, outcome>>
       ELSE Fails(p, "look", "error") /\ UNCHANGED <<timer, cancelVars, task, outcome>>
    /\ UNCHANGED <<row, ends, result, parent, lost, gateVars, pending, treeVars, endVars, boundVars>>

SpawnCommit(p) ==
    /\ InLoop(p) /\ At(p, "commit")
    /\ row' = [row EXCEPT ![spawn[p].child] = "queued"]
    /\ Goes(p, "start")
    /\ UNCHANGED <<ends, task, outcome, result, cancelVars, parent, timer, lost, gateVars, pending,
                   treeVars, endVars, boundVars>>

\* Defect: the gate is not looked at once the child's row is committed.
OpenAfterCommit(p) == TRUE

\* The checks that follow the commit of the child's row
OpenAtStart(p) == MaySpawn(p)

(***************************************************************************)
(* The last checks of the gate, and register.  It refuses a child that was *)
(* itself cancelled since its row was committed, and cancels its task.     *)
(***************************************************************************)
SpawnStart(p) ==
    /\ InLoop(p) /\ At(p, "start")
    /\ LET c == spawn[p].child IN
       IF ~ OpenAtStart(p)
       THEN Fails(p, "finish", "error") /\ UNCHANGED <<task, cancelVars>>
       ELSE /\ task' = [task EXCEPT ![c] = "ready"]
            /\ CancelTasks(IF c \in blocked THEN {c} ELSE {})
            /\ CASE c \in blocked        -> Fails(p, "stop", "error")
                 [] c \notin blocked /\ spawn[p].background -> spawn' = [spawn EXCEPT ![p] = Idle]
                 [] OTHER                -> Goes(p, "wait")
    /\ UNCHANGED <<row, ends, outcome, result, parent, timer, lost, gateVars, pending, treeVars, endVars,
         boundVars>>

\* A foreground call: the child's task has ended.
SpawnReturn(p) ==
    /\ InLoop(p) /\ At(p, "wait") /\ task[spawn[p].child] = "done"
    /\ CASE result[spawn[p].child] = "ok" -> spawn' = [spawn EXCEPT ![p] = Idle]
         [] OTHER -> Fails(p, "stop", result[spawn[p].child])
    /\ UNCHANGED <<runVars, cancelVars, parent, timer, lost, gateVars, pending, treeVars, endVars, boundVars>>

\* The except clause after create_run has raised: was the row committed all the same?
SpawnLooks(p) ==
    /\ InLoop(p) /\ At(p, "look")
    /\ IF row[spawn[p].child] = "none"
       THEN Leaves(p, spawn[p].exc, cancelling[p], {})
       ELSE Goes(p, "finish") /\ UNCHANGED <<timer, cancelVars, task, outcome>>
    /\ UNCHANGED <<row, ends, result, parent, lost, gateVars, pending, treeVars, endVars, boundVars>>

(***************************************************************************)
(* The except clause, when the child's task has ended: an unconfirmed      *)
(* cleanup replaces whatever brought the call here, a cancellation too.    *)
(***************************************************************************)
SpawnStopped(p) ==
    /\ InLoop(p) /\ At(p, "stop") /\ ~ Live(spawn[p].child)
    /\ IF spawn[p].child \in pending
       THEN Leaves(p, "error", cancelling[p], {})
       ELSE Goes(p, "finish") /\ UNCHANGED <<timer, cancelVars, task, outcome>>
    /\ UNCHANGED <<row, ends, result, parent, lost, gateVars, pending, treeVars, endVars, boundVars>>

\* The child's row is settled whatever else cancels the caller; a cancellation then goes on.
SpawnFinish(p) ==
    /\ task[p] = "loop" /\ At(p, "finish")
    /\ Finish(spawn[p].child, IF spawn[p].exc = "cancelled" THEN "cancelled" ELSE "failed")
    /\ IF thrown[p]
       THEN Leaves(p, "cancelled", Uncancelled(cancelling[p]), {})
       ELSE Leaves(p, spawn[p].exc, cancelling[p], {})
    /\ UNCHANGED <<result, parent, lost, gateVars, pending, treeVars, endVars, boundVars>>

(***************************************************************************)
(* CancelledError in the call.  The transaction it interrupts may have     *)
(* committed; a gather it interrupts passes it on to the child.  The look  *)
(* for a committed row is not shielded: cut there, the call ends and the   *)
(* row stays as it is.                                                     *)
(***************************************************************************)
SpawnInterrupted(p) ==
    /\ task[p] = "loop" /\ thrown[p]
    /\ LET c == spawn[p].child
           Caught(place, S) == /\ Fails(p, place, "cancelled")
                               /\ Passes(p, cancelling[p], S)
                               /\ UNCHANGED <<timer, task, outcome>>
       IN
       \/ /\ At(p, "create") \/ At(p, "commit")
          /\ Caught("look", {})
          /\ UNCHANGED <<row, lost>>
       \/ /\ At(p, "commit")
          /\ row' = [row EXCEPT ![c] = "queued"]
          /\ Caught("look", {})
          /\ UNCHANGED lost
       \/ /\ At(p, "look")
          /\ Leaves(p, "cancelled", cancelling[p], {})
          /\ lost' = IF row[c] \in Unfinished THEN lost \union {c} ELSE lost
          /\ UNCHANGED row
       \/ /\ At(p, "start")
          /\ Caught("finish", {})
          /\ UNCHANGED <<row, lost>>
       \/ /\ At(p, "wait") /\ task[c] # "ready"
          /\ Caught("stop", Cancellable({c}))
          /\ UNCHANGED <<row, lost>>
       \/ /\ At(p, "stop") /\ task[c] # "ready"
          /\ Leaves(p, "cancelled", cancelling[p], {c} \intersect {a \in Agents : Live(a)})
          /\ UNCHANGED <<row, lost>>
    /\ UNCHANGED <<ends, result, parent, gateVars, pending, treeVars, endVars, boundVars>>

\* The timer of invoke_tool, 120 s after the call began
TimerExpires(p) ==
    /\ expired < Timeouts
    /\ task[p] = "loop" /\ ~ At(p, "idle") /\ ~ timer[p]
    /\ expired' = expired + 1
    /\ timer' = [timer EXCEPT ![p] = TRUE]
    /\ CancelTasks({p})
    /\ UNCHANGED <<runVars, parent, spawn, lost, gateVars, pending, treeVars, endVars, requests, unconfirmed>>

-------------------------------------------------------------------------------
(* Tasks of agents *)

\* _run_child begins; cancelled before its first step, a task runs none of its code.
ChildBegin(c) ==
    /\ task[c] = "ready"
    /\ task' = [task EXCEPT ![c] = IF thrown[c] THEN "done" ELSE "mark"]
    /\ result' = [result EXCEPT ![c] = IF thrown[c] THEN "cancelled" ELSE @]
    /\ UNCHANGED <<row, ends, outcome, cancelVars, spawnVars, gateVars, pending, treeVars, endVars,
         boundVars>>

\* mark_running, which a cancellation waits for
ChildMark(c) ==
    /\ task[c] = "mark"
    /\ row' = [row EXCEPT ![c] = IF @ = "queued" THEN "running" ELSE @]
    /\ IF thrown[c]
       THEN /\ task' = [task EXCEPT ![c] = "clean"]
            /\ outcome' = [outcome EXCEPT ![c] = "cancelled"]
            /\ result' = [result EXCEPT ![c] = "cancelled"]
            /\ Passes(c, Uncancelled(cancelling[c]), {})
       ELSE /\ task' = [task EXCEPT ![c] = "loop"]
            /\ UNCHANGED <<outcome, result, cancelVars>>
    /\ UNCHANGED <<ends, spawnVars, gateVars, pending, treeVars, endVars, boundVars>>

\* The loop ends, with the model's answer, a failure, or CancelledError, which execute_loop takes.
LoopEnds(a) ==
    /\ task[a] = "loop" /\ At(a, "idle")
    /\ task' = [task EXCEPT ![a] = "clean"]
    /\ \E status \in IF thrown[a] THEN {"cancelled"} ELSE Outcomes :
          outcome' = [outcome EXCEPT ![a] = status]
    /\ thrown' = [thrown EXCEPT ![a] = FALSE]
    /\ UNCHANGED <<row, ends, result, cancelling, spawnVars, gateVars, pending, treeVars, endVars, boundVars>>

\* _finalize_child: the runtime confirms that nothing of the run is left.
ChildCleaned(c) ==
    /\ task[c] = "clean"
    /\ task' = [task EXCEPT ![c] = "finish"]
    /\ pending' = pending \ {c}
    /\ UNCHANGED <<row, ends, outcome, result, cancelVars, spawnVars, gateVars, treeVars, endVars, boundVars>>

\* _start_cleanup_task: a tree that is already being cancelled is joined.
StartsTree(t) ==
    IF tree[t] # "none" THEN UNCHANGED <<tree, members>>
    ELSE /\ tree' = [tree EXCEPT ![t] = "begin"]
         /\ members' = [members EXCEPT ![t] = {t}]

\* Defect: a run that is being cancelled by any tree is taken to be settled by it.
RequestsCleanupUnlessBusy(c) ==
    IF down # "no" \/ \E t \in Agents : tree[t] # "none"
    THEN UNCHANGED <<tree, members, failing>>
    ELSE StartsTree(c) /\ failing' = failing \union {c}

\* _request_failed_cleanup: a run no cancellation has still to settle gets one of its own.
RequestsCleanup(c) ==
    IF down # "no" \/ \E t \in Agents : c \in members[t]
    THEN UNCHANGED <<tree, members, failing>>
    ELSE StartsTree(c) /\ failing' = failing \union {c}

\* RuntimeCleanupPending: the row stays unfinished and the service goes on with the cleanup.
ChildUnclean(c) ==
    /\ unconfirmed < Mishaps
    /\ task[c] = "clean"
    /\ unconfirmed' = unconfirmed + 1
    /\ task' = [task EXCEPT ![c] = "done"]
    /\ result' = [result EXCEPT ![c] = IF thrown[c] THEN "cancelled" ELSE "error"]
    /\ pending' = pending \union {c}
    /\ RequestsCleanup(c)
    /\ UNCHANGED <<row, ends, outcome, cancelVars, spawnVars, gateVars, op, settled, endVars,
                   requests, expired>>

ChildFinish(c) ==
    /\ task[c] = "finish"
    /\ Finish(c, outcome[c])
    /\ task' = [task EXCEPT ![c] = "done"]
    /\ result' = [result EXCEPT ![c] = IF thrown[c] THEN "cancelled" ELSE @]
    /\ UNCHANGED <<outcome, cancelVars, spawnVars, gateVars, pending, treeVars, endVars, boundVars>>

\* The root's run ends, and with it its use of its provider.
RootEnds ==
    /\ task[Root] = "clean"
    /\ task' = [task EXCEPT ![Root] = "done"]
    /\ row' = [row EXCEPT ![Root] = outcome[Root]]
    /\ provider' = "released"
    /\ UNCHANGED <<ends, outcome, result, cancelVars, spawnVars, gateVars, pending, treeVars, down,
                   entries, rootCancelled, boundVars>>

\* The tasks release_when_idle waits for, again and again until there is none
Users == {c \in Below(Root) : Live(c)}

ProviderCloses ==
    /\ provider = "released" /\ Users = {}
    /\ provider' = "closed"
    /\ UNCHANGED <<runVars, cancelVars, spawnVars, gateVars, pending, treeVars, down,
                   entries, rootCancelled, boundVars>>

-------------------------------------------------------------------------------
(* Cancellation *)

\* block_descendants: the runs whose spawn gate a cancellation of c closes
ToBlock(c) == Descendants({c})

\* BackgroundTaskRegistry.cancel for the runs of S: an operation that failed is started again.
StartsOps(S) ==
    op' = [c \in Children |-> IF c \in S /\ op[c] \in {"none", "failed"} THEN "look" ELSE op[c]]

\* agent_cancel and cancel_session
AskCancel(c) ==
    /\ requests < Cancels
    /\ row[c] \in Unfinished
    /\ requests' = requests + 1
    /\ blocked' = blocked \union ToBlock(c)
    /\ StartsOps(ToBlock(c))
    /\ UNCHANGED <<runVars, cancelVars, spawnVars, closed, pending, tree, members, failing, settled, endVars,
                   expired, unconfirmed>>

\* _cancel_one up to its wait
CancelLooks(c) ==
    /\ op[c] = "look"
    /\ IF row[c] \in Unfinished
       THEN op' = [op EXCEPT ![c] = "wait"] /\ CancelTasks(Cancellable({c}))
       ELSE op' = [op EXCEPT ![c] = "over"] /\ UNCHANGED cancelVars
    /\ UNCHANGED <<runVars, spawnVars, gateVars, pending, tree, members, failing, settled, endVars,
         boundVars>>

\* _cancel_one once the task has ended
CancelEnds(c) ==
    /\ op[c] = "wait" /\ ~ Live(c)
    /\ IF c \in pending
       THEN op' = [op EXCEPT ![c] = "failed"] /\ UNCHANGED <<row, ends>>
       ELSE op' = [op EXCEPT ![c] = "over"] /\ Finish(c, "cancelled")
    /\ UNCHANGED <<task, outcome, result, cancelVars, spawnVars, gateVars, pending, tree, members, failing,
                   settled, endVars, boundVars>>

\* cancel_run: the server has stopped taking requests when the daemon shuts down.
CancelRun(t) ==
    /\ requests < Cancels /\ down = "no"
    /\ row[t] # "none" /\ tree[t] = "none"
    /\ requests' = requests + 1
    /\ StartsTree(t)
    /\ UNCHANGED <<runVars, cancelVars, spawnVars, gateVars, pending, op, failing, settled, endVars,
                   expired, unconfirmed>>

\* _cancel_tree closes the gate before it reads the rows.
TreeBlocks(t) ==
    /\ tree[t] = "begin"
    /\ tree' = [tree EXCEPT ![t] = "read"]
    /\ blocked' = blocked \union ToBlock(t)
    /\ UNCHANGED <<runVars, cancelVars, spawnVars, closed, pending, op, members, failing, settled, endVars,
                   boundVars>>

\* _run_tree, and the cancellation signals, sent to all at once
TreeStops(t) ==
    /\ tree[t] = "read"
    /\ LET found == {a \in Descendants({t}) : row[a] # "none"}
           below == UNION {ToBlock(a) : a \in found}
       IN /\ tree' = [tree EXCEPT ![t] = "stop"]
          /\ members' = [members EXCEPT ![t] = found]
          /\ blocked' = blocked \union below
          /\ StartsOps(below)
          /\ rootCancelled' = (rootCancelled \/ Root \in found)
          /\ CancelTasks({a \in found : a = Root /\ Live(a) /\ ~ rootCancelled})
    /\ UNCHANGED <<runVars, spawnVars, closed, pending, failing, settled, provider, down, entries, boundVars>>

(***************************************************************************)
(* A member has been stopped when its cancellation, with those of all its  *)
(* descendants, has ended, or when one of them has failed: gather raises   *)
(* the first failure and does not wait for the others.                     *)
(***************************************************************************)
Stopped(a) ==
    IF a = Root THEN ~ Live(Root)
    ELSE LET asked == ToBlock(a)
         IN (\E c \in asked : op[c] = "failed") \/ (\A c \in asked : op[c] \notin {"look", "wait"})

\* _confirm_run_cleanup and _finalize_without_outcome
TreeSettles(t, a) ==
    /\ tree[t] = "stop" /\ a \in members[t] /\ Stopped(a)
    /\ pending' = pending \ {a}
    /\ IF a = Root
       THEN row' = [row EXCEPT ![a] = IF @ \in Unfinished THEN "cancelled" ELSE @] /\ UNCHANGED ends
       ELSE Finish(a, IF a = t /\ t \in failing THEN "failed" ELSE "cancelled")
    /\ members' = [members EXCEPT ![t] = @ \ {a}]
    /\ UNCHANGED <<task, outcome, result, cancelVars, spawnVars, gateVars, op, tree, failing, settled,
         endVars,
                   boundVars>>

\* A shutdown ends the retries of a cleanup that is still not confirmed.
TreeGivesUp(t, a) ==
    /\ down # "no"
    /\ tree[t] = "stop" /\ a \in members[t] \intersect pending /\ Stopped(a)
    /\ members' = [members EXCEPT ![t] = @ \ {a}]
    /\ UNCHANGED <<runVars, cancelVars, spawnVars, gateVars, pending, op, tree, failing, settled,
                   endVars, boundVars>>

\* _cancel_done
TreeEnds(t) ==
    /\ tree[t] = "stop" /\ members[t] = {}
    /\ tree' = [tree EXCEPT ![t] = "none"]
    /\ failing' = failing \ {t}
    /\ settled' = IF down = "no" THEN settled \union {t} ELSE settled
    /\ UNCHANGED <<runVars, cancelVars, spawnVars, gateVars, pending, op, members, endVars, boundVars>>

-------------------------------------------------------------------------------
(* Shutdown *)

ShutdownBegins ==
    /\ down = "no" /\ Shutdowns > 0
    /\ down' = "stopping"
    /\ UNCHANGED <<runVars, cancelVars, spawnVars, gateVars, pending, treeVars, provider, entries,
                   rootCancelled, boundVars>>

\* Cancellations in progress end first; then the supervisor stops the root.
ShutdownStopsRoot ==
    /\ down = "stopping" /\ \A t \in Agents : tree[t] = "none"
    /\ down' = "root"
    /\ CancelTasks({a \in {Root} : Live(a) /\ ~ rootCancelled})
    /\ rootCancelled' = TRUE
    /\ UNCHANGED <<runVars, spawnVars, gateVars, pending, treeVars, provider, entries, boundVars>>

\* BackgroundTaskRegistry.shutdown
ShutdownStopsChildren ==
    /\ down = "root" /\ ~ Live(Root)
    /\ down' = "registry"
    /\ closed' = TRUE
    /\ entries' = {c \in Children : Live(c)}
    /\ CancelTasks(Cancellable(Children))
    /\ UNCHANGED <<runVars, spawnVars, blocked, pending, treeVars, provider, rootCancelled, boundVars>>

\* The rows of the tasks it waited for
ShutdownEnds ==
    /\ down = "registry" /\ \A c \in entries : ~ Live(c)
    /\ down' = "done"
    /\ LET left == {c \in entries \ pending : row[c] \in Unfinished}
       IN /\ row' = [a \in Agents |-> IF a \in left THEN "cancelled" ELSE row[a]]
          /\ ends' = [c \in Children |-> IF c \in left THEN ends[c] + 1 ELSE ends[c]]
    /\ UNCHANGED <<task, outcome, result, cancelVars, spawnVars, gateVars, pending, treeVars, provider,
         entries,
                   rootCancelled, boundVars>>

-------------------------------------------------------------------------------
Spawns ==
    \E p \in Agents :
       \/ \E c \in Children, background \in BOOLEAN : SpawnBegin(p, c, background)
       \/ SpawnCheck(p) \/ SpawnLooks(p) \/ SpawnCommit(p) \/ SpawnStart(p) \/ SpawnReturn(p)
       \/ SpawnStopped(p) \/ SpawnFinish(p) \/ SpawnInterrupted(p) \/ TimerExpires(p)

Tasks ==
    \/ \E c \in Children : ChildBegin(c) \/ ChildMark(c) \/ ChildCleaned(c) \/ ChildUnclean(c)
         \/ ChildFinish(c)
    \/ \E a \in Agents : LoopEnds(a)
    \/ RootEnds
    \/ ProviderCloses

Cancellation ==
    \/ \E c \in Children : AskCancel(c) \/ CancelLooks(c) \/ CancelEnds(c)
    \/ \E t \in Agents :
          \/ CancelRun(t) \/ TreeBlocks(t) \/ TreeStops(t) \/ TreeEnds(t)
          \/ \E a \in Agents : TreeSettles(t, a) \/ TreeGivesUp(t, a)

Shutdown == ShutdownBegins \/ ShutdownStopsRoot \/ ShutdownStopsChildren \/ ShutdownEnds

Next == Spawns \/ Tasks \/ Cancellation \/ Shutdown

Spec == Init /\ [][Next]_vars

-------------------------------------------------------------------------------
(* Properties *)

\* Every variable keeps its type.
TypeOK ==
    /\ parent \in [Children -> Agents \union {NoAgent}]
    /\ blocked \subseteq Agents /\ closed \in BOOLEAN
    /\ row \in [Agents -> {"none"} \union Unfinished \union Terminal]
    /\ ends \in [Children -> Nat]
    /\ task \in [Agents -> {"none", "ready", "mark", "loop", "clean", "finish", "done"}]
    /\ outcome \in [Agents -> Terminal] /\ result \in [Agents -> {"ok", "error", "cancelled"}]
    /\ thrown \in [Agents -> BOOLEAN] /\ cancelling \in [Agents -> Nat]
    /\ spawn \in [Agents -> [at : {"idle", "create", "look", "commit", "start", "wait", "stop", "finish"},
                             child : Children \union {NoAgent}, background : BOOLEAN,
                             exc : {"none", "error", "cancelled"}, base : Nat]]
    /\ timer \in [Agents -> BOOLEAN] /\ lost \subseteq Children
    /\ pending \subseteq Children
    /\ op \in [Children -> {"none", "look", "wait", "over", "failed"}]
    /\ tree \in [Agents -> {"none", "begin", "read", "stop"}]
    /\ members \in [Agents -> SUBSET Agents]
    /\ failing \subseteq Agents /\ settled \subseteq Agents
    /\ provider \in {"open", "released", "closed"}
    /\ down \in {"no", "stopping", "root", "registry", "done"}
    /\ entries \subseteq Children /\ rootCancelled \in BOOLEAN
    /\ requests \in 0 .. Cancels /\ expired \in 0 .. Timeouts /\ unconfirmed \in 0 .. Mishaps

(***************************************************************************)
(* Once the cancellation of a tree of runs has completed, no run of it     *)
(* works and none begins, whatever was being spawned when it came.  A row  *)
(* that is still unfinished is one of an agent that is never started: its  *)
(* call was cancelled a second time while it looked whether create_run had *)
(* committed the row, and the row is left for the recovery; or, a cleanup  *)
(* not being confirmed, the cancellation did not wait for all tasks, and   *)
(* the call that made the row still has it to settle.                      *)
(***************************************************************************)
CancelledTreesStaySettled ==
    \A t \in settled : \A a \in Descendants({t}) :
        row[a] \in Unfinished =>
            /\ task[a] = "none"
            /\ \/ a \in lost
               \/ /\ unconfirmed > 0
                  /\ \E p \in Agents : spawn[p].child = a /\ spawn[p].at \in {"start", "look", "finish"}

(***************************************************************************)
(* Somebody will settle every sub-agent whose row is unfinished: its task, *)
(* the call that spawns it, a cancellation, or the shutdown, unless the    *)
(* daemon stops with its cleanup unconfirmed, or a second cancellation met *)
(* the call in its look for the row, and nothing of such an agent ran.     *)
(***************************************************************************)
UnfinishedAgentsAreOwned ==
    \A c \in Children :
       row[c] \in Unfinished =>
          \/ Live(c)
          \/ \E p \in Agents : spawn[p].child = c
          \/ op[c] \in {"look", "wait"}
          \/ \E t \in Agents : c \in members[t]
          \/ c \in entries /\ down = "registry"
          \/ c \in pending /\ down # "no"
          \/ c \in lost /\ task[c] = "none"

(***************************************************************************)
(* The provider of the root's run, which its sub-agents use, stays open as *)
(* long as one of them runs.                                               *)
(***************************************************************************)
ProviderOutlivesAgents ==
    provider = "closed" => \A c \in Below(Root) : ~ Live(c)

\* Whoever works has somebody who ends it, and a provider until then.
AgentsAreOwned == TypeOK /\ UnfinishedAgentsAreOwned /\ ProviderOutlivesAgents

(***************************************************************************)
(* However many actors finish a sub-agent, its row is settled once and its *)
(* end is announced once.                                                  *)
(***************************************************************************)
SettledOnce ==
    [][\A c \in Children : row[c] \in Terminal => row'[c] = row[c] /\ ends'[c] = ends[c]]_vars
===============================================================================
