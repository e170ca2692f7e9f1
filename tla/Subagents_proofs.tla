--------------------------- MODULE Subagents_proofs ---------------------------
(***************************************************************************)
(* What holds of Subagents for any number of agents, cancellations, timers *)
(* that expire and cleanups that fail: each agent is settled once, has an  *)
(* owner and a provider until then, and does not outlive a cancelled tree. *)
(***************************************************************************)
EXTENDS Subagents, TLAPS

-------------------------------------------------------------------------------
(* The inductive invariant *)

\* A run with all below it
Tree(t) == Descendants({t})

\* Agents are children of the root, or of its children; what has no parent has nothing else.
ParentsAreMade ==
    /\ \A c \in Children :
        /\ parent[c] = NoAgent => row[c] = "none" /\ task[c] = "none" /\ op[c] = "none" /\ c \notin blocked
        /\ parent[c] \in Children => parent[parent[c]] = Root
        /\ row[c] = "none" => task[c] = "none"
        /\ task[c] = "none" => ~ thrown[c]
    /\ row[Root] # "none" /\ task[Root] \notin {"none", "ready", "mark", "finish"}

\* The call an agent is in is about a child of its own, which it has not yet started or awaits.
CallIsOwn(p) ==
    IF At(p, "idle") THEN spawn[p].child = NoAgent
    ELSE LET c == spawn[p].child IN
         /\ task[p] = "loop" /\ c \in Children /\ parent[c] = p
         /\ At(p, "create") \/ At(p, "commit") => row[c] = "none"
         /\ At(p, "look") => task[c] = "none"
         /\ At(p, "start") => row[c] # "none" /\ task[c] = "none"
         /\ At(p, "wait") \/ At(p, "stop") => task[c] # "none"
         /\ At(p, "finish") => row[c] # "none" /\ ~ Live(c)

CallsAreOwn == \A p \in Agents : CallIsOwn(p)

\* Somebody other than its task and its caller settles c.
Cared(c) ==
    \/ op[c] \in {"look", "wait"}
    \/ \E t \in Agents : c \in members[t]
    \/ c \in entries /\ down = "registry"
    \/ c \in pending /\ down # "no"

\* The call of c has still to start it or to settle its row, unless it was cut short when it looked.
Called(c) ==
    \/ \E p \in Agents : spawn[p].child = c /\ spawn[p].at \in {"start", "look", "finish"}
    \/ c \in lost

\* An agent that is not settled will be: by its caller, its task or somebody else.
UnstartedAreCalled ==
    \A c \in Children : row[c] \in Unfinished /\ task[c] = "none" => Called(c)

\* What a call has lost has a row, and nobody who could start it.
LostAreLeft ==
    \A c \in lost : row[c] # "none" /\ task[c] = "none" /\ \A p \in Agents : spawn[p].child # c

EndedAreCared ==
    \A c \in Children :
        row[c] \in Unfinished =>
            /\ task[c] = "done" \/ (task[c] = "ready" /\ thrown[c]) => Cared(c)
            /\ c \in pending => down # "no" \/ \E t \in Agents : c \in members[t]

PendingHaveEnded == \A c \in pending : task[c] = "done"

\* The gate is closed to whole trees, and of them only who is being settled was not closed from above.
GatesAreClosed ==
    /\ \A c \in Children : parent[c] \in blocked => c \in blocked
    /\ \A c \in Children : op[c] # "none" => c \in blocked
    /\ \A c \in Children \intersect blocked :
          parent[c] \in blocked \/ row[c] \in Terminal \/ (row[c] \in Unfinished /\ Cared(c))
    /\ \A c \in Children :
          op[c] = "over" => row[c] \in Terminal \/ (parent[c] \in blocked /\ task[c] = "none")
    /\ \A p \in Agents : At(p, "start") /\ row[spawn[p].child] \in Terminal => spawn[p].child \in blocked

\* A cancellation of a tree has its runs to settle, but for agents that are not started.
TreesAreCovered ==
    \A t \in Agents :
        /\ tree[t] = "none" => members[t] = {}
        /\ tree[t] \in {"begin", "read"} => members[t] = {t}
        /\ tree[t] \in {"read", "stop"} => t \in blocked
        /\ tree[t] # "none" => row[t] # "none"
        /\ members[t] \subseteq Tree(t)
        /\ \A a \in members[t] : row[a] # "none" /\ (tree[t] = "stop" /\ a \in Children => op[a] # "none")
        /\ tree[t] = "stop" /\ down = "no" =>
              \A a \in Tree(t) :
                  row[a] \in Unfinished => a \in members[t] \/ (task[a] = "none" /\ a # t)

\* Unless a cleanup failed, who is settled has ended, or ends without running any of its code.
SettledHaveEnded ==
    unconfirmed = 0 =>
        /\ pending = {} /\ \A c \in Children : op[c] # "failed"
        /\ \A a \in Agents : row[a] \in Terminal => task[a] \in {"none", "done"}
             \/ (task[a] = "ready" /\ thrown[a])
        /\ \A t \in settled : \A a \in Tree(t) : row[a] \in Unfinished => a \in lost

SettledTreesAreQuiet ==
    \A t \in settled :
        /\ t \in blocked /\ row[t] # "none"
        /\ \A a \in Tree(t) : row[a] \in Unfinished => task[a] = "none" /\ a # t

\* The provider goes last, and the registry shuts down after the root.
ProviderIsLast ==
    /\ provider # "open" => task[Root] = "done"
    /\ provider = "closed" => \A c \in Children : ~ Live(c)
    /\ \A c \in entries : task[c] # "none"
    /\ entries # {} => down \in {"registry", "done"}

Inv ==
    /\ TypeOK /\ ParentsAreMade /\ CallsAreOwn
    /\ UnstartedAreCalled /\ LostAreLeft /\ EndedAreCared /\ PendingHaveEnded /\ GatesAreClosed
    /\ TreesAreCovered /\ SettledHaveEnded /\ SettledTreesAreQuiet /\ ProviderIsLast

USE SubagentsAssumption DEF Agents, Terminal, Unfinished, Live, At, runVars, cancelVars, spawnVars,
    gateVars, treeVars, endVars, boundVars

-------------------------------------------------------------------------------
(* Trees of runs *)

\* A tree is the least set with its root that holds the children of its members.
LEMMA TreeIs ==
  ASSUME NEW t \in Agents
  PROVE  /\ t \in Tree(t) /\ Tree(t) \subseteq Agents
         /\ \A c \in Children : parent[c] \in Tree(t) => c \in Tree(t)
         /\ \A c \in Tree(t) \ {t} : c \in Children /\ parent[c] \in Tree(t)
         /\ \A set \in SUBSET Agents :
               t \in set /\ (\A c \in Children : parent[c] \in set => c \in set) => Tree(t) \subseteq set
  <1> DEFINE D == Tree(t)
             Closed(set) == \A c \in Children : parent[c] \in set => c \in set
  <1>1. t \in D /\ D \subseteq Agents /\ \A set \in SUBSET Agents : t \in set /\ Closed(set)
          => D \subseteq set
    BY DEF Tree, Descendants
  <1>2. Closed(D)
    <2> SUFFICES ASSUME NEW c \in Children, parent[c] \in D, NEW set \in SUBSET Agents, t \in set, Closed(set)
                 PROVE  c \in set
      BY DEF Tree, Descendants
    <2>1. parent[c] \in set
      BY <1>1
    <2> QED BY <2>1
  <1>3. ASSUME NEW c \in D \ {t}
        PROVE  c \in Children /\ parent[c] \in D
    <2>1. CASE c \notin Children
      <3>1. c = Root
        BY <1>1, <2>1
      <3>2. Closed(D \ {Root})
        BY <1>2
      <3>3. D \subseteq D \ {Root}
        BY <1>1, <1>3, <3>1, <3>2
      <3> QED BY <1>3, <3>1, <3>3
    <2>2. CASE c \in Children /\ parent[c] \notin D
      <3>1. Closed(D \ {c})
        BY <1>2, <2>2
      <3>2. D \subseteq D \ {c}
        BY <1>1, <1>3, <3>1
      <3> QED BY <1>3, <3>2
    <2> QED BY <2>1, <2>2
  <1> QED BY <1>1, <1>2, <1>3

\* A gate that is closed to an agent is closed to all below it.
LEMMA BlockedBelow ==
  ASSUME GatesAreClosed, TypeOK, NEW t \in Agents, t \in blocked
  PROVE  Tree(t) \subseteq blocked
  BY TreeIs DEF GatesAreClosed, TypeOK

\* While nobody gets a parent, the trees stay what they are.
LEMMA TreesRest ==
  ASSUME UNCHANGED parent
  PROVE  \A t \in Agents : Tree(t)' = Tree(t) /\ Tree(t) \subseteq Agents
  BY DEF Tree, Descendants

\* A new agent is in no tree its parent is not in.
LEMMA TreesGrow ==
  ASSUME TypeOK, NEW p \in Agents, NEW c \in Children, parent[c] = NoAgent,
         parent' = [parent EXCEPT ![c] = p],
         NEW t \in Agents
  PROVE  /\ Tree(t) \subseteq Tree(t)'
         /\ p \notin Tree(t) => Tree(t)' = Tree(t)
  <1> DEFINE D == Tree(t)
             E == Tree(t)'
  <1>1. \A x \in Children : parent'[x] = IF x = c THEN p ELSE parent[x]
    BY DEF TypeOK
  <1>2. E \subseteq Agents /\ t \in E /\ \A x \in Children : parent'[x] \in E => x \in E
    <2>1. E \subseteq Agents /\ t \in E
      BY DEF Tree, Descendants
    <2>2. \A set \in SUBSET Agents : t \in set /\ (\A x \in Children : parent'[x] \in set => x \in set)
            => E \subseteq set
      BY DEF Tree, Descendants
    <2> SUFFICES ASSUME NEW x \in Children, parent'[x] \in E,
                        NEW set \in SUBSET Agents, t \in set, \A y \in Children : parent'[y] \in set
                          => y \in set
                 PROVE  x \in set
      BY DEF Tree, Descendants
    <2>3. parent'[x] \in set
      BY <2>2
    <2> QED BY <2>3
  <1>3. D \subseteq E
    <2>1. \A x \in Children : parent[x] \in E => x \in E
      BY <1>1, <1>2
    <2> QED BY <1>2, <2>1, TreeIs
  <1>4. ASSUME p \notin D PROVE E \subseteq D
    <2>1. \A x \in Children : parent'[x] \in D => x \in D
      BY <1>1, <1>4, TreeIs
    <2>2. t \in D /\ D \subseteq Agents
      BY TreeIs
    <2> HIDE DEF D
    <2> QED BY <2>1, <2>2 DEF Tree, Descendants
  <1> QED BY <1>3, <1>4

\* Who is cared for stays so while nothing of that changes.
LEMMA CaredRest ==
  ASSUME UNCHANGED <<op, members, entries, down, pending>>
  PROVE  \A c \in Children : Cared(c)' = Cared(c)
  BY DEF Cared

-------------------------------------------------------------------------------
(* Calls of spawn_agent *)

\* What a call of spawn_agent may be
SpawnCalls ==
    [at : {"idle", "create", "look", "commit", "start", "wait", "stop", "finish"},
     child : Children \union {NoAgent}, background : BOOLEAN,
     exc : {"none", "error", "cancelled"}, base : Nat]

\* A call that fails is still one.
LEMMA FailsTyped ==
  ASSUME TypeOK, NEW p \in Agents, NEW place \in {"stop", "finish", "look"}, NEW exc \in {"error", "cancelled"},
         Fails(p, place, exc)
  PROVE  spawn' \in [Agents -> [at : {"idle", "create", "look", "commit", "start", "wait", "stop", "finish"},
                                child : Children \union {NoAgent}, background : BOOLEAN,
                                exc : {"none", "error", "cancelled"}, base : Nat]]
  <1>1. spawn \in [Agents -> SpawnCalls]
    BY DEF TypeOK, SpawnCalls
  <1>2. PICK r \in SpawnCalls : r = spawn[p]
    BY <1>1
  <1>3. PICK s \in SpawnCalls : s = [r EXCEPT !.at = place, !.exc = exc]
    <2>1. [r EXCEPT !.at = place, !.exc = exc] \in SpawnCalls
      BY DEF SpawnCalls
    <2> QED BY <2>1
  <1>4. spawn' = [spawn EXCEPT ![p] = s]
    <2>1. spawn' = [spawn EXCEPT ![p] = [[spawn[p] EXCEPT !.at = place] EXCEPT !.exc = exc]]
      BY <1>1 DEF Fails
    <2>2. [[r EXCEPT !.at = place] EXCEPT !.exc = exc] = [r EXCEPT !.at = place, !.exc = exc]
      BY DEF SpawnCalls
    <2> QED BY <1>2, <1>3, <2>1, <2>2
  <1>5. spawn' \in [Agents -> SpawnCalls]
    BY <1>1, <1>3, <1>4
  <1> QED BY <1>5 DEF SpawnCalls

\* How an exception leaves a call: the call is over, its caller goes on or ends its loop.
LEMMA LeavesIs ==
  ASSUME TypeOK, NEW p \in Agents, NEW exc, NEW count \in Nat, NEW S \in SUBSET Agents,
         task[p] = "loop", Leaves(p, exc, count, S)
  PROVE  /\ spawn' = [spawn EXCEPT ![p] = Idle]
         /\ timer' \in [Agents -> BOOLEAN] /\ thrown' \in [Agents -> BOOLEAN]
              /\ cancelling' \in [Agents -> Nat]
         /\ task' \in [Agents -> {"none", "ready", "mark", "loop", "clean", "finish", "done"}]
         /\ outcome' \in [Agents -> Terminal]
         /\ task'[p] \in {"loop", "clean"} /\ \A a \in Agents \ {p} : task'[a] = task[a]
         /\ \A a \in Agents \ {p} : a \notin S => thrown'[a] = thrown[a]
  <1> DEFINE left == IF timer[p] THEN Uncancelled(count) ELSE count
  <1>1. left \in Nat
    BY DEF Uncancelled
  <1>2. Passes(p, left, S) /\ timer' = [timer EXCEPT ![p] = FALSE] /\ spawn' = [spawn EXCEPT ![p] = Idle]
        /\ (task' = task \/ task' = [task EXCEPT ![p] = "clean"])
        /\ (outcome' = outcome \/ outcome' = [outcome EXCEPT ![p] = "cancelled"])
    BY DEF Leaves
  <1> HIDE DEF left
  <1>3. cancelling' \in [Agents -> Nat] /\ thrown' \in [Agents -> BOOLEAN]
    <2>1. cancelling' \in [Agents -> Nat]
      BY <1>1, <1>2 DEF Passes, TypeOK
    <2>2. thrown' \in [Agents -> BOOLEAN]
      BY <1>2, Zenon DEF Passes, TypeOK
    <2> QED BY <2>1, <2>2
  <1>4. \A a \in Agents \ {p} : a \notin S => thrown'[a] = thrown[a]
    BY <1>2 DEF Passes, TypeOK
  <1> QED BY <1>2, <1>3, <1>4 DEF TypeOK

\* The tasks it is not passed on to see nothing of it.
LEMMA LeavesSpares ==
  ASSUME TypeOK, NEW p \in Agents, NEW exc, NEW count, NEW S, Leaves(p, exc, count, S), NEW a \in Agents,
           a # p, a \notin S
  PROVE  thrown'[a] = thrown[a]
  <1>1. PICK left : Passes(p, left, S)
    BY DEF Leaves
  <1> QED BY <1>1 DEF Passes, TypeOK

\* Steps of a call that change no row: what is left to show is that the call stays what it is.
LEMMA CallMoves ==
  ASSUME Inv, NEW p \in Agents, task[p] = "loop", TypeOK',
         UNCHANGED <<row, parent, blocked, closed, pending, op, tree, members, failing, settled,
                     provider, down,
                     entries, unconfirmed>>,
         task'[p] \in {"loop", "clean"}, \A a \in Agents \ {p} : task'[a] = task[a],
         \A a \in Agents : task[a] \in {"none", "ready"} => thrown'[a] = thrown[a],
         \A q \in Agents \ {p} : spawn'[q] = spawn[q],
         CallIsOwn(p)',
         At(p, "start") \/ At(p, "finish") =>
            spawn'[p].child = spawn[p].child /\ spawn'[p].at \in {"start", "finish"},
         At(p, "look") /\ row[spawn[p].child] \in Unfinished =>
            \/ spawn'[p].child = spawn[p].child /\ spawn'[p].at \in {"start", "look", "finish"}
            \/ spawn[p].child \in lost',
         spawn'[p].at = "start" => At(p, "start"),
         spawn'[p].child \in {NoAgent, spawn[p].child},
         lost' = lost \/ (At(p, "look") /\ row[spawn[p].child] # "none" /\ spawn'[p].child = NoAgent
                            /\ lost' = lost \union {spawn[p].child})
  PROVE  Inv'
  <1>1. ParentsAreMade'
    BY DEF Inv, ParentsAreMade
  <1>2. CallsAreOwn'
    BY DEF Inv, CallsAreOwn, CallIsOwn
  <1>3. UnstartedAreCalled'
    <2> SUFFICES ASSUME NEW c \in Children, row[c] \in Unfinished, task'[c] = "none"
                 PROVE  Called(c)'
      BY DEF UnstartedAreCalled
    <2>1. c # p /\ task[c] = "none"
      OBVIOUS
    <2>2. CASE c \in lost
      BY <2>2 DEF Called
    <2>3. ASSUME NEW q \in Agents, spawn[q].child = c, spawn[q].at \in {"start", "look", "finish"}
          PROVE  Called(c)'
      <3>1. CASE q = p
        BY <2>3, <3>1 DEF Called
      <3>2. CASE q # p
        BY <2>3, <3>2 DEF Called
      <3> QED BY <3>1, <3>2
    <2> QED BY <2>1, <2>2, <2>3 DEF Inv, UnstartedAreCalled, Called
  <1>11. LostAreLeft'
    <2> SUFFICES ASSUME NEW c \in lost'
                 PROVE  row[c] # "none" /\ task'[c] = "none" /\ \A q \in Agents : spawn'[q].child # c
      BY DEF LostAreLeft
    <2>1. CASE c \in lost
      <3>1. /\ row[c] # "none" /\ task[c] = "none" /\ c \in Children
            /\ \A q \in Agents : spawn[q].child # c
        BY <2>1 DEF Inv, LostAreLeft, TypeOK
      <3> QED BY <3>1
    <2>2. CASE c \notin lost
      <3>1. /\ c = spawn[p].child /\ At(p, "look") /\ row[c] # "none" /\ spawn'[p].child = NoAgent
        BY <2>2
      <3>2. c \in Children /\ parent[c] = p /\ task[c] = "none"
        BY <3>1 DEF Inv, CallsAreOwn, CallIsOwn
      <3>3. \A q \in Agents \ {p} : spawn[q].child # c
        BY <3>2 DEF Inv, CallsAreOwn, CallIsOwn
      <3> QED BY <3>1, <3>2, <3>3
    <2> QED BY <2>1, <2>2
  <1>4. EndedAreCared'
    BY CaredRest DEF Inv, EndedAreCared
  <1>5. PendingHaveEnded'
    BY DEF Inv, PendingHaveEnded, TypeOK
  <1>6. GatesAreClosed'
    BY CaredRest DEF Inv, GatesAreClosed, CallsAreOwn, CallIsOwn
  <1>7. TreesAreCovered'
    BY TreesRest DEF Inv, TreesAreCovered, TypeOK
  <1>8. SettledHaveEnded'
    <2> SUFFICES ASSUME unconfirmed = 0
                 PROVE  SettledHaveEnded'
      BY DEF SettledHaveEnded
    <2>1. \A a \in Agents : row[a] \in Terminal => task'[a] \in {"none", "done"}
            \/ (task'[a] = "ready" /\ thrown'[a])
      BY DEF Inv, SettledHaveEnded
    <2>2. \A t \in settled : t \in Agents /\ \A a \in Tree(t) : row[a] \in Unfinished => a \in lost'
      BY DEF Inv, SettledHaveEnded, TypeOK
    <2> QED BY <2>1, <2>2, TreesRest DEF Inv, SettledHaveEnded
  <1>9. SettledTreesAreQuiet'
    BY TreesRest DEF Inv, SettledTreesAreQuiet, TypeOK
  <1>10. ProviderIsLast'
    BY DEF Inv, ProviderIsLast, TypeOK
  <1> QED BY <1>1, <1>2, <1>3, <1>4, <1>5, <1>6, <1>7, <1>8, <1>9, <1>10, <1>11 DEF Inv

(***************************************************************************)
(* A call that ends before its child has a row, or when the child's task   *)
(* is there, leaves nothing behind but a row it could not look for.        *)
(***************************************************************************)
LEMMA LeavesKeepsInv ==
  ASSUME Inv, NEW p \in Agents, NEW exc, NEW S \in SUBSET Agents, task[p] = "loop",
          Leaves(p, exc, cancelling[p], S),
         ~ At(p, "start"), ~ At(p, "finish"), \A a \in S : task[a] \notin {"none", "ready"},
         lost' = IF At(p, "look") /\ row[spawn[p].child] \in Unfinished
                 THEN lost \union {spawn[p].child} ELSE lost,
         UNCHANGED <<row, ends, result, parent, gateVars, pending, treeVars, endVars, boundVars>>
  PROVE  Inv'
  <1>1. TypeOK /\ cancelling[p] \in Nat
    BY DEF Inv, TypeOK
  <1>2. /\ spawn' = [spawn EXCEPT ![p] = Idle]
        /\ timer' \in [Agents -> BOOLEAN] /\ thrown' \in [Agents -> BOOLEAN]
             /\ cancelling' \in [Agents -> Nat]
        /\ task' \in [Agents -> {"none", "ready", "mark", "loop", "clean", "finish", "done"}]
        /\ outcome' \in [Agents -> Terminal]
        /\ task'[p] \in {"loop", "clean"} /\ \A a \in Agents \ {p} : task'[a] = task[a]
        /\ \A a \in Agents \ {p} : a \notin S => thrown'[a] = thrown[a]
    <2>1. PICK count \in Nat : count = cancelling[p]
      BY <1>1
    <2>2. Leaves(p, exc, count, S)
      BY <2>1
    <2> HIDE SubagentsAssumption DEF Agents, Terminal, Unfinished, Live, At, runVars, cancelVars, spawnVars,
                                     gateVars, treeVars, endVars, boundVars
    <2> QED BY <1>1, <2>2, LeavesIs
  <1>3. spawn'[p] = Idle /\ \A q \in Agents \ {p} : spawn'[q] = spawn[q]
    BY <1>1, <1>2 DEF TypeOK
  <1>4. spawn' \in [Agents -> [at : {"idle", "create", "look", "commit", "start", "wait", "stop", "finish"},
                             child : Children \union {NoAgent}, background : BOOLEAN,
                             exc : {"none", "error", "cancelled"}, base : Nat]]
    BY <1>1, <1>2 DEF TypeOK, Idle
  <1>5. TypeOK'
    <2>1. lost' \subseteq Children
      BY <1>1 DEF Inv, TypeOK, CallsAreOwn, CallIsOwn
    <2> QED BY <1>1, <1>2, <1>4, <2>1 DEF TypeOK
  <1>6. CallIsOwn(p)' /\ spawn'[p].at = "idle" /\ spawn'[p].child = NoAgent
    BY <1>3 DEF CallIsOwn, Idle
  <1>7. \A a \in Agents : task[a] \in {"none", "ready"} => thrown'[a] = thrown[a]
    BY <1>1, <1>2 DEF TypeOK
  <1> QED BY <1>2, <1>3, <1>5, <1>6, <1>7, CallMoves

\* The gate and the row of the parent are looked at under the transaction.
LEMMA SpawnCheckKeepsInv ==
  ASSUME Inv, NEW p \in Agents, SpawnCheck(p)
  PROVE  Inv'
  <1>1. CASE Goes(p, "commit") /\ UNCHANGED <<timer, cancelVars, task, outcome>>
    <2>1. TypeOK'
      BY <1>1 DEF Inv, TypeOK, SpawnCheck, Goes
    <2>2. CallIsOwn(p)'
      BY <1>1 DEF Inv, TypeOK, SpawnCheck, Goes, InLoop, CallsAreOwn, CallIsOwn
    <2>3. task[p] = "loop" /\ spawn' = [spawn EXCEPT ![p].at = "commit"] /\ At(p, "create")
            /\ spawn'[p].at = "commit"
      BY <1>1 DEF Inv, TypeOK, SpawnCheck, Goes, InLoop
    <2> QED BY <1>1, <2>1, <2>2, <2>3, CallMoves DEF SpawnCheck, Inv, TypeOK
  <1>2. CASE Fails(p, "look", "error") /\ UNCHANGED <<timer, cancelVars, task, outcome>>
    <2>1. TypeOK /\ task[p] = "loop" /\ At(p, "create")
      BY DEF Inv, SpawnCheck, InLoop
    <2>2. TypeOK'
      <3>1. "look" \in {"stop", "finish", "look"} /\ "error" \in {"error", "cancelled"}
        OBVIOUS
      <3> QED BY <1>2, <2>1, <3>1, FailsTyped DEF TypeOK, SpawnCheck
    <2>3. (\A q \in Agents \ {p} : spawn'[q] = spawn[q]) /\ spawn'[p].at = "look"
          /\ spawn'[p].child = spawn[p].child
      BY <1>2, <2>1 DEF Fails, TypeOK
    <2>4. CallIsOwn(p)'
      BY <1>2, <2>1, <2>3 DEF SpawnCheck, Inv, CallsAreOwn, CallIsOwn, ParentsAreMade
    <2> QED BY <1>2, <2>1, <2>2, <2>3, <2>4, CallMoves DEF SpawnCheck
  <1> QED BY <1>1, <1>2 DEF SpawnCheck

\* The call looks for the row it may have committed, to settle it.
LEMMA SpawnLooksKeepsInv ==
  ASSUME Inv, NEW p \in Agents, SpawnLooks(p)
  PROVE  Inv'
  <1>1. task[p] = "loop" /\ At(p, "look") /\ TypeOK /\ lost' = lost
    BY DEF SpawnLooks, InLoop, Inv
  <1>2. CASE row[spawn[p].child] = "none"
    <2>1. Leaves(p, spawn[p].exc, cancelling[p], {})
      BY <1>2 DEF SpawnLooks
    <2> QED BY <1>1, <1>2, <2>1, LeavesKeepsInv DEF SpawnLooks
  <1>3. CASE row[spawn[p].child] # "none"
    <2>1. Goes(p, "finish") /\ UNCHANGED <<timer, cancelVars, task, outcome>>
      BY <1>3 DEF SpawnLooks
    <2>2. TypeOK'
      BY <1>1, <2>1 DEF TypeOK, SpawnLooks, Goes
    <2>3. (\A q \in Agents \ {p} : spawn'[q] = spawn[q]) /\ spawn'[p].at = "finish"
          /\ spawn'[p].child = spawn[p].child
      BY <1>1, <2>1 DEF Goes, TypeOK
    <2>4. CallIsOwn(p)'
      BY <1>1, <1>3, <2>1, <2>3 DEF SpawnLooks, Inv, CallsAreOwn, CallIsOwn
    <2> QED BY <1>1, <2>1, <2>2, <2>3, <2>4, CallMoves DEF SpawnLooks
  <1> QED BY <1>2, <1>3

\* A foreground call returns with its child's outcome.
LEMMA SpawnReturnKeepsInv ==
  ASSUME Inv, NEW p \in Agents, SpawnReturn(p)
  PROVE  Inv'
  <1> DEFINE c == spawn[p].child
  <1>1. task[p] = "loop" /\ At(p, "wait") /\ UNCHANGED <<runVars, cancelVars, parent, timer, lost>>
    BY DEF SpawnReturn, InLoop
  <1>2. c \in Children /\ task[c] = "done" /\ parent[c] = p
    BY <1>1 DEF Inv, CallsAreOwn, CallIsOwn, SpawnReturn
  <1>3. spawn' = [spawn EXCEPT ![p] = Idle]
        \/ (result[c] # "ok" /\ spawn' = [spawn EXCEPT ![p].at = "stop", ![p].exc = result[c]])
    BY DEF SpawnReturn, Fails
  <1>4. result[c] # "ok" => result[c] \in {"error", "cancelled"}
    BY <1>2 DEF Inv, TypeOK
  <1>5. TypeOK'
    <2>1. spawn' \in [Agents -> [at : {"idle", "create", "look", "commit", "start", "wait", "stop", "finish"},
                             child : Children \union {NoAgent}, background : BOOLEAN,
                             exc : {"none", "error", "cancelled"}, base : Nat]]
      <3> DEFINE Call == [at : {"idle", "create", "look", "commit", "start", "wait", "stop", "finish"},
                             child : Children \union {NoAgent}, background : BOOLEAN,
                             exc : {"none", "error", "cancelled"}, base : Nat]
      <3>1. Idle \in Call /\ spawn \in [Agents -> Call]
        BY DEF Inv, TypeOK, Idle
      <3>2. ASSUME result[c] \in {"error", "cancelled"}
                     PROVE [spawn[p] EXCEPT !.at = "stop", !.exc = result[c]] \in Call
        BY <3>1, <3>2
      <3>3. spawn'[p] = Idle
              \/ (result[c] # "ok" /\ spawn'[p] = [spawn[p] EXCEPT !.at = "stop", !.exc = result[c]])
        BY <1>3, <3>1
      <3>4. \A q \in Agents \ {p} : spawn'[q] = spawn[q]
        BY <1>3, <3>1
      <3> HIDE DEF Call
      <3>5. DOMAIN spawn' = Agents /\ spawn' = [q \in Agents |-> spawn'[q]]
        BY <1>3, <3>1
      <3>6. \A q \in Agents : spawn'[q] \in Call
        BY <1>4, <3>1, <3>2, <3>3, <3>4
      <3>7. spawn' \in [Agents -> Call]
        BY <3>5, <3>6
      <3> QED BY <3>7 DEF Call
    <2> QED BY <2>1 DEF Inv, TypeOK, SpawnReturn
  <1>6. CallIsOwn(p)' /\ spawn'[p].at \in {"idle", "stop"}
    BY <1>1, <1>2, <1>3 DEF CallIsOwn, Idle, Inv, TypeOK
  <1>7. \A q \in Agents \ {p} : spawn'[q] = spawn[q]
    BY <1>3 DEF Inv, TypeOK
  <1>8. spawn'[p].child \in {NoAgent, spawn[p].child}
    BY <1>3 DEF Inv, TypeOK, Idle
  <1>9. \A a \in Agents : thrown'[a] = thrown[a]
    BY <1>1
  <1> QED BY <1>1, <1>5, <1>6, <1>7, <1>8, <1>9, CallMoves DEF SpawnReturn

\* A call that is cancelled has stopped its child's task.
LEMMA SpawnStoppedKeepsInv ==
  ASSUME Inv, NEW p \in Agents, SpawnStopped(p)
  PROVE  Inv'
  <1>1. CASE Leaves(p, "error", cancelling[p], {})
    BY <1>1, LeavesKeepsInv DEF SpawnStopped, InLoop
  <1>2. CASE Goes(p, "finish") /\ UNCHANGED <<timer, cancelVars, task, outcome>>
    <2>1. TypeOK'
      BY <1>2 DEF Inv, TypeOK, SpawnStopped, Goes
    <2>2. CallIsOwn(p)'
      BY <1>2 DEF Inv, TypeOK, SpawnStopped, Goes, InLoop, CallsAreOwn, CallIsOwn, ParentsAreMade
    <2>3. task[p] = "loop" /\ spawn' = [spawn EXCEPT ![p].at = "finish"] /\ At(p, "stop")
            /\ spawn'[p].at = "finish"
      BY <1>2 DEF Inv, TypeOK, SpawnStopped, Goes, InLoop
    <2>4. (\A q \in Agents \ {p} : spawn'[q] = spawn[q]) /\ spawn'[p].child = spawn[p].child
      BY <2>3 DEF Inv, TypeOK
    <2> QED BY <1>2, <2>1, <2>2, <2>3, <2>4, CallMoves DEF SpawnStopped
  <1> QED BY <1>1, <1>2 DEF SpawnStopped

\* The timer of the tool call throws its exception.
LEMMA TimerExpiresKeepsInv ==
  ASSUME Inv, NEW p \in Agents, TimerExpires(p)
  PROVE  Inv'
  <1>1. task[p] = "loop" /\ CancelTasks({p}) /\ UNCHANGED <<task, spawn>>
    BY DEF TimerExpires
  <1>2. thrown' \in [Agents -> BOOLEAN] /\ \A a \in Agents : task[a] \in {"none", "ready"}
          => thrown'[a] = thrown[a]
    <2>1. \A a \in Agents : thrown'[a] \in BOOLEAN
      BY <1>1, Zenon DEF CancelTasks
    <2> QED BY <1>1, <2>1 DEF CancelTasks, Inv, TypeOK
  <1>3. cancelling' \in [Agents -> Nat]
    BY <1>1 DEF CancelTasks, Inv, TypeOK
  <1>4. expired' \in 0 .. Timeouts
    BY DEF TimerExpires, Inv, TypeOK
  <1>5. TypeOK'
    BY <1>1, <1>2, <1>3, <1>4 DEF TimerExpires, Inv, TypeOK
  <1>6. CallIsOwn(p)'
    BY DEF TimerExpires, Inv, CallsAreOwn, CallIsOwn
  <1> QED BY <1>1, <1>2, <1>5, <1>6, CallMoves DEF TimerExpires, Inv, TypeOK

\* What a call passes on when it takes its exception keeps its type, and tasks that have not begun are spared.
LEMMA PassesIs ==
  ASSUME TypeOK, NEW p \in Agents, task[p] = "loop", NEW S \in SUBSET Agents,
           \A a \in S : task[a] # "ready" /\ Live(a),
         Passes(p, cancelling[p], S)
  PROVE  /\ thrown' \in [Agents -> BOOLEAN] /\ cancelling' \in [Agents -> Nat]
         /\ \A a \in Agents : task[a] \in {"none", "ready"} => thrown'[a] = thrown[a]
  <1>1. cancelling' \in [Agents -> Nat]
    BY DEF Passes, TypeOK
  <1>2. \A a \in Agents : thrown'[a] \in BOOLEAN
    BY Zenon DEF Passes, TypeOK
  <1>3. thrown' \in [Agents -> BOOLEAN]
    BY <1>2 DEF Passes
  <1>4. ASSUME NEW a \in Agents, task[a] \in {"none", "ready"} PROVE thrown'[a] = thrown[a]
    <2>1. a # p /\ a \notin S
      BY <1>4
    <2>2. thrown'[a] = (thrown[a] \/ a \in S) /\ thrown[a] \in BOOLEAN
      BY <2>1 DEF Passes, TypeOK
    <2> QED BY <2>1, <2>2
  <1> QED BY <1>1, <1>3, <1>4

\* The transaction commits, and the call knows it or is interrupted in it.
LEMMA CommitKeepsInv ==
  ASSUME Inv, NEW p \in Agents, task[p] = "loop", At(p, "commit"), TypeOK',
         row' = [row EXCEPT ![spawn[p].child] = "queued"],
         \A q \in Agents \ {p} : spawn'[q] = spawn[q],
         spawn'[p].child = spawn[p].child, spawn'[p].at \in {"start", "look"},
         UNCHANGED <<task, lost, parent, blocked, closed, pending, op, tree, members, failing, settled,
                     provider, down,
                     entries, unconfirmed>>,
         \A a \in Agents : task[a] \in {"none", "ready"} => thrown'[a] = thrown[a]
  PROVE  Inv'
  <1> DEFINE c == spawn[p].child
  <1>1. c \in Children /\ parent[c] = p /\ row[c] = "none" /\ task[c] = "none"
    BY DEF Inv, CallsAreOwn, CallIsOwn, ParentsAreMade
  <1>2. row'[c] = "queued" /\ \A a \in Agents \ {c} : row'[a] = row[a]
    BY <1>1 DEF Inv, TypeOK
  <1>3. \A q \in Agents \ {p} : spawn[q].child # c
    BY <1>1 DEF Inv, CallsAreOwn, CallIsOwn, TypeOK
  <1> HIDE DEF c
  <1>4. ParentsAreMade'
    BY <1>1, <1>2 DEF Inv, ParentsAreMade
  <1>5. CallsAreOwn'
    <2>1. CallIsOwn(p)'
      BY <1>1, <1>2 DEF CallIsOwn, c
    <2>2. ASSUME NEW q \in Agents \ {p} PROVE CallIsOwn(q)'
      BY <1>2, <1>3, <2>2 DEF Inv, CallsAreOwn, CallIsOwn
    <2> QED BY <2>1, <2>2 DEF CallsAreOwn
  <1>6. UnstartedAreCalled'
    <2> SUFFICES ASSUME NEW d \in Children, row'[d] \in Unfinished, task[d] = "none"
                 PROVE  Called(d)'
      BY DEF UnstartedAreCalled
    <2>1. CASE d = c
      BY <2>1 DEF c, Called
    <2>2. CASE d # c
      <3>1. Called(d)
        BY <1>2, <2>2 DEF Inv, UnstartedAreCalled
      <3>2. ASSUME NEW q \in Agents, spawn[q].child = d PROVE spawn'[q] = spawn[q]
        BY <2>2, <3>2 DEF c
      <3> QED BY <3>1, <3>2 DEF Called
    <2> QED BY <2>1, <2>2
  <1>14. LostAreLeft'
    <2>1. \A d \in lost : d \in Children /\ d # c
      BY <1>1 DEF Inv, LostAreLeft, TypeOK
    <2>2. \A q \in Agents : spawn'[q].child = spawn[q].child
      OBVIOUS
    <2> QED BY <1>2, <2>1, <2>2 DEF Inv, LostAreLeft
  <1>7. EndedAreCared'
    BY <1>1, <1>2, CaredRest DEF Inv, EndedAreCared, PendingHaveEnded
  <1>8. PendingHaveEnded'
    BY DEF Inv, PendingHaveEnded
  <1>9. GatesAreClosed'
    <2>1. \A d \in Children : d = c \/ row'[d] = row[d]
      BY <1>2
    <2>2. \A q \in Agents : At(q, "start")' /\ row'[spawn'[q].child] \in Terminal
            => spawn'[q].child \in blocked
      <3> SUFFICES ASSUME NEW q \in Agents, At(q, "start")', row'[spawn'[q].child] \in Terminal
                   PROVE  spawn'[q].child \in blocked
        OBVIOUS
      <3>1. q # p
        BY <1>2 DEF c
      <3>2. spawn[q].child \in Children /\ spawn[q].child # c /\ At(q, "start")
        BY <1>3, <3>1 DEF Inv, CallsAreOwn, CallIsOwn
      <3> QED BY <2>1, <3>1, <3>2 DEF Inv, GatesAreClosed
    <2>3. \A d \in Children \intersect blocked :
             parent[d] \in blocked \/ row'[d] \in Terminal \/ (row'[d] \in Unfinished /\ Cared(d))
      BY <1>1, <2>1 DEF Inv, GatesAreClosed
    <2>4. \A d \in Children : op[d] = "over" => row'[d] \in Terminal
            \/ (parent[d] \in blocked /\ task[d] = "none")
      BY <1>1, <2>1 DEF Inv, GatesAreClosed
    <2> QED BY <2>2, <2>3, <2>4, CaredRest DEF Inv, GatesAreClosed
  <1>10. TreesAreCovered'
    <2>1. \A t \in Agents : tree[t] # "none" => t # c
      BY <1>1 DEF Inv, TreesAreCovered
    <2>2. \A t \in Agents : \A a \in members[t] : a \in Agents /\ row'[a] # "none"
      BY <1>1, <1>2 DEF Inv, TypeOK, TreesAreCovered
    <2> QED BY <1>1, <1>2, <2>1, <2>2, TreesRest DEF Inv, TreesAreCovered
  <1>11. SettledHaveEnded'
    <2> SUFFICES ASSUME unconfirmed = 0
                 PROVE  SettledHaveEnded'
      BY DEF SettledHaveEnded
    <2>1. \A a \in Agents : row'[a] \in Terminal => task[a] \in {"none", "done"}
            \/ (task[a] = "ready" /\ thrown'[a])
      BY <1>2 DEF Inv, SettledHaveEnded
    <2>2. ASSUME NEW t \in settled, NEW a \in Tree(t) PROVE row'[a] \in Unfinished => a \in lost
      <3>1. t \in Agents /\ a \in Agents /\ (row[a] \in Unfinished => a \in lost)
        BY <2>2, TreesRest DEF Inv, SettledHaveEnded, TypeOK
      <3>2. CASE a = c
        <4>1. a # t
          BY <1>1, <3>1, <3>2 DEF Inv, SettledTreesAreQuiet
        <4>2. p \in Tree(t)
          BY <1>1, <3>1, <3>2, <4>1, TreeIs
        <4>3. row[p] \notin Unfinished /\ row[p] \notin Terminal
          BY <3>1, <4>2 DEF Inv, SettledHaveEnded, LostAreLeft
        <4> QED BY <4>3 DEF Inv, TypeOK, ParentsAreMade
      <3> QED BY <1>2, <3>1, <3>2
    <2>3. \A t \in settled : \A a \in Tree(t)' : row'[a] \in Unfinished => a \in lost
      <3>1. settled \subseteq Agents
        BY DEF Inv, TypeOK
      <3>2. \A t \in Agents : Tree(t)' = Tree(t)
        BY TreesRest
      <3> QED BY <2>2, <3>1, <3>2
    <2> QED BY <2>1, <2>3 DEF Inv, SettledHaveEnded
  <1>12. SettledTreesAreQuiet'
    <2>1. \A t \in settled : t \in Agents /\ t # c
      BY <1>1 DEF Inv, SettledTreesAreQuiet, TypeOK
    <2> QED BY <1>1, <1>2, <2>1, TreesRest DEF Inv, SettledTreesAreQuiet
  <1>13. ProviderIsLast'
    BY DEF Inv, ProviderIsLast
  <1> QED BY <1>4, <1>5, <1>6, <1>7, <1>8, <1>9, <1>10, <1>11, <1>12, <1>13, <1>14 DEF Inv

\* The child's row is committed.
LEMMA SpawnCommitKeepsInv ==
  ASSUME Inv, NEW p \in Agents, SpawnCommit(p)
  PROVE  Inv'
  <1>1. task[p] = "loop" /\ At(p, "commit") /\ spawn[p].child \in Children
    BY DEF SpawnCommit, InLoop, Inv, CallsAreOwn, CallIsOwn
  <1>2. TypeOK'
    BY <1>1 DEF SpawnCommit, Goes, Inv, TypeOK
  <1>3. (\A q \in Agents \ {p} : spawn'[q] = spawn[q]) /\ spawn'[p].child = spawn[p].child
          /\ spawn'[p].at = "start"
    BY DEF SpawnCommit, Goes, Inv, TypeOK
  <1> QED BY <1>1, <1>2, <1>3, CommitKeepsInv DEF SpawnCommit

\* The exception is caught in the call, which has its child to stop or to settle.
LEMMA SpawnInterruptedKeepsInv ==
  ASSUME Inv, NEW p \in Agents, SpawnInterrupted(p)
  PROVE  Inv'
  <1> DEFINE c == spawn[p].child
  <1>1. task[p] = "loop" /\ TypeOK
    BY DEF SpawnInterrupted, Inv
  <1>2. ~ At(p, "idle") => c \in Children /\ parent[c] = p
    BY <1>1 DEF Inv, CallsAreOwn, CallIsOwn
  <1>3. CASE /\ At(p, "look") /\ Leaves(p, "cancelled", cancelling[p], {}) /\ UNCHANGED row
             /\ lost' = IF row[c] \in Unfinished THEN lost \union {c} ELSE lost
    BY <1>1, <1>3, LeavesKeepsInv DEF SpawnInterrupted
  <1>4. CASE /\ Leaves(p, "cancelled", cancelling[p], {c} \intersect {a \in Agents : Live(a)})
                  /\ At(p, "stop")
             /\ task[c] # "ready" /\ UNCHANGED <<row, lost>>
    <2>1. \A a \in {c} \intersect {a \in Agents : Live(a)} : task[a] \notin {"none", "ready"}
      BY <1>4
    <2>2. {c} \intersect {a \in Agents : Live(a)} \in SUBSET Agents
      OBVIOUS
    <2> QED BY <1>1, <1>4, <2>1, <2>2, LeavesKeepsInv DEF SpawnInterrupted
  <1>5. ASSUME NEW place \in {"stop", "finish", "look"}, NEW S \in SUBSET Agents, \A a \in S : task[a] # "ready"
                 /\ Live(a),
               Fails(p, place, "cancelled"), Passes(p, cancelling[p], S), UNCHANGED <<timer, task, outcome>>,
               ~ At(p, "idle"), UNCHANGED lost
        PROVE  /\ TypeOK' \/ row' # row
               /\ spawn' \in [Agents -> [at : {"idle", "create", "look", "commit", "start", "wait", "stop", "finish"},
                                child : Children \union {NoAgent}, background : BOOLEAN,
                                exc : {"none", "error", "cancelled"}, base : Nat]]
               /\ thrown' \in [Agents -> BOOLEAN] /\ cancelling' \in [Agents -> Nat]
               /\ \A a \in Agents : task[a] \in {"none", "ready"} => thrown'[a] = thrown[a]
               /\ \A q \in Agents \ {p} : spawn'[q] = spawn[q]
               /\ spawn'[p].child = c /\ spawn'[p].at = place
    <2>1. /\ thrown' \in [Agents -> BOOLEAN] /\ cancelling' \in [Agents -> Nat]
          /\ \A a \in Agents : task[a] \in {"none", "ready"} => thrown'[a] = thrown[a]
      BY <1>1, <1>5, PassesIs
    <2>2. spawn' \in [Agents -> [at : {"idle", "create", "look", "commit", "start", "wait", "stop", "finish"},
                                child : Children \union {NoAgent}, background : BOOLEAN,
                                exc : {"none", "error", "cancelled"}, base : Nat]]
      <3>1. "cancelled" \in {"error", "cancelled"} /\ TypeOK
        BY <1>1
      <3> QED BY <1>5, <3>1, FailsTyped
    <2>3. (\A q \in Agents \ {p} : spawn'[q] = spawn[q]) /\ spawn'[p].child = c /\ spawn'[p].at = place
      BY <1>1, <1>5 DEF Fails, TypeOK
    <2>4. TypeOK' \/ row' # row
      BY <1>1, <1>5, <2>1, <2>2 DEF SpawnInterrupted, TypeOK
    <2> QED BY <2>1, <2>2, <2>3, <2>4
  <1>6. CASE /\ At(p, "commit") /\ row' = [row EXCEPT ![c] = "queued"] /\ Fails(p, "look", "cancelled")
             /\ Passes(p, cancelling[p], {}) /\ UNCHANGED <<timer, task, outcome, lost>>
    <2>1. row' \in [Agents -> {"none"} \union Unfinished \union Terminal]
      BY <1>1, <1>2, <1>6 DEF TypeOK
    <2>2. /\ spawn' \in [Agents -> [at : {"idle", "create", "look", "commit", "start", "wait", "stop", "finish"},
                                child : Children \union {NoAgent}, background : BOOLEAN,
                                exc : {"none", "error", "cancelled"}, base : Nat]]
          /\ thrown' \in [Agents -> BOOLEAN] /\ cancelling' \in [Agents -> Nat]
          /\ \A a \in Agents : task[a] \in {"none", "ready"} => thrown'[a] = thrown[a]
          /\ \A q \in Agents \ {p} : spawn'[q] = spawn[q]
          /\ spawn'[p].child = c /\ spawn'[p].at = "look"
      <3>1. ~ At(p, "idle") /\ {} \in SUBSET Agents /\ "look" \in {"stop", "finish", "look"}
        BY <1>6
      <3> HIDE DEF At, Live, Agents, c
      <3> QED BY <1>5, <1>6, <3>1
    <2>3. TypeOK'
      BY <1>1, <1>6, <2>1, <2>2 DEF SpawnInterrupted, TypeOK
    <2> QED BY <1>1, <1>6, <2>2, <2>3, CommitKeepsInv DEF SpawnInterrupted
  <1>9. CASE /\ At(p, "create") \/ At(p, "commit")
             /\ Fails(p, "look", "cancelled") /\ Passes(p, cancelling[p], {})
             /\ UNCHANGED <<timer, task, outcome>> /\ UNCHANGED <<row, lost>>
    <2>1. /\ TypeOK' /\ \A a \in Agents : task[a] \in {"none", "ready"} => thrown'[a] = thrown[a]
          /\ \A q \in Agents \ {p} : spawn'[q] = spawn[q]
          /\ spawn'[p].child = c /\ spawn'[p].at = "look"
      BY <1>5, <1>9
    <2>2. CallIsOwn(p)'
      BY <1>1, <1>2, <1>9, <2>1 DEF SpawnInterrupted, Inv, CallsAreOwn, CallIsOwn, ParentsAreMade
    <2> QED BY <1>1, <1>9, <2>1, <2>2, CallMoves DEF SpawnInterrupted
  <1>7. CASE /\ At(p, "start") /\ Fails(p, "finish", "cancelled")
             /\ Passes(p, cancelling[p], {}) /\ UNCHANGED <<timer, task, outcome>> /\ UNCHANGED <<row, lost>>
    <2>1. /\ TypeOK' /\ \A a \in Agents : task[a] \in {"none", "ready"} => thrown'[a] = thrown[a]
          /\ \A q \in Agents \ {p} : spawn'[q] = spawn[q]
          /\ spawn'[p].child = c /\ spawn'[p].at = "finish"
      BY <1>5, <1>7
    <2>2. CallIsOwn(p)'
      BY <1>1, <1>2, <1>7, <2>1 DEF SpawnInterrupted, Inv, CallsAreOwn, CallIsOwn
    <2> QED BY <1>1, <1>7, <2>1, <2>2, CallMoves DEF SpawnInterrupted
  <1>8. CASE /\ At(p, "wait") /\ task[c] # "ready" /\ Fails(p, "stop", "cancelled")
             /\ Passes(p, cancelling[p], Cancellable({c})) /\ UNCHANGED <<timer, task, outcome>>
                  /\ UNCHANGED <<row, lost>>
    <2>1. Cancellable({c}) \in SUBSET Agents /\ \A a \in Cancellable({c}) : task[a] # "ready" /\ Live(a)
      BY <1>2, <1>8 DEF Cancellable
    <2>2. /\ TypeOK' /\ \A a \in Agents : task[a] \in {"none", "ready"} => thrown'[a] = thrown[a]
          /\ \A q \in Agents \ {p} : spawn'[q] = spawn[q]
          /\ spawn'[p].child = c /\ spawn'[p].at = "stop"
      BY <1>5, <1>8, <2>1
    <2>3. CallIsOwn(p)'
      BY <1>1, <1>2, <1>8, <2>2 DEF SpawnInterrupted, Inv, CallsAreOwn, CallIsOwn
    <2> QED BY <1>1, <1>8, <2>2, <2>3, CallMoves DEF SpawnInterrupted
  <1> QED BY <1>3, <1>4, <1>6, <1>7, <1>8, <1>9 DEF SpawnInterrupted

\* The child's task is created, unless its gate has been closed meanwhile.
LEMMA SpawnStartKeepsInv ==
  ASSUME Inv, NEW p \in Agents, SpawnStart(p)
  PROVE  Inv'
  <1> DEFINE c == spawn[p].child
  <1>1. /\ task[p] = "loop" /\ At(p, "start") /\ c \in Children /\ parent[c] = p /\ row[c] # "none"
             /\ task[c] = "none"
        /\ c # p /\ ~ thrown[c]
    BY DEF SpawnStart, InLoop, Inv, CallsAreOwn, CallIsOwn, ParentsAreMade
  <1>2. CASE ~ OpenAtStart(p)
    <2>1. Fails(p, "finish", "error") /\ UNCHANGED <<task, cancelVars>>
      BY <1>2 DEF SpawnStart
    <2>2. spawn' \in [Agents -> [at : {"idle", "create", "look", "commit", "start", "wait", "stop", "finish"},
                                child : Children \union {NoAgent}, background : BOOLEAN,
                                exc : {"none", "error", "cancelled"}, base : Nat]]
      <3>1. TypeOK /\ "finish" \in {"stop", "finish", "look"} /\ "error" \in {"error", "cancelled"}
        BY DEF Inv
      <3> QED BY <2>1, <3>1, FailsTyped
    <2>3. TypeOK'
      BY <2>1, <2>2 DEF SpawnStart, Inv, TypeOK
    <2>4. (\A q \in Agents \ {p} : spawn'[q] = spawn[q]) /\ spawn'[p].child = c /\ spawn'[p].at = "finish"
      BY <2>1 DEF Fails, Inv, TypeOK
    <2>5. CallIsOwn(p)'
      BY <1>1, <2>1, <2>4 DEF SpawnStart, CallIsOwn
    <2> QED BY <1>1, <2>1, <2>3, <2>4, <2>5, CallMoves DEF SpawnStart
  <1>3. CASE OpenAtStart(p)
    <2>1. /\ task' = [task EXCEPT ![c] = "ready"] /\ CancelTasks(IF c \in blocked THEN {c} ELSE {})
          /\ p \notin blocked
          /\ UNCHANGED <<row, ends, outcome, result, parent, timer, lost, gateVars, pending, treeVars, endVars,
               boundVars>>
      BY <1>3 DEF SpawnStart, OpenAtStart, MaySpawn
    <2>2. \/ c \in blocked /\ Fails(p, "stop", "error")
          \/ spawn' = [spawn EXCEPT ![p] = Idle]
          \/ Goes(p, "wait")
      BY <1>3 DEF SpawnStart
    <2>3. (\A a \in Agents : thrown'[a] \in BOOLEAN) /\ \A a \in Agents : a # c => thrown'[a] = thrown[a]
      <3>1. \A a \in Agents : thrown'[a] \in BOOLEAN
        BY <2>1, Zenon DEF CancelTasks
      <3>2. ASSUME NEW a \in Agents, a # c PROVE thrown'[a] = thrown[a]
        <4>1. thrown'[a] = (thrown[a] \/ a \in (IF c \in blocked THEN {c} ELSE {})) /\ thrown[a] \in BOOLEAN
          BY <2>1 DEF CancelTasks, Inv, TypeOK
        <4> QED BY <3>2, <4>1
      <3> QED BY <3>1, <3>2
    <2>4. thrown'[c] <=> c \in blocked
      BY <1>1, <2>1 DEF CancelTasks
    <2>5. spawn' \in [Agents -> [at : {"idle", "create", "look", "commit", "start", "wait", "stop", "finish"},
                                child : Children \union {NoAgent}, background : BOOLEAN,
                                exc : {"none", "error", "cancelled"}, base : Nat]]
      <3>1. CASE Fails(p, "stop", "error")
        <4>1. TypeOK
          BY DEF Inv
        <4> QED BY <3>1, <4>1, FailsTyped
      <3>2. CASE spawn' = [spawn EXCEPT ![p] = Idle]
        BY <3>2 DEF Inv, TypeOK, Idle
      <3>3. CASE Goes(p, "wait")
        <4>1. spawn \in [Agents -> SpawnCalls] /\ spawn' = [spawn EXCEPT ![p].at = "wait"]
          BY <3>3 DEF Goes, Inv, TypeOK, SpawnCalls
        <4>2. [spawn[p] EXCEPT !.at = "wait"] \in SpawnCalls
          BY <4>1 DEF SpawnCalls
        <4>3. spawn' \in [Agents -> SpawnCalls]
          BY <4>1, <4>2
        <4> QED BY <4>3 DEF SpawnCalls
      <3> QED BY <2>2, <3>1, <3>2, <3>3
    <2>6. (\A q \in Agents \ {p} : spawn'[q] = spawn[q])
          /\ \/ spawn'[p] = Idle
             \/ spawn'[p].child = c /\ spawn'[p].at \in {"stop", "wait"}
      BY <2>2 DEF Fails, Goes, Inv, TypeOK
    <2>7. task'[c] = "ready" /\ \A a \in Agents \ {c} : task'[a] = task[a]
      BY <1>1, <2>1 DEF Inv, TypeOK
    <2>8. TypeOK'
      <3>1. cancelling' \in [Agents -> Nat]
        BY <2>1 DEF CancelTasks, Inv, TypeOK
      <3>2. thrown' \in [Agents -> BOOLEAN]
        BY <2>1, <2>3 DEF CancelTasks
      <3> QED BY <2>1, <2>5, <3>1, <3>2 DEF Inv, TypeOK
    <2>9. \A t \in Agents : t \in blocked => c \notin Tree(t) \ {t}
      BY <1>1, <2>1, TreeIs, BlockedBelow DEF Inv
    <2> HIDE DEF c
    <2>10. ParentsAreMade'
      BY <1>1, <2>1, <2>3, <2>7 DEF Inv, ParentsAreMade
    <2>11. CallsAreOwn'
      <3>1. CallIsOwn(p)'
        BY <1>1, <2>1, <2>6, <2>7 DEF CallIsOwn, Idle
      <3>2. ASSUME NEW q \in Agents \ {p} PROVE CallIsOwn(q)'
        <4>1. spawn[q].child # c
          BY <1>1 DEF Inv, CallsAreOwn, CallIsOwn
        <4>2. ~ At(q, "idle") => q # c
          BY <1>1 DEF Inv, CallsAreOwn, CallIsOwn
        <4>3. CallIsOwn(q)
          BY DEF Inv, CallsAreOwn
        <4> QED BY <2>1, <2>6, <2>7, <4>1, <4>2, <4>3 DEF CallIsOwn
      <3> QED BY <3>1, <3>2 DEF CallsAreOwn
    <2>12. UnstartedAreCalled'
      <3> SUFFICES ASSUME NEW d \in Children, row[d] \in Unfinished, task'[d] = "none"
                   PROVE  Called(d)'
        BY <2>1 DEF UnstartedAreCalled
      <3>1. d # c /\ task[d] = "none"
        BY <2>7
      <3>2. Called(d)
        BY <3>1 DEF Inv, UnstartedAreCalled
      <3>3. ASSUME NEW q \in Agents, spawn[q].child = d PROVE spawn'[q] = spawn[q]
        BY <2>6, <3>1, <3>3 DEF c
      <3> QED BY <2>1, <3>2, <3>3 DEF Called
    <2>20. LostAreLeft'
      <3>1. \A d \in lost : d # c /\ d \in Children
        BY DEF c, Inv, LostAreLeft, TypeOK
      <3>2. \A q \in Agents : spawn'[q].child \in {NoAgent, spawn[q].child}
        BY <2>6 DEF Idle, c
      <3> QED BY <2>1, <2>7, <3>1, <3>2 DEF Inv, LostAreLeft
    <2>13. EndedAreCared'
      <3>1. c \notin pending
        BY <1>1 DEF Inv, PendingHaveEnded
      <3>2. row[c] \in Unfinished /\ c \in blocked => Cared(c)
        BY <1>1, <2>1 DEF Inv, GatesAreClosed
      <3>3. \A d \in Children : Cared(d)' = Cared(d)
        BY <2>1, CaredRest
      <3> QED BY <1>1, <2>1, <2>3, <2>4, <2>7, <3>1, <3>2, <3>3 DEF Inv, EndedAreCared
    <2>14. PendingHaveEnded'
      BY <1>1, <2>1, <2>7 DEF Inv, PendingHaveEnded, TypeOK
    <2>15. GatesAreClosed'
      <3>1. \A q \in Agents : At(q, "start")' => q # p /\ spawn'[q] = spawn[q]
        BY <2>6 DEF Idle
      <3>2. \A d \in Children : op[d] = "over" => row[d] \in Terminal
              \/ (parent[d] \in blocked /\ task'[d] = "none")
        BY <1>1, <2>1, <2>7 DEF Inv, GatesAreClosed
      <3>3. \A d \in Children : Cared(d)' = Cared(d)
        BY <2>1, CaredRest
      <3> QED BY <2>1, <3>1, <3>2, <3>3 DEF Inv, GatesAreClosed
    <2>16. TreesAreCovered'
      <3>1. \A t \in Agents : \A a \in Tree(t) :
               tree[t] = "stop" /\ down = "no" /\ row[a] \in Unfinished =>
                  a \in members[t] \/ (task'[a] = "none" /\ a # t)
        <4> SUFFICES ASSUME NEW t \in Agents, NEW a \in Tree(t), tree[t] = "stop", down = "no",
                              row[a] \in Unfinished
                     PROVE  a \in members[t] \/ (task'[a] = "none" /\ a # t)
          OBVIOUS
        <4>1. a \in members[t] \/ (task[a] = "none" /\ a # t)
          BY DEF Inv, TreesAreCovered
        <4>2. t \in blocked /\ a \in Agents
          BY TreeIs DEF Inv, TreesAreCovered
        <4> QED BY <2>7, <2>9, <4>1, <4>2
      <3> QED BY <2>1, <3>1, TreesRest DEF Inv, TreesAreCovered
    <2>17. SettledHaveEnded'
      <3> SUFFICES ASSUME unconfirmed = 0
                   PROVE  SettledHaveEnded'
        BY <2>1 DEF SettledHaveEnded
      <3>1. row[c] \in Terminal => c \in blocked
        BY <1>1 DEF Inv, GatesAreClosed, c
      <3>2. \A a \in Agents : row[a] \in Terminal => task'[a] \in {"none", "done"}
              \/ (task'[a] = "ready" /\ thrown'[a])
        BY <2>3, <2>4, <2>7, <3>1 DEF Inv, SettledHaveEnded
      <3>3. \A t \in settled : t \in Agents /\ \A a \in Tree(t)' : row[a] \in Unfinished => a \in lost
        BY <2>1, TreesRest DEF Inv, SettledHaveEnded, TypeOK
      <3> QED BY <2>1, <3>2, <3>3 DEF Inv, SettledHaveEnded
    <2>18. SettledTreesAreQuiet'
      <3>1. ASSUME NEW t \in settled, NEW a \in Tree(t), row[a] \in Unfinished PROVE task'[a] = "none"
                     /\ a # t
        <4>1. t \in Agents /\ t \in blocked /\ task[a] = "none" /\ a # t
          BY <3>1 DEF Inv, SettledTreesAreQuiet, TypeOK
        <4>2. a \in Agents
          BY <4>1, TreeIs
        <4> QED BY <2>7, <2>9, <4>1, <4>2
      <3> QED BY <2>1, <3>1, TreesRest DEF Inv, SettledTreesAreQuiet, TypeOK
    <2>19. ProviderIsLast'
      <3>1. provider # "closed"
        BY <1>1 DEF Inv, ProviderIsLast
      <3>2. task'[Root] = task[Root] /\ \A d \in Children : task[d] # "none" => task'[d] # "none"
        BY <1>1, <2>7
      <3> QED BY <2>1, <3>1, <3>2 DEF Inv, ProviderIsLast, TypeOK
    <2> QED BY <2>8, <2>10, <2>11, <2>12, <2>13, <2>14, <2>15, <2>16, <2>17, <2>18, <2>19, <2>20 DEF Inv
  <1> QED BY <1>2, <1>3

\* A call that failed settles the row of its child.
LEMMA SpawnFinishKeepsInv ==
  ASSUME Inv, NEW p \in Agents, SpawnFinish(p)
  PROVE  Inv'
  <1> DEFINE c == spawn[p].child
             st == IF spawn[p].exc = "cancelled" THEN "cancelled" ELSE "failed"
  <1>1. /\ TypeOK /\ task[p] = "loop" /\ At(p, "finish") /\ c \in Children /\ parent[c] = p /\ row[c] # "none"
        /\ task[c] \in {"none", "done"} /\ c # p
    BY DEF SpawnFinish, Inv, CallsAreOwn, CallIsOwn
  <1>2. Finish(c, st) /\ UNCHANGED <<result, parent, lost, gateVars, pending, treeVars, endVars, boundVars>>
    BY DEF SpawnFinish
  <1>3. st \in Terminal
    OBVIOUS
  <1>4. \E exc \in {"cancelled", spawn[p].exc}, count \in Nat : Leaves(p, exc, count, {})
    <2>1. cancelling[p] \in Nat /\ Uncancelled(cancelling[p]) \in Nat
      BY <1>1 DEF TypeOK, Uncancelled
    <2> QED BY <2>1 DEF SpawnFinish
  <1> HIDE DEF c, st
  <1>5. /\ spawn' = [spawn EXCEPT ![p] = Idle]
        /\ timer' \in [Agents -> BOOLEAN] /\ thrown' \in [Agents -> BOOLEAN]
             /\ cancelling' \in [Agents -> Nat]
        /\ task' \in [Agents -> {"none", "ready", "mark", "loop", "clean", "finish", "done"}]
        /\ outcome' \in [Agents -> Terminal]
        /\ task'[p] \in {"loop", "clean"} /\ \A a \in Agents \ {p} : task'[a] = task[a]
        /\ \A a \in Agents \ {p} : thrown'[a] = thrown[a]
    <2>1. TypeOK /\ task[p] = "loop"
      BY <1>1
    <2>2. PICK count \in Nat, S \in SUBSET Agents, exc \in {"cancelled", spawn[p].exc} : S = {}
            /\ Leaves(p, exc, count, S)
      BY <1>4
    <2>3. \A a \in Agents \ {p} : a \notin S => thrown'[a] = thrown[a]
      <3> SUFFICES ASSUME NEW a \in Agents \ {p}, a \notin S PROVE thrown'[a] = thrown[a]
        OBVIOUS
      <3> QED BY <2>1, <2>2, LeavesSpares
    <2>4. /\ spawn' = [spawn EXCEPT ![p] = Idle]
          /\ timer' \in [Agents -> BOOLEAN] /\ thrown' \in [Agents -> BOOLEAN]
               /\ cancelling' \in [Agents -> Nat]
          /\ task' \in [Agents -> {"none", "ready", "mark", "loop", "clean", "finish", "done"}]
          /\ outcome' \in [Agents -> Terminal]
          /\ task'[p] \in {"loop", "clean"} /\ \A a \in Agents \ {p} : task'[a] = task[a]
      BY <2>1, <2>2, LeavesIs
    <2> QED BY <2>2, <2>3, <2>4
  <1>6. spawn'[p] = Idle /\ \A q \in Agents \ {p} : spawn'[q] = spawn[q]
    BY <1>1, <1>5 DEF TypeOK
  <1>7. /\ row' \in [Agents -> {"none"} \union Unfinished \union Terminal] /\ ends' \in [Children -> Nat]
        /\ row'[c] \in Terminal /\ \A a \in Agents \ {c} : row'[a] = row[a]
    <2>1. CASE row[c] \in Unfinished
      <3>1. row' = [row EXCEPT ![c] = st] /\ ends' = [ends EXCEPT ![c] = @ + 1]
        BY <1>2, <2>1 DEF Finish
      <3> QED BY <1>1, <1>3, <3>1 DEF TypeOK
    <2>2. CASE row[c] \notin Unfinished
      <3>1. row' = row /\ ends' = ends
        BY <1>2, <2>2 DEF Finish
      <3> QED BY <1>1, <2>2, <3>1 DEF TypeOK
    <2> QED BY <2>1, <2>2
  <1>8. TypeOK'
    <2>1. spawn' \in [Agents -> [at : {"idle", "create", "look", "commit", "start", "wait", "stop", "finish"},
                               child : Children \union {NoAgent}, background : BOOLEAN,
                               exc : {"none", "error", "cancelled"}, base : Nat]]
      BY <1>1, <1>5 DEF TypeOK, Idle
    <2> QED BY <1>1, <1>2, <1>5, <1>7, <2>1 DEF TypeOK
  <1>9. \A a \in Agents : task[a] \in {"none", "ready", "done"} => thrown'[a] = thrown[a]
          /\ task'[a] = task[a]
    BY <1>1, <1>5 DEF TypeOK
  <1>10. ParentsAreMade'
    BY <1>1, <1>2, <1>5, <1>7, <1>9 DEF Inv, ParentsAreMade
  <1>11. CallsAreOwn'
    <2>1. CallIsOwn(p)'
      BY <1>6 DEF CallIsOwn, Idle
    <2>2. ASSUME NEW q \in Agents \ {p} PROVE CallIsOwn(q)'
      <3>1. spawn[q].child # c /\ CallIsOwn(q)
        BY <1>1 DEF Inv, CallsAreOwn, CallIsOwn
      <3> QED BY <1>1, <1>2, <1>5, <1>6, <1>7, <1>9, <3>1 DEF CallIsOwn
    <2> QED BY <2>1, <2>2 DEF CallsAreOwn
  <1>12. UnstartedAreCalled'
    <2> SUFFICES ASSUME NEW d \in Children, row'[d] \in Unfinished, task'[d] = "none"
                 PROVE  Called(d)'
      BY DEF UnstartedAreCalled
    <2>1. d # c /\ row[d] \in Unfinished /\ task[d] = "none"
      BY <1>5, <1>7
    <2>2. Called(d)
      BY <2>1 DEF Inv, UnstartedAreCalled
    <2>3. ASSUME NEW q \in Agents, spawn[q].child = d PROVE spawn'[q] = spawn[q]
      BY <1>6, <2>1, <2>3 DEF c
    <2> QED BY <1>2, <2>2, <2>3 DEF Called
  <1>20. LostAreLeft'
    <2>1. \A d \in lost : d # c /\ d \in Children /\ d # p
      BY <1>1 DEF c, Inv, LostAreLeft, TypeOK
    <2>2. \A q \in Agents : spawn'[q].child \in {NoAgent, spawn[q].child}
      BY <1>6 DEF Idle
    <2> QED BY <1>2, <1>5, <1>7, <2>1, <2>2 DEF Inv, LostAreLeft
  <1>13. EndedAreCared'
    <2>1. \A d \in Children : row'[d] \in Unfinished => d # c /\ row[d] \in Unfinished
      BY <1>7
    <2>2. \A d \in Children : task'[d] = "done" \/ (task'[d] = "ready" /\ thrown'[d]) =>
                                task[d] = "done" \/ (task[d] = "ready" /\ thrown[d])
      BY <1>5, <1>9
    <2> QED BY <1>2, <2>1, <2>2, CaredRest DEF Inv, EndedAreCared
  <1>14. PendingHaveEnded'
    BY <1>1, <1>2, <1>9 DEF Inv, PendingHaveEnded, TypeOK
  <1>15. GatesAreClosed'
    <2>1. \A q \in Agents : At(q, "start")' => spawn'[q] = spawn[q] /\ spawn[q].child \in Children
            /\ spawn[q].child # c
      BY <1>1, <1>6 DEF Idle, Inv, CallsAreOwn, CallIsOwn
    <2>2. \A d \in Children : Cared(d)' = Cared(d)
      BY <1>2, CaredRest
    <2>3. \A d \in Children : op[d] = "over" => row'[d] \in Terminal
            \/ (parent[d] \in blocked /\ task'[d] = "none")
      BY <1>7, <1>9 DEF Inv, GatesAreClosed
    <2>4. \A d \in Children \intersect blocked :
             parent[d] \in blocked \/ row'[d] \in Terminal \/ (row'[d] \in Unfinished /\ Cared(d))
      BY <1>7 DEF Inv, GatesAreClosed
    <2>5. \A q \in Agents : At(q, "start")' /\ row'[spawn'[q].child] \in Terminal
            => spawn'[q].child \in blocked
      BY <1>7, <2>1 DEF Inv, GatesAreClosed
    <2> QED BY <1>2, <2>2, <2>3, <2>4, <2>5 DEF Inv, GatesAreClosed
  <1>16. TreesAreCovered'
    <2>1. \A t \in Agents : \A a \in Tree(t) :
             tree[t] = "stop" /\ down = "no" /\ row'[a] \in Unfinished =>
                a \in members[t] \/ (task'[a] = "none" /\ a # t)
      <3> SUFFICES ASSUME NEW t \in Agents, NEW a \in Tree(t), tree[t] = "stop", down = "no",
                            row'[a] \in Unfinished
                   PROVE  a \in members[t] \/ (task'[a] = "none" /\ a # t)
        OBVIOUS
      <3>1. a \in Agents
        BY TreeIs
      <3>2. row[a] \in Unfinished
        BY <1>7, <3>1
      <3> QED BY <1>9, <3>1, <3>2 DEF Inv, TreesAreCovered
    <2>2. \A a \in Agents : row[a] # "none" => row'[a] # "none"
      BY <1>7
    <2> QED BY <1>1, <1>2, <2>1, <2>2, TreesRest DEF Inv, TreesAreCovered, TypeOK
  <1>17. SettledHaveEnded'
    <2> SUFFICES ASSUME unconfirmed = 0
                 PROVE  SettledHaveEnded'
      BY <1>2 DEF SettledHaveEnded
    <2>1. \A a \in Agents : row'[a] \in Terminal => task'[a] \in {"none", "done"}
            \/ (task'[a] = "ready" /\ thrown'[a])
      BY <1>1, <1>7, <1>9 DEF Inv, SettledHaveEnded
    <2>2. \A t \in settled : t \in Agents /\ \A a \in Tree(t)' : row'[a] \in Unfinished => a \in lost
      BY <1>2, <1>7, TreesRest DEF Inv, SettledHaveEnded, TypeOK
    <2> QED BY <1>2, <2>1, <2>2 DEF Inv, SettledHaveEnded
  <1>18. SettledTreesAreQuiet'
    <2>1. ASSUME NEW t \in settled, NEW a \in Tree(t), row'[a] \in Unfinished PROVE task'[a] = "none" /\ a # t
      <3>1. t \in Agents /\ a \in Agents
        BY <2>1, TreeIs DEF Inv, TypeOK
      <3>2. row[a] \in Unfinished
        BY <1>7, <2>1, <3>1
      <3> QED BY <1>9, <2>1, <3>1, <3>2 DEF Inv, SettledTreesAreQuiet
    <2> QED BY <1>2, <1>7, <2>1, TreesRest DEF Inv, SettledTreesAreQuiet, TypeOK
  <1>19. ProviderIsLast'
    <2>1. \A a \in Agents : Live(a)' <=> Live(a)
      BY <1>1, <1>5, <1>9
    <2>2. task[Root] = "done" => task'[Root] = "done"
      BY <1>9
    <2> QED BY <1>2, <1>5, <1>9, <2>1, <2>2 DEF Inv, ProviderIsLast, TypeOK
  <1> QED BY <1>8, <1>10, <1>11, <1>12, <1>13, <1>14, <1>15, <1>16, <1>17, <1>18, <1>19, <1>20 DEF Inv

\* An agent calls the tool that spawns.
LEMMA SpawnBeginKeepsInv ==
  ASSUME Inv, NEW p \in Agents, NEW c \in Children, NEW background \in BOOLEAN, SpawnBegin(p, c, background)
  PROVE  Inv'
  <1>1. /\ TypeOK /\ task[p] = "loop" /\ At(p, "idle") /\ p \notin blocked /\ parent[c] = NoAgent
        /\ row[c] = "none" /\ task[c] = "none" /\ op[c] = "none" /\ c \notin blocked /\ c # p
        /\ (p \in Children => parent[p] = Root)
    BY DEF SpawnBegin, InLoop, MayNest, MaySpawn, Inv, ParentsAreMade
  <1>2. /\ parent' = [parent EXCEPT ![c] = p]
        /\ UNCHANGED <<runVars, cancelVars, timer, lost, gateVars, pending, treeVars, endVars, boundVars>>
    BY DEF SpawnBegin
  <1>3. parent'[c] = p /\ \A d \in Children \ {c} : parent'[d] = parent[d]
    BY <1>1, <1>2 DEF TypeOK
  <1>4. /\ spawn'[p].at = "create" /\ spawn'[p].child = c /\ \A q \in Agents \ {p} : spawn'[q] = spawn[q]
        /\ spawn' \in [Agents -> [at : {"idle", "create", "look", "commit", "start", "wait", "stop", "finish"},
                                  child : Children \union {NoAgent}, background : BOOLEAN,
                                  exc : {"none", "error", "cancelled"}, base : Nat]]
    BY <1>1 DEF SpawnBegin, Idle, TypeOK
  <1>5. TypeOK'
    BY <1>1, <1>2, <1>4 DEF TypeOK
  <1>6. \A t \in Agents : Tree(t) \subseteq Tree(t)' /\ (p \notin Tree(t) => Tree(t)' = Tree(t))
          /\ Tree(t) \subseteq Agents
    BY <1>1, <1>2, TreesGrow, TreeIs
  <1>7. \A t \in Agents : t \in blocked => Tree(t)' = Tree(t)
    BY <1>1, <1>6, BlockedBelow DEF Inv
  <1>8. \A d \in Children : parent[d] # c
    BY <1>1 DEF Inv, ParentsAreMade
  <1>9. ParentsAreMade'
    BY <1>1, <1>2, <1>3, <1>8 DEF Inv, ParentsAreMade
  <1>10. CallsAreOwn'
    <2>1. CallIsOwn(p)'
      BY <1>1, <1>2, <1>3, <1>4 DEF CallIsOwn
    <2>2. ASSUME NEW q \in Agents \ {p} PROVE CallIsOwn(q)'
      <3>1. CallIsOwn(q)
        BY DEF Inv, CallsAreOwn
      <3>2. spawn[q].child # c
        BY <1>1, <3>1 DEF CallIsOwn
      <3> QED BY <1>2, <1>3, <1>4, <3>1, <3>2 DEF CallIsOwn
    <2> QED BY <2>1, <2>2 DEF CallsAreOwn
  <1>11. UnstartedAreCalled'
    <2> SUFFICES ASSUME NEW d \in Children, row[d] \in Unfinished, task[d] = "none"
                 PROVE  Called(d)'
      BY <1>2 DEF UnstartedAreCalled
    <2>1. Called(d)
      BY DEF Inv, UnstartedAreCalled
    <2>2. spawn[p].child # d
      BY <1>1 DEF Inv, CallsAreOwn, CallIsOwn
    <2> QED BY <1>2, <1>4, <2>1, <2>2 DEF Called
  <1>19. LostAreLeft'
    <2>1. \A d \in lost : d # c
      BY <1>1 DEF Inv, LostAreLeft
    <2> QED BY <1>2, <1>4, <2>1 DEF Inv, LostAreLeft
  <1>12. EndedAreCared' /\ PendingHaveEnded'
    BY <1>2, CaredRest DEF Inv, EndedAreCared, PendingHaveEnded
  <1>13. GatesAreClosed'
    <2>1. \A d \in Children : Cared(d)' = Cared(d)
      BY <1>2, CaredRest
    <2>2. \A q \in Agents : At(q, "start")' => q # p /\ spawn'[q] = spawn[q]
      BY <1>4
    <2> QED BY <1>1, <1>2, <1>3, <2>1, <2>2 DEF Inv, GatesAreClosed
  <1>14. TreesAreCovered'
    <2>1. \A t \in Agents : members[t] \subseteq Tree(t)'
      BY <1>6 DEF Inv, TreesAreCovered
    <2>2. \A t \in Agents : tree[t] = "stop" => Tree(t)' = Tree(t)
      BY <1>7 DEF Inv, TreesAreCovered
    <2> QED BY <1>2, <2>1, <2>2 DEF Inv, TreesAreCovered
  <1>15. \A t \in settled : t \in Agents /\ Tree(t)' = Tree(t)
    BY <1>1, <1>7 DEF Inv, SettledTreesAreQuiet, TypeOK
  <1>16. SettledHaveEnded'
    BY <1>2, <1>15 DEF Inv, SettledHaveEnded
  <1>17. SettledTreesAreQuiet'
    BY <1>2, <1>15 DEF Inv, SettledTreesAreQuiet
  <1>18. ProviderIsLast'
    BY <1>2 DEF Inv, ProviderIsLast
  <1> QED BY <1>5, <1>9, <1>10, <1>11, <1>12, <1>13, <1>14, <1>16, <1>17, <1>18, <1>19 DEF Inv

-------------------------------------------------------------------------------
(* Tasks of agents *)

\* Who is cared for stays so while more does.
LEMMA CaredGrows ==
  ASSUME \A t \in Agents : members[t] \subseteq members'[t], pending \subseteq pending',
         UNCHANGED <<entries, down>>, NEW c \in Children, op[c] \in {"look", "wait"}
           => op'[c] \in {"look", "wait"}
  PROVE  Cared(c) => Cared(c)'
  BY DEF Cared

\* Steps of a task that leave the row of its agent as settled or unfinished as it was.
LEMMA TaskMoves ==
  ASSUME Inv, NEW c \in Agents, Live(c), At(c, "idle"), TypeOK',
         \A a \in Agents \ {c} : task'[a] = task[a],
         task'[c] \in {"mark", "loop", "clean", "finish"}
           \/ (task[c] = "ready" /\ thrown[c] /\ task'[c] = "done"),
         task[c] = "ready" /\ thrown[c] => task'[c] = "done",
         c = Root => task'[c] = "clean",
         \A a \in Agents : row'[a] = row[a] \/ (row[a] = "queued" /\ row'[a] = "running"),
         \A a \in Agents : task[a] \in {"none", "ready"} => thrown'[a] = thrown[a],
         UNCHANGED <<spawn, lost, parent, blocked, closed, pending, op, tree, members, failing, settled,
                     provider, down,
                     entries, unconfirmed>>
  PROVE  Inv'
  <1>1. \A a \in Agents : (row'[a] \in Unfinished <=> row[a] \in Unfinished)
          /\ (row'[a] \in Terminal <=> row[a] \in Terminal)
                          /\ (row'[a] = "none" <=> row[a] = "none")
    OBVIOUS
  <1>2. \A a \in Agents : /\ task'[a] = "none" <=> task[a] = "none"
                          /\ task[a] = "done" => task'[a] = "done"
                          /\ Live(a)' => Live(a)
                          /\ task'[a] = "done" => task[a] = "done" \/ (task[a] = "ready" /\ thrown[a])
                          /\ task'[a] = "ready" => task[a] = "ready" /\ a # c
    OBVIOUS
  <1>3. \A d \in Children : Cared(d)' = Cared(d)
    BY CaredRest
  <1>4. ParentsAreMade'
    BY <1>1, <1>2 DEF Inv, ParentsAreMade
  <1>5. CallsAreOwn'
    <2> SUFFICES ASSUME NEW q \in Agents PROVE CallIsOwn(q)'
      BY DEF CallsAreOwn
    <2>1. CallIsOwn(q) /\ (At(q, "idle") \/ q # c)
      BY DEF Inv, CallsAreOwn
    <2> QED BY <1>1, <1>2, <2>1 DEF CallIsOwn
  <1>6. UnstartedAreCalled' /\ LostAreLeft'
    <2>1. lost \subseteq Children
      BY DEF Inv, TypeOK
    <2> QED BY <1>1, <1>2, <2>1 DEF Inv, UnstartedAreCalled, Called, LostAreLeft
  <1>7. EndedAreCared'
    BY <1>1, <1>2, <1>3 DEF Inv, EndedAreCared
  <1>8. PendingHaveEnded'
    BY <1>2 DEF Inv, PendingHaveEnded, TypeOK
  <1>9. GatesAreClosed'
    <2>1. \A q \in Agents : At(q, "start") => spawn[q].child \in Children
      BY DEF Inv, CallsAreOwn, CallIsOwn
    <2> QED BY <1>1, <1>2, <1>3, <2>1 DEF Inv, GatesAreClosed
  <1>10. TreesAreCovered'
    BY <1>1, <1>2, TreesRest DEF Inv, TreesAreCovered, TypeOK
  <1>11. SettledHaveEnded'
    <2> SUFFICES ASSUME unconfirmed = 0
                 PROVE  SettledHaveEnded'
      BY DEF SettledHaveEnded
    <2>1. \A a \in Agents : row'[a] \in Terminal => task'[a] \in {"none", "done"}
            \/ (task'[a] = "ready" /\ thrown'[a])
      BY <1>1, <1>2 DEF Inv, SettledHaveEnded
    <2>2. \A t \in settled : t \in Agents /\ \A a \in Tree(t)' : row'[a] \in Unfinished => a \in lost
      BY <1>1, TreesRest DEF Inv, SettledHaveEnded, TypeOK
    <2> QED BY <2>1, <2>2 DEF Inv, SettledHaveEnded
  <1>12. SettledTreesAreQuiet'
    BY <1>1, <1>2, TreesRest DEF Inv, SettledTreesAreQuiet, TypeOK
  <1>13. ProviderIsLast'
    BY <1>2 DEF Inv, ProviderIsLast, TypeOK
  <1> QED BY <1>4, <1>5, <1>6, <1>7, <1>8, <1>9, <1>10, <1>11, <1>12, <1>13 DEF Inv

\* The last step of a task settles its agent's row.
LEMMA TaskEnds ==
  ASSUME Inv, NEW c \in Agents, Live(c), task[c] # "ready", At(c, "idle"), TypeOK',
         task' = [task EXCEPT ![c] = "done"],
         row'[c] \in Terminal, \A a \in Agents \ {c} : row'[a] = row[a],
         UNCHANGED <<thrown, spawn, lost, parent, blocked, closed, pending, op, tree, members, failing,
                     settled, down,
                     entries, unconfirmed>>,
         provider' = provider \/ (c = Root /\ provider' = "released")
  PROVE  Inv'
  <1>1. row[c] # "none" /\ task'[c] = "done" /\ \A a \in Agents \ {c} : task'[a] = task[a]
    <2>1. row[c] # "none"
      <3>1. CASE c = Root
        BY <3>1 DEF Inv, ParentsAreMade
      <3>2. CASE c \in Children
        BY <3>2 DEF Inv, ParentsAreMade
      <3> QED BY <3>1, <3>2
    <2>2. task'[c] = "done" /\ \A a \in Agents \ {c} : task'[a] = task[a]
      BY DEF Inv, TypeOK
    <2> QED BY <2>1, <2>2
  <1>2. \A a \in Agents : /\ row'[a] \in Unfinished => row[a] \in Unfinished /\ a # c
                          /\ row[a] \in Terminal => row'[a] \in Terminal
                          /\ row'[a] \in Terminal => row[a] \in Terminal \/ a = c
                          /\ row'[a] = "none" <=> row[a] = "none"
    BY <1>1
  <1>3. \A a \in Agents : /\ task'[a] = "none" <=> task[a] = "none"
                          /\ task[a] = "done" => task'[a] = "done"
                          /\ Live(a)' => Live(a)
                          /\ task'[a] = "done" => task[a] = "done" \/ a = c
                          /\ task'[a] = "ready" => task[a] = "ready"
    BY <1>1
  <1>4. \A d \in Children : Cared(d)' = Cared(d)
    BY CaredRest
  <1>5. ParentsAreMade'
    BY <1>1, <1>2, <1>3 DEF Inv, ParentsAreMade
  <1>6. CallsAreOwn'
    <2> SUFFICES ASSUME NEW q \in Agents PROVE CallIsOwn(q)'
      BY DEF CallsAreOwn
    <2>1. CallIsOwn(q) /\ (At(q, "idle") \/ q # c)
      BY DEF Inv, CallsAreOwn
    <2> QED BY <1>1, <1>2, <1>3, <2>1 DEF CallIsOwn
  <1>7. UnstartedAreCalled' /\ LostAreLeft'
    <2>1. lost \subseteq Children
      BY DEF Inv, TypeOK
    <2> QED BY <1>2, <1>3, <2>1 DEF Inv, UnstartedAreCalled, Called, LostAreLeft
  <1>8. EndedAreCared'
    BY <1>2, <1>3, <1>4 DEF Inv, EndedAreCared
  <1>9. PendingHaveEnded'
    BY <1>3 DEF Inv, PendingHaveEnded, TypeOK
  <1>10. GatesAreClosed'
    <2>1. \A q \in Agents : At(q, "start") => spawn[q].child \in Children /\ spawn[q].child # c
      BY DEF Inv, CallsAreOwn, CallIsOwn
    <2>2. \A d \in Children \intersect blocked :
             parent[d] \in blocked \/ row'[d] \in Terminal \/ (row'[d] \in Unfinished /\ Cared(d))
      BY <1>2 DEF Inv, GatesAreClosed
    <2>3. \A q \in Agents : At(q, "start") /\ row'[spawn[q].child] \in Terminal => spawn[q].child \in blocked
      BY <1>2, <2>1 DEF Inv, GatesAreClosed
    <2> QED BY <1>2, <1>3, <1>4, <2>2, <2>3 DEF Inv, GatesAreClosed
  <1>11. TreesAreCovered'
    BY <1>2, <1>3, TreesRest DEF Inv, TreesAreCovered, TypeOK
  <1>12. SettledHaveEnded'
    <2> SUFFICES ASSUME unconfirmed = 0
                 PROVE  SettledHaveEnded'
      BY DEF SettledHaveEnded
    <2>1. \A a \in Agents : row'[a] \in Terminal => task'[a] \in {"none", "done"}
            \/ (task'[a] = "ready" /\ thrown'[a])
      BY <1>1, <1>2 DEF Inv, SettledHaveEnded
    <2>2. \A t \in settled : t \in Agents /\ \A a \in Tree(t)' : row'[a] \in Unfinished => a \in lost
      BY <1>2, TreesRest DEF Inv, SettledHaveEnded, TypeOK
    <2> QED BY <2>1, <2>2 DEF Inv, SettledHaveEnded
  <1>13. SettledTreesAreQuiet'
    BY <1>2, <1>3, TreesRest DEF Inv, SettledTreesAreQuiet, TypeOK
  <1>14. ProviderIsLast'
    BY <1>1, <1>3 DEF Inv, ProviderIsLast, TypeOK
  <1> QED BY <1>5, <1>6, <1>7, <1>8, <1>9, <1>10, <1>11, <1>12, <1>13, <1>14 DEF Inv

\* Who is not in its loop is in no call.
LEMMA OnlyLoopsCall ==
  ASSUME Inv, NEW a \in Agents, task[a] # "loop"
  PROVE  At(a, "idle")
  BY DEF Inv, CallsAreOwn, CallIsOwn

\* The child's task takes its first step, or its cancellation.
LEMMA ChildBeginKeepsInv ==
  ASSUME Inv, NEW c \in Children, ChildBegin(c)
  PROVE  Inv'
  <1>1. task[c] = "ready" /\ At(c, "idle")
    BY OnlyLoopsCall DEF ChildBegin
  <1>2. task' = [task EXCEPT ![c] = IF thrown[c] THEN "done" ELSE "mark"]
    BY DEF ChildBegin
  <1>3. /\ \A a \in Agents \ {c} : task'[a] = task[a]
        /\ task'[c] = "mark" \/ (thrown[c] /\ task'[c] = "done")
        /\ thrown[c] => task'[c] = "done"
    BY <1>2 DEF Inv, TypeOK
  <1>4. TypeOK'
    BY <1>1 DEF ChildBegin, Inv, TypeOK
  <1> QED BY <1>1, <1>3, <1>4, TaskMoves DEF ChildBegin

\* The child's row is marked as running.
LEMMA ChildMarkKeepsInv ==
  ASSUME Inv, NEW c \in Children, ChildMark(c)
  PROVE  Inv'
  <1>1. task[c] = "mark" /\ At(c, "idle") /\ TypeOK
    BY OnlyLoopsCall DEF ChildMark, Inv
  <1>2. /\ row' \in [Agents -> {"none"} \union Unfinished \union Terminal]
        /\ \A a \in Agents : row'[a] = row[a] \/ (row[a] = "queued" /\ row'[a] = "running")
    BY <1>1 DEF ChildMark, TypeOK
  <1>3. CASE thrown[c]
    <2>1. task' = [task EXCEPT ![c] = "clean"] /\ Passes(c, Uncancelled(cancelling[c]), {})
      BY <1>3 DEF ChildMark
    <2>2. \A a \in Agents \ {c} : thrown'[a] = thrown[a]
      BY <1>1, <2>1 DEF Passes, TypeOK
    <2>3. cancelling' \in [Agents -> Nat]
      <3>1. Uncancelled(cancelling[c]) \in Nat
        BY <1>1 DEF Uncancelled, TypeOK
      <3> QED BY <1>1, <2>1, <3>1 DEF Passes, TypeOK
    <2>4. thrown' \in [Agents -> BOOLEAN]
      <3>1. thrown'[c] = FALSE
        BY <2>1 DEF Passes
      <3> QED BY <1>1, <2>1, <2>2, <3>1 DEF Passes, TypeOK
    <2>5. TypeOK'
      <3>1. task' \in [Agents -> {"none", "ready", "mark", "loop", "clean", "finish", "done"}]
        BY <1>1, <2>1 DEF TypeOK
      <3>2. outcome' \in [Agents -> Terminal] /\ result' \in [Agents -> {"ok", "error", "cancelled"}]
        BY <1>1, <1>3 DEF ChildMark, TypeOK
      <3> QED BY <1>1, <1>2, <2>3, <2>4, <3>1, <3>2 DEF ChildMark, TypeOK
    <2>6. task'[c] = "clean" /\ \A a \in Agents \ {c} : task'[a] = task[a]
      BY <1>1, <2>1 DEF TypeOK
    <2> QED BY <1>1, <1>2, <2>2, <2>5, <2>6, TaskMoves DEF ChildMark
  <1>4. CASE ~ thrown[c]
    <2>1. task' = [task EXCEPT ![c] = "loop"] /\ UNCHANGED <<outcome, result, cancelVars>>
      BY <1>4 DEF ChildMark
    <2>2. TypeOK'
      BY <1>1, <1>2, <2>1 DEF ChildMark, TypeOK
    <2>3. task'[c] = "loop" /\ \A a \in Agents \ {c} : task'[a] = task[a]
      BY <1>1, <2>1 DEF TypeOK
    <2> QED BY <1>1, <1>2, <2>1, <2>2, <2>3, TaskMoves DEF ChildMark
  <1> QED BY <1>3, <1>4

\* The loop of an agent ends.
LEMMA LoopEndsKeepsInv ==
  ASSUME Inv, NEW a \in Agents, LoopEnds(a)
  PROVE  Inv'
  <1>1. task[a] = "loop" /\ At(a, "idle") /\ TypeOK
    BY DEF LoopEnds, Inv
  <1>2. TypeOK'
    <2>1. outcome' \in [Agents -> Terminal]
      BY <1>1 DEF LoopEnds, TypeOK
    <2> QED BY <1>1, <2>1 DEF LoopEnds, TypeOK
  <1>3. task'[a] = "clean" /\ \A b \in Agents \ {a} : task'[b] = task[b] /\ thrown'[b] = thrown[b]
    BY <1>1 DEF LoopEnds, TypeOK
  <1> QED BY <1>1, <1>2, <1>3, TaskMoves DEF LoopEnds

\* The containers of a child are confirmed to be gone.
LEMMA ChildCleanedKeepsInv ==
  ASSUME Inv, NEW c \in Children, ChildCleaned(c)
  PROVE  Inv'
  <1>1. task[c] = "clean" /\ At(c, "idle") /\ TypeOK
    BY OnlyLoopsCall DEF ChildCleaned, Inv
  <1>2. pending' = pending
    BY <1>1 DEF ChildCleaned, Inv, PendingHaveEnded
  <1>3. TypeOK'
    BY <1>1, <1>2 DEF ChildCleaned, TypeOK
  <1>4. task'[c] = "finish" /\ \A a \in Agents \ {c} : task'[a] = task[a]
    BY <1>1 DEF ChildCleaned, TypeOK
  <1> QED BY <1>1, <1>2, <1>3, <1>4, TaskMoves DEF ChildCleaned

\* The child's task settles its row.
LEMMA ChildFinishKeepsInv ==
  ASSUME Inv, NEW c \in Children, ChildFinish(c)
  PROVE  Inv'
  <1>1. task[c] = "finish" /\ At(c, "idle") /\ TypeOK /\ row[c] # "none"
    BY OnlyLoopsCall DEF ChildFinish, Inv, ParentsAreMade
  <1>2. Finish(c, outcome[c]) /\ outcome[c] \in Terminal
    BY <1>1 DEF ChildFinish, TypeOK
  <1>3. /\ row' \in [Agents -> {"none"} \union Unfinished \union Terminal] /\ ends' \in [Children -> Nat]
        /\ row'[c] \in Terminal /\ \A a \in Agents \ {c} : row'[a] = row[a]
    <2>1. CASE row[c] \in Unfinished
      <3>1. row' = [row EXCEPT ![c] = outcome[c]] /\ ends' = [ends EXCEPT ![c] = @ + 1]
        BY <1>2, <2>1 DEF Finish
      <3> QED BY <1>1, <1>2, <3>1 DEF TypeOK
    <2>2. CASE row[c] \notin Unfinished
      BY <1>1, <1>2, <2>2 DEF Finish, TypeOK
    <2> QED BY <2>1, <2>2
  <1>4. TypeOK'
    BY <1>1, <1>3 DEF ChildFinish, TypeOK
  <1> QED BY <1>1, <1>3, <1>4, TaskEnds DEF ChildFinish

\* The root's run ends.
LEMMA RootEndsKeepsInv ==
  ASSUME Inv, RootEnds
  PROVE  Inv'
  <1>1. task[Root] = "clean" /\ At(Root, "idle") /\ TypeOK /\ outcome[Root] \in Terminal
    BY OnlyLoopsCall DEF RootEnds, Inv, TypeOK
  <1>2. TypeOK'
    BY <1>1 DEF RootEnds, TypeOK
  <1>3. row'[Root] \in Terminal /\ \A a \in Agents \ {Root} : row'[a] = row[a]
    BY <1>1 DEF RootEnds, TypeOK
  <1> QED BY <1>1, <1>2, <1>3, TaskEnds DEF RootEnds

\* A sub-agent that has been made is in the tree of the root.
LEMMA AllAreBelowRoot ==
  ASSUME Inv, NEW c \in Children, parent[c] # NoAgent
  PROVE  c \in Below(Root)
  <1>1. Root \in Tree(Root) /\ \A d \in Children : parent[d] \in Tree(Root) => d \in Tree(Root)
    BY TreeIs
  <1>2. parent[c] \in Agents
    BY DEF Inv, TypeOK
  <1>3. parent[c] = Root \/ (parent[c] \in Children /\ parent[parent[c]] = Root)
    BY <1>2 DEF Inv, ParentsAreMade
  <1> QED BY <1>1, <1>3 DEF Below, Tree

\* The provider is closed once nobody uses it.
LEMMA ProviderClosesKeepsInv ==
  ASSUME Inv, ProviderCloses
  PROVE  Inv'
  <1>1. provider = "released" /\ provider' = "closed" /\ Users = {}
        /\ UNCHANGED <<runVars, cancelVars, spawnVars, gateVars, pending, treeVars, down, entries,
             rootCancelled, boundVars>>
    BY DEF ProviderCloses
  <1>2. \A c \in Children : ~ Live(c)
    <2> SUFFICES ASSUME NEW c \in Children, Live(c) PROVE FALSE
      OBVIOUS
    <2>1. parent[c] # NoAgent
      BY DEF Inv, ParentsAreMade
    <2> QED BY <1>1, <2>1, AllAreBelowRoot DEF Users
  <1>3. ProviderIsLast'
    BY <1>1, <1>2 DEF Inv, ProviderIsLast
  <1>4. TypeOK'
    BY <1>1 DEF Inv, TypeOK
  <1>5. /\ ParentsAreMade' /\ CallsAreOwn' /\ UnstartedAreCalled' /\ LostAreLeft' /\ PendingHaveEnded'
    BY <1>1 DEF Inv, ParentsAreMade, CallsAreOwn, CallIsOwn, UnstartedAreCalled, Called, LostAreLeft,
       PendingHaveEnded
  <1>6. EndedAreCared' /\ GatesAreClosed'
    BY <1>1, CaredRest DEF Inv, EndedAreCared, GatesAreClosed
  <1>7. TreesAreCovered' /\ SettledHaveEnded' /\ SettledTreesAreQuiet'
    BY <1>1, TreesRest DEF Inv, TreesAreCovered, SettledHaveEnded, SettledTreesAreQuiet, TypeOK
  <1> QED BY <1>3, <1>4, <1>5, <1>6, <1>7 DEF Inv

\* A cleanup that is not confirmed is handed on to a cancellation of its own.
LEMMA ChildUncleanKeepsInv ==
  ASSUME Inv, NEW c \in Children, ChildUnclean(c)
  PROVE  Inv'
  <1>1. task[c] = "clean" /\ At(c, "idle") /\ TypeOK /\ row[c] # "none" /\ parent[c] # NoAgent
    BY OnlyLoopsCall DEF ChildUnclean, Inv, ParentsAreMade
  <1>2. /\ task' = [task EXCEPT ![c] = "done"] /\ pending' = pending \union {c} /\ RequestsCleanup(c)
        /\ unconfirmed' = unconfirmed + 1
        /\ UNCHANGED <<row, ends, outcome, cancelVars, spawnVars, gateVars, op, settled, endVars, requests,
             expired>>
    BY DEF ChildUnclean
  <1>3. task'[c] = "done" /\ \A a \in Agents \ {c} : task'[a] = task[a]
    BY <1>1, <1>2 DEF TypeOK
  <1>4. \A a \in Agents : /\ task'[a] = "none" <=> task[a] = "none"
                          /\ task[a] = "done" => task'[a] = "done"
                          /\ Live(a)' => Live(a)
                          /\ task'[a] = "done" => task[a] = "done" \/ a = c
                          /\ task'[a] = "ready" => task[a] = "ready"
    BY <1>1, <1>3
  <1>5. \/ UNCHANGED <<tree, members>> /\ (down # "no" \/ (\E t \in Agents : c \in members[t])
             \/ row[c] \notin Unfinished)
        \/ /\ tree[c] = "none" /\ tree' = [tree EXCEPT ![c] = "begin"]
                /\ members' = [members EXCEPT ![c] = {c}]
    <2>1. CASE tree[c] = "none" \/ down # "no" \/ \E t \in Agents : c \in members[t]
      BY <1>2, <2>1 DEF RequestsCleanup, StartsTree
    <2>2. CASE tree[c] # "none" /\ down = "no" /\ \A t \in Agents : c \notin members[t]
      <3>1. UNCHANGED <<tree, members>>
        BY <1>2, <2>2 DEF RequestsCleanup, StartsTree
      <3>2. tree[c] = "stop"
        <4>1. tree[c] \in {"begin", "read"} => members[c] = {c}
          BY DEF Inv, TreesAreCovered
        <4>2. tree[c] \in {"none", "begin", "read", "stop"}
          BY <1>1 DEF TypeOK
        <4> QED BY <2>2, <4>1, <4>2
      <3>3. c \in Tree(c)
        BY TreeIs
      <3>4. row[c] \notin Unfinished
        BY <2>2, <3>2, <3>3 DEF Inv, TreesAreCovered
      <3> QED BY <3>1, <3>4
    <2> QED BY <2>1, <2>2
  <1>6. (\A t \in Agents : members[t] \subseteq members'[t]) /\ members' \in [Agents -> SUBSET Agents]
        /\ tree' \in [Agents -> {"none", "begin", "read", "stop"}]
    <2>1. CASE UNCHANGED <<tree, members>>
      BY <1>1, <2>1 DEF TypeOK
    <2>2. CASE tree[c] = "none" /\ tree' = [tree EXCEPT ![c] = "begin"]
                 /\ members' = [members EXCEPT ![c] = {c}]
      <3>1. members[c] = {}
        BY <2>2 DEF Inv, TreesAreCovered
      <3> QED BY <1>1, <2>2, <3>1 DEF TypeOK
    <2> QED BY <1>5, <2>1, <2>2
  <1>7. TypeOK'
    <2>1. failing' \subseteq Agents
      BY <1>1, <1>2 DEF RequestsCleanup, TypeOK
    <2>2. result' \in [Agents -> {"ok", "error", "cancelled"}]
      BY <1>1 DEF ChildUnclean, TypeOK
    <2>3. unconfirmed' \in 0 .. Mishaps
      BY <1>1 DEF ChildUnclean, TypeOK
    <2>4. task' \in [Agents -> {"none", "ready", "mark", "loop", "clean", "finish", "done"}]
            /\ pending' \subseteq Children
      BY <1>1, <1>2 DEF TypeOK
    <2> QED BY <1>1, <1>2, <1>6, <2>1, <2>2, <2>3, <2>4 DEF TypeOK
  <1>8. \A d \in Children : Cared(d) => Cared(d)'
    BY <1>2, <1>6, CaredGrows
  <1>9. down # "no" \/ (\E t \in Agents : c \in members'[t]) \/ row[c] \notin Unfinished
    BY <1>1, <1>5 DEF TypeOK
  <1>10. ParentsAreMade'
    BY <1>1, <1>2, <1>4 DEF Inv, ParentsAreMade
  <1>11. CallsAreOwn'
    <2> SUFFICES ASSUME NEW q \in Agents PROVE CallIsOwn(q)'
      BY DEF CallsAreOwn
    <2>1. CallIsOwn(q) /\ (At(q, "idle") \/ q # c)
      BY <1>1 DEF Inv, CallsAreOwn
    <2> QED BY <1>2, <1>3, <1>4, <2>1 DEF CallIsOwn
  <1>12. UnstartedAreCalled' /\ LostAreLeft'
    <2>1. lost \subseteq Children
      BY DEF Inv, TypeOK
    <2> QED BY <1>2, <1>4, <2>1 DEF Inv, UnstartedAreCalled, Called, LostAreLeft
  <1>13. EndedAreCared'
    <2>1. row[c] \in Unfinished => Cared(c)'
      BY <1>2, <1>9 DEF Cared
    <2> QED BY <1>2, <1>3, <1>4, <1>6, <1>8, <1>9, <2>1 DEF Inv, EndedAreCared
  <1>14. PendingHaveEnded'
    BY <1>1, <1>2, <1>3, <1>4 DEF Inv, PendingHaveEnded, TypeOK
  <1>15. GatesAreClosed'
    <2>1. \A q \in Agents : At(q, "start") => spawn[q].child \in Children
      BY DEF Inv, CallsAreOwn, CallIsOwn
    <2> QED BY <1>2, <1>4, <1>8, <2>1 DEF Inv, GatesAreClosed
  <1>16. TreesAreCovered'
    <2>1. CASE UNCHANGED <<tree, members>>
      BY <1>2, <1>4, <2>1, TreesRest DEF Inv, TreesAreCovered, TypeOK
    <2>2. CASE tree[c] = "none" /\ tree' = [tree EXCEPT ![c] = "begin"]
                 /\ members' = [members EXCEPT ![c] = {c}]
      <3>1. /\ tree'[c] = "begin" /\ members'[c] = {c}
            /\ \A t \in Agents \ {c} : tree'[t] = tree[t] /\ members'[t] = members[t]
        BY <1>1, <2>2 DEF TypeOK
      <3>2. c \in Tree(c)'
        BY <1>2, TreeIs, TreesRest
      <3> QED BY <1>1, <1>2, <1>4, <3>1, <3>2, TreesRest DEF Inv, TreesAreCovered, TypeOK
    <2> QED BY <1>5, <2>1, <2>2
  <1>17. SettledHaveEnded'
    BY <1>1, <1>2 DEF SettledHaveEnded, TypeOK
  <1>18. SettledTreesAreQuiet'
    BY <1>2, <1>4, TreesRest DEF Inv, SettledTreesAreQuiet, TypeOK
  <1>19. ProviderIsLast'
    BY <1>2, <1>3, <1>4 DEF Inv, ProviderIsLast, TypeOK
  <1> QED BY <1>7, <1>10, <1>11, <1>12, <1>13, <1>14, <1>15, <1>16, <1>17, <1>18, <1>19 DEF Inv

-------------------------------------------------------------------------------
(* Cancellation *)

\* Tasks that are cancelled keep their types, and those that are not see nothing of it.
LEMMA CancelTasksIs ==
  ASSUME TypeOK, NEW S \in SUBSET Agents, CancelTasks(S)
  PROVE  /\ thrown' \in [Agents -> BOOLEAN] /\ cancelling' \in [Agents -> Nat]
         /\ \A a \in Agents : a \notin S => thrown'[a] = thrown[a]
         /\ \A a \in Agents : thrown[a] => thrown'[a]
  <1>1. cancelling' \in [Agents -> Nat]
    BY DEF CancelTasks, TypeOK
  <1>2. \A a \in Agents : thrown'[a] \in BOOLEAN
    BY Zenon DEF CancelTasks
  <1>3. thrown' \in [Agents -> BOOLEAN]
    BY <1>2 DEF CancelTasks
  <1>4. \A a \in Agents : thrown[a] => thrown'[a]
    BY DEF CancelTasks
  <1>5. ASSUME NEW a \in Agents, a \notin S PROVE thrown'[a] = thrown[a]
    <2>1. thrown'[a] = (thrown[a] \/ a \in S) /\ thrown[a] \in BOOLEAN
      BY DEF CancelTasks, TypeOK
    <2> QED BY <1>5, <2>1
  <1> QED BY <1>1, <1>3, <1>4, <1>5

\* Steps of cancellations that settle no row and stop no run, but close gates, start operations
\* and throw exceptions.
LEMMA CancelMoves ==
  ASSUME Inv, TypeOK',
         UNCHANGED <<row, task, parent, spawn, lost, pending, provider, unconfirmed, settled>>,
         \A c \in Children : task[c] = "none" => thrown'[c] = thrown[c],
         \A c \in Children : task[c] = "ready" /\ thrown'[c] => thrown[c]
           \/ (row[c] \in Unfinished => Cared(c)'),
         \A a \in Agents : thrown[a] => thrown'[a],
         \A c \in Children : row[c] \in Unfinished /\ Cared(c) => Cared(c)',
         \A c \in pending : row[c] \in Unfinished => down' # "no" \/ \E t \in Agents : c \in members'[t],
         blocked \subseteq blocked', \A c \in Children : parent[c] \in blocked' => c \in blocked',
         \A c \in Children : op'[c] # "none" => c \in blocked',
         \A c \in Children : c \in blocked' /\ c \notin blocked =>
            parent[c] \in blocked' \/ row[c] \in Terminal \/ (row[c] \in Unfinished /\ Cared(c)'),
         \A c \in Children : op'[c] = "over" /\ op[c] # "over" => row[c] \in Terminal
           \/ (parent[c] \in blocked' /\ task[c] = "none"),
         \A c \in blocked' \intersect Children : parent[c] # NoAgent,
         unconfirmed = 0 => \A c \in Children : op'[c] # "failed",
         TreesAreCovered', entries' = entries \/ (entries' \subseteq {c \in Children : task[c] # "none"}
           /\ down' = "registry"),
         entries' # {} => down' \in {"registry", "done"}
  PROVE  Inv'
  <1>1. \A t \in Agents : Tree(t)' = Tree(t) /\ Tree(t) \subseteq Agents
    BY TreesRest
  <1>2. ParentsAreMade'
    BY DEF Inv, ParentsAreMade, GatesAreClosed
  <1>3. CallsAreOwn' /\ UnstartedAreCalled' /\ LostAreLeft' /\ PendingHaveEnded'
    BY DEF Inv, CallsAreOwn, CallIsOwn, UnstartedAreCalled, Called, LostAreLeft, PendingHaveEnded
  <1>4. EndedAreCared'
    BY DEF Inv, EndedAreCared
  <1>5. GatesAreClosed'
    <2>1. \A c \in Children : op'[c] = "over" => row[c] \in Terminal
            \/ (parent[c] \in blocked' /\ task[c] = "none")
      BY DEF Inv, GatesAreClosed
    <2>2. \A c \in Children \intersect blocked' :
             parent[c] \in blocked' \/ row[c] \in Terminal \/ (row[c] \in Unfinished /\ Cared(c)')
      BY DEF Inv, GatesAreClosed
    <2>3. \A p \in Agents : At(p, "start") /\ row[spawn[p].child] \in Terminal => spawn[p].child \in blocked'
      BY DEF Inv, GatesAreClosed
    <2> QED BY <2>1, <2>2, <2>3 DEF GatesAreClosed
  <1>6. SettledHaveEnded'
    <2> SUFFICES ASSUME unconfirmed = 0
                 PROVE  SettledHaveEnded'
      BY DEF SettledHaveEnded
    <2>1. \A a \in Agents : row[a] \in Terminal => task[a] \in {"none", "done"}
            \/ (task[a] = "ready" /\ thrown'[a])
      BY DEF Inv, SettledHaveEnded
    <2>2. \A t \in settled : t \in Agents /\ \A a \in Tree(t)' : row[a] \in Unfinished => a \in lost
      BY <1>1 DEF Inv, SettledHaveEnded, TypeOK
    <2> QED BY <2>1, <2>2 DEF Inv, SettledHaveEnded
  <1>7. SettledTreesAreQuiet'
    BY <1>1 DEF Inv, SettledTreesAreQuiet, TypeOK
  <1>8. ProviderIsLast'
    BY DEF Inv, ProviderIsLast
  <1> QED BY <1>2, <1>3, <1>4, <1>5, <1>6, <1>7, <1>8 DEF Inv

\* While no tree changes, gates that close and operations that start leave its coverage as it is.
LEMMA CoverageRests ==
  ASSUME Inv, UNCHANGED <<row, task, parent, tree, members, down>>, blocked \subseteq blocked',
         \A c \in Children : op[c] # "none" => op'[c] # "none"
  PROVE  TreesAreCovered'
  BY TreesRest DEF Inv, TreesAreCovered, TypeOK

\* A sub-agent, or a session, is cancelled by the registry.
LEMMA AskCancelKeepsInv ==
  ASSUME Inv, NEW c \in Children, AskCancel(c)
  PROVE  Inv'
  <1>1. /\ row[c] \in Unfinished /\ blocked' = blocked \union Tree(c) /\ StartsOps(Tree(c)) /\ TypeOK
        /\ UNCHANGED <<runVars, cancelVars, spawnVars, closed, pending, tree, members, failing, settled,
             endVars,
                       expired, unconfirmed>>
    BY DEF AskCancel, ToBlock, Tree, Inv
  <1>2. /\ c \in Tree(c) /\ Tree(c) \subseteq Agents
        /\ \A d \in Children : parent[d] \in Tree(c) => d \in Tree(c)
        /\ \A d \in Tree(c) \ {c} : d \in Children /\ parent[d] \in Tree(c)
    BY TreeIs
  <1>3. \A d \in Children : op'[d] = IF d \in Tree(c) /\ op[d] \in {"none", "failed"} THEN "look" ELSE op[d]
    BY <1>1 DEF StartsOps
  <1>4. op' \in [Children -> {"none", "look", "wait", "over", "failed"}]
    BY <1>1 DEF StartsOps, TypeOK
  <1>5. TypeOK'
    <2>1. requests' \in 0 .. Cancels
      BY <1>1 DEF AskCancel, TypeOK
    <2> QED BY <1>1, <1>2, <1>4, <2>1 DEF TypeOK
  <1>6. \A d \in Children : Cared(d) => Cared(d)'
    BY <1>1, <1>3, CaredGrows
  <1>7. TreesAreCovered'
    BY <1>1, <1>3, CoverageRests
  <1>8. c \notin blocked => Cared(c)'
    BY <1>2, <1>3 DEF Inv, GatesAreClosed, Cared
  <1>9. parent[c] # NoAgent
    BY <1>1 DEF Inv, ParentsAreMade
  <1>10. \A d \in blocked' \intersect Children : parent[d] # NoAgent
    BY <1>1, <1>2, <1>9 DEF Inv, ParentsAreMade
  <1>11. \A d \in Children : parent[d] \in blocked' => d \in blocked'
    BY <1>1, <1>2 DEF Inv, GatesAreClosed
  <1>12. \A d \in Children : d \in blocked' /\ d \notin blocked =>
            parent[d] \in blocked' \/ row[d] \in Terminal \/ (row[d] \in Unfinished /\ Cared(d)')
    BY <1>1, <1>2, <1>8
  <1>13. /\ \A d \in Children : op'[d] # "none" => d \in blocked'
         /\ \A d \in Children : op'[d] = "over" => op[d] = "over"
         /\ \A d \in Children : op'[d] = "failed" => op[d] = "failed"
    BY <1>1, <1>3 DEF Inv, GatesAreClosed
  <1>14. \A d \in pending : row[d] \in Unfinished => down' # "no" \/ \E t \in Agents : d \in members'[t]
    BY <1>1 DEF Inv, EndedAreCared, TypeOK
  <1>15. unconfirmed = 0 => \A d \in Children : op'[d] # "failed"
    BY <1>13 DEF Inv, SettledHaveEnded
  <1>16. entries # {} => down \in {"registry", "done"}
    BY DEF Inv, ProviderIsLast
  <1> QED BY <1>1, <1>5, <1>6, <1>7, <1>10, <1>11, <1>12, <1>13, <1>14, <1>15, <1>16, CancelMoves

\* The gate of an agent is closed when its cancellation looks: its row is settled, or the gate
\* of its parent is closed too.
LEMMA CancelLooksKeepsInv ==
  ASSUME Inv, NEW c \in Children, CancelLooks(c)
  PROVE  Inv'
  <1>1. /\ op[c] = "look" /\ TypeOK
        /\ UNCHANGED <<runVars, spawnVars, gateVars, pending, tree, members, failing, settled, endVars,
             boundVars>>
    BY DEF CancelLooks, Inv
  <1>2. \A d \in pending : row[d] \in Unfinished => down # "no" \/ \E t \in Agents : d \in members[t]
    BY <1>1 DEF Inv, EndedAreCared, TypeOK
  <1>3. entries # {} => down \in {"registry", "done"}
    BY DEF Inv, ProviderIsLast
  <1>4. \A d \in blocked \intersect Children : parent[d] # NoAgent
    BY DEF Inv, ParentsAreMade
  <1>5. /\ \A d \in Children : parent[d] \in blocked => d \in blocked
        /\ \A d \in Children : op[d] # "none" => d \in blocked
    BY DEF Inv, GatesAreClosed
  <1>6. unconfirmed = 0 => \A d \in Children : op[d] # "failed"
    BY DEF Inv, SettledHaveEnded
  <1>7. CASE row[c] \in Unfinished
    <2>1. op' = [op EXCEPT ![c] = "wait"] /\ CancelTasks(Cancellable({c}))
      BY <1>7 DEF CancelLooks
    <2>2. op'[c] = "wait" /\ (\A d \in Children \ {c} : op'[d] = op[d])
          /\ op' \in [Children -> {"none", "look", "wait", "over", "failed"}]
      BY <1>1, <2>1 DEF TypeOK
    <2>3. Cancellable({c}) \in SUBSET Agents /\ \A a \in Cancellable({c}) : a = c /\ Live(a)
      BY DEF Cancellable
    <2>4. /\ thrown' \in [Agents -> BOOLEAN] /\ cancelling' \in [Agents -> Nat]
          /\ \A a \in Agents : a \notin Cancellable({c}) => thrown'[a] = thrown[a]
          /\ \A a \in Agents : thrown[a] => thrown'[a]
      BY <1>1, <2>1, <2>3, CancelTasksIs
    <2>5. TypeOK'
      BY <1>1, <2>2, <2>4 DEF TypeOK
    <2>6. \A d \in Children : Cared(d) => Cared(d)'
      BY <1>1, <2>2, CaredGrows
    <2>7. Cared(c)'
      BY <2>2 DEF Cared
    <2>8. TreesAreCovered'
      BY <1>1, <2>2, CoverageRests
    <2>9. /\ \A d \in Children : task[d] = "none" => thrown'[d] = thrown[d]
          /\ \A d \in Children : task[d] = "ready" /\ thrown'[d] => thrown[d]
               \/ (row[d] \in Unfinished => Cared(d)')
      BY <2>3, <2>4, <2>7
    <2>10. /\ \A d \in Children : op'[d] # "none" => d \in blocked
           /\ \A d \in Children : op'[d] = "over" => op[d] = "over"
           /\ unconfirmed = 0 => \A d \in Children : op'[d] # "failed"
      BY <1>1, <1>5, <1>6, <2>2
    <2> QED BY <1>1, <1>2, <1>3, <1>4, <1>5, <2>4, <2>5, <2>6, <2>8, <2>9, <2>10, CancelMoves
  <1>8. CASE row[c] \notin Unfinished
    <2>1. op' = [op EXCEPT ![c] = "over"] /\ UNCHANGED cancelVars
      BY <1>8 DEF CancelLooks
    <2>2. op'[c] = "over" /\ (\A d \in Children \ {c} : op'[d] = op[d])
          /\ op' \in [Children -> {"none", "look", "wait", "over", "failed"}]
      BY <1>1, <2>1 DEF TypeOK
    <2>3. TypeOK'
      BY <1>1, <2>1, <2>2 DEF TypeOK
    <2>4. \A d \in Children : row[d] \in Unfinished /\ Cared(d) => Cared(d)'
      BY <1>1, <1>8, <2>2 DEF Cared
    <2>5. TreesAreCovered'
      BY <1>1, <2>2, CoverageRests
    <2>6. row[c] \in Terminal \/ (parent[c] \in blocked /\ task[c] = "none")
      <3>1. row[c] \in Terminal \/ row[c] = "none"
        BY <1>1, <1>8 DEF TypeOK
      <3>2. row[c] = "none" => parent[c] \in blocked
        BY <1>1 DEF Inv, GatesAreClosed
      <3> QED BY <3>1, <3>2 DEF Inv, ParentsAreMade
    <2>7. /\ \A d \in Children : op'[d] # "none" => d \in blocked
          /\ \A d \in Children : op'[d] = "over" /\ op[d] # "over" =>
                row[d] \in Terminal \/ (parent[d] \in blocked /\ task[d] = "none")
          /\ unconfirmed = 0 => \A d \in Children : op'[d] # "failed"
      BY <1>1, <1>5, <1>6, <2>2, <2>6
    <2> QED BY <1>1, <1>2, <1>3, <1>4, <1>5, <2>1, <2>3, <2>4, <2>5, <2>7, CancelMoves
  <1> QED BY <1>7, <1>8

\* What every step of a cancellation may take from the invariant as it stands.
LEMMA AsItStands ==
  ASSUME Inv
  PROVE  /\ TypeOK
         /\ \A c \in pending : row[c] \in Unfinished => down # "no" \/ \E t \in Agents : c \in members[t]
         /\ entries # {} => down \in {"registry", "done"}
         /\ \A c \in blocked \intersect Children : parent[c] # NoAgent
         /\ \A c \in Children : parent[c] \in blocked => c \in blocked
         /\ \A c \in Children : op[c] # "none" => c \in blocked
         /\ unconfirmed = 0 => \A c \in Children : op[c] # "failed"
  <1>1. \A c \in pending : row[c] \in Unfinished => down # "no" \/ \E t \in Agents : c \in members[t]
    BY DEF Inv, EndedAreCared, TypeOK
  <1> QED BY <1>1 DEF Inv, ProviderIsLast, ParentsAreMade, GatesAreClosed, SettledHaveEnded

\* A tree is cancelled by its run.
LEMMA CancelRunKeepsInv ==
  ASSUME Inv, NEW t \in Agents, CancelRun(t)
  PROVE  Inv'
  <1>1. /\ TypeOK /\ row[t] # "none" /\ tree[t] = "none" /\ members[t] = {}
        /\ tree' = [tree EXCEPT ![t] = "begin"] /\ members' = [members EXCEPT ![t] = {t}]
        /\ UNCHANGED <<runVars, cancelVars, spawnVars, gateVars, pending, op, failing, settled, endVars,
                       expired, unconfirmed>>
    BY DEF CancelRun, StartsTree, Inv, TreesAreCovered
  <1>2. /\ tree'[t] = "begin" /\ members'[t] = {t}
        /\ \A s \in Agents \ {t} : tree'[s] = tree[s] /\ members'[s] = members[s]
    BY <1>1 DEF TypeOK
  <1>3. TypeOK'
    <2>1. requests' \in 0 .. Cancels
      BY <1>1 DEF CancelRun, TypeOK
    <2> QED BY <1>1, <2>1 DEF TypeOK
  <1>4. \A s \in Agents : members[s] \subseteq members'[s]
    BY <1>1, <1>2
  <1>5. \A c \in Children : Cared(c) => Cared(c)'
    BY <1>1, <1>4, CaredGrows
  <1>6. TreesAreCovered'
    <2>1. t \in Tree(t)'
      BY <1>1, TreeIs, TreesRest
    <2> QED BY <1>1, <1>2, <2>1, TreesRest DEF Inv, TreesAreCovered, TypeOK
  <1>7. \A c \in pending : row[c] \in Unfinished => down # "no" \/ \E s \in Agents : c \in members'[s]
    BY <1>4, AsItStands
  <1> QED BY <1>1, <1>3, <1>5, <1>6, <1>7, AsItStands, CancelMoves

\* The cancellation of a tree closes its gates.
LEMMA TreeBlocksKeepsInv ==
  ASSUME Inv, NEW t \in Agents, TreeBlocks(t)
  PROVE  Inv'
  <1>1. /\ TypeOK /\ tree[t] = "begin" /\ tree' = [tree EXCEPT ![t] = "read"]
             /\ blocked' = blocked \union Tree(t)
        /\ UNCHANGED <<runVars, cancelVars, spawnVars, closed, pending, op, members, failing, settled,
             endVars, boundVars>>
    BY DEF TreeBlocks, ToBlock, Tree, Inv
  <1>2. tree'[t] = "read" /\ \A s \in Agents \ {t} : tree'[s] = tree[s]
    BY <1>1 DEF TypeOK
  <1>3. members[t] = {t} /\ row[t] # "none"
    BY <1>1 DEF Inv, TreesAreCovered
  <1>4. /\ t \in Tree(t) /\ Tree(t) \subseteq Agents
        /\ \A d \in Children : parent[d] \in Tree(t) => d \in Tree(t)
        /\ \A d \in Tree(t) \ {t} : d \in Children /\ parent[d] \in Tree(t)
    BY TreeIs
  <1>5. TypeOK'
    BY <1>1, <1>4 DEF TypeOK
  <1>6. \A c \in Children : Cared(c)' = Cared(c)
    BY <1>1, CaredRest
  <1>7. \A c \in Children : c = t => Cared(c)
    BY <1>3 DEF Cared
  <1>8. TreesAreCovered'
    BY <1>1, <1>2, <1>3, <1>4, TreesRest DEF Inv, TreesAreCovered, TypeOK
  <1>9. \A d \in blocked' \intersect Children : parent[d] # NoAgent
    BY <1>1, <1>3, <1>4 DEF Inv, ParentsAreMade
  <1>10. \A d \in Children : d \in blocked' /\ d \notin blocked =>
            parent[d] \in blocked' \/ row[d] \in Terminal \/ (row[d] \in Unfinished /\ Cared(d)')
    BY <1>1, <1>3, <1>4, <1>6, <1>7 DEF TypeOK
  <1>11. /\ \A d \in Children : parent[d] \in blocked' => d \in blocked'
         /\ \A d \in Children : op[d] # "none" => d \in blocked'
    BY <1>1, <1>4, AsItStands
  <1> QED BY <1>1, <1>5, <1>6, <1>8, <1>9, <1>10, <1>11, AsItStands, CancelMoves

\* The gate of the tree is closed before its rows are read, so that its runs are all there.
LEMMA TreeStopsKeepsInv ==
  ASSUME Inv, NEW t \in Agents, TreeStops(t)
  PROVE  Inv'
  <1> DEFINE found == {a \in Tree(t) : row[a] # "none"}
             S == {a \in found : a = Root /\ Live(a) /\ ~ rootCancelled}
  <1>1. /\ TypeOK /\ tree[t] = "read" /\ tree' = [tree EXCEPT ![t] = "stop"]
             /\ members' = [members EXCEPT ![t] = found]
        /\ CancelTasks(S) /\ rootCancelled' \in BOOLEAN
        /\ UNCHANGED <<runVars, spawnVars, closed, pending, failing, settled, provider, down, entries,
             boundVars>>
    BY DEF TreeStops, Inv, TypeOK, Tree
  <1>2. members[t] = {t} /\ row[t] # "none" /\ t \in blocked
    BY <1>1 DEF Inv, TreesAreCovered
  <1>3. t \in Tree(t) /\ Tree(t) \subseteq Agents /\ Tree(t) \subseteq blocked
    BY <1>2, TreeIs, BlockedBelow DEF Inv
  <1>4. PICK below : /\ below = UNION {ToBlock(a) : a \in found} /\ blocked' = blocked \union below
          /\ StartsOps(below)
    BY DEF TreeStops, Tree
  <1>5. below \subseteq blocked
    <2>1. \A a \in found : ToBlock(a) \subseteq blocked
      BY <1>3, BlockedBelow DEF Inv, ToBlock, Tree
    <2> QED BY <1>4, <2>1
  <1>6. found \subseteq below
    <2>1. \A a \in found : a \in ToBlock(a)
      BY <1>3, TreeIs DEF ToBlock, Tree
    <2> QED BY <1>4, <2>1
  <1>7. blocked' = blocked
    BY <1>4, <1>5
  <1>8. /\ \A d \in Children : op'[d] = IF d \in below /\ op[d] \in {"none", "failed"} THEN "look" ELSE op[d]
        /\ op' \in [Children -> {"none", "look", "wait", "over", "failed"}]
    BY <1>1, <1>4 DEF StartsOps, TypeOK
  <1>9. S \in SUBSET Agents /\ \A a \in S : a = Root
    BY <1>3
  <1> HIDE DEF found, S
  <1>10. /\ thrown' \in [Agents -> BOOLEAN] /\ cancelling' \in [Agents -> Nat]
         /\ \A a \in Agents : a \notin S => thrown'[a] = thrown[a]
         /\ \A a \in Agents : thrown[a] => thrown'[a]
    BY <1>1, <1>9, CancelTasksIs
  <1>11. tree'[t] = "stop" /\ members'[t] = found /\ \A s \in Agents \ {t} : tree'[s] = tree[s]
           /\ members'[s] = members[s]
    BY <1>1 DEF TypeOK
  <1>12. t \in found /\ found \subseteq Agents /\ found \subseteq Tree(t)
    BY <1>2, <1>3 DEF found
  <1>13. TypeOK'
    BY <1>1, <1>7, <1>8, <1>10, <1>12 DEF TypeOK
  <1>14. \A s \in Agents : members[s] \subseteq members'[s]
    BY <1>2, <1>11, <1>12
  <1>15. \A c \in Children : Cared(c) => Cared(c)'
    BY <1>1, <1>8, <1>14, CaredGrows
  <1>16. TreesAreCovered'
    <2>1. ASSUME NEW a \in found PROVE row[a] # "none" /\ (a \in Children => op'[a] # "none")
      BY <1>6, <1>8 DEF found
    <2>2. ASSUME NEW a \in Tree(t), row[a] \in Unfinished PROVE a \in found
      BY <2>2 DEF found
    <2>3. \A d \in Children : op[d] # "none" => op'[d] # "none"
      BY <1>8
    <2> QED BY <1>1, <1>2, <1>7, <1>11, <1>12, <2>1, <2>2, <2>3, TreesRest DEF Inv, TreesAreCovered, TypeOK
  <1>17. \A c \in pending : row[c] \in Unfinished => down # "no" \/ \E s \in Agents : c \in members'[s]
    BY <1>14, AsItStands
  <1>18. /\ \A d \in Children : op'[d] # "none" => d \in blocked
         /\ \A d \in Children : op'[d] = "over" => op[d] = "over"
         /\ unconfirmed = 0 => \A d \in Children : op'[d] # "failed"
    BY <1>5, <1>8, AsItStands
  <1>19. \A d \in Children : thrown'[d] = thrown[d]
    BY <1>9, <1>10
  <1> QED BY <1>1, <1>7, <1>10, <1>13, <1>15, <1>16, <1>17, <1>18, <1>19, AsItStands, CancelMoves

\* A shutdown ends a cleanup that is still not confirmed.
LEMMA TreeGivesUpKeepsInv ==
  ASSUME Inv, NEW t \in Agents, NEW a \in Agents, TreeGivesUp(t, a)
  PROVE  Inv'
  <1>1. /\ TypeOK /\ down # "no" /\ tree[t] = "stop" /\ a \in members[t] /\ a \in pending
        /\ members' = [members EXCEPT ![t] = @ \ {a}]
        /\ UNCHANGED <<runVars, cancelVars, spawnVars, gateVars, pending, op, tree, failing, settled,
             endVars, boundVars>>
    BY DEF TreeGivesUp, Inv
  <1>2. members'[t] = members[t] \ {a} /\ \A s \in Agents \ {t} : members'[s] = members[s]
    BY <1>1 DEF TypeOK
  <1>3. TypeOK'
    <2>1. members' \in [Agents -> SUBSET Agents]
      BY <1>1 DEF TypeOK
    <2> QED BY <1>1, <2>1 DEF TypeOK
  <1>4. \A c \in Children : Cared(c) => Cared(c)'
    <2> SUFFICES ASSUME NEW c \in Children, Cared(c) PROVE Cared(c)'
      OBVIOUS
    <2>1. CASE c = a
      BY <1>1, <2>1 DEF Cared
    <2>2. CASE c # a
      BY <1>1, <1>2, <2>2 DEF Cared
    <2> QED BY <2>1, <2>2
  <1>5. TreesAreCovered'
    BY <1>1, <1>2, TreesRest DEF Inv, TreesAreCovered, TypeOK
  <1> QED BY <1>1, <1>3, <1>4, <1>5, AsItStands, CancelMoves

\* What a tree does not wait for has not begun, and nobody of the tree is left who could begin it.
LEMMA TreeEndsKeepsInv ==
  ASSUME Inv, NEW t \in Agents, TreeEnds(t)
  PROVE  Inv'
  <1>1. /\ TypeOK /\ tree[t] = "stop" /\ members[t] = {} /\ tree' = [tree EXCEPT ![t] = "none"]
        /\ failing' = failing \ {t} /\ settled' = (IF down = "no" THEN settled \union {t} ELSE settled)
        /\ UNCHANGED <<runVars, cancelVars, spawnVars, gateVars, pending, op, members, endVars, boundVars>>
    BY DEF TreeEnds, Inv
  <1>2. tree'[t] = "none" /\ \A s \in Agents \ {t} : tree'[s] = tree[s]
    BY <1>1 DEF TypeOK
  <1>3. TypeOK'
    BY <1>1 DEF TypeOK
  <1>4. /\ ParentsAreMade' /\ CallsAreOwn' /\ UnstartedAreCalled' /\ LostAreLeft' /\ PendingHaveEnded'
        /\ ProviderIsLast'
    BY <1>1 DEF Inv, ParentsAreMade, CallsAreOwn, CallIsOwn, UnstartedAreCalled, Called, LostAreLeft,
       PendingHaveEnded, ProviderIsLast
  <1>5. EndedAreCared' /\ GatesAreClosed'
    BY <1>1, CaredRest DEF Inv, EndedAreCared, GatesAreClosed
  <1>6. TreesAreCovered'
    BY <1>1, <1>2, TreesRest DEF Inv, TreesAreCovered
  <1>7. ASSUME down = "no" PROVE /\ t \in blocked /\ row[t] # "none"
                                 /\ \A a \in Tree(t) : row[a] \in Unfinished => task[a] = "none" /\ a # t
    BY <1>1, <1>7 DEF Inv, TreesAreCovered
  <1>8. ASSUME down = "no", unconfirmed = 0, NEW a \in Tree(t), row[a] \in Unfinished, a \notin lost PROVE FALSE
    <2>1. a # t /\ task[a] = "none" /\ a \in Children /\ parent[a] \in Tree(t)
      BY <1>7, <1>8, TreeIs
    <2>2. PICK p \in Agents : spawn[p].child = a /\ spawn[p].at \in {"start", "look", "finish"}
      BY <1>8, <2>1 DEF Inv, UnstartedAreCalled, Called
    <2>3. task[p] = "loop" /\ parent[a] = p
      BY <2>2 DEF Inv, CallsAreOwn, CallIsOwn
    <2>4. row[p] \in Unfinished
      <3>1. row[p] # "none" /\ row[p] \notin Terminal
        BY <1>8, <2>3 DEF Inv, ParentsAreMade, SettledHaveEnded
      <3> QED BY <1>1, <3>1 DEF TypeOK
    <2> QED BY <1>7, <1>8, <2>1, <2>3, <2>4
  <1>9. SettledHaveEnded'
    <2> SUFFICES ASSUME unconfirmed = 0
                 PROVE  SettledHaveEnded'
      BY <1>1 DEF SettledHaveEnded
    <2>1. \A s \in settled' : s \in Agents /\ \A a \in Tree(s)' : row[a] \in Unfinished => a \in lost
      BY <1>1, <1>8, TreesRest DEF Inv, SettledHaveEnded, TypeOK
    <2> QED BY <1>1, <2>1 DEF Inv, SettledHaveEnded
  <1>10. SettledTreesAreQuiet'
    BY <1>1, <1>7, TreesRest DEF Inv, SettledTreesAreQuiet, TypeOK
  <1> QED BY <1>3, <1>4, <1>5, <1>6, <1>9, <1>10 DEF Inv

\* Rows that are settled by somebody who has waited for their tasks.
LEMMA RowsSettle ==
  ASSUME Inv, TypeOK',
         UNCHANGED <<task, parent, spawn, lost, thrown, blocked, provider, unconfirmed, settled, entries>>,
         \A a \in Agents : row'[a] = row[a] \/ (row[a] \in Unfinished /\ row'[a] \in Terminal
           /\ (unconfirmed = 0 => ~ Live(a))),
         \A c \in Children : row'[c] \in Unfinished /\ Cared(c) => Cared(c)',
         \A c \in Children : row'[c] # row[c] => c \in blocked \/ task[c] # "none",
         pending' \subseteq pending,
         \A c \in pending' : row'[c] \in Unfinished => down' # "no" \/ \E t \in Agents : c \in members'[t],
         \A c \in Children : op'[c] # "none" => op[c] # "none",
         \A c \in Children : op'[c] = "over" => op[c] = "over" \/ row'[c] \in Terminal
                                                \/ (parent[c] \in blocked /\ task[c] = "none"),
         unconfirmed = 0 => \A c \in Children : op'[c] # "failed",
         TreesAreCovered', entries # {} => down' \in {"registry", "done"}
  PROVE  Inv'
  <1>1. \A a \in Agents : /\ row'[a] \in Unfinished => row[a] \in Unfinished
                          /\ row[a] \in Terminal => row'[a] \in Terminal
                          /\ row'[a] \in Terminal => row[a] \in Terminal \/ (unconfirmed = 0 => ~ Live(a))
                          /\ row'[a] = "none" <=> row[a] = "none"
    OBVIOUS
  <1>2. ParentsAreMade'
    BY <1>1 DEF Inv, ParentsAreMade
  <1>3. CallsAreOwn'
    BY <1>1 DEF Inv, CallsAreOwn, CallIsOwn
  <1>4. UnstartedAreCalled' /\ LostAreLeft'
    <2>1. lost \subseteq Children
      BY DEF Inv, TypeOK
    <2> QED BY <1>1, <2>1 DEF Inv, UnstartedAreCalled, Called, LostAreLeft
  <1>5. EndedAreCared'
    BY <1>1 DEF Inv, EndedAreCared
  <1>6. PendingHaveEnded'
    BY DEF Inv, PendingHaveEnded
  <1>7. GatesAreClosed'
    <2>1. \A q \in Agents : At(q, "start") => spawn[q].child \in Children /\ task[spawn[q].child] = "none"
      BY DEF Inv, CallsAreOwn, CallIsOwn
    <2>2. \A d \in Children \intersect blocked :
             parent[d] \in blocked \/ row'[d] \in Terminal \/ (row'[d] \in Unfinished /\ Cared(d)')
      BY <1>1 DEF Inv, GatesAreClosed
    <2>3. \A q \in Agents : At(q, "start") /\ row'[spawn[q].child] \in Terminal => spawn[q].child \in blocked
      BY <2>1 DEF Inv, GatesAreClosed
    <2>4. \A d \in Children : op'[d] = "over" => row'[d] \in Terminal
            \/ (parent[d] \in blocked /\ task[d] = "none")
      BY <1>1 DEF Inv, GatesAreClosed
    <2>5. /\ \A d \in Children : parent[d] \in blocked => d \in blocked
          /\ \A d \in Children : op'[d] # "none" => d \in blocked
      BY DEF Inv, GatesAreClosed
    <2> QED BY <2>2, <2>3, <2>4, <2>5 DEF GatesAreClosed
  <1>8. SettledHaveEnded'
    <2> SUFFICES ASSUME unconfirmed = 0
                 PROVE  SettledHaveEnded'
      BY DEF SettledHaveEnded
    <2>1. \A a \in Agents : row'[a] \in Terminal => task[a] \in {"none", "done"}
            \/ (task[a] = "ready" /\ thrown[a])
      BY <1>1 DEF Inv, SettledHaveEnded
    <2>2. \A t \in settled : t \in Agents /\ \A a \in Tree(t)' : row'[a] \in Unfinished => a \in lost
      BY <1>1, TreesRest DEF Inv, SettledHaveEnded, TypeOK
    <2>3. pending' = {}
      BY DEF Inv, SettledHaveEnded
    <2> QED BY <2>1, <2>2, <2>3 DEF SettledHaveEnded
  <1>9. SettledTreesAreQuiet'
    BY <1>1, TreesRest DEF Inv, SettledTreesAreQuiet, TypeOK
  <1>10. ProviderIsLast'
    BY DEF Inv, ProviderIsLast
  <1> QED BY <1>2, <1>3, <1>4, <1>5, <1>6, <1>7, <1>8, <1>9, <1>10 DEF Inv

\* Finish settles the row of an agent that has one, and no other.
LEMMA FinishIs ==
  ASSUME TypeOK, NEW c \in Children, NEW status \in Terminal, Finish(c, status)
  PROVE  /\ row' \in [Agents -> {"none"} \union Unfinished \union Terminal] /\ ends' \in [Children -> Nat]
         /\ \A a \in Agents \ {c} : row'[a] = row[a]
         /\ row[c] \in Unfinished => row'[c] \in Terminal
         /\ row[c] \notin Unfinished => row'[c] = row[c]
  <1>1. CASE row[c] \in Unfinished
    <2>1. row' = [row EXCEPT ![c] = status] /\ ends' = [ends EXCEPT ![c] = @ + 1]
      BY <1>1 DEF Finish
    <2> QED BY <1>1, <2>1 DEF TypeOK
  <1>2. CASE row[c] \notin Unfinished
    BY <1>2 DEF Finish, TypeOK
  <1> QED BY <1>1, <1>2

\* While rows are only settled, and operations go on, the trees stay covered.
LEMMA CoverageShrinks ==
  ASSUME Inv, UNCHANGED <<task, parent, tree, blocked>>, down' = "no" => down = "no",
         \A a \in Agents : row'[a] = row[a] \/ (row[a] \in Unfinished /\ row'[a] \in Terminal),
         \A t \in Agents : members'[t] \subseteq members[t]
                           /\ (tree[t] # "stop" => members'[t] = members[t])
                           /\ \A a \in members[t] \ members'[t] : row'[a] \notin Unfinished,
         \A c \in Children : op[c] # "none" => op'[c] # "none"
  PROVE  TreesAreCovered'
  <1>1. \A a \in Agents : (row'[a] \in Unfinished => row[a] \in Unfinished)
          /\ (row'[a] = "none" <=> row[a] = "none")
    OBVIOUS
  <1>2. \A t \in Agents : members[t] \subseteq Agents
    BY DEF Inv, TypeOK
  <1> QED BY <1>1, <1>2, TreesRest DEF Inv, TreesAreCovered, TypeOK

\* The registry settles the row of a task it has stopped.
LEMMA CancelEndsKeepsInv ==
  ASSUME Inv, NEW c \in Children, CancelEnds(c)
  PROVE  Inv'
  <1>1. /\ TypeOK /\ op[c] = "wait" /\ ~ Live(c) /\ c \in blocked
        /\ UNCHANGED <<task, outcome, result, cancelVars, spawnVars, gateVars, pending, tree, members,
             failing,
                       settled, endVars, boundVars>>
    BY DEF CancelEnds, Inv, GatesAreClosed
  <1>2. CASE c \in pending
    <2>1. op' = [op EXCEPT ![c] = "failed"] /\ UNCHANGED <<row, ends>>
      BY <1>2 DEF CancelEnds
    <2>2. op'[c] = "failed" /\ (\A d \in Children \ {c} : op'[d] = op[d])
          /\ op' \in [Children -> {"none", "look", "wait", "over", "failed"}]
      BY <1>1, <2>1 DEF TypeOK
    <2>3. TypeOK'
      BY <1>1, <2>1, <2>2 DEF TypeOK
    <2>4. row[c] \in Unfinished => down # "no" \/ \E t \in Agents : c \in members[t]
      BY <1>2, AsItStands
    <2>5. \A d \in Children : row[d] \in Unfinished /\ Cared(d) => Cared(d)'
      BY <1>1, <1>2, <2>2, <2>4 DEF Cared
    <2>6. TreesAreCovered'
      BY <1>1, <2>1, <2>2, CoverageRests
    <2>7. /\ \A d \in Children : op'[d] # "none" => d \in blocked
          /\ \A d \in Children : op'[d] = "over" => op[d] = "over"
          /\ unconfirmed = 0 => \A d \in Children : op'[d] # "failed"
      BY <1>1, <1>2, <2>2, AsItStands DEF Inv, SettledHaveEnded
    <2> QED BY <1>1, <2>1, <2>3, <2>5, <2>6, <2>7, AsItStands, CancelMoves
  <1>3. CASE c \notin pending
    <2>1. op' = [op EXCEPT ![c] = "over"] /\ Finish(c, "cancelled")
      BY <1>3 DEF CancelEnds
    <2>2. op'[c] = "over" /\ (\A d \in Children \ {c} : op'[d] = op[d])
          /\ op' \in [Children -> {"none", "look", "wait", "over", "failed"}]
      BY <1>1, <2>1 DEF TypeOK
    <2>3. /\ row' \in [Agents -> {"none"} \union Unfinished \union Terminal] /\ ends' \in [Children -> Nat]
          /\ \A a \in Agents \ {c} : row'[a] = row[a]
          /\ row[c] \in Unfinished => row'[c] \in Terminal
          /\ row[c] \notin Unfinished => row'[c] = row[c]
      BY <1>1, <2>1, FinishIs
    <2>4. TypeOK'
      BY <1>1, <2>2, <2>3 DEF TypeOK
    <2>5. \A a \in Agents : row'[a] = row[a] \/ (row[a] \in Unfinished /\ row'[a] \in Terminal
            /\ (unconfirmed = 0 => ~ Live(a)))
      BY <1>1, <2>3
    <2>6. \A d \in Children : row'[d] \in Unfinished /\ Cared(d) => Cared(d)'
      BY <1>1, <2>2, <2>3 DEF Cared
    <2>7. \A d \in Children : row'[d] # row[d] => d \in blocked
      BY <1>1, <2>3
    <2>8. TreesAreCovered'
      BY <1>1, <2>2, <2>5, CoverageShrinks
    <2>9. row'[c] \in Terminal \/ (parent[c] \in blocked /\ task[c] = "none")
      <3>1. row[c] = "none" => parent[c] \in blocked /\ task[c] = "none"
        BY <1>1 DEF Inv, GatesAreClosed, ParentsAreMade
      <3> QED BY <1>1, <2>3, <3>1 DEF TypeOK
    <2>10. /\ \A d \in Children : op'[d] # "none" => op[d] # "none"
           /\ \A d \in Children : op'[d] = "over" => op[d] = "over" \/ row'[d] \in Terminal
                                                     \/ (parent[d] \in blocked /\ task[d] = "none")
           /\ unconfirmed = 0 => \A d \in Children : op'[d] # "failed"
      BY <1>1, <2>2, <2>9, AsItStands
    <2>11. \A d \in pending : row'[d] \in Unfinished => down # "no" \/ \E t \in Agents : d \in members[t]
      BY <1>1, <2>3, AsItStands DEF TypeOK
    <2> QED BY <1>1, <2>4, <2>5, <2>6, <2>7, <2>8, <2>10, <2>11, AsItStands, RowsSettle
  <1> QED BY <1>2, <1>3

\* A tree settles the row of a run that has been stopped.
LEMMA TreeSettlesKeepsInv ==
  ASSUME Inv, NEW t \in Agents, NEW a \in Agents, TreeSettles(t, a)
  PROVE  Inv'
  <1>1. /\ TypeOK /\ tree[t] = "stop" /\ a \in members[t] /\ Stopped(a) /\ pending' = pending \ {a}
        /\ members' = [members EXCEPT ![t] = @ \ {a}]
        /\ UNCHANGED <<task, outcome, result, cancelVars, spawnVars, gateVars, op, tree, failing, settled,
             endVars,
                       boundVars>>
    BY DEF TreeSettles, Inv
  <1>2. members'[t] = members[t] \ {a} /\ \A s \in Agents \ {t} : members'[s] = members[s]
    BY <1>1 DEF TypeOK
  <1>3. row[a] # "none" /\ a \in Tree(t) /\ t \in blocked /\ (a \in Children => op[a] # "none")
    BY <1>1 DEF Inv, TreesAreCovered
  <1>4. a \in blocked
    BY <1>3, BlockedBelow DEF Inv
  <1>5. /\ row' \in [Agents -> {"none"} \union Unfinished \union Terminal] /\ ends' \in [Children -> Nat]
        /\ \A b \in Agents \ {a} : row'[b] = row[b]
        /\ row[a] \in Unfinished => row'[a] \in Terminal
        /\ row[a] \notin Unfinished => row'[a] = row[a]
    <2>1. CASE a = Root
      BY <1>1, <2>1 DEF TreeSettles, TypeOK
    <2>2. CASE a # Root
      <3>1. a \in Children
        BY <2>2
      <3>2. Finish(a, IF a = t /\ t \in failing THEN "failed" ELSE "cancelled")
        BY <2>2 DEF TreeSettles
      <3>3. (IF a = t /\ t \in failing THEN "failed" ELSE "cancelled") \in Terminal
        OBVIOUS
      <3> QED BY <1>1, <3>1, <3>2, <3>3, FinishIs
    <2> QED BY <2>1, <2>2
  <1>6. TypeOK'
    <2>1. members' \in [Agents -> SUBSET Agents] /\ pending' \subseteq Children
      BY <1>1 DEF TypeOK
    <2> QED BY <1>1, <1>5, <2>1 DEF TypeOK
  <1>7. row[a] \in Unfinished /\ unconfirmed = 0 => ~ Live(a)
    <2>1. CASE a = Root
      BY <1>1, <2>1 DEF Stopped
    <2>2. CASE a # Root /\ row[a] \in Unfinished /\ unconfirmed = 0
      <3>1. a \in Children /\ a \in Tree(a) /\ \A c \in Children : op[c] # "failed"
        BY <2>2, TreeIs, AsItStands
      <3>2. \A c \in Tree(a) : c \in Children
        <4> SUFFICES ASSUME Root \in Tree(a) PROVE FALSE
          BY TreeIs
        <4> QED BY <2>2, TreeIs
      <3>3. op[a] \notin {"look", "wait"}
        BY <1>1, <2>2, <3>1, <3>2 DEF Stopped, ToBlock, Tree
      <3>4. op[a] = "over"
        BY <1>1, <1>3, <3>1, <3>3 DEF TypeOK
      <3> QED BY <2>2, <3>1, <3>4 DEF Inv, GatesAreClosed
    <2> QED BY <2>1, <2>2
  <1>8. \A b \in Agents : row'[b] = row[b] \/ (row[b] \in Unfinished /\ row'[b] \in Terminal
          /\ (unconfirmed = 0 => ~ Live(b)))
    BY <1>1, <1>5, <1>7
  <1>9. row'[a] \notin Unfinished
    BY <1>5
  <1>10. \A d \in Children : row'[d] \in Unfinished /\ Cared(d) => Cared(d)'
    <2> SUFFICES ASSUME NEW d \in Children, row'[d] \in Unfinished, Cared(d) PROVE Cared(d)'
      OBVIOUS
    <2>1. d # a
      BY <1>9
    <2> QED BY <1>1, <1>2, <2>1 DEF Cared
  <1>11. TreesAreCovered'
    BY <1>1, <1>2, <1>8, <1>9, CoverageShrinks
  <1>12. \A d \in pending' : row'[d] \in Unfinished => down # "no" \/ \E s \in Agents : d \in members'[s]
    <2> SUFFICES ASSUME NEW d \in pending', row'[d] \in Unfinished, down = "no"
                          PROVE \E s \in Agents : d \in members'[s]
      OBVIOUS
    <2>1. d # a /\ d \in pending /\ d \in Children
      BY <1>1 DEF TypeOK
    <2>2. PICK s \in Agents : d \in members[s]
      BY <1>5, <2>1, AsItStands
    <2> QED BY <1>2, <2>1, <2>2
  <1>13. \A d \in Children : row'[d] # row[d] => d \in blocked
    BY <1>4, <1>5
  <1>14. pending' \subseteq pending
    BY <1>1
  <1> QED BY <1>1, <1>6, <1>8, <1>10, <1>11, <1>12, <1>13, <1>14, AsItStands, RowsSettle

-------------------------------------------------------------------------------
(* Shutdown *)

\* The daemon begins to shut down.
LEMMA ShutdownBeginsKeepsInv ==
  ASSUME Inv, ShutdownBegins
  PROVE  Inv'
  <1>1. /\ TypeOK /\ down = "no" /\ down' = "stopping" /\ entries = {}
        /\ UNCHANGED <<runVars, cancelVars, spawnVars, gateVars, pending, treeVars, provider, entries,
                       rootCancelled, boundVars>>
    BY AsItStands DEF ShutdownBegins
  <1>2. TypeOK'
    BY <1>1 DEF TypeOK
  <1>3. \A c \in Children : Cared(c) => Cared(c)'
    BY <1>1 DEF Cared
  <1>4. TreesAreCovered'
    BY <1>1, CoverageShrinks
  <1> QED BY <1>1, <1>2, <1>3, <1>4, AsItStands, CancelMoves

\* The supervisor stops the root.
LEMMA ShutdownStopsRootKeepsInv ==
  ASSUME Inv, ShutdownStopsRoot
  PROVE  Inv'
  <1> DEFINE S == {a \in {Root} : Live(a) /\ ~ rootCancelled}
  <1>1. /\ TypeOK /\ down = "stopping" /\ down' = "root" /\ entries = {} /\ CancelTasks(S)
             /\ rootCancelled' = TRUE
        /\ UNCHANGED <<runVars, spawnVars, gateVars, pending, treeVars, provider, entries, boundVars>>
    BY AsItStands DEF ShutdownStopsRoot
  <1>2. S \in SUBSET Agents /\ \A a \in S : a = Root
    OBVIOUS
  <1> HIDE DEF S
  <1>3. /\ thrown' \in [Agents -> BOOLEAN] /\ cancelling' \in [Agents -> Nat]
        /\ \A a \in Agents : a \notin S => thrown'[a] = thrown[a]
        /\ \A a \in Agents : thrown[a] => thrown'[a]
    BY <1>1, <1>2, CancelTasksIs
  <1>4. TypeOK'
    BY <1>1, <1>3 DEF TypeOK
  <1>5. \A c \in Children : Cared(c) => Cared(c)'
    BY <1>1 DEF Cared
  <1>6. TreesAreCovered'
    BY <1>1, CoverageShrinks
  <1>7. \A d \in Children : thrown'[d] = thrown[d]
    BY <1>2, <1>3
  <1> QED BY <1>1, <1>3, <1>4, <1>5, <1>6, <1>7, AsItStands, CancelMoves

\* The registry stops all sub-agents.
LEMMA ShutdownStopsChildrenKeepsInv ==
  ASSUME Inv, ShutdownStopsChildren
  PROVE  Inv'
  <1>1. /\ TypeOK /\ down = "root" /\ down' = "registry" /\ entries = {} /\ closed' = TRUE
        /\ entries' = {c \in Children : Live(c)} /\ CancelTasks(Cancellable(Children))
        /\ UNCHANGED <<runVars, spawnVars, blocked, pending, treeVars, provider, rootCancelled, boundVars>>
    BY AsItStands DEF ShutdownStopsChildren
  <1>2. Cancellable(Children) \in SUBSET Agents /\ \A a \in Cancellable(Children) : Live(a)
    BY DEF Cancellable
  <1>3. /\ thrown' \in [Agents -> BOOLEAN] /\ cancelling' \in [Agents -> Nat]
        /\ \A a \in Agents : a \notin Cancellable(Children) => thrown'[a] = thrown[a]
        /\ \A a \in Agents : thrown[a] => thrown'[a]
    BY <1>1, <1>2, CancelTasksIs
  <1>4. TypeOK'
    BY <1>1, <1>3 DEF TypeOK
  <1>5. \A c \in Children : (Cared(c) => Cared(c)') /\ (Live(c) => Cared(c)')
    BY <1>1 DEF Cared
  <1>6. TreesAreCovered'
    BY <1>1, CoverageShrinks
  <1>7. \A d \in Children : (task[d] = "none" => thrown'[d] = thrown[d]) /\ (task[d] = "ready" => Cared(d)')
    BY <1>2, <1>3, <1>5
  <1>8. entries' \subseteq {c \in Children : task[c] # "none"}
    BY <1>1
  <1> QED BY <1>1, <1>3, <1>4, <1>5, <1>6, <1>7, <1>8, AsItStands, CancelMoves

\* The rows of the tasks the shutdown waited for are settled.
LEMMA ShutdownEndsKeepsInv ==
  ASSUME Inv, ShutdownEnds
  PROVE  Inv'
  <1> DEFINE left == {c \in entries \ pending : row[c] \in Unfinished}
  <1>1. /\ TypeOK /\ down = "registry" /\ down' = "done" /\ (\A c \in entries : ~ Live(c))
        /\ row' = [a \in Agents |-> IF a \in left THEN "cancelled" ELSE row[a]]
        /\ ends' = [c \in Children |-> IF c \in left THEN ends[c] + 1 ELSE ends[c]]
        /\ UNCHANGED <<task, outcome, result, cancelVars, spawnVars, gateVars, pending, treeVars, provider,
             entries,
                       rootCancelled, boundVars>>
    BY DEF ShutdownEnds, Inv
  <1>2. \A c \in entries : c \in Children /\ task[c] # "none" /\ ~ Live(c)
    BY <1>1 DEF Inv, ProviderIsLast, TypeOK
  <1>3. left \subseteq entries /\ \A c \in left : row[c] \in Unfinished
    OBVIOUS
  <1>4. \A c \in entries \ left : c \in pending \/ row[c] \notin Unfinished
    OBVIOUS
  <1> HIDE DEF left
  <1>5. \A a \in Agents : row'[a] = IF a \in left THEN "cancelled" ELSE row[a]
    BY <1>1
  <1>6. TypeOK'
    <2>1. row' \in [Agents -> {"none"} \union Unfinished \union Terminal]
      BY <1>1 DEF TypeOK
    <2>2. ends' \in [Children -> Nat]
      BY <1>1 DEF TypeOK
    <2> QED BY <1>1, <2>1, <2>2 DEF TypeOK
  <1>7. \A a \in Agents : row'[a] = row[a] \/ (row[a] \in Unfinished /\ row'[a] \in Terminal
          /\ (unconfirmed = 0 => ~ Live(a)))
    BY <1>2, <1>3, <1>5
  <1>8. \A c \in Children : row'[c] \in Unfinished /\ Cared(c) => Cared(c)'
    <2> SUFFICES ASSUME NEW c \in Children, row'[c] \in Unfinished, Cared(c) PROVE Cared(c)'
      OBVIOUS
    <2>1. c \in entries => c \in pending
      BY <1>4, <1>5
    <2> QED BY <1>1, <2>1 DEF Cared
  <1>9. \A c \in Children : row'[c] # row[c] => task[c] # "none"
    BY <1>2, <1>3, <1>5
  <1>10. TreesAreCovered'
    BY <1>1, <1>7, CoverageShrinks
  <1> QED BY <1>1, <1>6, <1>7, <1>8, <1>9, <1>10, AsItStands, RowsSettle

-------------------------------------------------------------------------------
(* Theorems *)

\* Before the first sub-agent the invariant holds.
LEMMA InitHoldsInv ==
  ASSUME Init
  PROVE  Inv
  <1>1. TypeOK
    <2>1. spawn \in [Agents -> [at : {"idle", "create", "look", "commit", "start", "wait", "stop", "finish"},
                                child : Children \union {NoAgent}, background : BOOLEAN,
                                exc : {"none", "error", "cancelled"}, base : Nat]]
      BY DEF Init, Idle
    <2>2. requests \in 0 .. Cancels /\ expired \in 0 .. Timeouts /\ unconfirmed \in 0 .. Mishaps
      BY DEF Init
    <2> QED BY <2>1, <2>2 DEF Init, TypeOK
  <1>2. ParentsAreMade /\ CallsAreOwn /\ UnstartedAreCalled /\ EndedAreCared /\ PendingHaveEnded
    BY DEF Init, ParentsAreMade, CallsAreOwn, CallIsOwn, UnstartedAreCalled, EndedAreCared,
       PendingHaveEnded, Idle
  <1>3. GatesAreClosed
    BY DEF Init, GatesAreClosed, Idle
  <1>4. TreesAreCovered
    BY DEF Init, TreesAreCovered
  <1>5. SettledHaveEnded /\ SettledTreesAreQuiet /\ ProviderIsLast /\ LostAreLeft
    BY DEF Init, SettledHaveEnded, SettledTreesAreQuiet, ProviderIsLast, LostAreLeft
  <1> QED BY <1>1, <1>2, <1>3, <1>4, <1>5 DEF Inv

\* Stuttering keeps the invariant.
LEMMA RestKeepsInv ==
  ASSUME Inv, UNCHANGED vars
  PROVE  Inv'
  <1>1. UNCHANGED <<runVars, cancelVars, spawnVars, gateVars, pending, treeVars, endVars, boundVars>>
    BY DEF vars
  <1>2. TypeOK' /\ ParentsAreMade' /\ CallsAreOwn' /\ UnstartedAreCalled' /\ LostAreLeft'
          /\ PendingHaveEnded' /\ ProviderIsLast'
    BY <1>1 DEF Inv, TypeOK, ParentsAreMade, CallsAreOwn, CallIsOwn, UnstartedAreCalled, Called, LostAreLeft,
       PendingHaveEnded,
       ProviderIsLast
  <1>3. EndedAreCared' /\ GatesAreClosed'
    BY <1>1, CaredRest DEF Inv, EndedAreCared, GatesAreClosed
  <1>4. TreesAreCovered' /\ SettledHaveEnded' /\ SettledTreesAreQuiet'
    BY <1>1, TreesRest DEF Inv, TreesAreCovered, SettledHaveEnded, SettledTreesAreQuiet, TypeOK
  <1> QED BY <1>2, <1>3, <1>4 DEF Inv

\* Every step keeps the invariant.
LEMMA NextKeepsInv ==
  ASSUME Inv, Next
  PROVE  Inv'
  <1>1. CASE Spawns
    BY <1>1, SpawnBeginKeepsInv, SpawnCheckKeepsInv, SpawnLooksKeepsInv, SpawnCommitKeepsInv, SpawnStartKeepsInv,
       SpawnReturnKeepsInv,
       SpawnStoppedKeepsInv, SpawnFinishKeepsInv, SpawnInterruptedKeepsInv, TimerExpiresKeepsInv DEF Spawns
  <1>2. CASE Tasks
    BY <1>2, ChildBeginKeepsInv, ChildMarkKeepsInv, ChildCleanedKeepsInv, ChildUncleanKeepsInv,
       ChildFinishKeepsInv,
       LoopEndsKeepsInv, RootEndsKeepsInv, ProviderClosesKeepsInv DEF Tasks
  <1>3. CASE Cancellation
    BY <1>3, AskCancelKeepsInv, CancelLooksKeepsInv, CancelEndsKeepsInv, CancelRunKeepsInv,
       TreeBlocksKeepsInv,
       TreeStopsKeepsInv, TreeSettlesKeepsInv, TreeGivesUpKeepsInv, TreeEndsKeepsInv DEF Cancellation
  <1>4. CASE Shutdown
    BY <1>4, ShutdownBeginsKeepsInv, ShutdownStopsRootKeepsInv, ShutdownStopsChildrenKeepsInv,
       ShutdownEndsKeepsInv
       DEF Shutdown
  <1> QED BY <1>1, <1>2, <1>3, <1>4 DEF Next

\* The inductive invariant holds in every state that the program reaches.
THEOREM SubagentsInvHolds == Spec => []Inv
  <1>1. Inv /\ [Next]_vars => Inv'
    BY NextKeepsInv, RestKeepsInv
  <1> QED BY InitHoldsInv, <1>1, PTL DEF Spec

(***************************************************************************)
(* Whoever works has somebody who ends it: every sub-agent whose row is    *)
(* unfinished has its task, the call that spawns it, a cancellation or the *)
(* shutdown to settle it, and the provider it uses is open.  The exception *)
(* is an agent of which nothing ran: its call was cancelled a second time  *)
(* while it looked for the row.                                            *)
(***************************************************************************)
THEOREM AgentsAlwaysOwned == Spec => []AgentsAreOwned
  <1>1. ASSUME Inv PROVE AgentsAreOwned
    <2>1. UnfinishedAgentsAreOwned
      <3> SUFFICES ASSUME NEW c \in Children, row[c] \in Unfinished, ~ Live(c)
                   PROVE  Cared(c) \/ (\E p \in Agents : spawn[p].child = c)
                            \/ (c \in lost /\ task[c] = "none")
        BY DEF UnfinishedAgentsAreOwned, Cared
      <3>1. CASE task[c] = "none"
        BY <1>1, <3>1 DEF Inv, UnstartedAreCalled, Called
      <3>2. CASE task[c] = "done"
        BY <1>1, <3>2 DEF Inv, EndedAreCared
      <3> QED BY <3>1, <3>2
    <2>2. ProviderOutlivesAgents
      <3>1. \A c \in Below(Root) : c \in Children
        BY TreeIs DEF Below, Tree
      <3> QED BY <1>1, <3>1 DEF Inv, ProviderIsLast, ProviderOutlivesAgents
    <2> QED BY <1>1, <2>1, <2>2 DEF AgentsAreOwned, Inv
  <1> QED BY <1>1, SubagentsInvHolds, PTL

(***************************************************************************)
(* A cancelled tree of runs stays settled: nothing of it works or begins,  *)
(* and nothing of it is unfinished but for an agent that is not started.   *)
(* Its call was cancelled a second time while it looked for the row, or,   *)
(* when a cleanup could not be confirmed, has still to settle it.          *)
(***************************************************************************)
THEOREM CancelledTreesAlwaysSettled == Spec => []CancelledTreesStaySettled
  <1>1. ASSUME Inv PROVE CancelledTreesStaySettled
    <2> SUFFICES ASSUME NEW t \in settled, NEW a \in Descendants({t}), row[a] \in Unfinished, a \notin lost
                 PROVE  /\ unconfirmed > 0 /\ task[a] = "none"
                        /\ \E p \in Agents : spawn[p].child = a /\ spawn[p].at \in {"start", "look", "finish"}
      <3>1. \A t \in settled : \A a \in Descendants({t}) : row[a] \in Unfinished => task[a] = "none"
        BY <1>1 DEF Inv, SettledTreesAreQuiet, Tree
      <3> QED BY <3>1 DEF CancelledTreesStaySettled
    <2>1. t \in Agents /\ a \in Tree(t)
      BY <1>1 DEF Inv, TypeOK, Tree
    <2>2. task[a] = "none" /\ a # t
      BY <1>1, <2>1 DEF Inv, SettledTreesAreQuiet
    <2>3. unconfirmed # 0
      BY <1>1, <2>1 DEF Inv, SettledHaveEnded
    <2>4. unconfirmed \in Nat
      BY <1>1 DEF Inv, TypeOK
    <2>5. a \in Children
      BY <2>1, <2>2, TreeIs
    <2>6. \E p \in Agents : spawn[p].child = a /\ spawn[p].at \in {"start", "look", "finish"}
      BY <1>1, <2>2, <2>5 DEF Inv, UnstartedAreCalled, Called
    <2>7. unconfirmed > 0
      BY <2>3, <2>4
    <2> QED BY <2>2, <2>6, <2>7
  <1> QED BY <1>1, SubagentsInvHolds, PTL

\* What Finish does to the row of another, or of one that is settled: nothing.
LEMMA FinishSpares ==
  ASSUME TypeOK, NEW c \in Agents, NEW d \in Children, row[d] \in Terminal, NEW status, Finish(c, status)
  PROVE  row'[d] = row[d] /\ ends'[d] = ends[d]
  <1>1. CASE c = d
    BY <1>1 DEF Finish
  <1>2. CASE c # d
    BY <1>2 DEF Finish, TypeOK
  <1> QED BY <1>1, <1>2

(***************************************************************************)
(* However many actors settle a sub-agent, its row is settled once, and    *)
(* its end is announced once.                                              *)
(***************************************************************************)
THEOREM AlwaysSettledOnce == Spec => SettledOnce
  <1> DEFINE Once == \A c \in Children : row[c] \in Terminal => row'[c] = row[c] /\ ends'[c] = ends[c]
  <1>1. ASSUME Inv, [Next]_vars PROVE Once
    <2> SUFFICES ASSUME NEW d \in Children, row[d] \in Terminal PROVE row'[d] = row[d] /\ ends'[d] = ends[d]
      OBVIOUS
    <2>1. TypeOK
      BY <1>1 DEF Inv
    <2>2. CASE Spawns
      <3>1. PICK p \in Agents :
               \/ \E c \in Children, background \in BOOLEAN : SpawnBegin(p, c, background)
               \/ SpawnCheck(p) \/ SpawnLooks(p) \/ SpawnCommit(p) \/ SpawnStart(p) \/ SpawnReturn(p)
               \/ SpawnStopped(p) \/ SpawnFinish(p) \/ SpawnInterrupted(p) \/ TimerExpires(p)
        BY <2>2 DEF Spawns
      <3>2. At(p, "commit") => spawn[p].child # d /\ spawn[p].child \in Children
        BY <1>1 DEF Inv, CallsAreOwn, CallIsOwn
      <3>3. CASE UNCHANGED <<row, ends>>
        BY <3>3
      <3>4. CASE At(p, "commit") /\ row' = [row EXCEPT ![spawn[p].child] = "queued"] /\ UNCHANGED ends
        BY <2>1, <3>2, <3>4 DEF TypeOK
      <3>5. CASE SpawnFinish(p)
        <4>1. spawn[p].child \in Children
          BY <1>1, <3>5 DEF SpawnFinish, Inv, CallsAreOwn, CallIsOwn
        <4>2. PICK status : Finish(spawn[p].child, status)
          BY <3>5 DEF SpawnFinish
        <4> QED BY <2>1, <4>1, <4>2, FinishSpares
      <3>6. CASE SpawnInterrupted(p)
        BY <3>3, <3>4, <3>6 DEF SpawnInterrupted
      <3> QED BY <3>1, <3>3, <3>4, <3>5, <3>6 DEF SpawnBegin, SpawnCheck, SpawnLooks, SpawnCommit,
                 SpawnStart, SpawnReturn,
                                                 SpawnStopped, TimerExpires
    <2>3. CASE Tasks
      <3>1. CASE \E c \in Children : ChildMark(c)
        BY <2>1, <3>1 DEF ChildMark, TypeOK
      <3>2. CASE \E c \in Children : ChildFinish(c)
        BY <2>1, <3>2, FinishSpares DEF ChildFinish
      <3>3. CASE RootEnds
        BY <2>1, <3>3 DEF RootEnds, TypeOK
      <3> QED BY <2>3, <3>1, <3>2, <3>3 DEF Tasks, ChildBegin, ChildCleaned, ChildUnclean, LoopEnds,
                 ProviderCloses
    <2>4. CASE Cancellation
      <3>1. CASE \E c \in Children : CancelEnds(c)
        <4>1. PICK c \in Children : UNCHANGED <<row, ends>> \/ Finish(c, "cancelled")
          BY <3>1 DEF CancelEnds
        <4> QED BY <2>1, <4>1, FinishSpares
      <3>2. CASE \E t \in Agents : \E a \in Agents : TreeSettles(t, a)
        <4>1. PICK t \in Agents, a \in Agents : TreeSettles(t, a)
          BY <3>2
        <4>2. CASE a = Root
          BY <2>1, <4>1, <4>2 DEF TreeSettles, TypeOK
        <4>3. CASE a # Root
          <5>1. PICK status : Finish(a, status)
            BY <4>1, <4>3 DEF TreeSettles
          <5> QED BY <2>1, <5>1, FinishSpares
        <4> QED BY <4>2, <4>3
      <3> QED BY <2>4, <3>1, <3>2 DEF Cancellation, AskCancel, CancelLooks, CancelRun, TreeBlocks,
                 TreeStops, TreeEnds,
                                      TreeGivesUp
    <2>5. CASE Shutdown
      <3>1. CASE ShutdownEnds
        BY <2>1, <3>1 DEF ShutdownEnds, TypeOK
      <3> QED BY <2>5, <3>1 DEF Shutdown, ShutdownBegins, ShutdownStopsRoot, ShutdownStopsChildren
    <2>6. CASE UNCHANGED vars
      BY <2>6 DEF vars
    <2> QED BY <1>1, <2>2, <2>3, <2>4, <2>5, <2>6 DEF Next
  <1>2. ASSUME Inv, [Next]_vars PROVE [Once]_vars
    BY <1>1, <1>2
  <1> QED BY <1>2, SubagentsInvHolds, PTL DEF Spec, SettledOnce

===============================================================================
