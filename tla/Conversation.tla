---------------------------- MODULE Conversation ----------------------------
(***************************************************************************)
(* What a session remembers: the committed and active message rows, which  *)
(* every run is given, as far as they fit, and which only a run that       *)
(* succeeds extends.  A summary may replace them, made by a run of its own *)
(* transcript or by session.compact of all rows.  Either is asked for and  *)
(* committed in different steps, and cancellations, failures, a closed     *)
(* session and the death of the process come in between.                   *)
(*                                                                         *)
(* Runs are agents of AgentLoop.  Rows that are not both committed and     *)
(* active are never read again and left out.  In the other scenario the    *)
(* agents are of different sessions and share the ledgers only.            *)
(***************************************************************************)
EXTENDS AgentLoop

CONSTANTS
    Histories,  \* contexts a session may have
    Summaries   \* bound on session.compact calls

\* Turns that can be told of, and the messages of a transcript
Known == Callers \union UNION {Told(rows) : rows \in Histories}

Messages == [kind : {"old", "goal", "summary", "text", "calls", "results"}, size : Nat, of : SUBSET Known]

\* A transcript starts with an input, and its calls have their results.
IsTranscript(rows) == Paired(rows) /\ (rows # <<>> => IsUserInput(rows[1]))

\* A history is what earlier runs left.
ASSUME HistoriesAssumption == \A rows \in Histories : rows \in Seq(Messages) /\ IsTranscript(rows)

VARIABLES
    shared,     \* the agents are runs of one session, one after another
    context,    \* its committed and active rows
    turns,      \* history: the turns whose rows were committed
    session,    \* status of the session
    row,        \* status of the run's row
    compacting, \* session.compact: the rows it has read, or NotCompacting
    compacted

sessionVars == <<shared, context, turns, session, row, compacting, compacted>>
vars == <<loopVars, requestVars, sessionVars>>

NotCompacting == <<>>

Init ==
    /\ RequestsInit
    /\ \/ shared = FALSE /\ context = <<>> /\ LoopInit("ready")
       \/ shared = TRUE /\ ~ guarded /\ context \in Histories /\ LoopInit("waiting")
    /\ turns = Told(context)
    /\ session = "ready"
    /\ row = [a \in Callers |-> "none"]
    /\ compacting = NotCompacting /\ compacted = 0

-----------------------------------------------------------------------------
(* Runs *)

\* The submission lock of the session, which session.compact holds from its first step on
Unlocked == compacting = NotCompacting

\* _create_message_run and _create_retry_run; what the user wrote is not yet committed.
Submit(a) ==
    /\ shared /\ row[a] = "none" /\ Unlocked /\ session = "ready"
    /\ session' = "running"
    /\ row' = [row EXCEPT ![a] = "queued"]
    /\ UNCHANGED <<loopVars, requestVars, shared, context, turns, compacting, compacted>>

\* Where the groups begin that are read, newest first, before the budget is used up
Readable(rows) == {i \in DOMAIN rows : IsUserInput(rows[i]) /\ Fits(From(rows, i))}

Projection(rows) == IF Fits(rows) THEN rows ELSE From(rows, Min(Readable(rows)))

\* _load_context_records fails when not even the newest group fits, or when a call has no result.
Loadable(rows) == (Fits(rows) \/ Readable(rows) # {}) /\ Paired(Projection(rows))

\* _begin_run, and the end of a run that cannot be prepared
Begin(a) ==
    /\ row[a] = "queued"
    /\ IF Loadable(context)
       THEN /\ row' = [row EXCEPT ![a] = "running"] /\ UNCHANGED session
            /\ phase' = [phase EXCEPT ![a] = "ready"]
            /\ messages' = [messages EXCEPT ![a] = Loaded(Projection(context))]
            /\ start' = [start EXCEPT ![a] = Len(messages'[a])]
            /\ whole' = [whole EXCEPT ![a] = Fits(context)]
       ELSE /\ row' = [row EXCEPT ![a] = "settled"] /\ session' = "ready"
            /\ phase' = [phase EXCEPT ![a] = "done"]
            /\ UNCHANGED <<messages, start, whole>>
    /\ UNCHANGED <<status, step, asked, full, replaced, requestVars, shared, context, turns,
                   compacting, compacted>>

\* run.cancel reaches a run before it has begun.
CancelQueued(a) ==
    /\ row[a] = "queued"
    /\ row' = [row EXCEPT ![a] = "settled"] /\ session' = "ready"
    /\ phase' = [phase EXCEPT ![a] = "done"]
    /\ UNCHANGED <<status, messages, start, step, asked, full, whole, replaced, requestVars,
                   shared, context, turns, compacting, compacted>>

\* The rows of a run tell of its turn; its input is an earlier one from now on.
Rows(a, ms) ==
    [i \in DOMAIN ms |-> [ms[i] EXCEPT !.of = @ \union {a},
                                       !.kind = IF @ = "goal" THEN "old" ELSE @]]

\* Only a run that succeeded commits its rows.
Commits(a) == status[a] = "success"

\* _commit_compacted_context: every row up to now is replaced by what the run's transcript became.
Extended(a) ==
    IF replaced[a] THEN Rows(a, messages[a])
    ELSE context \o Rows(a, From(messages[a], start[a]))

\* _finish_run
Settles(a) ==
    /\ shared /\ row[a] = "running" /\ phase[a] = "done"
    /\ row' = [row EXCEPT ![a] = "settled"] /\ session' = "ready"
    /\ IF Commits(a)
       THEN context' = Extended(a) /\ turns' = turns \union {a}
       ELSE UNCHANGED <<context, turns>>
    /\ UNCHANGED <<loopVars, requestVars, shared, compacting, compacted>>

\* close_session has waited for its run and for the lock.
Close ==
    /\ shared /\ session = "ready" /\ Unlocked
    /\ session' = "closed"
    /\ UNCHANGED <<loopVars, requestVars, shared, context, turns, row, compacting, compacted>>

-----------------------------------------------------------------------------
(* session.compact *)

\* _load_manual_compaction_input and the check of the request: all rows, or none
LoadAll ==
    /\ shared /\ Unlocked /\ session = "ready" /\ compacted < Summaries
    /\ context # <<>> /\ Loadable(context) /\ Weight(context) + Prompt <= Window
    /\ compacting' = context
    /\ compacted' = compacted + 1
    /\ UNCHANGED <<loopVars, requestVars, shared, context, turns, session, row>>

\* No usable answer, or the caller of session.compact is gone
GiveUp ==
    /\ ~ Unlocked /\ compacting' = NotCompacting
    /\ UNCHANGED <<loopVars, requestVars, shared, context, turns, session, row, compacted>>

\* The summary and its acknowledgement
Summary(rows, size) ==
    <<[Message("summary", size) EXCEPT !.of = Told(rows)], [Message("text", 1) EXCEPT !.of = Told(rows)]>>

\* _commit_manual_compaction: the session and the bounds of its rows are what they were.
CommitSummary(size) ==
    /\ ~ Unlocked
    /\ session = "ready" /\ context = compacting
    /\ context' = Summary(compacting, size)
    /\ compacting' = NotCompacting
    /\ UNCHANGED <<loopVars, requestVars, shared, turns, session, row, compacted>>

-----------------------------------------------------------------------------

\* The daemon dies and starts again; recovery settles the run it had accepted.
Crash ==
    /\ LoopsDie([a \in Callers |-> IF ~ shared THEN "ready"
                                   ELSE IF row[a] = "none" THEN "waiting" ELSE "done"])
    /\ row' = [a \in Callers |-> IF row[a] = "none" THEN "none" ELSE "settled"]
    /\ session' = IF session = "running" THEN "ready" ELSE session
    /\ compacting' = NotCompacting
    /\ UNCHANGED <<shared, context, turns, compacted>>

Rests == \A a \in Callers : phase[a] \in {"waiting", "done"}

Next ==
    \/ \E a \in Callers :
          \/ AgentStep(a) /\ UNCHANGED sessionVars
          \/ Submit(a) \/ Begin(a) \/ CancelQueued(a) \/ Settles(a)
    \/ LoadAll \/ GiveUp \/ \E size \in SummarySizes : CommitSummary(size)
    \/ Close \/ Crash
    \/ Rests /\ UNCHANGED vars

Spec == Init /\ [][Next]_vars

-----------------------------------------------------------------------------
(***************************************************************************)
(* A conversation is kept: whatever runs and summaries fail, are cancelled *)
(* or die half-way, every turn that succeeded is told of by the rows the   *)
(* next run is given or could not be given in full, and these are a        *)
(* transcript: they start with an input, and calls have their results.     *)
(***************************************************************************)
ContextIsKept ==
    /\ turns \subseteq Told(context)
    /\ IsTranscript(context)
=============================================================================
