------------------------------ MODULE AgentLoop ------------------------------
(***************************************************************************)
(* The plan-act-observe loop of an agent: what it sends to the model, how  *)
(* it reacts to the answer, and the summary that may replace its           *)
(* transcript.  Agents (a run and its sub-agents) share the ledgers of     *)
(* ModelRequests, and may be cancelled at any await.                       *)
(*                                                                         *)
(* A message is its kind, its size in the local estimate and the earlier   *)
(* turns it tells of; tool calls are one message and their results the     *)
(* next.                                                                   *)
(***************************************************************************)
EXTENDS ModelRequests, Sequences, SequencesExt, FiniteSetsExt

CONSTANTS
    MaxSteps,
    Window,     \* input_limit
    Prompt,     \* estimate of the compaction prompt
    ResultSizes,
    SummarySizes

ASSUME LoopAssumption ==
    /\ {MaxSteps, Window, Prompt} \subseteq Nat
    /\ ResultSizes \union SummarySizes \subseteq Nat

VARIABLES
    status,     \* of the ExecutionContext
    phase,      \* where the loop is
    messages,
    start,      \* current_start
    step,
    asked,      \* messages of the request in progress
    full,       \* the answer used up the share of the window that calls for a summary
    whole,      \* history_complete: nothing of the conversation was left out at the start
    replaced    \* compactions: a summary has replaced the transcript

loopVars == <<status, phase, messages, start, step, asked, full, whole, replaced>>

Message(kind, size) == [kind |-> kind, size |-> size, of |-> {}]

Goal == Message("goal", 1)

\* The earlier turns a transcript tells of
Told(ms) == UNION {ms[i].of : i \in DOMAIN ms}

\* Messages a history group starts with; tool results are user messages too, but no input.
IsUserInput(m) == m.kind \in {"old", "goal", "summary"}

Weight(ms) == FoldSeq(LAMBDA m, n : m.size + n, 0, ms)

Fits(ms) == Weight(ms) <= Window

\* validate_tool_pairs
Paired(ms) ==
    \A i \in DOMAIN ms :
        /\ ms[i].kind = "calls" => i < Len(ms) /\ ms[i + 1].kind = "results"
        /\ ms[i].kind = "results" => i > 1 /\ ms[i - 1].kind = "calls"

From(ms, i) == SubSeq(ms, i, Len(ms))

\* Where the groups of the history before s begin
GroupStarts(ms, s) == {i \in 1 .. s - 1 : i = 1 \/ IsUserInput(ms[i])}

\* The groups that are taken: the latest that fit together with the current input
Cut(ms, s) == Min({i \in GroupStarts(ms, s) \union {s} : Fits(From(ms, i))})

\* ContextBudget.select raises no error.
Selectable(ms, s) ==
    /\ Fits(From(ms, s)) /\ Paired(From(ms, s))
    /\ s > 1 => Fits(From(ms, Max(GroupStarts(ms, s))))
    /\ Paired(From(ms, Cut(ms, s)))

Selected(ms, s) == From(ms, Cut(ms, s))

\* ExecutionContext and the first lines of AgentLoop.run
Loaded(history) == Append(history, Goal)

LoopInit(place) ==
    /\ status = [a \in Callers |-> "running"]
    /\ phase = [a \in Callers |-> place]
    /\ messages = [a \in Callers |-> Loaded(<<>>)]
    /\ start = [a \in Callers |-> 1]
    /\ step = [a \in Callers |-> 0]
    /\ asked = [a \in Callers |-> <<>>]
    /\ full = [a \in Callers |-> FALSE]
    /\ whole = [a \in Callers |-> TRUE]
    /\ replaced = [a \in Callers |-> FALSE]

-------------------------------------------------------------------------------
Finish(a, result) ==
    /\ status' = [status EXCEPT ![a] = result]
    /\ phase' = [phase EXCEPT ![a] = "done"]
    /\ asked' = [asked EXCEPT ![a] = <<>>]

GoTo(a, place) ==
    /\ phase' = [phase EXCEPT ![a] = place]
    /\ asked' = [asked EXCEPT ![a] = <<>>]
    /\ UNCHANGED status

(***************************************************************************)
(* The start of a step: the transcript is cut to what fits and sent.       *)
(***************************************************************************)
Plan(a) ==
    /\ phase[a] = "ready"
    /\ step' = [step EXCEPT ![a] = @ + 1]
    /\ IF Selectable(messages[a], start[a])
       THEN /\ asked' = [asked EXCEPT ![a] = Selected(messages[a], start[a])]
            /\ phase' = [phase EXCEPT ![a] = "asking"]
            /\ Asks(a)
            /\ UNCHANGED status
       ELSE Finish(a, "failed") /\ UNCHANGED requestVars
    /\ UNCHANGED <<messages, start, full, whole, replaced>>

\* What add_assistant_message and add_tool_result leave for each answer
Observed(stop, calls) ==
    IF ~ calls THEN <<Message("text", 1)>>
    ELSE IF stop = "tool_use" THEN <<Message("calls", 1)>>
    ELSE <<Message("calls", 1), Message("results", 1)>>

\* Defect: every run may summarise what it was given.
AnyHasCompactor(a) == TRUE

\* A run that was given a part of the conversation cannot replace the whole by a summary.
HasCompactor(a) == whole[a]

\* What _response lets through: end_turn has text and no calls, tool_use has calls.
Valid(stop, calls) == (stop = "end_turn" => ~ calls) /\ (stop = "tool_use" => calls)

\* Any other reason to stop fails the run.
Answer(a, stop, calls, crowded) ==
    /\ phase[a] = "asking" /\ at[a] = "none" /\ outcome[a] = "answer"
    /\ Valid(stop, calls)
    /\ messages' = [messages EXCEPT ![a] = @ \o Observed(stop, calls)]
    /\ full' = [full EXCEPT ![a] = crowded /\ stop = "tool_use" /\ HasCompactor(a)]
    /\ CASE stop = "tool_use" -> GoTo(a, "acting")
         [] stop = "end_turn" -> Finish(a, "success")
         [] OTHER -> Finish(a, "failed")
    /\ UNCHANGED <<start, step, whole, replaced, requestVars>>

(***************************************************************************)
(* The calls have been made, one after another, and their results are in.  *)
(* Both the step limit and the window are checked before anything else is  *)
(* sent.                                                                   *)
(***************************************************************************)
Act(a, size) ==
    /\ phase[a] = "acting"
    /\ LET now == Append(messages[a], Message("results", size)) IN
       /\ messages' = [messages EXCEPT ![a] = now]
       /\ IF step[a] >= MaxSteps \/ ~ Selectable(now, start[a])
          THEN Finish(a, "failed")
          ELSE GoTo(a, IF full[a] THEN "crowded" ELSE "ready")
    /\ UNCHANGED <<start, step, full, whole, replaced, requestVars>>

\* Compactor.compact_messages: a transcript too long for one request is kept as it is.
Compact(a) ==
    /\ phase[a] = "crowded"
    /\ IF Weight(messages[a]) + Prompt <= Window
       THEN GoTo(a, "summarising") /\ Asks(a)
       ELSE GoTo(a, "ready") /\ UNCHANGED requestVars
    /\ UNCHANGED <<messages, start, step, full, whole, replaced>>

\* Defect: the summary is all that is left.
ReplacedWithoutGoal(ms, size) ==
    <<[Message("summary", size) EXCEPT !.of = Told(ms)], Message("text", 1)>>

\* The summary and its acknowledgement, and the input current_input_start puts back
Replaced(ms, size) ==
    <<[Message("summary", size) EXCEPT !.of = Told(ms)], Message("text", 1), Goal>>

(***************************************************************************)
(* The summary has been asked for.  Whatever fails but a cancellation      *)
(* leaves the transcript as it was, and so does an unusable answer (size   *)
(* 0).                                                                     *)
(***************************************************************************)
Summarised(a, size) ==
    /\ phase[a] = "summarising" /\ at[a] = "none" /\ outcome[a] # "cancelled"
    /\ IF size > 0 /\ outcome[a] = "answer"
       THEN /\ messages' = [messages EXCEPT ![a] = Replaced(@, size)]
            /\ start' = [start EXCEPT ![a] = Len(messages'[a])]
            /\ replaced' = [replaced EXCEPT ![a] = TRUE]
       ELSE UNCHANGED <<messages, start, replaced>>
    /\ GoTo(a, "ready")
    /\ UNCHANGED <<step, full, whole, requestVars>>

\* The call failed, or the cancellation reached the loop.
Fail(a) ==
    /\ at[a] = "none"
    /\ \/ phase[a] = "asking" /\ outcome[a] \notin {"answer", "cancelled"} /\ Finish(a, "failed")
       \/ phase[a] \in {"asking", "summarising"} /\ outcome[a] = "cancelled" /\ Finish(a, "cancelled")
    /\ UNCHANGED <<messages, start, step, full, whole, replaced, requestVars>>

\* The agent's task is cancelled: in a call, or at another await.
Cancel(a) ==
    \/ Interrupt(a, "cancelled") /\ UNCHANGED loopVars
    \/ /\ phase[a] \in {"ready", "acting"}
       /\ Finish(a, "cancelled")
       /\ UNCHANGED <<messages, start, step, full, whole, replaced, requestVars>>

\* total_timeout_s
Deadline(a) == Interrupt(a, "timeout") /\ UNCHANGED loopVars

\* The process dies, and with it every loop; afterwards agents are where they are put.
LoopsDie(place) ==
    /\ CallsDie
    /\ status' = [a \in Callers |-> "running"]
    /\ phase' = place
    /\ messages' = [a \in Callers |-> Loaded(<<>>)]
    /\ start' = [a \in Callers |-> 1]
    /\ step' = [a \in Callers |-> 0]
    /\ asked' = [a \in Callers |-> <<>>]
    /\ full' = [a \in Callers |-> FALSE]
    /\ whole' = [a \in Callers |-> TRUE]
    /\ replaced' = [a \in Callers |-> FALSE]

AgentStep(a) ==
    \/ Plan(a) \/ Compact(a) \/ Fail(a) \/ Cancel(a) \/ Deadline(a)
    \/ \E stop \in {"end_turn", "tool_use", "max_tokens", "refusal"}, calls, crowded \in BOOLEAN :
          Answer(a, stop, calls, crowded)
    \/ \E size \in ResultSizes : Act(a, size)
    \/ \E size \in SummarySizes \union {0} : Summarised(a, size)
    \/ Serves(a) /\ UNCHANGED loopVars

-------------------------------------------------------------------------------
(***************************************************************************)
(* Every request of the loop itself holds the user's current input, pairs  *)
(* every tool call with its results, fits the window and starts a group,   *)
(* whatever has been summarised or cut off; and none is sent again after   *)
(* part of its answer was passed on.                                       *)
(***************************************************************************)
RequestsAreSound ==
    /\ StreamsAreNotReplayed
    /\ \A a \in Callers :
        phase[a] = "asking" =>
            /\ \E i \in DOMAIN asked[a] : asked[a][i] = Goal
            /\ Paired(asked[a]) /\ Fits(asked[a])
            /\ IsUserInput(asked[a][1])

===============================================================================
