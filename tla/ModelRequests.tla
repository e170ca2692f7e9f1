---------------------------- MODULE ModelRequests ----------------------------
(***************************************************************************)
(* Model requests and the two ledgers that limit them: the request ledger, *)
(* which counts, and the cost ledger, which reserves the most a request    *)
(* may cost before it is sent and settles what it did cost afterwards.     *)
(*                                                                         *)
(* Each write to a store is a step, and the process may die between any    *)
(* two.  The cost ledger is its attempts table and a seal over it: a table *)
(* that does not match its seal is refused from then on.  Amounts are in   *)
(* units; Reserve stands for the reservation of one request.  The seal is  *)
(* kept as whether it matches: nobody writes a table it does not match.    *)
(***************************************************************************)
EXTENDS Naturals

CONSTANTS
    Callers,    \* agents, each of which makes one request at a time
    Attempts,   \* 1 or 2
    Limit,      \* request_limit
    Cap,        \* CAP_NANO_CNY
    Reserve,
    Bills,      \* what a request may really cost
    Modes,      \* subset of BOOLEAN: whether there is a cost ledger
    SealFaults, \* bound on seals that cannot be published
    Crashes,    \* bound on deaths of the process
    NoCaller

ASSUME RequestsAssumption ==
    /\ Attempts \in 1 .. 2
    /\ {Limit, Cap, Reserve, SealFaults, Crashes} \subseteq Nat
    /\ Bills \subseteq 0 .. Reserve
    /\ Modes \subseteq BOOLEAN /\ NoCaller \notin Callers

VARIABLES
    guarded,    \* there is a cost ledger
    at,         \* where the chat call of a caller is
    attempt,
    heard,      \* received_event
    spoken,     \* history: an event of the call's answer was passed on
    stopped,    \* a cancellation or the deadline, waiting for the reservation
    bill,       \* what the request of this attempt costs
    outcome,    \* how the last call ended
    requests,   \* rows of the request ledger
    spent,      \* sum of the confirmed attempts
    open,       \* attempts not confirmed
    sealed,     \* the seal matches the attempts table
    owner,      \* holder of the ledger's lock
    sent,       \* history: requests sent
    cost,       \* history: what they really cost
    faults, crashes

callVars == <<at, attempt, heard, spoken, stopped, bill, outcome>>
ledgerVars == <<requests, spent, open, sealed, owner>>
historyVars == <<sent, cost>>
requestVars == <<guarded, callVars, ledgerVars, historyVars, faults, crashes>>

\* What initialize leaves: stores that agree, and nothing spent
LedgersAreNew == requests = 0 /\ spent = 0 /\ open = 0 /\ sealed = TRUE /\ owner = NoCaller

RequestsInit ==
    /\ guarded \in Modes
    /\ at = [c \in Callers |-> "none"]
    /\ attempt = [c \in Callers |-> 1]
    /\ heard = [c \in Callers |-> FALSE]
    /\ spoken = [c \in Callers |-> FALSE]
    /\ stopped = [c \in Callers |-> "none"]
    /\ bill = [c \in Callers |-> 0]
    /\ outcome = [c \in Callers |-> "none"]
    /\ LedgersAreNew
    /\ sent = 0 /\ cost = 0
    /\ faults = 0 /\ crashes = 0

\* A call of AnthropicProvider.chat begins.
Asks(c) ==
    /\ at' = [at EXCEPT ![c] = "reserve"]
    /\ attempt' = [attempt EXCEPT ![c] = 1]
    /\ heard' = [heard EXCEPT ![c] = FALSE]
    /\ spoken' = [spoken EXCEPT ![c] = FALSE]
    /\ stopped' = [stopped EXCEPT ![c] = "none"]
    /\ bill' = [bill EXCEPT ![c] = 0]
    /\ outcome' = [outcome EXCEPT ![c] = "none"]
    /\ UNCHANGED <<guarded, ledgerVars, historyVars, faults, crashes>>

\* It ends.
Ends(c, how) ==
    /\ at' = [at EXCEPT ![c] = "none"]
    /\ outcome' = [outcome EXCEPT ![c] = how]
    /\ UNCHANGED <<attempt, heard, spoken, stopped, bill>>

Moves(c, place) ==
    /\ at' = [at EXCEPT ![c] = place]
    /\ UNCHANGED <<attempt, heard, spoken, stopped, bill, outcome>>

-------------------------------------------------------------------------------
(* CostLedger.reserve_attempt, in a thread that cancellation waits for *)

\* Defect: only what has been confirmed counts.
AffordsConfirmed == spent + Reserve <= Cap

\* The pessimistic check: confirmed, pending and this attempt together
Affords == spent + open * Reserve + Reserve <= Cap

(***************************************************************************)
(* The lock, _validated, and the insertion of the attempt.  Whatever is    *)
(* refused here is not sent.                                               *)
(***************************************************************************)
ReserveCost(c) ==
    /\ guarded /\ at[c] = "reserve" /\ owner = NoCaller
    /\ IF sealed /\ Affords
       THEN /\ open' = open + 1 /\ sealed' = FALSE /\ owner' = c
            /\ Moves(c, "sealAttempt")
       ELSE Ends(c, "refused") /\ UNCHANGED <<open, sealed, owner>>
    /\ UNCHANGED <<guarded, requests, spent, historyVars, faults, crashes>>

Seal(c) ==
    /\ \/ at[c] = "sealAttempt" /\ Moves(c, "count") /\ UNCHANGED owner
       \/ at[c] = "sealOrdinal" /\ owner' = NoCaller
          /\ IF stopped[c] # "none" THEN Ends(c, stopped[c]) ELSE Moves(c, "send")
       \/ at[c] = "sealUsage" /\ owner' = NoCaller /\ Ends(c, "answer")
    /\ sealed' = TRUE
    /\ UNCHANGED <<guarded, requests, spent, open, historyVars, faults, crashes>>

\* Every try to publish the seal fails: what is committed stays, and stays unusable.
SealFails(c) ==
    /\ faults < SealFaults
    /\ at[c] \in {"sealAttempt", "sealOrdinal", "sealUsage"}
    /\ faults' = faults + 1
    /\ owner' = NoCaller
    /\ Ends(c, "refused")
    /\ UNCHANGED <<guarded, requests, spent, open, sealed, historyVars, crashes>>

\* The count under BEGIN IMMEDIATE
WithinLimit == requests < Limit

(***************************************************************************)
(* RequestLedger.reserve.  Refused, it leaves the cost reserved.           *)
(***************************************************************************)
Count(c) ==
    /\ at[c] = "count" \/ (~ guarded /\ at[c] = "reserve")
    /\ IF WithinLimit
       THEN requests' = requests + 1 /\ Moves(c, IF guarded THEN "link" ELSE "send") /\ UNCHANGED owner
       ELSE Ends(c, "refused") /\ owner' = NoCaller /\ UNCHANGED requests
    /\ UNCHANGED <<guarded, spent, open, sealed, historyVars, faults, crashes>>

\* The attempt is linked to its ordinal.
Link(c) ==
    /\ at[c] = "link"
    /\ sealed' = FALSE
    /\ Moves(c, "sealOrdinal")
    /\ UNCHANGED <<guarded, requests, spent, open, owner, historyVars, faults, crashes>>

-------------------------------------------------------------------------------
(* AnthropicProvider._chat *)

Send(c) ==
    /\ at[c] = "send"
    /\ \E amount \in Bills :
          /\ bill' = [bill EXCEPT ![c] = amount]
          /\ cost' = cost + amount
    /\ sent' = sent + 1
    /\ at' = [at EXCEPT ![c] = "stream"]
    /\ UNCHANGED <<guarded, attempt, heard, spoken, stopped, outcome, ledgerVars, faults, crashes>>

Hear(c) ==
    /\ at[c] = "stream" /\ ~ heard[c]
    /\ heard' = [heard EXCEPT ![c] = TRUE]
    /\ spoken' = [spoken EXCEPT ![c] = TRUE]
    /\ UNCHANGED <<guarded, at, attempt, stopped, bill, outcome, ledgerVars, historyVars, faults, crashes>>

\* A request is tried again only when nothing of its answer has arrived.
MayTryAgain(c) == ~ heard[c] /\ attempt[c] < Attempts

\* Whether a failure may pass: its status, and the pause the service asks for
Passing == BOOLEAN

(***************************************************************************)
(* The transport or the service fails.  A failure that cannot pass, or     *)
(* that asks for a longer pause than the deadline leaves, ends the call.   *)
(***************************************************************************)
Break(c, passing) ==
    /\ at[c] = "stream"
    /\ IF passing /\ MayTryAgain(c) THEN Moves(c, "pause") ELSE Ends(c, "failed")
    /\ UNCHANGED <<guarded, ledgerVars, historyVars, faults, crashes>>

TryAgain(c) ==
    /\ at[c] = "pause"
    /\ at' = [at EXCEPT ![c] = "reserve"]
    /\ attempt' = [attempt EXCEPT ![c] = @ + 1]
    /\ heard' = [heard EXCEPT ![c] = FALSE]
    /\ UNCHANGED <<guarded, spoken, stopped, bill, outcome, ledgerVars, historyVars, faults, crashes>>

\* The message is complete and valid; with a cost ledger its usage is settled first.
Complete(c) ==
    /\ at[c] = "stream" /\ heard[c]
    /\ IF guarded THEN Moves(c, "settle") ELSE Ends(c, "answer")
    /\ UNCHANGED <<guarded, ledgerVars, historyVars, faults, crashes>>

\* CostLedger.settle, which blocks the event loop and cannot be cancelled
Settle(c) ==
    /\ at[c] = "settle" /\ owner = NoCaller
    /\ IF sealed
       THEN /\ spent' = spent + bill[c] /\ open' = open - 1
            /\ sealed' = FALSE /\ owner' = c
            /\ Moves(c, "sealUsage")
       ELSE Ends(c, "refused") /\ UNCHANGED <<spent, open, sealed, owner>>
    /\ UNCHANGED <<guarded, requests, historyVars, faults, crashes>>

Reserving(c) == guarded /\ at[c] \in {"reserve", "sealAttempt", "count", "link", "sealOrdinal"}

(***************************************************************************)
(* A cancellation or the deadline of the call.  A reservation in progress  *)
(* is waited for and then not used (when it is refused, the refusal is     *)
(* what the caller hears of); without a cost ledger the thread that counts *)
(* is left behind and may still count.                                     *)
(***************************************************************************)
Interrupt(c, how) ==
    /\ \/ /\ Reserving(c)
          /\ stopped[c] = "none" \/ (stopped[c] = "timeout" /\ how = "cancelled")
          /\ stopped' = [stopped EXCEPT ![c] = how]
          /\ UNCHANGED <<at, attempt, heard, spoken, bill, outcome, requests>>
       \/ /\ ~ guarded /\ at[c] = "reserve"
          /\ Ends(c, how)
          /\ requests' \in {requests} \union {n \in {requests + 1} : WithinLimit}
       \/ /\ at[c] \in {"send", "stream", "pause"}
          /\ Ends(c, how)
          /\ UNCHANGED requests
    /\ UNCHANGED <<guarded, spent, open, sealed, owner, historyVars, faults, crashes>>

\* The process dies: its calls are gone, its lock is free, the stores are as they were written.
CallsDie ==
    /\ crashes < Crashes
    /\ crashes' = crashes + 1
    /\ at' = [c \in Callers |-> "none"]
    /\ outcome' = [c \in Callers |-> "none"]
    /\ stopped' = [c \in Callers |-> "none"]
    /\ owner' = NoCaller
    /\ UNCHANGED <<guarded, attempt, heard, spoken, bill, requests, spent, open, sealed, historyVars, faults>>

Serves(c) ==
    \/ ReserveCost(c) \/ Seal(c) \/ SealFails(c) \/ Count(c) \/ Link(c)
    \/ Send(c) \/ Hear(c) \/ (\E passing \in Passing : Break(c, passing)) \/ TryAgain(c)
    \/ Complete(c) \/ Settle(c)

RequestsTypeOK ==
    /\ guarded \in BOOLEAN
    /\ at \in [Callers -> {"none", "reserve", "sealAttempt", "count", "link", "sealOrdinal", "send",
                           "stream", "pause", "settle", "sealUsage"}]
    /\ attempt \in [Callers -> 1 .. Attempts]
    /\ heard \in [Callers -> BOOLEAN] /\ spoken \in [Callers -> BOOLEAN]
    /\ stopped \in [Callers -> {"none", "cancelled", "timeout"}]
    /\ bill \in [Callers -> 0 .. Reserve]
    /\ outcome \in [Callers -> {"none", "answer", "failed", "refused", "cancelled", "timeout"}]
    /\ requests \in Nat /\ spent \in Nat /\ open \in Nat /\ sealed \in BOOLEAN
    /\ owner \in Callers \union {NoCaller}
    /\ sent \in Nat /\ cost \in Nat
    /\ faults \in 0 .. SealFaults /\ crashes \in 0 .. Crashes

(***************************************************************************)
(* What requests have really cost never exceeds the cap, nor their number  *)
(* the limit, whatever is retried, cancelled or lost in a crash between    *)
(* the two ledgers and the seal.                                           *)
(***************************************************************************)
NeverOverspends == sent <= requests /\ requests <= Limit /\ (guarded => cost <= Cap)

\* An answer of which anything has been passed on is never asked for again.
StreamsAreNotReplayed == \A c \in Callers : spoken[c] /\ at[c] # "none" => heard[c]

(***************************************************************************)
(* The cost ledger shuts itself only for a reason: while it is not locked, *)
(* it matches its seal unless a seal could not be published or the process *)
(* died.                                                                   *)
(***************************************************************************)
LedgerStaysUsable ==
    owner = NoCaller /\ ~ sealed => faults > 0 \/ crashes > 0

\* The budgets hold, and do not lock up by themselves.
BudgetsHold == RequestsTypeOK /\ NeverOverspends /\ LedgerStaysUsable

===============================================================================
