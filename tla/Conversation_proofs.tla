------------------------- MODULE Conversation_proofs -------------------------
(***************************************************************************)
(* What holds of Conversation, of the loops and of the ledgers they share, *)
(* for any number of agents, crashes and summaries, any limits, prices and *)
(* histories: budgets hold, what is sent is sound, and no turn is lost.    *)
(***************************************************************************)
EXTENDS Conversation, WellFoundedInduction, TLAPS

-------------------------------------------------------------------------------
(* Sums over the callers, as functions of the callers that are counted *)

\* f adds up what w gives each caller.
Adds(f, w) ==
    /\ f \in [SUBSET Callers -> Nat]
    /\ \A S \in SUBSET Callers : \A c \in Callers \ S : f[S \union {c}] = f[S] + w[c]

\* low and all that w gives are within high.
Within(w, low, high) == \E f : Adds(f, w) /\ low + f[Callers] <= high

\* Whatever one caller gives up another number can take.
LEMMA WithinMoves ==
  ASSUME NEW w \in [Callers -> Nat], NEW c \in Callers, NEW v \in Nat,
         NEW low \in Nat, NEW high \in Nat, NEW low2 \in Nat, NEW high2 \in Nat,
         Within(w, low, high), low2 + v + high <= low + w[c] + high2
  PROVE  Within([w EXCEPT ![c] = v], low2, high2)
  <1>1. PICK f : Adds(f, w) /\ low + f[Callers] <= high
    BY DEF Within
  <1> DEFINE g == [S \in SUBSET Callers |-> IF c \in S THEN f[S \ {c}] + v ELSE f[S]]
             u == [w EXCEPT ![c] = v]
  <1>2. g \in [SUBSET Callers -> Nat]
    BY <1>1 DEF Adds
  <1>3. ASSUME NEW S \in SUBSET Callers, NEW d \in Callers \ S
        PROVE  g[S \union {d}] = g[S] + u[d]
    <2>1. CASE d = c
      <3>1. (S \union {c}) \ {c} = S
        BY <2>1
      <3> QED BY <2>1, <3>1
    <2>2. CASE d # c /\ c \in S
      <3>1. (S \union {d}) \ {c} = (S \ {c}) \union {d} /\ d \notin S \ {c} /\ S \ {c} \in SUBSET Callers
        BY <2>2
      <3>2. f[(S \ {c}) \union {d}] = f[S \ {c}] + w[d] /\ f[S \ {c}] \in Nat /\ w[d] \in Nat
        BY <1>1, <3>1 DEF Adds
      <3>3. g[S \union {d}] = f[(S \ {c}) \union {d}] + v /\ g[S] = f[S \ {c}] + v /\ u[d] = w[d]
        BY <2>2, <3>1
      <3> QED BY <3>2, <3>3
    <2>3. CASE d # c /\ c \notin S
      BY <1>1, <2>3 DEF Adds
    <2> QED BY <2>1, <2>2, <2>3
  <1>4. g[Callers] + w[c] = f[Callers] + v /\ g[Callers] \in Nat /\ f[Callers] \in Nat
    <2>1. (Callers \ {c}) \union {c} = Callers /\ Callers \ {c} \in SUBSET Callers /\ c \notin Callers \ {c}
      OBVIOUS
    <2>2. f[Callers] = f[Callers \ {c}] + w[c] /\ f[Callers \ {c}] \in Nat /\ w[c] \in Nat
            /\ f[Callers] \in Nat
      BY <1>1, <2>1 DEF Adds
    <2>3. g[Callers] = f[Callers \ {c}] + v
      OBVIOUS
    <2> QED BY <2>2, <2>3
  <1> HIDE DEF g, u
  <1>5. low2 + g[Callers] <= high2
    BY <1>1, <1>4
  <1>6. Adds(g, u)
    BY <1>2, <1>3 DEF Adds
  <1> QED BY <1>5, <1>6 DEF Within, u

\* When nobody is given anything any more, what was within is within.
LEMMA WithinNothing ==
  ASSUME NEW w, NEW low \in Nat, NEW high \in Nat, Within(w, low, high)
  PROVE  Within([c \in Callers |-> 0], low, high)
  <1>1. PICK f : Adds(f, w) /\ low + f[Callers] <= high
    BY DEF Within
  <1>2. low <= high
    BY <1>1 DEF Adds
  <1> DEFINE g == [S \in SUBSET Callers |-> 0]
  <1>3. Adds(g, [c \in Callers |-> 0]) /\ g[Callers] = 0
    BY DEF Adds
  <1> QED BY <1>2, <1>3 DEF Within

\* Each caller's part is within.
LEMMA WithinOne ==
  ASSUME NEW w \in [Callers -> Nat], NEW low \in Nat, NEW high \in Nat, Within(w, low, high)
  PROVE  low <= high /\ \A c \in Callers : low + w[c] <= high
  <1>1. PICK f : Adds(f, w) /\ low + f[Callers] <= high
    BY DEF Within
  <1>2. f[Callers] \in Nat
    BY <1>1 DEF Adds
  <1>3. ASSUME NEW c \in Callers PROVE w[c] <= f[Callers]
    <2>1. (Callers \ {c}) \union {c} = Callers /\ Callers \ {c} \in SUBSET Callers /\ c \notin Callers \ {c}
      OBVIOUS
    <2>2. f[Callers] = f[Callers \ {c}] + w[c] /\ f[Callers \ {c}] \in Nat /\ w[c] \in Nat
      BY <1>1, <2>1 DEF Adds
    <2> QED BY <2>2
  <1> QED BY <1>1, <1>2, <1>3

-------------------------------------------------------------------------------
(* The ledgers: the inductive invariant *)

\* Counted, and not yet sent
Counted(c) == IF at[c] \in {"link", "sealOrdinal", "send"} THEN 1 ELSE 0

\* The attempt of a caller is open, and it may still send it or settle it.
Holding(c) ==
    IF at[c] \in {"sealAttempt", "count", "link", "sealOrdinal", "send", "stream", "settle"} THEN 1 ELSE 0

\* What is reserved for a caller and is not, or not yet, a cost
Claim(c) ==
    IF at[c] \in {"sealAttempt", "count", "link", "sealOrdinal", "send"} THEN Reserve
    ELSE IF at[c] \in {"stream", "settle"} THEN Reserve - bill[c] ELSE 0

CountedBy == [c \in Callers |-> Counted(c)]
HeldBy    == [c \in Callers |-> Holding(c)]
ClaimedBy == [c \in Callers |-> Claim(c)]

\* Confirmed and pending attempts
Reserved == spent + open * Reserve

\* The books: what was sent was counted, and what was sent or can be was reserved.
BooksBalance ==
    /\ requests <= Limit /\ Reserved <= Cap
    /\ Within(CountedBy, sent, requests)
    /\ guarded => Within(HeldBy, 0, open) /\ Within(ClaimedBy, cost, Reserved)

\* The lock belongs to whom is between two stores, and only its holder leaves a table unsealed.
LockIsHeld ==
    /\ \A c \in Callers :
          at[c] \in {"sealAttempt", "count", "link", "sealOrdinal", "sealUsage"} <=> owner = c
    /\ ~ sealed /\ faults = 0 /\ crashes = 0 =>
          owner # NoCaller /\ at[owner] \in {"sealAttempt", "sealOrdinal", "sealUsage"}
    /\ ~ guarded => owner = NoCaller /\ \A c \in Callers : at[c] # "settle"

\* A call pauses only when it has heard nothing and may try again.
PausesAreSilent ==
    \A c \in Callers :
        /\ spoken[c] /\ at[c] # "none" => heard[c]
        /\ at[c] = "pause" => ~ heard[c] /\ attempt[c] < Attempts

RequestsInv == RequestsTypeOK /\ BooksBalance /\ LockIsHeld /\ PausesAreSilent

\* A reservation is a natural number.
LEMMA ReservedIsNat == RequestsTypeOK => Reserved \in Nat
  BY RequestsAssumption DEF RequestsTypeOK, Reserved

\* The budgets follow from the books.
LEMMA BudgetsFollow == RequestsInv => BudgetsHold /\ StreamsAreNotReplayed
  <1> SUFFICES ASSUME RequestsInv PROVE BudgetsHold /\ StreamsAreNotReplayed
    OBVIOUS
  <1>1. CountedBy \in [Callers -> Nat] /\ (guarded => ClaimedBy \in [Callers -> Nat])
    BY RequestsAssumption DEF CountedBy, Counted, ClaimedBy, Claim, RequestsInv, RequestsTypeOK
  <1>2. sent <= requests
    BY <1>1, WithinOne DEF RequestsInv, BooksBalance, RequestsTypeOK
  <1>3. guarded => cost <= Reserved
    BY <1>1, WithinOne, ReservedIsNat DEF RequestsInv, BooksBalance, RequestsTypeOK
  <1>4. guarded => cost <= Cap
    BY <1>3, ReservedIsNat, RequestsAssumption DEF RequestsInv, BooksBalance, RequestsTypeOK
  <1> QED BY <1>2, <1>4 DEF RequestsInv, RequestsTypeOK, BooksBalance, LockIsHeld, PausesAreSilent,
             BudgetsHold,
       NeverOverspends, LedgerStaysUsable, StreamsAreNotReplayed

-------------------------------------------------------------------------------
(* The ledgers: every step keeps the invariant *)

\* What each caller has counted, holds and claims are natural numbers.
LEMMA PartsAreNat ==
  ASSUME RequestsTypeOK
  PROVE  /\ CountedBy \in [Callers -> Nat] /\ HeldBy \in [Callers -> Nat] /\ ClaimedBy \in [Callers -> Nat]
         /\ Reserved \in Nat
  BY ReservedIsNat, RequestsAssumption DEF RequestsTypeOK, CountedBy, Counted, HeldBy, Holding, ClaimedBy,
     Claim

\* When one caller moves, the books balance as long as its part of them does.
LEMMA BooksKept ==
  ASSUME RequestsInv, RequestsTypeOK', guarded' = guarded, NEW c \in Callers,
         \A d \in Callers \ {c} : at'[d] = at[d] /\ bill'[d] = bill[d],
         requests' <= Limit, Reserved' <= Cap,
         sent' + Counted(c)' + requests <= sent + Counted(c) + requests',
         guarded => Holding(c)' + open <= Holding(c) + open',
         guarded => cost' + Claim(c)' + Reserved <= cost + Claim(c) + Reserved'
  PROVE  BooksBalance'
  <1>1. /\ CountedBy \in [Callers -> Nat] /\ HeldBy \in [Callers -> Nat] /\ ClaimedBy \in [Callers -> Nat]
        /\ Reserved \in Nat /\ Reserved' \in Nat
        /\ Counted(c)' \in Nat /\ Holding(c)' \in Nat /\ Claim(c)' \in Nat
    <2>1. /\ CountedBy \in [Callers -> Nat] /\ HeldBy \in [Callers -> Nat] /\ ClaimedBy \in [Callers -> Nat]
          /\ Reserved \in Nat
      BY PartsAreNat DEF RequestsInv
    <2>2. Reserved' \in Nat
      BY ReservedIsNat, RequestsAssumption DEF RequestsTypeOK, Reserved
    <2>3. Counted(c)' \in Nat /\ Holding(c)' \in Nat /\ Claim(c)' \in Nat
      BY RequestsAssumption DEF RequestsTypeOK, Counted, Holding, Claim
    <2> QED BY <2>1, <2>2, <2>3
  <1>2. /\ CountedBy' = [CountedBy EXCEPT ![c] = Counted(c)'] /\ CountedBy[c] = Counted(c)
        /\ HeldBy' = [HeldBy EXCEPT ![c] = Holding(c)'] /\ HeldBy[c] = Holding(c)
        /\ ClaimedBy' = [ClaimedBy EXCEPT ![c] = Claim(c)'] /\ ClaimedBy[c] = Claim(c)
    BY DEF CountedBy, HeldBy, ClaimedBy, Counted, Holding, Claim
  <1>3. /\ sent \in Nat /\ requests \in Nat /\ open \in Nat /\ cost \in Nat
        /\ sent' \in Nat /\ requests' \in Nat /\ open' \in Nat /\ cost' \in Nat
    BY DEF RequestsInv, RequestsTypeOK
  <1>4. Within(CountedBy', sent', requests')
    BY <1>1, <1>2, <1>3, WithinMoves DEF RequestsInv, BooksBalance
  <1>5. ASSUME guarded
        PROVE  Within(HeldBy', 0, open') /\ Within(ClaimedBy', cost', Reserved')
    <2>1. Within(HeldBy, 0, open) /\ Within(ClaimedBy, cost, Reserved)
      BY <1>5 DEF RequestsInv, BooksBalance
    <2>2. 0 + Holding(c)' + open <= 0 + HeldBy[c] + open'
      BY <1>1, <1>2, <1>3, <1>5
    <2>3. Within(HeldBy', 0, open')
      BY <1>1, <1>2, <1>3, <2>1, <2>2, WithinMoves
    <2>4. cost' + Claim(c)' + Reserved <= cost + ClaimedBy[c] + Reserved'
      BY <1>2, <1>5
    <2>5. Within(ClaimedBy', cost', Reserved')
      BY <1>1, <1>2, <1>3, <2>1, <2>4, WithinMoves
    <2> QED BY <2>3, <2>5
  <1>6. (Within(CountedBy, sent, requests))' <=> Within(CountedBy', sent', requests')
    BY DEF Within, Adds
  <1>7. (Within(HeldBy, 0, open))' <=> Within(HeldBy', 0, open')
    BY DEF Within, Adds
  <1>8. (Within(ClaimedBy, cost, Reserved))' <=> Within(ClaimedBy', cost', Reserved')
    BY DEF Within, Adds
  <1> QED BY <1>4, <1>5, <1>6, <1>7, <1>8 DEF BooksBalance

\* The books balance while nobody moves in them.
LEMMA BooksUnchanged ==
  ASSUME BooksBalance, UNCHANGED <<at, bill, guarded, requests, spent, open, sent, cost>>
  PROVE  BooksBalance'
  <1>1. CountedBy' = CountedBy /\ HeldBy' = HeldBy /\ ClaimedBy' = ClaimedBy /\ Reserved' = Reserved
    BY DEF CountedBy, HeldBy, ClaimedBy, Counted, Holding, Claim, Reserved
  <1>2. (Within(CountedBy, sent, requests))' <=> Within(CountedBy', sent', requests')
    BY DEF Within, Adds
  <1>3. (Within(HeldBy, 0, open))' <=> Within(HeldBy', 0, open')
    BY DEF Within, Adds
  <1>4. (Within(ClaimedBy, cost, Reserved))' <=> Within(ClaimedBy', cost', Reserved')
    BY DEF Within, Adds
  <1> QED BY <1>1, <1>2, <1>3, <1>4 DEF BooksBalance

CallsTyped ==
    /\ at \in [Callers -> {"none", "reserve", "sealAttempt", "count", "link", "sealOrdinal", "send",
                           "stream", "pause", "settle", "sealUsage"}]
    /\ attempt \in [Callers -> 1 .. Attempts]
    /\ heard \in [Callers -> BOOLEAN] /\ spoken \in [Callers -> BOOLEAN]
    /\ stopped \in [Callers -> {"none", "cancelled", "timeout"}]
    /\ bill \in [Callers -> 0 .. Reserve]
    /\ outcome \in [Callers -> {"none", "answer", "failed", "refused", "cancelled", "timeout"}]

\* A caller that goes on in the protocol, or ends it, keeps the type of its call.
LEMMA MovesTyped ==
  ASSUME RequestsTypeOK, NEW c \in Callers,
         \/ \E place \in {"count", "link", "sealOrdinal", "sealAttempt", "send", "sealUsage"} : Moves(c,
              place)
         \/ \E how \in {"answer", "failed", "refused", "cancelled", "timeout"} : Ends(c, how)
  PROVE  CallsTyped'
  BY DEF RequestsTypeOK, Moves, Ends, CallsTyped

\* A new request starts the protocol with nothing counted and nothing held.
LEMMA AsksKeeps ==
  ASSUME RequestsInv, NEW c \in Callers, at[c] = "none", Asks(c)
  PROVE  RequestsInv'
  <1> USE DEF RequestsInv
  <1>1. RequestsTypeOK'
    BY RequestsAssumption DEF Asks, RequestsTypeOK, ledgerVars, historyVars
  <1>2. LockIsHeld'
    BY DEF Asks, RequestsTypeOK, LockIsHeld, ledgerVars
  <1>3. PausesAreSilent'
    BY DEF Asks, RequestsTypeOK, PausesAreSilent
  <1>4. BooksBalance'
    <2>1. UNCHANGED <<guarded, requests, spent, open, sent, cost, Reserved>>
      BY DEF Asks, ledgerVars, historyVars, Reserved
    <2>2. /\ \A d \in Callers \ {c} : at'[d] = at[d] /\ bill'[d] = bill[d]
          /\ at'[c] = "reserve"
      BY DEF Asks, RequestsTypeOK
    <2>3. Counted(c)' = 0 /\ Holding(c)' = 0 /\ Claim(c)' = 0 /\ Counted(c) = 0 /\ Holding(c) = 0
            /\ Claim(c) = 0
      BY <2>2 DEF Counted, Holding, Claim
    <2>4. requests' <= Limit /\ Reserved' <= Cap
      BY <2>1 DEF BooksBalance
    <2> QED BY <1>1, <2>1, <2>2, <2>3, <2>4, BooksKept, PartsAreNat DEF RequestsTypeOK
  <1> QED BY <1>1, <1>2, <1>3, <1>4

\* One reservation more is paid for by what the cap had left.
LEMMA ReserveCostKeeps ==
  ASSUME RequestsInv, NEW c \in Callers, ReserveCost(c)
  PROVE  RequestsInv'
  <1> USE DEF RequestsInv
  <1>1. RequestsTypeOK'
    <2>1. CallsTyped'
      BY MovesTyped DEF ReserveCost
    <2>2. open' \in Nat /\ sealed' \in BOOLEAN /\ owner' \in Callers \union {NoCaller}
      <3>1. CASE sealed /\ Affords
        <4>1. open' = open + 1 /\ sealed' = FALSE /\ owner' = c
          BY <3>1 DEF ReserveCost
        <4>2. sealed' \in BOOLEAN
          BY <4>1
        <4> QED BY <4>1, <4>2 DEF RequestsTypeOK
      <3>2. CASE ~ (sealed /\ Affords)
        BY <3>2 DEF ReserveCost, RequestsTypeOK
      <3> QED BY <3>1, <3>2
    <2> QED BY <2>1, <2>2 DEF ReserveCost, RequestsTypeOK, historyVars, CallsTyped
  <1>2. LockIsHeld'
    BY RequestsAssumption DEF ReserveCost, Moves, Ends, RequestsTypeOK, LockIsHeld
  <1>3. PausesAreSilent'
    BY DEF ReserveCost, Moves, Ends, RequestsTypeOK, PausesAreSilent
  <1>4. BooksBalance'
    <2>1. /\ at[c] = "reserve" /\ UNCHANGED <<guarded, requests, spent, sent, cost, bill>>
          /\ \A d \in Callers \ {c} : at'[d] = at[d] /\ bill'[d] = bill[d]
      BY DEF ReserveCost, Moves, Ends, historyVars, RequestsTypeOK
    <2>2. Counted(c) = 0 /\ Holding(c) = 0 /\ Claim(c) = 0
      BY <2>1 DEF Counted, Holding, Claim
    <2>3. CASE sealed /\ Affords
      <3>1. open' = open + 1 /\ at'[c] = "sealAttempt"
        BY <2>3 DEF ReserveCost, Moves, RequestsTypeOK
      <3>2. Counted(c)' = 0 /\ Holding(c)' = 1 /\ Claim(c)' = Reserve
        BY <3>1 DEF Counted, Holding, Claim
      <3>3. Reserved' = Reserved + Reserve
        BY <2>1, <3>1, RequestsAssumption DEF Reserved, RequestsTypeOK
      <3>4. requests' <= Limit /\ Reserved' <= Cap
        BY <2>1, <2>3, <3>3 DEF BooksBalance, Affords, Reserved
      <3> QED BY <1>1, <2>1, <2>2, <3>1, <3>2, <3>3, <3>4, BooksKept, PartsAreNat, RequestsAssumption
                 DEF RequestsTypeOK
    <2>4. CASE ~ (sealed /\ Affords)
      <3>1. open' = open /\ at'[c] = "none"
        BY <2>4 DEF ReserveCost, Ends, RequestsTypeOK
      <3>2. Counted(c)' = 0 /\ Holding(c)' = 0 /\ Claim(c)' = 0
        BY <3>1 DEF Counted, Holding, Claim
      <3>3. Reserved' = Reserved /\ requests' <= Limit /\ Reserved' <= Cap
        BY <2>1, <3>1 DEF Reserved, BooksBalance
      <3> QED BY <1>1, <2>1, <2>2, <3>1, <3>2, <3>3, BooksKept, PartsAreNat DEF RequestsTypeOK
    <2> QED BY <2>3, <2>4
  <1> QED BY <1>1, <1>2, <1>3, <1>4

\* What is only sealed, or refused on the way, gives back no more than it held.
LEMMA SealsKeep ==
  ASSUME RequestsInv, NEW c \in Callers, Seal(c) \/ SealFails(c)
  PROVE  RequestsInv'
  <1> USE DEF RequestsInv
  <1>1. RequestsTypeOK'
    <2>1. CallsTyped'
      <3>1. stopped[c] # "none" => stopped[c] \in {"cancelled", "timeout"}
        BY DEF RequestsTypeOK
      <3> QED BY <3>1, MovesTyped DEF Seal, SealFails
    <2>2. faults' \in 0 .. SealFaults
      BY RequestsAssumption DEF Seal, SealFails, RequestsTypeOK
    <2> QED BY <2>1, <2>2 DEF Seal, SealFails, RequestsTypeOK, historyVars, CallsTyped
  <1>2. LockIsHeld'
    <2>1. CASE Seal(c)
      BY <2>1, RequestsAssumption DEF Seal, Moves, Ends, RequestsTypeOK, LockIsHeld
    <2>2. CASE SealFails(c)
      BY <2>2, RequestsAssumption DEF SealFails, Ends, RequestsTypeOK, LockIsHeld
    <2> QED BY <2>1, <2>2
  <1>3. PausesAreSilent'
    BY DEF Seal, SealFails, Moves, Ends, RequestsTypeOK, PausesAreSilent
  <1>4. BooksBalance'
    <2>1. /\ UNCHANGED <<guarded, requests, spent, open, sent, cost, bill, Reserved>>
          /\ \A d \in Callers \ {c} : at'[d] = at[d] /\ bill'[d] = bill[d]
      BY DEF Seal, SealFails, Moves, Ends, historyVars, RequestsTypeOK, Reserved
    <2>2. \/ at[c] = "sealAttempt" /\ at'[c] = "count"
          \/ at[c] = "sealOrdinal" /\ at'[c] = "send"
          \/ at[c] \in {"sealAttempt", "sealOrdinal", "sealUsage"} /\ at'[c] = "none"
      BY DEF Seal, SealFails, Moves, Ends, RequestsTypeOK
    <2>3. Counted(c)' <= Counted(c) /\ Holding(c)' <= Holding(c) /\ Claim(c)' <= Claim(c)
      BY <2>2, RequestsAssumption DEF Counted, Holding, Claim
    <2>4. Counted(c) \in Nat /\ Counted(c)' \in Nat /\ Holding(c) \in Nat /\ Holding(c)' \in Nat
          /\ Claim(c) \in Nat /\ Claim(c)' \in Nat
      BY <2>2, RequestsAssumption DEF Counted, Holding, Claim
    <2>5. requests' <= Limit /\ Reserved' <= Cap
      BY <2>1 DEF BooksBalance
    <2> QED BY <1>1, <2>1, <2>3, <2>4, <2>5, BooksKept, PartsAreNat DEF RequestsTypeOK
  <1> QED BY <1>1, <1>2, <1>3, <1>4

\* The attempt is counted.
LEMMA CountKeeps ==
  ASSUME RequestsInv, NEW c \in Callers, Count(c)
  PROVE  RequestsInv'
  <1> USE DEF RequestsInv
  <1>1. RequestsTypeOK'
    BY RequestsAssumption DEF Count, Moves, Ends, RequestsTypeOK, historyVars
  <1>2. LockIsHeld'
    BY RequestsAssumption DEF Count, Moves, Ends, RequestsTypeOK, LockIsHeld
  <1>3. PausesAreSilent'
    BY DEF Count, Moves, Ends, RequestsTypeOK, PausesAreSilent
  <1>4. BooksBalance'
    <2>1. /\ UNCHANGED <<guarded, spent, open, sent, cost, bill, Reserved>>
          /\ \A d \in Callers \ {c} : at'[d] = at[d] /\ bill'[d] = bill[d]
      BY DEF Count, Moves, Ends, historyVars, RequestsTypeOK, Reserved
    <2>2. at[c] = "count" \/ (at[c] = "reserve" /\ ~ guarded)
      BY DEF Count
    <2>3. \/ requests' = requests + 1 /\ requests + 1 <= Limit /\ at'[c] \in {"link", "send"}
          \/ requests' = requests /\ at'[c] = "none"
      BY RequestsAssumption DEF Count, WithinLimit, Moves, Ends, RequestsTypeOK
    <2>4. /\ Counted(c) = 0 /\ Counted(c)' \in {0, 1} /\ (at'[c] = "none" => Counted(c)' = 0)
          /\ guarded => Holding(c)' <= Holding(c) /\ Claim(c)' <= Claim(c)
          /\ Holding(c) \in Nat /\ Holding(c)' \in Nat /\ Claim(c) \in Nat /\ Claim(c)' \in Nat
      BY <2>2, <2>3, RequestsAssumption DEF Counted, Holding, Claim
    <2>5. requests' <= Limit /\ Reserved' <= Cap
      BY <2>1, <2>3 DEF BooksBalance
    <2>6. sent' + Counted(c)' + requests <= sent + Counted(c) + requests'
      BY <2>1, <2>3, <2>4 DEF RequestsTypeOK
    <2>7. guarded => Holding(c)' + open <= Holding(c) + open'
      BY <2>1, <2>4 DEF RequestsTypeOK
    <2>8. guarded => cost' + Claim(c)' + Reserved <= cost + Claim(c) + Reserved'
      BY <2>1, <2>4, PartsAreNat DEF RequestsTypeOK
    <2> QED BY <1>1, <2>1, <2>5, <2>6, <2>7, <2>8, BooksKept
  <1> QED BY <1>1, <1>2, <1>3, <1>4

\* The cost row is linked to the attempt.
LEMMA LinkKeeps ==
  ASSUME RequestsInv, NEW c \in Callers, Link(c)
  PROVE  RequestsInv'
  <1> USE DEF RequestsInv
  <1>0. at[c] = "link" /\ at'[c] = "sealOrdinal" /\ owner = c
    BY DEF Link, Moves, RequestsTypeOK, LockIsHeld
  <1>1. RequestsTypeOK'
    <2>1. CallsTyped' /\ sealed' \in BOOLEAN
      BY MovesTyped DEF Link
    <2> QED BY <2>1 DEF Link, RequestsTypeOK, historyVars, CallsTyped
  <1>2. LockIsHeld'
    BY <1>0, RequestsAssumption DEF Link, Moves, RequestsTypeOK, LockIsHeld
  <1>3. PausesAreSilent'
    BY DEF Link, Moves, RequestsTypeOK, PausesAreSilent
  <1>4. BooksBalance'
    <2>1. /\ UNCHANGED <<guarded, requests, spent, open, sent, cost, bill, Reserved>>
          /\ \A d \in Callers \ {c} : at'[d] = at[d] /\ bill'[d] = bill[d]
      BY DEF Link, Moves, historyVars, RequestsTypeOK, Reserved
    <2>2. /\ Counted(c) = 1 /\ Counted(c)' = 1 /\ Holding(c) = 1 /\ Holding(c)' = 1
          /\ Claim(c) = Reserve /\ Claim(c)' = Reserve
      BY <1>0 DEF Counted, Holding, Claim
    <2>3. requests' <= Limit /\ Reserved' <= Cap
      BY <2>1 DEF BooksBalance
    <2> QED BY <1>1, <2>1, <2>2, <2>3, BooksKept, PartsAreNat, RequestsAssumption DEF RequestsTypeOK
  <1> QED BY <1>1, <1>2, <1>3, <1>4

\* What the request costs comes out of what was reserved for it.
LEMMA SendKeeps ==
  ASSUME RequestsInv, NEW c \in Callers, Send(c)
  PROVE  RequestsInv'
  <1> USE DEF RequestsInv
  <1>0. PICK amount \in Bills :
           /\ bill' = [bill EXCEPT ![c] = amount] /\ cost' = cost + amount /\ sent' = sent + 1
           /\ at' = [at EXCEPT ![c] = "stream"]
           /\ UNCHANGED <<guarded, attempt, heard, spoken, stopped, outcome, requests, spent, open, sealed,
                owner,
                          faults, crashes>>
    BY DEF Send, ledgerVars
  <1>00. amount \in 0..Reserve /\ amount \in Nat /\ at[c] = "send"
    BY RequestsAssumption DEF Send
  <1>1. RequestsTypeOK'
    BY <1>0, <1>00, RequestsAssumption DEF RequestsTypeOK
  <1>2. LockIsHeld'
    BY <1>0, <1>00 DEF RequestsTypeOK, LockIsHeld
  <1>3. PausesAreSilent'
    BY <1>0, <1>00 DEF RequestsTypeOK, PausesAreSilent
  <1>4. BooksBalance'
    <2>1. /\ UNCHANGED <<guarded, requests, spent, open, Reserved>>
          /\ \A d \in Callers \ {c} : at'[d] = at[d] /\ bill'[d] = bill[d]
          /\ at'[c] = "stream" /\ bill'[c] = amount
      BY <1>0 DEF RequestsTypeOK, Reserved
    <2>2. /\ Counted(c) = 1 /\ Counted(c)' = 0 /\ Holding(c) = 1 /\ Holding(c)' = 1
          /\ Claim(c) = Reserve /\ Claim(c)' = Reserve - amount
      BY <1>00, <2>1 DEF Counted, Holding, Claim
    <2>3. requests' <= Limit /\ Reserved' <= Cap
      BY <2>1 DEF BooksBalance
    <2>4. sent' + Counted(c)' + requests <= sent + Counted(c) + requests'
      BY <1>0, <2>1, <2>2 DEF RequestsTypeOK
    <2>5. guarded => Holding(c)' + open <= Holding(c) + open'
      BY <2>1, <2>2 DEF RequestsTypeOK
    <2>6. guarded => cost' + Claim(c)' + Reserved <= cost + Claim(c) + Reserved'
      BY <1>0, <1>00, <2>1, <2>2, PartsAreNat, RequestsAssumption DEF RequestsTypeOK
    <2> QED BY <1>1, <2>1, <2>3, <2>4, <2>5, <2>6, BooksKept
  <1> QED BY <1>1, <1>2, <1>3, <1>4

\* The steps of the answer neither send nor settle; a failure gives up what was reserved.
LEMMA AnswerKeeps ==
  ASSUME RequestsInv, NEW c \in Callers,
         Hear(c) \/ (\E passing \in Passing : Break(c, passing)) \/ TryAgain(c) \/ Complete(c)
  PROVE  RequestsInv'
  <1> USE DEF RequestsInv
  <1>0. /\ UNCHANGED <<guarded, stopped, bill, requests, spent, open, sealed, owner, sent, cost, faults,
             crashes>>
        /\ \/ /\ Hear(c) /\ at[c] = "stream" /\ at' = at
              /\ heard' = [heard EXCEPT ![c] = TRUE] /\ spoken' = [spoken EXCEPT ![c] = TRUE]
              /\ UNCHANGED <<attempt, outcome>>
           \/ /\ at[c] = "stream" /\ ~ heard[c] /\ attempt[c] < Attempts /\ at' = [at EXCEPT ![c] = "pause"]
              /\ UNCHANGED <<attempt, heard, spoken, outcome>>
           \/ /\ at[c] = "pause" /\ at' = [at EXCEPT ![c] = "reserve"]
              /\ attempt' = [attempt EXCEPT ![c] = @ + 1] /\ heard' = [heard EXCEPT ![c] = FALSE]
              /\ UNCHANGED <<spoken, outcome>>
           \/ /\ at[c] = "stream" /\ guarded /\ at' = [at EXCEPT ![c] = "settle"]
              /\ UNCHANGED <<attempt, heard, spoken, outcome>>
           \/ /\ at[c] = "stream" /\ at' = [at EXCEPT ![c] = "none"]
              /\ \E how \in {"answer", "failed"} : outcome' = [outcome EXCEPT ![c] = how]
              /\ UNCHANGED <<attempt, heard, spoken>>
    <2>1. CASE Hear(c)
      BY <2>1 DEF Hear, ledgerVars, historyVars
    <2>2. CASE \E passing \in Passing : Break(c, passing)
      BY <2>2 DEF Break, MayTryAgain, Moves, Ends, ledgerVars, historyVars
    <2>3. CASE TryAgain(c)
      BY <2>3 DEF TryAgain, ledgerVars, historyVars
    <2>4. CASE Complete(c)
      <3>1. CASE guarded
        BY <2>4, <3>1 DEF Complete, Moves, ledgerVars, historyVars
      <3>2. CASE ~ guarded
        BY <2>4, <3>2 DEF Complete, Ends, ledgerVars, historyVars
      <3> QED BY <3>1, <3>2
    <2> QED BY <2>1, <2>2, <2>3, <2>4
  <1>1. RequestsTypeOK'
    <2>1. at[c] = "pause" => attempt[c] + 1 \in 1 .. Attempts
      BY RequestsAssumption DEF RequestsTypeOK, PausesAreSilent
    <2> QED BY <1>0, <2>1 DEF RequestsTypeOK
  <1>2. LockIsHeld'
    BY <1>0, RequestsAssumption DEF RequestsTypeOK, LockIsHeld
  <1>3. PausesAreSilent'
    BY <1>0 DEF RequestsTypeOK, PausesAreSilent
  <1>4. BooksBalance'
    <2>1. /\ \A d \in Callers \ {c} : at'[d] = at[d] /\ bill'[d] = bill[d]
          /\ bill'[c] = bill[c] /\ bill[c] \in 0 .. Reserve
          /\ \/ at[c] = "stream" /\ at'[c] \in {"stream", "pause", "settle", "none"}
             \/ at[c] = "pause" /\ at'[c] = "reserve"
      BY <1>0 DEF RequestsTypeOK
    <2>2. UNCHANGED Reserved /\ requests' <= Limit /\ Reserved' <= Cap
      BY <1>0 DEF BooksBalance, Reserved
    <2>3. Counted(c)' = 0 /\ Counted(c) = 0 /\ Holding(c)' <= Holding(c) /\ Claim(c)' <= Claim(c)
      BY <2>1, RequestsAssumption DEF Counted, Holding, Claim
    <2>4. Holding(c) \in Nat /\ Holding(c)' \in Nat /\ Claim(c) \in Nat /\ Claim(c)' \in Nat
      BY <2>1, RequestsAssumption DEF Holding, Claim
    <2> QED BY <1>0, <1>1, <2>1, <2>2, <2>3, <2>4, BooksKept, PartsAreNat DEF RequestsTypeOK
  <1> QED BY <1>1, <1>2, <1>3, <1>4

\* The claim of a settled attempt becomes a confirmed cost, and the rest is free again.
LEMMA SettleKeeps ==
  ASSUME RequestsInv, NEW c \in Callers, Settle(c)
  PROVE  RequestsInv'
  <1> USE DEF RequestsInv
  <1>0. /\ at[c] = "settle" /\ owner = NoCaller /\ guarded
        /\ UNCHANGED <<guarded, requests, sent, cost, faults, crashes, bill>>
        /\ bill[c] \in Nat /\ bill[c] <= Reserve /\ Reserve \in Nat
    BY RequestsAssumption DEF Settle, Moves, Ends, historyVars, LockIsHeld, RequestsTypeOK
  <1>1. open >= 1
    <2>1. HeldBy \in [Callers -> Nat] /\ open \in Nat /\ Within(HeldBy, 0, open)
      BY <1>0, PartsAreNat DEF BooksBalance, RequestsTypeOK
    <2>2. 0 + HeldBy[c] <= open
      BY <2>1, WithinOne
    <2>3. HeldBy[c] = 1
      BY <1>0 DEF HeldBy, Holding
    <2> QED BY <2>1, <2>2, <2>3
  <1>2. CASE sealed
    <2>1. /\ spent' = spent + bill[c] /\ open' = open - 1 /\ sealed' = FALSE /\ owner' = c
               /\ Moves(c, "sealUsage")
      BY <1>2 DEF Settle
    <2>2. RequestsTypeOK'
      <3>1. CallsTyped' /\ sealed' \in BOOLEAN
        BY <2>1, MovesTyped
      <3>2. spent' \in Nat /\ open' \in Nat /\ owner' \in Callers
        BY <1>0, <1>1, <2>1 DEF RequestsTypeOK
      <3> QED BY <1>0, <3>1, <3>2 DEF RequestsTypeOK, CallsTyped
    <2>3. LockIsHeld'
      BY <1>0, <2>1, RequestsAssumption DEF Moves, RequestsTypeOK, LockIsHeld
    <2>4. PausesAreSilent'
      BY <1>0, <2>1 DEF Moves, RequestsTypeOK, PausesAreSilent
    <2>5. BooksBalance'
      <3>1. at'[c] = "sealUsage" /\ \A d \in Callers \ {c} : at'[d] = at[d] /\ bill'[d] = bill[d]
        BY <1>0, <2>1 DEF Moves, RequestsTypeOK
      <3>2. /\ Counted(c) = 0 /\ Counted(c)' = 0 /\ Holding(c) = 1 /\ Holding(c)' = 0
            /\ Claim(c) = Reserve - bill[c] /\ Claim(c)' = 0
        BY <1>0, <3>1 DEF Counted, Holding, Claim
      <3>3. (open - 1) * Reserve = open * Reserve - Reserve
        BY <1>0, <1>1 DEF RequestsTypeOK
      <3>4. Reserved' = Reserved + bill[c] - Reserve /\ Reserved \in Nat /\ Reserved' \in Nat
        <4>1. Reserved' = spent + bill[c] + (open - 1) * Reserve
          BY <2>1 DEF Reserved
        <4>2. open * Reserve \in Nat /\ spent \in Nat
          BY <1>0 DEF RequestsTypeOK
        <4>3. Reserved' \in Nat
          BY <2>2, RequestsAssumption DEF RequestsTypeOK, Reserved
        <4> QED BY <1>0, <3>3, <4>1, <4>2, <4>3, PartsAreNat DEF Reserved
      <3>5. requests' <= Limit /\ Reserved' <= Cap
        BY <1>0, <3>4, RequestsAssumption DEF BooksBalance
      <3>6. cost' + Claim(c)' + Reserved <= cost + Claim(c) + Reserved'
        BY <1>0, <3>2, <3>4 DEF RequestsTypeOK
      <3>7. Holding(c)' + open <= Holding(c) + open'
              /\ sent' + Counted(c)' + requests <= sent + Counted(c) + requests'
        BY <1>0, <2>1, <3>2 DEF RequestsTypeOK
      <3> QED BY <1>0, <2>2, <3>1, <3>5, <3>6, <3>7, BooksKept
    <2> QED BY <2>2, <2>3, <2>4, <2>5
  <1>3. CASE ~ sealed
    <2>1. UNCHANGED <<spent, open, sealed, owner>> /\ Ends(c, "refused")
      BY <1>3 DEF Settle
    <2>2. RequestsTypeOK'
      <3>1. CallsTyped'
        BY <2>1, MovesTyped
      <3> QED BY <1>0, <2>1, <3>1 DEF RequestsTypeOK, CallsTyped
    <2>3. LockIsHeld'
      BY <1>0, <2>1, RequestsAssumption DEF Ends, RequestsTypeOK, LockIsHeld
    <2>4. PausesAreSilent'
      BY <1>0, <2>1 DEF Ends, RequestsTypeOK, PausesAreSilent
    <2>5. BooksBalance'
      <3>1. at'[c] = "none" /\ \A d \in Callers \ {c} : at'[d] = at[d] /\ bill'[d] = bill[d]
        BY <1>0, <2>1 DEF Ends, RequestsTypeOK
      <3>2. /\ Counted(c) = 0 /\ Counted(c)' = 0 /\ Holding(c) = 1 /\ Holding(c)' = 0
            /\ Claim(c) = Reserve - bill[c] /\ Claim(c)' = 0
        BY <1>0, <3>1 DEF Counted, Holding, Claim
      <3>3. UNCHANGED Reserved /\ requests' <= Limit /\ Reserved' <= Cap
        BY <1>0, <2>1 DEF BooksBalance, Reserved
      <3> QED BY <1>0, <2>1, <2>2, <3>1, <3>2, <3>3, BooksKept, PartsAreNat DEF RequestsTypeOK
    <2> QED BY <2>2, <2>3, <2>4, <2>5
  <1> QED BY <1>2, <1>3 DEF RequestsTypeOK

\* An interrupted call keeps its reservation, or leaves what it has reserved behind.
LEMMA InterruptKeeps ==
  ASSUME RequestsInv, NEW c \in Callers, NEW how \in {"cancelled", "timeout"}, Interrupt(c, how)
  PROVE  RequestsInv'
  <1> USE DEF RequestsInv
  <1>0. UNCHANGED <<guarded, spent, open, sealed, owner, sent, cost, faults, crashes, bill, attempt, heard,
          spoken>>
    BY DEF Interrupt, Ends, historyVars
  <1>1. CASE Reserving(c) /\ at' = at
    <2>1. UNCHANGED <<at, outcome, requests>> /\ stopped' = [stopped EXCEPT ![c] = how]
      BY <1>1, RequestsAssumption DEF Interrupt, Reserving, Ends, RequestsTypeOK
    <2>2. RequestsTypeOK'
      BY <1>0, <2>1 DEF RequestsTypeOK
    <2>3. LockIsHeld' /\ PausesAreSilent'
      BY <1>0, <2>1 DEF LockIsHeld, PausesAreSilent
    <2>4. BooksBalance'
      BY <1>0, <2>1, BooksUnchanged
    <2> QED BY <2>2, <2>3, <2>4
  <1>2. CASE Ends(c, how) /\ at[c] \in {"reserve", "send", "stream", "pause"}
    <2>1. /\ at' = [at EXCEPT ![c] = "none"] /\ outcome' = [outcome EXCEPT ![c] = how] /\ stopped' = stopped
          /\ requests' = requests \/ (requests' = requests + 1 /\ requests + 1 <= Limit)
      <3>1. at' # at
        BY <1>2 DEF Ends, RequestsTypeOK
      <3> QED BY <1>2, <3>1, RequestsAssumption DEF Interrupt, Ends, WithinLimit, RequestsTypeOK
    <2>2. RequestsTypeOK'
      BY <1>0, <2>1 DEF RequestsTypeOK
    <2>3. LockIsHeld'
      BY <1>0, <1>2, <2>1 DEF LockIsHeld, RequestsTypeOK
    <2>4. PausesAreSilent'
      BY <1>0, <1>2, <2>1 DEF PausesAreSilent, RequestsTypeOK
    <2>5. BooksBalance'
      <3>1. at'[c] = "none" /\ \A d \in Callers \ {c} : at'[d] = at[d] /\ bill'[d] = bill[d]
        BY <1>0, <2>1 DEF RequestsTypeOK
      <3>2. Counted(c)' = 0 /\ Holding(c)' = 0 /\ Claim(c)' = 0
        BY <3>1 DEF Counted, Holding, Claim
      <3>3. Counted(c) \in Nat /\ Holding(c) \in Nat /\ Claim(c) \in Nat
        BY RequestsAssumption DEF Counted, Holding, Claim, RequestsTypeOK
      <3>4. UNCHANGED Reserved /\ requests' <= Limit /\ Reserved' <= Cap
        BY <1>0, <2>1 DEF BooksBalance, Reserved
      <3> QED BY <1>0, <2>1, <2>2, <3>1, <3>2, <3>3, <3>4, BooksKept, PartsAreNat DEF RequestsTypeOK
    <2> QED BY <2>2, <2>3, <2>4, <2>5
  <1> QED BY <1>1, <1>2 DEF Interrupt

\* A crash leaves what was reserved and counted behind; nobody is left who could use it.
LEMMA CallsDieKeeps ==
  ASSUME RequestsInv, CallsDie
  PROVE  RequestsInv'
  <1> USE DEF RequestsInv
  <1>0. /\ at' = [c \in Callers |-> "none"] /\ outcome' = [c \in Callers |-> "none"]
        /\ stopped' = [c \in Callers |-> "none"] /\ owner' = NoCaller /\ crashes' = crashes + 1
             /\ crashes < Crashes
        /\ UNCHANGED <<guarded, attempt, heard, spoken, bill, requests, spent, open, sealed, sent, cost,
             faults,
                       Reserved>>
    BY DEF CallsDie, historyVars, Reserved
  <1>1. RequestsTypeOK'
    BY <1>0, RequestsAssumption DEF RequestsTypeOK
  <1>2. LockIsHeld' /\ PausesAreSilent'
    BY <1>0, RequestsAssumption DEF LockIsHeld, PausesAreSilent, RequestsTypeOK
  <1>3. /\ CountedBy' = [c \in Callers |-> 0] /\ HeldBy' = [c \in Callers |-> 0]
        /\ ClaimedBy' = [c \in Callers |-> 0]
    BY <1>0 DEF CountedBy, HeldBy, ClaimedBy, Counted, Holding, Claim
  <1>4. BooksBalance'
    <2>1. sent \in Nat /\ requests \in Nat /\ open \in Nat /\ cost \in Nat /\ Reserved \in Nat
      BY PartsAreNat DEF RequestsTypeOK
    <2>2. Within(CountedBy', sent, requests)
      BY <1>3, <2>1, WithinNothing DEF BooksBalance
    <2>3. guarded => Within(HeldBy', 0, open) /\ Within(ClaimedBy', cost, Reserved)
      BY <1>3, <2>1, WithinNothing DEF BooksBalance
    <2>4. (Within(CountedBy, sent, requests))' <=> Within(CountedBy', sent', requests')
      BY DEF Within, Adds
    <2>5. (Within(HeldBy, 0, open))' <=> Within(HeldBy', 0, open')
      BY DEF Within, Adds
    <2>6. (Within(ClaimedBy, cost, Reserved))' <=> Within(ClaimedBy', cost', Reserved')
      BY DEF Within, Adds
    <2> QED BY <1>0, <2>2, <2>3, <2>4, <2>5, <2>6 DEF BooksBalance
  <1> QED BY <1>1, <1>2, <1>4

\* Before the first request the books balance.
LEMMA RequestsInitInv ==
  ASSUME RequestsInit
  PROVE  RequestsInv
  <1>1. RequestsTypeOK
    BY RequestsAssumption DEF RequestsInit, LedgersAreNew, RequestsTypeOK
  <1>2. LockIsHeld /\ PausesAreSilent
    BY RequestsAssumption DEF RequestsInit, LedgersAreNew, LockIsHeld, PausesAreSilent
  <1>3. BooksBalance
    <2> DEFINE zero == [c \in Callers |-> 0]
               f == [S \in SUBSET Callers |-> 0]
    <2>1. CountedBy = zero /\ HeldBy = zero /\ ClaimedBy = zero
      BY DEF RequestsInit, CountedBy, HeldBy, ClaimedBy, Counted, Holding, Claim
    <2>2. Adds(f, zero) /\ 0 + f[Callers] <= 0
      BY DEF Adds
    <2>3. Within(zero, 0, 0)
      BY <2>2 DEF Within
    <2>4. Reserved = 0 /\ requests = 0 /\ sent = 0 /\ open = 0 /\ cost = 0
      BY RequestsAssumption DEF RequestsInit, LedgersAreNew, Reserved
    <2> QED BY <2>1, <2>3, <2>4, RequestsAssumption DEF BooksBalance
  <1> QED BY <1>1, <1>2, <1>3 DEF RequestsInv

\* Steps of loops and sessions leave the books alone.
LEMMA RequestsStutter ==
  ASSUME RequestsInv, UNCHANGED requestVars
  PROVE  RequestsInv'
  <1>1. BooksBalance'
    BY BooksUnchanged DEF requestVars, callVars, ledgerVars, historyVars, RequestsInv
  <1> QED BY <1>1 DEF requestVars, callVars, ledgerVars, historyVars, RequestsInv, RequestsTypeOK, LockIsHeld,
       PausesAreSilent

\* Every step of a request keeps the books.
LEMMA ServesKeeps ==
  ASSUME RequestsInv, NEW c \in Callers, Serves(c)
  PROVE  RequestsInv'
  BY ReserveCostKeeps, SealsKeep, CountKeeps, LinkKeeps, SendKeeps, AnswerKeeps, SettleKeeps DEF Serves

-------------------------------------------------------------------------------
(* The loops and the session: the inductive invariant *)

LoopTyped ==
    /\ status \in [Callers -> {"running", "success", "failed", "cancelled"}]
    /\ phase \in [Callers -> {"waiting", "ready", "asking", "acting", "crowded", "summarising", "done"}]
    /\ messages \in [Callers -> Seq(Messages)] /\ asked \in [Callers -> Seq(Messages)]
    /\ start \in [Callers -> Nat]
    /\ full \in [Callers -> BOOLEAN] /\ whole \in [Callers -> BOOLEAN] /\ replaced \in [Callers -> BOOLEAN]

\* Only an agent that asks has a call, and one that waits has done nothing yet.
CallsAreAsked ==
    \A a \in Callers :
        /\ at[a] # "none" => phase[a] \in {"asking", "summarising"}
        /\ phase[a] = "waiting" => ~ full[a] /\ ~ replaced[a] /\ status[a] = "running"

\* The input is where current_start says, and calls are paired but while they are made.
TranscriptIsSound(a) ==
    /\ start[a] \in 1 .. Len(messages[a]) /\ messages[a][start[a]] = Goal
    /\ IsUserInput(messages[a][1])
    /\ phase[a] \in {"waiting", "ready", "asking", "crowded", "summarising"} => Paired(messages[a])
    /\ phase[a] = "acting" => Paired(Append(messages[a], Message("results", 0)))
    /\ status[a] = "success" => phase[a] = "done" /\ Paired(messages[a])

RequestIsSound(a) ==
    phase[a] = "asking" =>
        /\ \E i \in DOMAIN asked[a] : asked[a][i] = Goal
        /\ Paired(asked[a]) /\ Fits(asked[a]) /\ IsUserInput(asked[a][1])

\* Only a run that was given the whole conversation summarises it, and its transcript tells of all of it.
SummariesAreWhole ==
    \A a \in Callers :
        /\ full[a] \/ replaced[a] \/ phase[a] \in {"crowded", "summarising"} => whole[a]
        /\ row[a] = "running" /\ whole[a] => turns \subseteq Told(messages[a])

\* A session has one run at a time.
RunsTakeTurns ==
    /\ row \in [Callers -> {"none", "queued", "running", "settled"}]
    /\ \A a \in Callers : row[a] \in {"queued", "running"} =>
          /\ session = "running"
          /\ \A b \in Callers : row[b] \in {"queued", "running"} => a = b
    /\ \A a \in Callers : row[a] # "none" => shared
    /\ \A a \in Callers : shared /\ row[a] \in {"none", "queued"} => phase[a] = "waiting"

SessionInv == RunsTakeTurns /\ SummariesAreWhole /\ context \in Seq(Messages) /\ ContextIsKept

LoopsInv == LoopTyped /\ CallsAreAsked /\ \A a \in Callers : TranscriptIsSound(a) /\ RequestIsSound(a)

Inv == RequestsInv /\ LoopsInv /\ SessionInv

-------------------------------------------------------------------------------
(* Messages and transcripts *)

\* Every set of naturals has a least member.
LEMMA LeastExists ==
  ASSUME NEW T, T \subseteq Nat, T # {}
  PROVE  \E x \in T : \A y \in T : x <= y
  <1> DEFINE Less == OpToRel(<, Nat)
  <1>1. \A x, y \in Nat : <<x, y>> \in Less <=> x < y
    BY DEF OpToRel
  <1>2. IsWellFoundedOn(Less, Nat)
    BY NatLessThanWellFounded
  <1> HIDE DEF Less
  <1>3. PICK x \in T : \A y \in T : ~ (<<y, x>> \in Less)
    BY <1>2, WFMin
  <1>4. \A y \in T : ~ (y < x)
    BY <1>1, <1>3
  <1> QED BY <1>4

\* The minimum of a set of numbers is one of them.
LEMMA MinIsLeast ==
  ASSUME NEW T, T \subseteq Nat, T # {}
  PROVE  Min(T) \in T
  <1>1. PICK x \in T : \A y \in T : x <= y
    BY LeastExists
  <1> QED BY <1>1 DEF Min

\* The messages a loop makes are messages.
LEMMA NewMessages ==
  /\ Goal \in Messages /\ Goal.kind = "goal"
  /\ \A size \in Nat : /\ Message("results", size) \in Messages /\ Message("results", size).kind = "results"
                       /\ Message("text", size) \in Messages /\ Message("text", size).kind = "text"
                       /\ Message("calls", size) \in Messages /\ Message("calls", size).kind = "calls"
  BY DEF Message, Messages, Goal

\* The rest of a transcript from a place on.
LEMMA FromIs ==
  ASSUME NEW ms \in Seq(Messages), NEW i \in 1 .. Len(ms)
  PROVE  /\ From(ms, i) \in Seq(Messages) /\ Len(From(ms, i)) = Len(ms) - i + 1
         /\ \A k \in 1 .. Len(ms) - i + 1 : From(ms, i)[k] = ms[i + k - 1]
         /\ DOMAIN From(ms, i) = 1 .. Len(ms) - i + 1
  BY DEF From

\* A paired sequence can be cut before anything but results, and paired sequences can be joined.
LEMMA PairedFrom ==
  ASSUME NEW ms \in Seq(Messages), NEW i \in 1 .. Len(ms), Paired(ms), ms[i].kind # "results"
  PROVE  Paired(From(ms, i))
  <1> DEFINE t == From(ms, i)
             n == Len(ms) - i + 1
  <1>1. /\ Len(t) = n /\ DOMAIN t = 1 .. n /\ n \in Nat /\ Len(ms) \in Nat /\ DOMAIN ms = 1 .. Len(ms)
        /\ \A k \in 1 .. n : t[k] = ms[i + k - 1]
    BY FromIs
  <1> HIDE DEF t
  <1>2. ASSUME NEW k \in 1 .. n
        PROVE  /\ t[k].kind = "calls" => k < n /\ t[k + 1].kind = "results"
               /\ t[k].kind = "results" => k > 1 /\ t[k - 1].kind = "calls"
    <2> DEFINE j == i + k - 1
    <2>1. j \in 1 .. Len(ms) /\ t[k] = ms[j] /\ (j < Len(ms) <=> k < n) /\ (k = 1 <=> j = i)
      BY <1>1
    <2>2. /\ ms[j].kind = "calls" => j < Len(ms) /\ ms[j + 1].kind = "results"
          /\ ms[j].kind = "results" => j > 1 /\ ms[j - 1].kind = "calls"
      BY <1>1, <2>1 DEF Paired
    <2>3. k < n => t[k + 1] = ms[j + 1]
      BY <1>1
    <2>4. k > 1 => t[k - 1] = ms[j - 1]
      BY <1>1
    <2> QED BY <2>1, <2>2, <2>3, <2>4
  <1> QED BY <1>1, <1>2 DEF Paired, t

\* Two paired transcripts make a paired one.
LEMMA PairedJoined ==
  ASSUME NEW ms \in Seq(Messages), NEW t \in Seq(Messages), Paired(ms), Paired(t)
  PROVE  Paired(ms \o t)
  <1> DEFINE u == ms \o t
             m == Len(ms)
             n == Len(t)
  <1>1. /\ Len(u) = m + n /\ DOMAIN u = 1 .. m + n /\ m \in Nat /\ n \in Nat
        /\ \A k \in 1 .. m : u[k] = ms[k]
        /\ \A k \in 1 .. n : u[m + k] = t[k]
        /\ DOMAIN ms = 1 .. m /\ DOMAIN t = 1 .. n
    OBVIOUS
  <1> HIDE DEF u, m, n
  <1>2. ASSUME NEW k \in 1 .. m
        PROVE  /\ u[k].kind = "calls" => k < m + n /\ u[k + 1].kind = "results"
               /\ u[k].kind = "results" => k > 1 /\ u[k - 1].kind = "calls"
    <2>1. /\ ms[k].kind = "calls" => k < m /\ ms[k + 1].kind = "results"
          /\ ms[k].kind = "results" => k > 1 /\ ms[k - 1].kind = "calls"
      BY <1>1 DEF Paired, m
    <2>2. k < m => u[k + 1] = ms[k + 1]
      BY <1>1
    <2>3. k > 1 => u[k - 1] = ms[k - 1]
      BY <1>1
    <2>4. u[k] = ms[k] /\ k \in Nat
      BY <1>1
    <2> QED BY <1>1, <2>1, <2>2, <2>3, <2>4
  <1>3. ASSUME NEW k \in 1 .. n
        PROVE  /\ u[m + k].kind = "calls" => m + k < m + n /\ u[m + k + 1].kind = "results"
               /\ u[m + k].kind = "results" => m + k > 1 /\ u[m + k - 1].kind = "calls"
    <2>1. /\ t[k].kind = "calls" => k < n /\ t[k + 1].kind = "results"
          /\ t[k].kind = "results" => k > 1 /\ t[k - 1].kind = "calls"
      BY <1>1 DEF Paired, n
    <2>2. k < n => u[m + (k + 1)] = t[k + 1]
      BY <1>1
    <2>3. k > 1 => u[m + (k - 1)] = t[k - 1]
      BY <1>1
    <2>4. u[m + k] = t[k] /\ m + (k + 1) = m + k + 1 /\ m + (k - 1) = m + k - 1 /\ k \in Nat
      BY <1>1
    <2> QED BY <1>1, <2>1, <2>2, <2>3, <2>4
  <1>4. \A k \in 1 .. m + n : k \in 1 .. m \/ \E j \in 1 .. n : k = m + j
    <2> TAKE k \in 1 .. m + n
    <2>1. k \in 1 .. m \/ (k - m \in 1 .. n /\ k = m + (k - m))
      BY <1>1
    <2> QED BY <2>1
  <1>5. ASSUME NEW k \in 1 .. m + n
        PROVE  /\ u[k].kind = "calls" => k < m + n /\ u[k + 1].kind = "results"
               /\ u[k].kind = "results" => k > 1 /\ u[k - 1].kind = "calls"
    <2>1. CASE k \in 1 .. m
      BY <1>2, <2>1
    <2>2. CASE k \notin 1 .. m
      <3>1. PICK j \in 1 .. n : k = m + j
        BY <1>4, <2>2
      <3>2. /\ u[m + j].kind = "calls" => m + j < m + n /\ u[m + j + 1].kind = "results"
            /\ u[m + j].kind = "results" => m + j > 1 /\ u[m + j - 1].kind = "calls"
        BY <1>3
      <3>3. m \in Nat /\ n \in Nat
        BY <1>1
      <3> QED BY <3>1, <3>2, <3>3
    <2> QED BY <2>1, <2>2
  <1>6. Paired(u)
    BY <1>1, <1>5 DEF Paired
  <1> QED BY <1>6 DEF u

\* A message that is neither calls nor results can be added; results can when calls wait for them.
LEMMA PairedAppended ==
  ASSUME NEW ms \in Seq(Messages), NEW m \in Messages, Paired(ms), m.kind \notin {"calls", "results"}
  PROVE  Paired(Append(ms, m))
  <1>1. Paired(<<m>>) /\ <<m>> \in Seq(Messages)
    BY DEF Paired
  <1>2. Append(ms, m) = ms \o <<m>>
    OBVIOUS
  <1> QED BY <1>1, <1>2, PairedJoined

\* Being paired depends on the kinds alone.
LEMMA PairedByKind ==
  ASSUME NEW ms \in Seq(Messages), NEW t \in Seq(Messages), Paired(ms), Len(ms) = Len(t),
         \A i \in 1 .. Len(ms) : \A k \in {"calls", "results"} : ms[i].kind = k <=> t[i].kind = k
  PROVE  Paired(t)
  <1>1. DOMAIN ms = 1 .. Len(ms) /\ DOMAIN t = 1 .. Len(ms) /\ Len(ms) \in Nat
    OBVIOUS
  <1> SUFFICES ASSUME NEW i \in 1 .. Len(ms)
               PROVE  /\ t[i].kind = "calls" => i < Len(t) /\ t[i + 1].kind = "results"
                      /\ t[i].kind = "results" => i > 1 /\ t[i - 1].kind = "calls"
    BY <1>1 DEF Paired
  <1>2. /\ ms[i].kind = "calls" => i < Len(ms) /\ ms[i + 1].kind = "results"
        /\ ms[i].kind = "results" => i > 1 /\ ms[i - 1].kind = "calls"
    BY <1>1 DEF Paired
  <1>3. /\ i < Len(ms) => i + 1 \in 1 .. Len(ms)
        /\ i > 1 => i - 1 \in 1 .. Len(ms)
    BY <1>1
  <1> QED BY <1>2, <1>3

\* What is cut off for a request begins where a group does, and fits.
LEMMA CutIs ==
  ASSUME NEW ms \in Seq(Messages), NEW s \in 1 .. Len(ms), Fits(From(ms, s))
  PROVE  /\ Cut(ms, s) \in 1 .. s /\ Fits(From(ms, Cut(ms, s)))
         /\ Cut(ms, s) \in {1, s} \/ IsUserInput(ms[Cut(ms, s)])
  <1> DEFINE T == {i \in GroupStarts(ms, s) \union {s} : Fits(From(ms, i))}
  <1>1. T \subseteq 1 .. s /\ s \in T /\ \A i \in T : Fits(From(ms, i))
          /\ (i \in {1, s} \/ IsUserInput(ms[i]))
    BY DEF GroupStarts
  <1>2. T \subseteq Nat
    BY <1>1
  <1> HIDE DEF T
  <1>3. Min(T) \in T
    BY <1>1, <1>2, MinIsLeast
  <1>4. Cut(ms, s) = Min(T)
    BY DEF Cut, T
  <1> QED BY <1>1, <1>3, <1>4

\* What is read of the rows is all of them, or begins with an input.
LEMMA ProjectionIs ==
  ASSUME NEW rows \in Seq(Messages), Loadable(rows)
  PROVE  /\ Projection(rows) \in Seq(Messages) /\ Paired(Projection(rows))
         /\ Fits(rows) => Projection(rows) = rows
         /\ ~ Fits(rows) => Projection(rows) # <<>> /\ IsUserInput(Projection(rows)[1])
  <1>1. CASE Fits(rows)
    BY <1>1 DEF Projection, Loadable
  <1>2. CASE ~ Fits(rows)
    <2>1. Readable(rows) \subseteq Nat /\ Readable(rows) # {} /\ Readable(rows) \subseteq 1 .. Len(rows)
      BY <1>2 DEF Loadable, Readable
    <2>2. Min(Readable(rows)) \in Readable(rows)
      BY <2>1, MinIsLeast
    <2> DEFINE i == Min(Readable(rows))
    <2>3. i \in 1 .. Len(rows) /\ IsUserInput(rows[i])
      BY <2>1, <2>2 DEF Readable
    <2>4. Projection(rows) = From(rows, i) /\ Paired(Projection(rows))
      BY <1>2 DEF Projection, Loadable
    <2> HIDE DEF i
    <2>5. /\ From(rows, i) \in Seq(Messages) /\ Len(From(rows, i)) = Len(rows) - i + 1
          /\ From(rows, i)[1] = rows[i]
      <3>1. 1 \in 1 .. Len(rows) - i + 1 /\ i + 1 - 1 = i
        BY <2>3
      <3> QED BY <2>3, <3>1, FromIs
    <2>6. From(rows, i) # <<>>
      BY <2>3, <2>5
    <2> QED BY <1>2, <2>3, <2>4, <2>5, <2>6
  <1> QED BY <1>1, <1>2

\* Joining loses nothing that is told of.
LEMMA ToldJoined ==
  ASSUME NEW ms \in Seq(Messages), NEW t \in Seq(Messages)
  PROVE  Told(ms) \subseteq Told(ms \o t) /\ Told(t) \subseteq Told(ms \o t)
  <1>1. \A i \in DOMAIN ms : i \in DOMAIN (ms \o t) /\ (ms \o t)[i] = ms[i]
    OBVIOUS
  <1>2. \A i \in DOMAIN t : Len(ms) + i \in DOMAIN (ms \o t) /\ (ms \o t)[Len(ms) + i] = t[i]
    OBVIOUS
  <1> QED BY <1>1, <1>2 DEF Told

\* A transcript tells of turns that exist.
LEMMA ToldIsKnown == \A ms \in Seq(Messages) : Told(ms) \in SUBSET Known
  <1> SUFFICES ASSUME NEW ms \in Seq(Messages), NEW i \in DOMAIN ms
               PROVE  ms[i].of \subseteq Known
    BY DEF Told
  <1>1. ms[i] \in Messages
    OBVIOUS
  <1> QED BY <1>1 DEF Messages

\* The rows of a run are its messages, and tell of it.
LEMMA RowsAre ==
  ASSUME NEW a \in Callers, NEW ms \in Seq(Messages)
  PROVE  /\ Rows(a, ms) \in Seq(Messages) /\ Len(Rows(a, ms)) = Len(ms)
         /\ \A i \in 1 .. Len(ms) :
               /\ Rows(a, ms)[i].of = ms[i].of \union {a}
               /\ \A k \in {"calls", "results"} : Rows(a, ms)[i].kind = k <=> ms[i].kind = k
               /\ IsUserInput(ms[i]) => IsUserInput(Rows(a, ms)[i])
  <1> DEFINE kept(m) == [m EXCEPT !.of = @ \union {a}, !.kind = IF @ = "goal" THEN "old" ELSE @]
  <1>1. ASSUME NEW m \in Messages
        PROVE  /\ kept(m) \in Messages /\ kept(m).of = m.of \union {a}
               /\ kept(m).kind = IF m.kind = "goal" THEN "old" ELSE m.kind
    <2>1. a \in Known
      BY DEF Known
    <2> QED BY <2>1 DEF Messages
  <1>2. Rows(a, ms) = [i \in DOMAIN ms |-> kept(ms[i])]
    BY DEF Rows
  <1>3. DOMAIN ms = 1 .. Len(ms) /\ Len(ms) \in Nat /\ \A i \in 1 .. Len(ms) : ms[i] \in Messages
    OBVIOUS
  <1> HIDE DEF kept
  <1>4. Rows(a, ms) \in Seq(Messages) /\ Len(Rows(a, ms)) = Len(ms)
    BY <1>1, <1>2, <1>3
  <1> QED BY <1>1, <1>2, <1>3, <1>4 DEF IsUserInput

-------------------------------------------------------------------------------
(* The steps of the loops *)

\* When an agent moves, the invariant is kept if the agent keeps its part of it.
LEMMA AgentMoves ==
  ASSUME Inv, NEW a \in Callers, LoopTyped', RequestsInv', UNCHANGED sessionVars,
         \A b \in Callers \ {a} :
            /\ status'[b] = status[b] /\ phase'[b] = phase[b] /\ messages'[b] = messages[b]
            /\ start'[b] = start[b] /\ asked'[b] = asked[b] /\ full'[b] = full[b]
            /\ replaced'[b] = replaced[b] /\ at'[b] = at[b],
         whole' = whole, phase[a] # "waiting", phase'[a] # "waiting",
         at'[a] # "none" => phase'[a] \in {"asking", "summarising"},
         TranscriptIsSound(a)', RequestIsSound(a)',
         full'[a] \/ replaced'[a] \/ phase'[a] \in {"crowded", "summarising"} => whole[a],
         Told(messages[a]) \subseteq Told(messages'[a])
  PROVE  Inv'
  <1>1. UNCHANGED <<shared, context, turns, session, row, compacting, compacted>>
    BY DEF sessionVars
  <1>2. CallsAreAsked'
    BY DEF Inv, LoopsInv, CallsAreAsked
  <1>3. \A b \in Callers : TranscriptIsSound(b)' /\ RequestIsSound(b)'
    BY DEF Inv, LoopsInv, TranscriptIsSound, RequestIsSound
  <1>4. SummariesAreWhole'
    BY <1>1 DEF Inv, SessionInv, SummariesAreWhole
  <1>5. RunsTakeTurns'
    BY <1>1 DEF Inv, SessionInv, RunsTakeTurns
  <1> QED BY <1>1, <1>2, <1>3, <1>4, <1>5 DEF Inv, LoopsInv, SessionInv, ContextIsKept

\* Only a call that has begun is served or interrupted.
LEMMA CallsOfOthers ==
  ASSUME RequestsTypeOK, NEW a \in Callers,
         Serves(a) \/ \E how \in {"cancelled", "timeout"} : Interrupt(a, how)
  PROVE  at[a] # "none" /\ \A b \in Callers \ {a} : at'[b] = at[b]
  <1>1. CASE ReserveCost(a) \/ Seal(a) \/ SealFails(a) \/ Count(a) \/ Link(a)
    BY <1>1 DEF ReserveCost, Seal, SealFails, Count, Link, Moves, Ends, RequestsTypeOK
  <1>2. CASE Send(a) \/ Hear(a) \/ (\E passing \in Passing : Break(a, passing)) \/ TryAgain(a)
               \/ Complete(a) \/ Settle(a)
    BY <1>2 DEF Send, Hear, Break, TryAgain, Complete, Settle, Moves, Ends, RequestsTypeOK
  <1>3. CASE \E how \in {"cancelled", "timeout"} : Interrupt(a, how)
    BY <1>3 DEF Interrupt, Reserving, Ends, RequestsTypeOK
  <1> QED BY <1>1, <1>2, <1>3 DEF Serves

\* Steps of a call leave the loop where it is.
LEMMA CallStepsKeepInv ==
  ASSUME Inv, NEW a \in Callers, UNCHANGED loopVars, UNCHANGED sessionVars,
         Serves(a) \/ \E how \in {"cancelled", "timeout"} : Interrupt(a, how)
  PROVE  Inv'
  <1>1. RequestsInv'
    BY ServesKeeps, InterruptKeeps DEF Inv
  <1>2. at[a] # "none" /\ \A b \in Callers \ {a} : at'[b] = at[b]
    BY CallsOfOthers DEF Inv, RequestsInv
  <1>3. UNCHANGED <<status, phase, messages, start, asked, full, whole, replaced>>
    BY DEF loopVars
  <1>4. LoopTyped'
    BY <1>3 DEF Inv, LoopsInv, LoopTyped
  <1>5. phase[a] \in {"asking", "summarising"}
    BY <1>2 DEF Inv, LoopsInv, CallsAreAsked
  <1>6. TranscriptIsSound(a)' /\ RequestIsSound(a)'
    BY <1>3 DEF Inv, LoopsInv, TranscriptIsSound, RequestIsSound
  <1>7. full'[a] \/ replaced'[a] \/ phase'[a] \in {"crowded", "summarising"} => whole[a]
    BY <1>3 DEF Inv, SessionInv, SummariesAreWhole
  <1>8. \A b \in Callers \ {a} :
            /\ status'[b] = status[b] /\ phase'[b] = phase[b] /\ messages'[b] = messages[b]
            /\ start'[b] = start[b] /\ asked'[b] = asked[b] /\ full'[b] = full[b]
            /\ replaced'[b] = replaced[b] /\ at'[b] = at[b]
    BY <1>2, <1>3
  <1>9. /\ whole' = whole /\ phase[a] # "waiting" /\ phase'[a] # "waiting"
        /\ (at'[a] # "none" => phase'[a] \in {"asking", "summarising"})
        /\ Told(messages[a]) \subseteq Told(messages'[a])
    BY <1>3, <1>5
  <1> QED BY <1>1, <1>4, <1>6, <1>7, <1>8, <1>9, AgentMoves

\* What is sent holds the input, is paired, fits, and starts a group.
LEMMA SelectedIsSound ==
  ASSUME NEW ms \in Seq(Messages), NEW s \in 1 .. Len(ms), ms[s] = Goal, IsUserInput(ms[1]), Selectable(ms, s)
  PROVE  /\ Selected(ms, s) \in Seq(Messages) /\ Paired(Selected(ms, s)) /\ Fits(Selected(ms, s))
         /\ IsUserInput(Selected(ms, s)[1])
         /\ \E i \in DOMAIN Selected(ms, s) : Selected(ms, s)[i] = Goal
  <1> DEFINE cut == Cut(ms, s)
             t == From(ms, cut)
  <1>1. Fits(From(ms, s)) /\ Paired(t)
    BY DEF Selectable
  <1>2. cut \in 1 .. s /\ Fits(t) /\ (cut \in {1, s} \/ IsUserInput(ms[cut]))
    BY <1>1, CutIs
  <1> HIDE DEF cut
  <1>3. /\ cut \in 1 .. Len(ms) /\ s - cut + 1 \in 1 .. Len(ms) - cut + 1 /\ cut + (s - cut + 1) - 1 = s
        /\ 1 \in 1 .. Len(ms) - cut + 1 /\ cut + 1 - 1 = cut
    BY <1>2
  <1>4. t \in Seq(Messages) /\ DOMAIN t = 1 .. Len(ms) - cut + 1 /\ t[1] = ms[cut] /\ t[s - cut + 1] = ms[s]
    BY <1>3, FromIs
  <1>5. IsUserInput(ms[s])
    BY NewMessages DEF IsUserInput
  <1>6. IsUserInput(t[1])
    BY <1>2, <1>4, <1>5
  <1> QED BY <1>1, <1>2, <1>3, <1>4, <1>6 DEF Selected, cut

\* The loop plans its next request.
LEMMA PlanKeepsInv ==
  ASSUME Inv, NEW a \in Callers, Plan(a), UNCHANGED sessionVars
  PROVE  Inv'
  <1>1. /\ phase[a] = "ready" /\ at[a] = "none" /\ UNCHANGED <<messages, start, full, whole, replaced>>
        /\ TranscriptIsSound(a) /\ LoopTyped
    BY DEF Plan, Inv, LoopsInv, CallsAreAsked
  <1>2. \A b \in Callers : status[b] = "success" => phase[b] = "done"
    BY DEF Inv, LoopsInv, TranscriptIsSound
  <1>3. CASE Selectable(messages[a], start[a])
    <2>1. /\ asked' = [asked EXCEPT ![a] = Selected(messages[a], start[a])]
          /\ phase' = [phase EXCEPT ![a] = "asking"] /\ Asks(a) /\ UNCHANGED status
      BY <1>3 DEF Plan
    <2> DEFINE t == Selected(messages[a], start[a])
    <2>2. /\ t \in Seq(Messages) /\ Paired(t) /\ Fits(t) /\ IsUserInput(t[1])
               /\ \E i \in DOMAIN t : t[i] = Goal
      BY <1>1, <1>3, SelectedIsSound DEF TranscriptIsSound, LoopTyped
    <2> HIDE DEF t
    <2>3. RequestsInv'
      BY <1>1, <2>1, AsksKeeps DEF Inv
    <2>4. at' = [at EXCEPT ![a] = "reserve"]
            /\ at \in [Callers -> {"none", "reserve", "sealAttempt", "count", "link",
              "sealOrdinal", "send", "stream", "pause", "settle", "sealUsage"}]
      BY <2>1 DEF Asks, Inv, RequestsInv, RequestsTypeOK
    <2>5. asked' = [asked EXCEPT ![a] = t]
      BY <2>1 DEF t
    <2>6. LoopTyped' /\ asked'[a] = t /\ phase'[a] = "asking"
      BY <1>1, <2>1, <2>2, <2>5 DEF LoopTyped
    <2>7. TranscriptIsSound(a)'
      BY <1>1, <2>1, <2>6 DEF TranscriptIsSound
    <2>8. RequestIsSound(a)'
      BY <2>2, <2>6 DEF RequestIsSound
    <2>9. full'[a] \/ replaced'[a] \/ phase'[a] \in {"crowded", "summarising"} => whole[a]
      BY <1>1, <2>6 DEF Inv, SessionInv, SummariesAreWhole
    <2>10. \A b \in Callers \ {a} :
              /\ status'[b] = status[b] /\ phase'[b] = phase[b] /\ messages'[b] = messages[b]
              /\ start'[b] = start[b] /\ asked'[b] = asked[b] /\ full'[b] = full[b]
              /\ replaced'[b] = replaced[b] /\ at'[b] = at[b]
      BY <1>1, <2>1, <2>4, <2>5 DEF LoopTyped
    <2>11. whole' = whole /\ Told(messages[a]) \subseteq Told(messages'[a])
      BY <1>1
    <2> QED BY <1>1, <2>3, <2>6, <2>7, <2>8, <2>9, <2>10, <2>11, AgentMoves
  <1>4. CASE ~ Selectable(messages[a], start[a])
    <2>1. Finish(a, "failed") /\ UNCHANGED requestVars
      BY <1>4 DEF Plan
    <2>2. RequestsInv' /\ at' = at
      BY <2>1, RequestsStutter DEF Inv, requestVars, callVars
    <2>3. /\ LoopTyped' /\ phase'[a] = "done" /\ status'[a] = "failed"
          /\ \A b \in Callers \ {a} : status'[b] = status[b] /\ phase'[b] = phase[b] /\ asked'[b] = asked[b]
      BY <1>1, <2>1 DEF LoopTyped, Finish
    <2>4. TranscriptIsSound(a)' /\ RequestIsSound(a)'
      BY <1>1, <2>3 DEF TranscriptIsSound, RequestIsSound
    <2>5. full'[a] \/ replaced'[a] \/ phase'[a] \in {"crowded", "summarising"} => whole[a]
      BY <1>1, <2>3 DEF Inv, SessionInv, SummariesAreWhole
    <2>6. \A b \in Callers \ {a} :
              /\ status'[b] = status[b] /\ phase'[b] = phase[b] /\ messages'[b] = messages[b]
              /\ start'[b] = start[b] /\ asked'[b] = asked[b] /\ full'[b] = full[b]
              /\ replaced'[b] = replaced[b] /\ at'[b] = at[b]
      BY <1>1, <2>2, <2>3
    <2>7. whole' = whole /\ Told(messages[a]) \subseteq Told(messages'[a])
      BY <1>1
    <2> QED BY <1>1, <2>2, <2>3, <2>4, <2>5, <2>6, <2>7, AgentMoves
  <1> QED BY <1>3, <1>4

\* Of a transcript that has grown, the input is where it was.
LEMMA Grown ==
  ASSUME LoopTyped, NEW a \in Callers, TranscriptIsSound(a), NEW more \in Seq(Messages)
  PROVE  LET now == messages[a] \o more IN
         /\ now \in Seq(Messages) /\ start[a] \in 1 .. Len(now) /\ now[start[a]] = Goal
         /\ IsUserInput(now[1]) /\ Told(messages[a]) \subseteq Told(now)
  <1> DEFINE ms == messages[a]
             now == ms \o more
  <1>1. ms \in Seq(Messages) /\ start[a] \in 1 .. Len(ms) /\ ms[start[a]] = Goal /\ IsUserInput(ms[1])
    BY DEF LoopTyped, TranscriptIsSound
  <1> HIDE DEF ms
  <1>2. now \in Seq(Messages) /\ Len(now) = Len(ms) + Len(more) /\ \A i \in 1 .. Len(ms) : now[i] = ms[i]
    BY <1>1
  <1>3. Told(ms) \subseteq Told(now)
    BY <1>1, ToldJoined
  <1>4. Len(ms) \in Nat /\ Len(more) \in Nat /\ 1 \in 1 .. Len(ms)
    BY <1>1
  <1> QED BY <1>1, <1>2, <1>3, <1>4 DEF ms

\* Only the loop of a moves.
OnlyMoves(a) ==
    /\ status' = [status EXCEPT ![a] = status'[a]] /\ phase' = [phase EXCEPT ![a] = phase'[a]]
    /\ messages' = [messages EXCEPT ![a] = messages'[a]] /\ start' = [start EXCEPT ![a] = start'[a]]
    /\ asked' = [asked EXCEPT ![a] = asked'[a]] /\ full' = [full EXCEPT ![a] = full'[a]]
    /\ replaced' = [replaced EXCEPT ![a] = replaced'[a]]
    /\ UNCHANGED whole
    /\ \A b \in Callers \ {a} : at'[b] = at[b]

\* An agent that is not asking moves, and leaves its transcript and its flags as the invariant has them.
LEMMA LoopMoves ==
  ASSUME Inv, NEW a \in Callers, RequestsInv', UNCHANGED sessionVars, phase[a] # "waiting", OnlyMoves(a),
         status'[a] \in {"running", "success", "failed", "cancelled"},
         phase'[a] \in {"ready", "acting", "crowded", "summarising", "done"},
         messages'[a] \in Seq(Messages), start'[a] \in 1 .. Len(messages'[a]), asked'[a] = <<>>,
         full'[a] \in BOOLEAN, replaced'[a] \in BOOLEAN,
         at'[a] # "none" => phase'[a] = "summarising",
         messages'[a][start'[a]] = Goal, IsUserInput(messages'[a][1]),
         Told(messages[a]) \subseteq Told(messages'[a]),
         phase'[a] \in {"ready", "crowded", "summarising"} => Paired(messages'[a]),
         phase'[a] = "acting" => Paired(Append(messages'[a], Message("results", 0))),
         status'[a] = "success" => phase'[a] = "done" /\ Paired(messages'[a]),
         full'[a] \/ replaced'[a] \/ phase'[a] \in {"crowded", "summarising"} => whole[a]
  PROVE  Inv'
  <1>1. LoopTyped
    BY DEF Inv, LoopsInv
  <1>2. <<>> \in Seq(Messages) /\ start'[a] \in Nat
    OBVIOUS
  <1>3. LoopTyped'
    <2>1. ASSUME NEW f, NEW g, NEW S, f \in [Callers -> S], g = [f EXCEPT ![a] = g[a]], g[a] \in S
          PROVE  g \in [Callers -> S]
      BY <2>1
    <2>2. messages' \in [Callers -> Seq(Messages)]
      BY <1>1, <1>2, <2>1 DEF LoopTyped, OnlyMoves
    <2>3. start' \in [Callers -> Nat]
      BY <1>1, <1>2, <2>1 DEF LoopTyped, OnlyMoves
    <2>4. status' \in [Callers -> {"running", "success", "failed", "cancelled"}]
      BY <1>1, <2>1 DEF LoopTyped, OnlyMoves
    <2>5. phase' \in [Callers -> {"waiting", "ready", "asking", "acting", "crowded", "summarising", "done"}]
      <3>1. phase'[a] \in {"waiting", "ready", "asking", "acting", "crowded", "summarising", "done"}
        OBVIOUS
      <3> QED BY <1>1, <2>1, <3>1 DEF LoopTyped, OnlyMoves
    <2>6. full' \in [Callers -> BOOLEAN] /\ whole' \in [Callers -> BOOLEAN]
            /\ replaced' \in [Callers -> BOOLEAN]
      BY <1>1, <2>1 DEF LoopTyped, OnlyMoves
    <2>7. asked' \in [Callers -> Seq(Messages)]
      <3>1. asked'[a] \in Seq(Messages)
        BY <1>2
      <3>2. asked \in [Callers -> Seq(Messages)] /\ asked' = [asked EXCEPT ![a] = asked'[a]]
        BY <1>1 DEF LoopTyped, OnlyMoves
      <3> QED BY <3>1, <3>2, <2>1
    <2> QED BY <2>2, <2>3, <2>4, <2>5, <2>6, <2>7 DEF LoopTyped
  <1>4. \A b \in Callers \ {a} :
            /\ status'[b] = status[b] /\ phase'[b] = phase[b] /\ messages'[b] = messages[b]
            /\ start'[b] = start[b] /\ asked'[b] = asked[b] /\ full'[b] = full[b]
            /\ replaced'[b] = replaced[b] /\ at'[b] = at[b]
    BY <1>1 DEF LoopTyped, OnlyMoves
  <1>5. TranscriptIsSound(a)' /\ RequestIsSound(a)'
    BY DEF TranscriptIsSound, RequestIsSound
  <1>6. whole' = whole
    BY DEF OnlyMoves
  <1> QED BY <1>3, <1>4, <1>5, <1>6, AgentMoves

\* What the invariant says of an agent, where its steps need it
LEMMA AgentIs ==
  ASSUME Inv, NEW a \in Callers
  PROVE  /\ LoopTyped /\ messages[a] \in Seq(Messages) /\ start[a] \in 1 .. Len(messages[a])
         /\ full[a] \in BOOLEAN /\ replaced[a] \in BOOLEAN /\ TranscriptIsSound(a)
         /\ messages[a][start[a]] = Goal /\ IsUserInput(messages[a][1])
         /\ status[a] \in {"running", "success", "failed", "cancelled"}
         /\ status[a] = "success" => phase[a] = "done"
         /\ messages = [messages EXCEPT ![a] = messages[a]] /\ start = [start EXCEPT ![a] = start[a]]
         /\ status = [status EXCEPT ![a] = status[a]] /\ full = [full EXCEPT ![a] = full[a]]
         /\ replaced = [replaced EXCEPT ![a] = replaced[a]]
         /\ full[a] \/ replaced[a] \/ phase[a] \in {"crowded", "summarising"} => whole[a]
         /\ at[a] # "none" => phase[a] \in {"asking", "summarising"}
  <1>1. LoopTyped /\ TranscriptIsSound(a) /\ CallsAreAsked /\ SummariesAreWhole
    BY DEF Inv, LoopsInv, SessionInv
  <1>2. /\ messages[a] \in Seq(Messages) /\ full[a] \in BOOLEAN /\ replaced[a] \in BOOLEAN
        /\ status[a] \in {"running", "success", "failed", "cancelled"}
    BY <1>1 DEF LoopTyped
  <1>3. /\ messages = [messages EXCEPT ![a] = messages[a]] /\ start = [start EXCEPT ![a] = start[a]]
        /\ status = [status EXCEPT ![a] = status[a]] /\ full = [full EXCEPT ![a] = full[a]]
        /\ replaced = [replaced EXCEPT ![a] = replaced[a]]
    BY <1>1 DEF LoopTyped
  <1> QED BY <1>1, <1>2, <1>3 DEF TranscriptIsSound, CallsAreAsked, SummariesAreWhole

\* The books and the calls are untouched.
LEMMA CallsRest ==
  ASSUME Inv, UNCHANGED requestVars
  PROVE  RequestsInv' /\ at' = at
  BY RequestsStutter DEF Inv, requestVars, callVars

\* The loop ends with an outcome.
LEMMA EndKeepsInv ==
  ASSUME Inv, NEW a \in Callers, NEW result \in {"failed", "cancelled"}, Finish(a, result),
         phase[a] # "waiting", at[a] = "none",
         UNCHANGED <<messages, start, full, whole, replaced, requestVars, sessionVars>>
  PROVE  Inv'
  <1>1. RequestsInv' /\ at' = at
    BY CallsRest
  <1>2. OnlyMoves(a) /\ status'[a] = result /\ phase'[a] = "done" /\ asked'[a] = <<>>
    BY <1>1, AgentIs DEF Finish, OnlyMoves, LoopTyped
  <1>3. /\ messages'[a] \in Seq(Messages) /\ start'[a] \in 1 .. Len(messages'[a])
        /\ full'[a] \in BOOLEAN /\ replaced'[a] \in BOOLEAN
        /\ messages'[a][start'[a]] = Goal /\ IsUserInput(messages'[a][1])
        /\ (full'[a] \/ replaced'[a] => whole[a]) /\ messages'[a] = messages[a]
    BY AgentIs
  <1> QED BY <1>1, <1>2, <1>3, LoopMoves

\* A request failed and the loop ends.
LEMMA FailKeepsInv ==
  ASSUME Inv, NEW a \in Callers, Fail(a), UNCHANGED sessionVars
  PROVE  Inv'
  BY EndKeepsInv DEF Fail

\* A cancellation ends the loop.
LEMMA CancelKeepsInv ==
  ASSUME Inv, NEW a \in Callers, Cancel(a) \/ Deadline(a), UNCHANGED sessionVars
  PROVE  Inv'
  <1>1. CASE (Interrupt(a, "cancelled") \/ Interrupt(a, "timeout")) /\ UNCHANGED loopVars
    BY <1>1, CallStepsKeepInv
  <1>2. CASE phase[a] \in {"ready", "acting"} /\ Finish(a, "cancelled")
             /\ UNCHANGED <<messages, start, step, full, whole, replaced, requestVars>>
    BY <1>2, AgentIs, EndKeepsInv
  <1> QED BY <1>1, <1>2 DEF Cancel, Deadline

\* The loop asks for a summary of its transcript.
LEMMA CompactKeepsInv ==
  ASSUME Inv, NEW a \in Callers, Compact(a), UNCHANGED sessionVars
  PROVE  Inv'
  <1>1. phase[a] = "crowded" /\ at[a] = "none" /\ UNCHANGED <<messages, start, full, whole, replaced>>
    BY AgentIs DEF Compact
  <1>2. Paired(messages[a]) /\ status[a] # "success"
    BY <1>1, AgentIs DEF TranscriptIsSound
  <1>3. /\ messages'[a] \in Seq(Messages) /\ start'[a] \in 1 .. Len(messages'[a])
        /\ full'[a] \in BOOLEAN /\ replaced'[a] \in BOOLEAN /\ whole[a] /\ messages'[a] = messages[a]
        /\ status[a] \in {"running", "success", "failed", "cancelled"}
        /\ messages'[a][start'[a]] = Goal /\ IsUserInput(messages'[a][1])
    BY <1>1, AgentIs
  <1>4. CASE GoTo(a, "summarising") /\ Asks(a)
    <2>1. RequestsInv'
      BY <1>1, <1>4, AsksKeeps DEF Inv
    <2>2. \A b \in Callers \ {a} : at'[b] = at[b]
      BY <1>4 DEF Asks, Inv, RequestsInv, RequestsTypeOK
    <2>3. OnlyMoves(a) /\ status'[a] = status[a] /\ phase'[a] = "summarising" /\ asked'[a] = <<>>
      BY <1>1, <1>4, <2>2, AgentIs DEF GoTo, OnlyMoves, LoopTyped
    <2> QED BY <1>1, <1>2, <1>3, <2>1, <2>3, LoopMoves
  <1>5. CASE GoTo(a, "ready") /\ UNCHANGED requestVars
    <2>1. RequestsInv' /\ at' = at
      BY <1>5, CallsRest
    <2>2. OnlyMoves(a) /\ status'[a] = status[a] /\ phase'[a] = "ready" /\ asked'[a] = <<>>
      BY <1>1, <1>5, <2>1, AgentIs DEF GoTo, OnlyMoves, LoopTyped
    <2> QED BY <1>1, <1>2, <1>3, <2>1, <2>2, LoopMoves
  <1> QED BY <1>4, <1>5 DEF Compact

\* Calls and the results they wait for can be added.
LEMMA CallsJoined ==
  ASSUME NEW ms \in Seq(Messages), Paired(ms), NEW size \in Nat
  PROVE  Paired(Append(ms \o <<Message("calls", 1)>>, Message("results", size)))
  <1> DEFINE c == Message("calls", 1)
             r == Message("results", size)
  <1>1. c \in Messages /\ r \in Messages /\ c.kind = "calls" /\ r.kind = "results"
    BY NewMessages
  <1> HIDE DEF c, r
  <1>2. <<c, r>> \in Seq(Messages) /\ Paired(<<c, r>>)
    BY <1>1 DEF Paired
  <1>3. Append(ms \o <<c>>, r) = ms \o <<c, r>>
    BY <1>1
  <1>4. Paired(Append(ms \o <<c>>, r))
    BY <1>2, <1>3, PairedJoined
  <1> QED BY <1>4 DEF c, r

\* The model answers, with calls or without.
LEMMA AnswerKeepsInv ==
  ASSUME Inv, NEW a \in Callers, UNCHANGED sessionVars,
         NEW stop \in {"end_turn", "tool_use", "max_tokens", "refusal"}, NEW calls \in BOOLEAN,
         NEW crowded \in BOOLEAN,
         Answer(a, stop, calls, crowded)
  PROVE  Inv'
  <1> DEFINE ms == messages[a]
             now == ms \o Observed(stop, calls)
  <1>1. phase[a] = "asking" /\ at[a] = "none" /\ UNCHANGED <<start, whole, replaced, requestVars>>
    BY DEF Answer
  <1>2. RequestsInv' /\ at' = at
    BY <1>1, CallsRest
  <1>3. Observed(stop, calls) \in Seq(Messages)
    BY NewMessages DEF Observed
  <1>4. /\ now \in Seq(Messages) /\ start[a] \in 1 .. Len(now) /\ now[start[a]] = Goal
        /\ IsUserInput(now[1]) /\ Told(ms) \subseteq Told(now)
    BY <1>3, AgentIs, Grown
  <1>5. ms \in Seq(Messages) /\ Paired(ms)
    BY <1>1, AgentIs DEF TranscriptIsSound
  <1>6. stop = "end_turn" => Paired(now)
    <2>1. stop = "end_turn" => now = ms \o <<Message("text", 1)>>
      BY DEF Answer, Valid, Observed
    <2>2. Message("text", 1) \in Messages /\ Message("text", 1).kind = "text"
      BY NewMessages
    <2>3. Paired(Append(ms, Message("text", 1)))
      BY <1>5, <2>2, PairedAppended
    <2>4. Append(ms, Message("text", 1)) = ms \o <<Message("text", 1)>>
      BY <1>5, <2>2
    <2> QED BY <2>1, <2>3, <2>4
  <1>7. stop = "tool_use" => Paired(Append(now, Message("results", 0)))
    <2>1. stop = "tool_use" => now = ms \o <<Message("calls", 1)>>
      BY DEF Answer, Valid, Observed
    <2> QED BY <1>5, <2>1, CallsJoined
  <1> HIDE DEF now
  <1>8. messages' = [messages EXCEPT ![a] = now]
    BY DEF Answer, now
  <1>9. full' = [full EXCEPT ![a] = crowded /\ stop = "tool_use" /\ HasCompactor(a)]
    BY DEF Answer
  <1>10. /\ asked' = [asked EXCEPT ![a] = <<>>]
         /\ \/ stop = "tool_use" /\ phase' = [phase EXCEPT ![a] = "acting"] /\ status' = status
            \/ stop = "end_turn" /\ phase' = [phase EXCEPT ![a] = "done"]
                 /\ status' = [status EXCEPT ![a] = "success"]
            \/ phase' = [phase EXCEPT ![a] = "done"] /\ status' = [status EXCEPT ![a] = "failed"]
    BY DEF Answer, GoTo, Finish
  <1>11. /\ OnlyMoves(a) /\ messages'[a] = now /\ asked'[a] = <<>> /\ start'[a] = start[a]
         /\ full'[a] \in BOOLEAN /\ replaced'[a] \in BOOLEAN /\ (full'[a] \/ replaced'[a] => whole[a])
         /\ \/ stop = "tool_use" /\ phase'[a] = "acting" /\ status'[a] = status[a]
            \/ stop = "end_turn" /\ phase'[a] = "done" /\ status'[a] = "success"
            \/ phase'[a] = "done" /\ status'[a] = "failed"
    BY <1>1, <1>2, <1>8, <1>9, <1>10, AgentIs DEF OnlyMoves, LoopTyped, HasCompactor
  <1>12. status[a] \in {"running", "success", "failed", "cancelled"} /\ status[a] # "success"
    BY <1>1, AgentIs
  <1> QED BY <1>1, <1>2, <1>4, <1>6, <1>7, <1>11, <1>12, LoopMoves

\* The results of the calls are appended.
LEMMA ActKeepsInv ==
  ASSUME Inv, NEW a \in Callers, UNCHANGED sessionVars, NEW size \in ResultSizes, Act(a, size)
  PROVE  Inv'
  <1> DEFINE ms == messages[a]
             r == Message("results", size)
             now == Append(ms, r)
  <1>1. phase[a] = "acting" /\ at[a] = "none" /\ UNCHANGED <<start, full, whole, replaced, requestVars>>
    BY AgentIs DEF Act
  <1>2. RequestsInv' /\ at' = at
    BY <1>1, CallsRest
  <1>3. size \in Nat /\ r \in Messages /\ r.kind = "results"
    BY LoopAssumption, NewMessages
  <1>4. ms \in Seq(Messages) /\ Paired(Append(ms, Message("results", 0)))
    BY <1>1, AgentIs DEF TranscriptIsSound
  <1>5. now = ms \o <<r>> /\ <<r>> \in Seq(Messages)
    BY <1>3, <1>4
  <1>6. /\ now \in Seq(Messages) /\ start[a] \in 1 .. Len(now) /\ now[start[a]] = Goal
        /\ IsUserInput(now[1]) /\ Told(ms) \subseteq Told(now)
    <2> DEFINE grown == ms \o <<r>>
    <2>1. /\ grown \in Seq(Messages) /\ start[a] \in 1 .. Len(grown) /\ grown[start[a]] = Goal
          /\ IsUserInput(grown[1]) /\ Told(ms) \subseteq Told(grown)
      BY <1>5, AgentIs, Grown
    <2> HIDE DEF now
    <2> QED BY <1>5, <2>1
  <1>7. Paired(now)
    <2> DEFINE z == Message("results", 0)
               u == Append(ms, z)
    <2>1. z \in Messages /\ z.kind = "results"
      BY NewMessages
    <2> HIDE DEF z, r, ms
    <2>2. u \in Seq(Messages) /\ Len(u) = Len(ms) + 1 /\ Len(now) = Len(ms) + 1 /\ now \in Seq(Messages)
      BY <1>3, <1>4, <2>1
    <2>3. \A i \in 1 .. Len(u) : u[i] = now[i] \/ (u[i] = z /\ now[i] = r)
      BY <1>3, <1>4, <2>1
    <2>4. Paired(u)
      BY <1>4 DEF z
    <2> HIDE DEF u, now
    <2> QED BY <1>3, <2>1, <2>2, <2>3, <2>4, PairedByKind
  <1> HIDE DEF now
  <1>8. /\ messages' = [messages EXCEPT ![a] = now] /\ asked' = [asked EXCEPT ![a] = <<>>]
        /\ \/ phase' = [phase EXCEPT ![a] = "done"] /\ status' = [status EXCEPT ![a] = "failed"]
           \/ phase' = [phase EXCEPT ![a] = IF full[a] THEN "crowded" ELSE "ready"] /\ status' = status
    BY DEF Act, now, Finish, GoTo
  <1>9. /\ OnlyMoves(a) /\ messages'[a] = now /\ asked'[a] = <<>> /\ start'[a] = start[a]
        /\ full'[a] = full[a] /\ full[a] \in BOOLEAN
        /\ replaced'[a] \in BOOLEAN /\ (full[a] \/ replaced'[a] => whole[a])
        /\ \/ phase'[a] = "done" /\ status'[a] = "failed"
           \/ phase'[a] = "crowded" /\ full[a] /\ status'[a] = status[a]
           \/ phase'[a] = "ready" /\ status'[a] = status[a]
    BY <1>1, <1>2, <1>8, AgentIs DEF OnlyMoves, LoopTyped
  <1>10. status[a] \in {"running", "success", "failed", "cancelled"} /\ status[a] # "success"
    BY <1>1, AgentIs
  <1> QED BY <1>1, <1>2, <1>6, <1>7, <1>9, <1>10, LoopMoves

\* The summary of a transcript is one, and tells of all it told of.
LEMMA ReplacedIs ==
  ASSUME NEW ms \in Seq(Messages), NEW size \in Nat
  PROVE  LET now == Replaced(ms, size) IN
         /\ now \in Seq(Messages) /\ Len(now) = 3 /\ now[3] = Goal /\ IsUserInput(now[1])
         /\ Paired(now) /\ Told(ms) \subseteq Told(now)
  <1> DEFINE s == [Message("summary", size) EXCEPT !.of = Told(ms)]
             t == Message("text", 1)
             now == <<s, t, Goal>>
  <1>1. s \in Messages /\ s.kind = "summary" /\ s.of = Told(ms)
    BY ToldIsKnown DEF Message, Messages
  <1>2. t \in Messages /\ t.kind = "text" /\ Goal \in Messages /\ Goal.kind = "goal"
    BY NewMessages
  <1> HIDE DEF s, t
  <1>3. now \in Seq(Messages) /\ Len(now) = 3 /\ now[3] = Goal /\ IsUserInput(now[1])
    BY <1>1, <1>2 DEF IsUserInput
  <1>4. Paired(now)
    BY <1>1, <1>2 DEF Paired
  <1>5. Told(ms) \subseteq Told(now)
    <2>1. 1 \in DOMAIN now /\ now[1] = s
      OBVIOUS
    <2> QED BY <1>1, <2>1 DEF Told
  <1> QED BY <1>3, <1>4, <1>5 DEF Replaced, s, t

\* A summary replaces what it covers.
LEMMA SummarisedKeepsInv ==
  ASSUME Inv, NEW a \in Callers, UNCHANGED sessionVars, NEW size \in SummarySizes \union {0},
           Summarised(a, size)
  PROVE  Inv'
  <1> DEFINE now == Replaced(messages[a], size)
  <1>1. /\ phase[a] = "summarising" /\ at[a] = "none" /\ UNCHANGED <<full, whole, requestVars>>
        /\ phase' = [phase EXCEPT ![a] = "ready"] /\ asked' = [asked EXCEPT ![a] = <<>>] /\ status' = status
    BY DEF Summarised, GoTo
  <1>2. RequestsInv' /\ at' = at
    BY <1>1, CallsRest
  <1>3. size \in Nat
    BY LoopAssumption
  <1>4. /\ now \in Seq(Messages) /\ Len(now) = 3 /\ now[3] = Goal /\ IsUserInput(now[1])
        /\ Paired(now) /\ Told(messages[a]) \subseteq Told(now)
    BY <1>3, AgentIs, ReplacedIs
  <1>5. Paired(messages[a])
    BY <1>1, AgentIs DEF TranscriptIsSound
  <1> HIDE DEF now
  <1>6. \/ /\ messages' = [messages EXCEPT ![a] = now] /\ start' = [start EXCEPT ![a] = Len(messages'[a])]
           /\ replaced' = [replaced EXCEPT ![a] = TRUE]
        \/ UNCHANGED <<messages, start, replaced>>
    BY DEF Summarised, now
  <1>7. status[a] \in {"running", "success", "failed", "cancelled"} /\ status[a] # "success"
    BY <1>1, AgentIs
  <1>8. /\ OnlyMoves(a) /\ asked'[a] = <<>> /\ status'[a] = status[a] /\ phase'[a] = "ready"
        /\ full'[a] = full[a] /\ full[a] \in BOOLEAN /\ replaced'[a] \in BOOLEAN /\ whole[a]
    BY <1>1, <1>2, <1>6, AgentIs DEF OnlyMoves, LoopTyped
  <1>9. /\ messages'[a] \in Seq(Messages) /\ start'[a] \in 1 .. Len(messages'[a]) /\ Paired(messages'[a])
        /\ messages'[a][start'[a]] = Goal /\ IsUserInput(messages'[a][1])
        /\ Told(messages[a]) \subseteq Told(messages'[a])
    <2>1. CASE UNCHANGED <<messages, start, replaced>>
      BY <1>5, <2>1, AgentIs
    <2>2. CASE messages' = [messages EXCEPT ![a] = now] /\ start' = [start EXCEPT ![a] = Len(messages'[a])]
      <3>1. messages'[a] = now /\ start'[a] = 3
        BY <1>4, <2>2, AgentIs DEF LoopTyped
      <3>2. 3 \in 1 .. Len(now)
        BY <1>4
      <3>3. start'[a] \in 1 .. Len(messages'[a]) /\ messages'[a][start'[a]] = Goal
        BY <1>4, <3>1, <3>2
      <3> QED BY <1>4, <3>1, <3>3
    <2> QED BY <1>6, <2>1, <2>2
  <1> QED BY <1>1, <1>2, <1>7, <1>8, <1>9, LoopMoves

\* Every step of a loop keeps the invariant.
LEMMA AgentStepKeepsInv ==
  ASSUME Inv, NEW a \in Callers, AgentStep(a), UNCHANGED sessionVars
  PROVE  Inv'
  <1>1. CASE Serves(a) /\ UNCHANGED loopVars
    BY <1>1, CallStepsKeepInv
  <1>2. CASE ~ (Serves(a) /\ UNCHANGED loopVars)
    BY <1>2, PlanKeepsInv, CompactKeepsInv, FailKeepsInv, CancelKeepsInv, AnswerKeepsInv, ActKeepsInv,
       SummarisedKeepsInv DEF AgentStep
  <1> QED BY <1>1, <1>2

-------------------------------------------------------------------------------
(* The steps of the session *)

\* A step of the session alone leaves the loops and their calls as they are.
LEMMA LoopsRest ==
  ASSUME Inv, UNCHANGED <<loopVars, requestVars>>
  PROVE  RequestsInv' /\ LoopsInv' /\ phase' = phase /\ messages' = messages /\ full' = full
         /\ whole' = whole /\ replaced' = replaced
  <1>1. RequestsInv' /\ at' = at
    BY CallsRest
  <1>2. UNCHANGED <<status, phase, messages, start, asked, full, whole, replaced>>
    BY DEF loopVars
  <1>3. LoopsInv'
    BY <1>1, <1>2 DEF Inv, LoopsInv, LoopTyped, CallsAreAsked, TranscriptIsSound, RequestIsSound
  <1> QED BY <1>1, <1>2, <1>3

\* A message is submitted to the session, or a run retried.
LEMMA SubmitKeepsInv ==
  ASSUME Inv, NEW a \in Callers, Submit(a)
  PROVE  Inv'
  <1>1. RequestsInv' /\ LoopsInv' /\ UNCHANGED <<phase, messages, full, whole, replaced>>
    BY LoopsRest DEF Submit
  <1>2. RunsTakeTurns'
    BY <1>1 DEF Inv, SessionInv, RunsTakeTurns, Submit
  <1>3. SummariesAreWhole'
    BY <1>1 DEF Inv, SessionInv, RunsTakeTurns, SummariesAreWhole, Submit
  <1> QED BY <1>1, <1>2, <1>3 DEF Inv, SessionInv, ContextIsKept, Submit

\* A session is closed.
LEMMA CloseKeepsInv ==
  ASSUME Inv, Close \/ LoadAll \/ GiveUp
  PROVE  Inv'
  <1>1. RequestsInv' /\ LoopsInv' /\ UNCHANGED <<phase, messages, full, whole, replaced>>
    BY LoopsRest DEF Close, LoadAll, GiveUp
  <1>2. UNCHANGED <<shared, context, turns, row>> /\ (session' = session
          \/ (session = "ready" /\ session' = "closed"))
    BY DEF Close, LoadAll, GiveUp
  <1>3. RunsTakeTurns'
    BY <1>1, <1>2 DEF Inv, SessionInv, RunsTakeTurns
  <1>4. SummariesAreWhole'
    BY <1>1, <1>2 DEF Inv, SessionInv, SummariesAreWhole
  <1> QED BY <1>1, <1>2, <1>3, <1>4 DEF Inv, SessionInv, ContextIsKept

\* session.compact puts a summary in the place of the rows.
LEMMA CommitSummaryKeepsInv ==
  ASSUME Inv, NEW size \in SummarySizes, CommitSummary(size)
  PROVE  Inv'
  <1>1. RequestsInv' /\ LoopsInv' /\ UNCHANGED <<phase, messages, full, whole, replaced>>
    BY LoopsRest DEF CommitSummary
  <1>2. UNCHANGED <<shared, turns, row, session>> /\ context' = Summary(context, size)
    BY DEF CommitSummary
  <1>3. RunsTakeTurns' /\ SummariesAreWhole'
    BY <1>1, <1>2 DEF Inv, SessionInv, RunsTakeTurns, SummariesAreWhole
  <1>4. size \in Nat /\ context \in Seq(Messages) /\ turns \subseteq Told(context)
    BY LoopAssumption DEF Inv, SessionInv, ContextIsKept
  <1> DEFINE s == [Message("summary", size) EXCEPT !.of = Told(context)]
             t == [Message("text", 1) EXCEPT !.of = Told(context)]
  <1>5. s \in Messages /\ s.kind = "summary" /\ s.of = Told(context) /\ t \in Messages /\ t.kind = "text"
    BY <1>4, ToldIsKnown DEF Message, Messages
  <1>6. context' = <<s, t>>
    BY <1>2 DEF Summary
  <1> HIDE DEF s, t
  <1>7. context' \in Seq(Messages) /\ Paired(context') /\ IsUserInput(context'[1])
    BY <1>5, <1>6 DEF Paired, IsUserInput
  <1>8. Told(context) \subseteq Told(context')
    <2>1. 1 \in DOMAIN context' /\ context'[1] = s
      BY <1>6
    <2> QED BY <1>5, <2>1 DEF Told
  <1>9. ContextIsKept'
    BY <1>2, <1>4, <1>7, <1>8 DEF ContextIsKept, IsTranscript
  <1> QED BY <1>1, <1>3, <1>7, <1>9 DEF Inv, SessionInv

\* A run that will not begin, or not any more, is settled.
LEMMA UnbegunKeepsInv ==
  ASSUME Inv, NEW a \in Callers, row[a] = "queued",
         row' = [row EXCEPT ![a] = "settled"], session' = "ready", phase' = [phase EXCEPT ![a] = "done"],
         UNCHANGED <<status, messages, start, asked, full, whole, replaced, requestVars, shared, context,
           turns>>
  PROVE  Inv'
  <1>1. RequestsInv' /\ at' = at
    BY CallsRest
  <1>2. shared /\ phase[a] = "waiting"
    BY DEF Inv, SessionInv, RunsTakeTurns
  <1>3. phase'[a] = "done" /\ at[a] = "none" /\ \A b \in Callers \ {a} : phase'[b] = phase[b]
    BY <1>2, AgentIs DEF LoopTyped
  <1>4. LoopsInv'
    <2>1. LoopTyped' /\ CallsAreAsked'
      BY <1>1, <1>3 DEF Inv, LoopsInv, LoopTyped, CallsAreAsked
    <2>2. status[a] # "success"
      BY <1>2, AgentIs
    <2>3. \A b \in Callers : TranscriptIsSound(b)' /\ RequestIsSound(b)'
      BY <1>3, <2>2 DEF Inv, LoopsInv, TranscriptIsSound, RequestIsSound
    <2> QED BY <2>1, <2>3 DEF LoopsInv
  <1>5. RunsTakeTurns' /\ SummariesAreWhole'
    BY <1>3 DEF Inv, SessionInv, RunsTakeTurns, SummariesAreWhole
  <1> QED BY <1>1, <1>4, <1>5 DEF Inv, SessionInv, ContextIsKept

\* A run begins with a transcript, and unless it is cut with all that is remembered.
LEMMA LoadedIs ==
  ASSUME context \in Seq(Messages), ContextIsKept, Loadable(context)
  PROVE  LET now == Loaded(Projection(context)) IN
         /\ now \in Seq(Messages) /\ Len(now) \in 1 .. Len(now) /\ now[Len(now)] = Goal /\ IsUserInput(now[1])
         /\ Paired(now) /\ (Fits(context) => turns \subseteq Told(now))
  <1> DEFINE p == Projection(context)
             now == Append(p, Goal)
  <1>1. p \in Seq(Messages) /\ Paired(p) /\ (Fits(context) => p = context)
    BY ProjectionIs
  <1>2. p # <<>> => IsUserInput(p[1])
    BY <1>1, ProjectionIs DEF ContextIsKept, IsTranscript
  <1> HIDE DEF p
  <1>3. Goal \in Messages /\ IsUserInput(Goal) /\ Goal.kind \notin {"calls", "results"}
    BY NewMessages DEF IsUserInput
  <1>4. Paired(now)
    BY <1>1, <1>3, PairedAppended
  <1>5. now \in Seq(Messages) /\ Len(now) = Len(p) + 1 /\ now[Len(now)] = Goal /\ Len(p) \in Nat
    BY <1>1, <1>3
  <1>6. IsUserInput(now[1])
    <2>1. CASE p = <<>>
      BY <1>3, <2>1
    <2>2. CASE p # <<>>
      <3>1. now[1] = p[1]
        BY <1>1, <1>3, <2>2
      <3> QED BY <1>2, <2>2, <3>1
    <2> QED BY <2>1, <2>2
  <1>7. Fits(context) => turns \subseteq Told(now)
    <2>1. now = p \o <<Goal>> /\ <<Goal>> \in Seq(Messages)
      BY <1>1, <1>3
    <2>2. Told(p) \subseteq Told(now)
      BY <1>1, <2>1, ToldJoined
    <2> QED BY <1>1, <2>2 DEF ContextIsKept
  <1> QED BY <1>4, <1>5, <1>6, <1>7 DEF Loaded, p

\* A run that was submitted begins on the rows that fit, or cannot be prepared.
LEMMA BeginKeepsInv ==
  ASSUME Inv, NEW a \in Callers, Begin(a)
  PROVE  Inv'
  <1>1. CASE ~ Loadable(context)
    BY <1>1, UnbegunKeepsInv DEF Begin
  <1>2. CASE Loadable(context)
    <2> DEFINE now == Loaded(Projection(context))
    <2>1. /\ row[a] = "queued" /\ row' = [row EXCEPT ![a] = "running"]
          /\ phase' = [phase EXCEPT ![a] = "ready"] /\ messages' = [messages EXCEPT ![a] = now]
          /\ start' = [start EXCEPT ![a] = Len(messages'[a])] /\ whole' = [whole EXCEPT ![a] = Fits(context)]
          /\ UNCHANGED <<status, asked, full, replaced, requestVars, session, shared, context, turns>>
      BY <1>2 DEF Begin
    <2>2. /\ now \in Seq(Messages) /\ Len(now) \in 1 .. Len(now) /\ now[Len(now)] = Goal
               /\ IsUserInput(now[1])
          /\ Paired(now) /\ (Fits(context) => turns \subseteq Told(now))
      BY <1>2, LoadedIs DEF Inv, SessionInv
    <2> HIDE DEF now
    <2>3. RequestsInv' /\ at' = at
      BY <2>1, CallsRest
    <2>4. shared /\ phase[a] = "waiting"
      BY <2>1 DEF Inv, SessionInv, RunsTakeTurns
    <2>5. at[a] = "none" /\ ~ full[a] /\ ~ replaced[a] /\ status[a] = "running"
      BY <2>4, AgentIs DEF Inv, LoopsInv, CallsAreAsked
    <2>6. LoopTyped /\ Len(now) \in Nat /\ Fits(context) \in BOOLEAN
      BY <2>2, AgentIs DEF Fits
    <2>7. /\ phase'[a] = "ready" /\ messages'[a] = now /\ start'[a] = Len(now) /\ whole'[a] = Fits(context)
          /\ \A b \in Callers \ {a} : /\ phase'[b] = phase[b] /\ messages'[b] = messages[b]
                                      /\ start'[b] = start[b] /\ whole'[b] = whole[b] /\ row'[b] = row[b]
      BY <2>1, <2>6 DEF LoopTyped
    <2>8. LoopTyped'
      BY <2>1, <2>2, <2>6, <2>7 DEF LoopTyped
    <2>9. CallsAreAsked'
      BY <2>1, <2>3, <2>5, <2>7 DEF Inv, LoopsInv, CallsAreAsked
    <2>10. \A b \in Callers \ {a} : TranscriptIsSound(b)' /\ RequestIsSound(b)'
      BY <2>1, <2>7 DEF Inv, LoopsInv, TranscriptIsSound, RequestIsSound
    <2>11. TranscriptIsSound(a)' /\ RequestIsSound(a)'
      BY <2>1, <2>2, <2>5, <2>7 DEF TranscriptIsSound, RequestIsSound
    <2>12. SummariesAreWhole'
      BY <2>1, <2>2, <2>5, <2>7 DEF Inv, SessionInv, SummariesAreWhole
    <2>13. RunsTakeTurns'
      BY <2>1, <2>7 DEF Inv, SessionInv, RunsTakeTurns
    <2>14. LoopsInv'
      BY <2>8, <2>9, <2>10, <2>11 DEF LoopsInv
    <2> QED BY <2>1, <2>3, <2>12, <2>13, <2>14 DEF Inv, SessionInv, ContextIsKept
  <1> QED BY <1>1, <1>2

\* What a run that succeeded leaves is a transcript that tells of its turn too.
LEMMA ExtendedIs ==
  ASSUME Inv, NEW a \in Callers, row[a] = "running", Commits(a)
  PROVE  /\ Extended(a) \in Seq(Messages) /\ Paired(Extended(a)) /\ IsUserInput(Extended(a)[1])
         /\ turns \union {a} \subseteq Told(Extended(a))
  <1> DEFINE ms == messages[a]
             s == start[a]
  <1>1. ms \in Seq(Messages) /\ s \in 1 .. Len(ms) /\ ms[s] = Goal /\ IsUserInput(ms[1]) /\ Paired(ms)
    BY AgentIs DEF Commits, TranscriptIsSound
  <1>2. ASSUME NEW t \in Seq(Messages), Paired(t), 1 \in 1 .. Len(t), IsUserInput(t[1])
        PROVE  /\ Rows(a, t) \in Seq(Messages) /\ Paired(Rows(a, t)) /\ Rows(a, t) # <<>>
               /\ IsUserInput(Rows(a, t)[1]) /\ Told(t) \union {a} \subseteq Told(Rows(a, t))
    <2> DEFINE u == Rows(a, t)
    <2>1. /\ u \in Seq(Messages) /\ Len(u) = Len(t)
          /\ \A i \in 1 .. Len(t) : /\ u[i].of = t[i].of \union {a}
                                    /\ \A k \in {"calls", "results"} : u[i].kind = k <=> t[i].kind = k
                                    /\ IsUserInput(t[i]) => IsUserInput(u[i])
      BY RowsAre
    <2> HIDE DEF u
    <2>2. Paired(u)
      BY <1>2, <2>1, PairedByKind
    <2>3. DOMAIN t = 1 .. Len(t) /\ DOMAIN u = 1 .. Len(t) /\ u # <<>>
      BY <1>2, <2>1
    <2>4. Told(t) \union {a} \subseteq Told(u)
      BY <1>2, <2>1, <2>3 DEF Told
    <2> QED BY <1>2, <2>1, <2>2, <2>3, <2>4 DEF u
  <1>3. context \in Seq(Messages) /\ turns \subseteq Told(context) /\ Paired(context)
        /\ (context # <<>> => IsUserInput(context[1]))
    BY DEF Inv, SessionInv, ContextIsKept, IsTranscript
  <1> HIDE DEF ms, s
  <1>4. CASE replaced[a]
    <2>1. turns \subseteq Told(ms)
      BY <1>4 DEF Inv, SessionInv, SummariesAreWhole, ms
    <2>2. 1 \in 1 .. Len(ms)
      BY <1>1
    <2>3. Extended(a) = Rows(a, ms)
      BY <1>4 DEF Extended, ms
    <2> QED BY <1>1, <1>2, <2>1, <2>2, <2>3
  <1>5. CASE ~ replaced[a]
    <2> DEFINE t == From(ms, s)
               u == Rows(a, t)
    <2>1. Extended(a) = context \o u
      BY <1>5 DEF Extended, ms, s
    <2>2. ms[s].kind # "results" /\ IsUserInput(ms[s])
      BY <1>1, NewMessages DEF IsUserInput
    <2>3. Paired(t)
      BY <1>1, <2>2, PairedFrom
    <2>4. t \in Seq(Messages) /\ 1 \in 1 .. Len(t) /\ t[1] = ms[s]
      <3>1. 1 \in 1 .. Len(ms) - s + 1 /\ s + 1 - 1 = s
        BY <1>1
      <3> QED BY <1>1, <3>1, FromIs
    <2> HIDE DEF t
    <2>5. u \in Seq(Messages) /\ Paired(u) /\ u # <<>> /\ IsUserInput(u[1]) /\ a \in Told(u)
      BY <1>2, <2>2, <2>3, <2>4
    <2> HIDE DEF u
    <2>6. context \o u \in Seq(Messages) /\ Paired(context \o u)
      BY <1>3, <2>5, PairedJoined
    <2>7. IsUserInput((context \o u)[1])
      <3>1. CASE context = <<>>
        BY <2>5, <3>1
      <3>2. CASE context # <<>>
        <4>1. (context \o u)[1] = context[1]
          BY <1>3, <2>5, <3>2
        <4> QED BY <1>3, <3>2, <4>1
      <3> QED BY <3>1, <3>2
    <2>8. Told(context) \subseteq Told(context \o u) /\ Told(u) \subseteq Told(context \o u)
      BY <1>3, <2>5, ToldJoined
    <2> QED BY <1>3, <2>1, <2>5, <2>6, <2>7, <2>8
  <1> QED BY <1>4, <1>5

\* A run ends, and its rows are committed if it succeeded.
LEMMA SettlesKeepsInv ==
  ASSUME Inv, NEW a \in Callers, Settles(a)
  PROVE  Inv'
  <1>1. RequestsInv' /\ LoopsInv' /\ UNCHANGED <<phase, messages, full, whole, replaced>>
    BY LoopsRest DEF Settles
  <1>2. /\ row[a] = "running" /\ row' = [row EXCEPT ![a] = "settled"] /\ session' = "ready"
             /\ UNCHANGED shared
        /\ \A b \in Callers : row'[b] \notin {"queued", "running"}
    BY DEF Settles, Inv, SessionInv, RunsTakeTurns
  <1>3. RunsTakeTurns'
    BY <1>1, <1>2 DEF Inv, SessionInv, RunsTakeTurns
  <1>4. SummariesAreWhole'
    BY <1>1, <1>2 DEF Inv, SessionInv, SummariesAreWhole
  <1>5. context' \in Seq(Messages) /\ ContextIsKept'
    <2>1. CASE Commits(a)
      <3>1. context' = Extended(a) /\ turns' = turns \union {a}
        BY <2>1 DEF Settles
      <3>2. /\ Extended(a) \in Seq(Messages) /\ Paired(Extended(a)) /\ IsUserInput(Extended(a)[1])
            /\ turns \union {a} \subseteq Told(Extended(a))
        BY <1>2, <2>1, ExtendedIs
      <3> QED BY <3>1, <3>2 DEF ContextIsKept, IsTranscript
    <2>2. CASE ~ Commits(a)
      BY <2>2 DEF Settles, Inv, SessionInv, ContextIsKept
    <2> QED BY <2>1, <2>2
  <1> QED BY <1>1, <1>3, <1>4, <1>5 DEF Inv, SessionInv

\* A loop that is new
LEMMA NewLoops ==
  /\ Loaded(<<>>) \in Seq(Messages) /\ Len(Loaded(<<>>)) = 1 /\ Loaded(<<>>)[1] = Goal
  /\ IsUserInput(Goal) /\ Paired(Loaded(<<>>)) /\ <<>> \in Seq(Messages)
  <1>1. Goal \in Messages /\ IsUserInput(Goal) /\ Goal.kind \notin {"calls", "results"}
    BY NewMessages DEF IsUserInput
  <1>2. Loaded(<<>>) = <<Goal>>
    BY DEF Loaded
  <1>3. <<Goal>> \in Seq(Messages) /\ Len(<<Goal>>) = 1 /\ <<Goal>>[1] = Goal /\ DOMAIN <<Goal>> = {1}
    BY <1>1
  <1>4. Paired(<<Goal>>)
    BY <1>1, <1>3 DEF Paired
  <1>5. <<>> \in Seq(Messages)
    OBVIOUS
  <1> QED BY <1>1, <1>2, <1>3, <1>4, <1>5

\* The process dies.
LEMMA CrashKeepsInv ==
  ASSUME Inv, Crash
  PROVE  Inv'
  <1>1. RequestsInv'
    BY CallsDieKeeps DEF Crash, LoopsDie, Inv
  <1>2. at' = [c \in Callers |-> "none"]
    BY DEF Crash, LoopsDie, CallsDie
  <1>3. /\ status' = [a \in Callers |-> "running"]
        /\ phase' = [a \in Callers |-> IF ~ shared THEN "ready"
                                       ELSE IF row[a] = "none" THEN "waiting" ELSE "done"]
        /\ messages' = [a \in Callers |-> Loaded(<<>>)] /\ start' = [a \in Callers |-> 1]
        /\ asked' = [a \in Callers |-> <<>>] /\ full' = [a \in Callers |-> FALSE]
        /\ whole' = [a \in Callers |-> TRUE] /\ replaced' = [a \in Callers |-> FALSE]
        /\ row' = [a \in Callers |-> IF row[a] = "none" THEN "none" ELSE "settled"]
        /\ UNCHANGED <<shared, context, turns>>
    BY DEF Crash, LoopsDie
  <1>4. LoopTyped'
    BY <1>3, NewLoops DEF LoopTyped
  <1>5. CallsAreAsked' /\ \A a \in Callers : TranscriptIsSound(a)' /\ RequestIsSound(a)'
    BY <1>2, <1>3, NewLoops DEF CallsAreAsked, TranscriptIsSound, RequestIsSound
  <1>6. RunsTakeTurns' /\ SummariesAreWhole'
    BY <1>3 DEF Inv, SessionInv, RunsTakeTurns, SummariesAreWhole
  <1> QED BY <1>1, <1>3, <1>4, <1>5, <1>6 DEF Inv, LoopsInv, SessionInv, ContextIsKept

\* The initial states of both scenarios have the invariant.
LEMMA InitHoldsInv ==
  ASSUME Init
  PROVE  Inv
  <1>1. RequestsInv /\ at = [c \in Callers |-> "none"]
    BY RequestsInitInv DEF Init, RequestsInit
  <1>2. PICK place \in {"ready", "waiting"} : LoopInit(place) /\ (shared => place = "waiting")
    BY DEF Init
  <1>3. LoopTyped
    BY <1>2, NewLoops DEF LoopInit, LoopTyped
  <1>4. CallsAreAsked /\ \A a \in Callers : TranscriptIsSound(a) /\ RequestIsSound(a)
    BY <1>1, <1>2, NewLoops DEF LoopInit, CallsAreAsked, TranscriptIsSound, RequestIsSound
  <1>5. RunsTakeTurns /\ SummariesAreWhole
    BY <1>2 DEF Init, LoopInit, RunsTakeTurns, SummariesAreWhole
  <1>6. context \in Seq(Messages) /\ ContextIsKept
    <2>1. CASE context = <<>>
      BY <2>1 DEF Init, ContextIsKept, IsTranscript, Paired
    <2>2. CASE context \in Histories
      BY <2>2, HistoriesAssumption DEF Init, ContextIsKept
    <2> QED BY <2>1, <2>2 DEF Init
  <1> QED BY <1>1, <1>3, <1>4, <1>5, <1>6 DEF Inv, LoopsInv, SessionInv

\* Stuttering keeps the invariant.
LEMMA RestKeepsInv ==
  ASSUME Inv, UNCHANGED vars
  PROVE  Inv'
  <1>1. RequestsInv' /\ LoopsInv' /\ UNCHANGED <<phase, messages, full, whole, replaced>>
    BY LoopsRest DEF vars
  <1>2. UNCHANGED <<shared, context, turns, row, session>>
    BY DEF vars, sessionVars
  <1> QED BY <1>1, <1>2 DEF Inv, SessionInv, RunsTakeTurns, SummariesAreWhole, ContextIsKept

-------------------------------------------------------------------------------
(* What holds of every run of the system *)

(***************************************************************************)
(* The invariant holds whatever agents, calls, summaries and crashes do.   *)
(***************************************************************************)
THEOREM ConversationInvHolds == Spec => []Inv
  <1>1. Init => Inv
    BY InitHoldsInv
  <1>2. ASSUME Inv, [Next]_vars
        PROVE  Inv'
    <2>1. ASSUME NEW a \in Callers, AgentStep(a) /\ UNCHANGED sessionVars
          PROVE  Inv'
      BY <1>2, <2>1, AgentStepKeepsInv
    <2>2. ASSUME NEW a \in Callers, Submit(a) \/ Begin(a) \/ Settles(a)
          PROVE  Inv'
      BY <1>2, <2>2, SubmitKeepsInv, BeginKeepsInv, SettlesKeepsInv
    <2>3. ASSUME NEW a \in Callers, CancelQueued(a)
          PROVE  Inv'
      BY <1>2, <2>3, UnbegunKeepsInv DEF CancelQueued
    <2>4. ASSUME NEW size \in SummarySizes, CommitSummary(size)
          PROVE  Inv'
      BY <1>2, <2>4, CommitSummaryKeepsInv
    <2>5. CASE LoadAll \/ GiveUp \/ Close \/ Crash
      BY <1>2, <2>5, CloseKeepsInv, CrashKeepsInv
    <2>6. CASE UNCHANGED vars
      BY <1>2, <2>6, RestKeepsInv
    <2> QED BY <1>2, <2>1, <2>2, <2>3, <2>4, <2>5, <2>6 DEF Next
  <1> QED BY <1>1, <1>2, PTL DEF Spec

(***************************************************************************)
(* Budgets hold: no more is sent than was counted and may be, no more is   *)
(* spent than the cap, and the cost ledger only shuts itself for a reason, *)
(* whatever callers share the ledgers.                                     *)
(***************************************************************************)
THEOREM BudgetsAlwaysHold == Spec => []BudgetsHold
  <1>1. Inv => BudgetsHold
    BY BudgetsFollow DEF Inv
  <1> QED BY <1>1, ConversationInvHolds, PTL

(***************************************************************************)
(* What an agent sends has the user's input and no call without its        *)
(* results, fits, and is never a repetition of what was answered in part.  *)
(***************************************************************************)
THEOREM RequestsAlwaysSound == Spec => []RequestsAreSound
  <1>1. Inv => RequestsAreSound
    BY BudgetsFollow DEF Inv, LoopsInv, RequestIsSound, RequestsAreSound
  <1> QED BY <1>1, ConversationInvHolds, PTL

(***************************************************************************)
(* No turn that succeeded is lost to a session, and what the next run is   *)
(* given is a transcript.                                                  *)
(***************************************************************************)
THEOREM ContextAlwaysKept == Spec => []ContextIsKept
  <1>1. Inv => ContextIsKept
    BY DEF Inv, SessionInv
  <1> QED BY <1>1, ConversationInvHolds, PTL

===============================================================================
