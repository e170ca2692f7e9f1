-------------------------- MODULE CommandLine_proofs --------------------------
(***************************************************************************)
(* What holds of EventDelivery for any clients, queues, limits and faults, *)
(* and of CommandLine for any bounds: no event is skipped or repeated,     *)
(* every client sees what EventStream promises, and exit codes are earned. *)
(***************************************************************************)
EXTENDS CommandLine, FiniteSetTheorems, SequenceTheorems, WellFoundedInduction, TLAPS

-------------------------------------------------------------------------------
(* Sets of cursors in their order *)

\* Every set of naturals has a least member.
LEMMA LeastExists ==
  ASSUME NEW T, T \subseteq Nat, T # {}
  PROVE  \E x \in T : \A y \in T : x <= y
  <1> DEFINE Less == OpToRel(<, Nat)
  <1>1. \A x, y \in Nat : <<x, y>> \in Less <=> x < y
    BY DEF OpToRel
  <1>2. IsWellFoundedOn(Less, Nat)
    BY NatLessThanWellFounded
  <1> HIDE DEF Less
  <1>3. PICK x \in T : \A y \in T : ~ (<<y, x>> \in Less)
    BY <1>2, WFMin
  <1>4. \A y \in T : ~ (y < x)
    BY <1>1, <1>3
  <1> QED BY <1>4

\* A bounded set of naturals has a greatest member, which is its Max.
LEMMA MaxIsGreatest ==
  ASSUME NEW n \in Nat, NEW S \in SUBSET (0 .. n), S # {}
  PROVE  Max(S) \in S /\ \A k \in S : k <= Max(S)
  <1> DEFINE T == {n - k : k \in S}
  <1>0. \A k \in S : k \in Nat /\ n - k \in Nat
    OBVIOUS
  <1>1. T \subseteq Nat /\ T # {}
    BY <1>0
  <1>2. PICK x \in T : \A y \in T : x <= y
    BY <1>1, LeastExists
  <1>3. PICK m \in S : x = n - m
    BY <1>2
  <1>4. \A k \in S : m >= k
    <2> TAKE k \in S
    <2>1. x <= n - k
      BY <1>2
    <2>2. k \in Nat /\ m \in Nat
      BY <1>0
    <2> HIDE DEF T
    <2> QED BY <1>3, <2>1, <2>2
  <1>5. \E x1 \in S : \A y \in S : x1 >= y
    BY <1>4
  <1>6. Max(S) \in S /\ \A y \in S : Max(S) >= y
    BY <1>5 DEF Max
  <1> QED BY <1>6

\* Sets of cursors up to n are finite.
LEMMA CursorsCounted ==
  ASSUME NEW n \in Nat, NEW S \in SUBSET (1 .. n)
  PROVE  IsFiniteSet(S) /\ Cardinality(S) \in Nat /\ Cardinality(S) <= n
  <1>1. IsFiniteSet(1 .. n) /\ Cardinality(1 .. n) = n
    BY FS_Interval, 1 \in Int, n \in Int
  <1>2. IsFiniteSet(S) /\ Cardinality(S) <= n
    BY <1>1, FS_Subset
  <1>3. Cardinality(S) \in Nat
    BY <1>2, FS_CardinalityType
  <1> QED BY <1>2, <1>3

\* Ranks begin with 0, grow by one at each member, and end with the size of the set.
LEMMA RanksGrow ==
  ASSUME NEW n \in Nat, NEW S \in SUBSET (1 .. n)
  PROVE  /\ \A k \in Nat : Rank(S, k) \in 0 .. Cardinality(S)
         /\ Rank(S, 0) = 0 /\ Rank(S, n) = Cardinality(S)
         /\ \A k \in Nat : Rank(S, k + 1) = IF k + 1 \in S THEN Rank(S, k) + 1 ELSE Rank(S, k)
  <1>1. IsFiniteSet(S)
    BY CursorsCounted
  <1>2. \A k \in Nat : Rank(S, k) \in 0 .. Cardinality(S)
    <2> TAKE k \in Nat
    <2> DEFINE T == {j \in S : j <= k}
    <2>1. T \in SUBSET S
      OBVIOUS
    <2> HIDE DEF T
    <2>2. IsFiniteSet(T) /\ Cardinality(T) <= Cardinality(S)
      BY <1>1, <2>1, FS_Subset
    <2>3. Cardinality(T) \in Nat /\ Cardinality(S) \in Nat
      BY <1>1, <2>2, FS_CardinalityType
    <2> QED BY <2>2, <2>3 DEF Rank, T
  <1>3. Rank(S, 0) = 0
    <2>0. \A j \in S : ~ (j <= 0)
      OBVIOUS
    <2>1. {j \in S : j <= 0} = {}
      BY <2>0
    <2> QED BY <2>1, FS_EmptySet DEF Rank
  <1>4. Rank(S, n) = Cardinality(S)
    <2>0. \A j \in S : j <= n
      OBVIOUS
    <2>1. {j \in S : j <= n} = S
      BY <2>0
    <2> QED BY <2>1 DEF Rank
  <1>5. \A k \in Nat : Rank(S, k + 1) = IF k + 1 \in S THEN Rank(S, k) + 1 ELSE Rank(S, k)
    <2> TAKE k \in Nat
    <2> DEFINE T == {j \in S : j <= k}
    <2>1. IsFiniteSet(T)
      BY <1>1, FS_Subset
    <2>0. \A j \in S : j <= k + 1 <=> j <= k \/ j = k + 1
      OBVIOUS
    <2>2. CASE k + 1 \in S
      <3>0. k + 1 \notin T
        OBVIOUS
      <3>1. {j \in S : j <= k + 1} = T \cup {k + 1}
        BY <2>0, <2>2
      <3> HIDE DEF T
      <3>2. Cardinality(T \cup {k + 1}) = Cardinality(T) + 1
        BY <2>1, <3>0, FS_AddElement
      <3> QED BY <2>2, <3>1, <3>2 DEF Rank, T
    <2>3. CASE k + 1 \notin S
      <3>1. {j \in S : j <= k + 1} = T
        BY <2>0, <2>3
      <3> QED BY <2>3, <3>1 DEF Rank
    <2> QED BY <2>2, <2>3
  <1> QED BY <1>2, <1>3, <1>4, <1>5

\* Every place of the order is taken.
LEMMA PlacesAreTaken ==
  ASSUME NEW n \in Nat, NEW S \in SUBSET (1 .. n), NEW i \in 1 .. Cardinality(S)
  PROVE  Ranked(S, i) # {}
  <1>0. Cardinality(S) \in Nat
    BY CursorsCounted
  <1> DEFINE T == {k \in Nat : Rank(S, k) >= i}
  <1>1. n \in T /\ 0 \notin T
    BY <1>0, RanksGrow
  <1>2. PICK m \in T : \A y \in T : m <= y
    BY <1>1, LeastExists
  <1>3. m - 1 \in Nat /\ ~ Rank(S, m - 1) >= i /\ Rank(S, m) >= i
    BY <1>1, <1>2
  <1>4. Rank(S, m) = IF m \in S THEN Rank(S, m - 1) + 1 ELSE Rank(S, m - 1)
    <2>1. (m - 1) + 1 = m
      BY <1>2
    <2> QED BY <1>3, <2>1, RanksGrow
  <1>5. Rank(S, m - 1) \in Nat /\ Rank(S, m) \in Nat
    <2>1. Rank(S, m - 1) \in 0 .. Cardinality(S) /\ Rank(S, m) \in 0 .. Cardinality(S)
      BY <1>2, <1>3, RanksGrow
    <2> QED BY <1>0, <2>1
  <1>6. m \in S /\ Rank(S, m) = i
    BY <1>0, <1>3, <1>4, <1>5
  <1> QED BY <1>6 DEF Ranked

Member(T) == CHOOSE k \in T : TRUE

\* A set in its order is a sequence of its members.
LEMMA InOrderIs ==
  ASSUME NEW n \in Nat, NEW S \in SUBSET (1 .. n)
  PROVE  /\ InOrder(S) \in Seq(S) /\ Len(InOrder(S)) = Cardinality(S)
         /\ DOMAIN InOrder(S) = 1 .. Cardinality(S) /\ Cardinality(S) \in Nat
         /\ \A i \in 1 .. Cardinality(S) :
               InOrder(S)[i] \in S /\ InOrder(S)[i] = Member(Ranked(S, i))
  <1>1. Cardinality(S) \in Nat
    BY CursorsCounted
  <1>2. \A i \in 1 .. Cardinality(S) : Member(Ranked(S, i)) \in S
    <2> TAKE i \in 1 .. Cardinality(S)
    <2>1. Ranked(S, i) # {} /\ Ranked(S, i) \subseteq S
      BY PlacesAreTaken DEF Ranked
    <2> QED BY <2>1 DEF Member
  <1>3. InOrder(S) \in [1 .. Cardinality(S) -> S]
    BY <1>2 DEF InOrder, Member
  <1>4. \A i \in 1 .. Cardinality(S) : InOrder(S)[i] = Member(Ranked(S, i))
    BY DEF InOrder, Member
  <1> QED BY <1>1, <1>2, <1>3, <1>4

\* Nothing in its order
LEMMA InOrderNothing == InOrder({}) = <<>>
  <1>1. InOrder({}) \in Seq({}) /\ Len(InOrder({})) = Cardinality({})
    BY InOrderIs, 0 \in Nat
  <1>2. Cardinality({}) = 0
    BY FS_EmptySet
  <1> QED BY <1>1, <1>2

\* What comes earlier in one set comes earlier in the union.
LEMMA RanksJoin ==
  ASSUME NEW n \in Nat, NEW S \in SUBSET (1 .. n), NEW T \in SUBSET (1 .. n),
         \A s \in S : \A t \in T : s < t
  PROVE  /\ Cardinality(S \cup T) = Cardinality(S) + Cardinality(T)
         /\ \A s \in S : Rank(S \cup T, s) = Rank(S, s) /\ Rank(S, s) <= Cardinality(S)
         /\ \A t \in T : Rank(S \cup T, t) = Cardinality(S) + Rank(T, t) /\ Rank(T, t) >= 1
  <1>1. IsFiniteSet(S) /\ IsFiniteSet(T) /\ Cardinality(S) \in Nat /\ Cardinality(T) \in Nat
    BY CursorsCounted
  <1>2. \A U \in SUBSET T : Cardinality(S \cup U) = Cardinality(S) + Cardinality(U)
    <2> TAKE U \in SUBSET T
    <2>0. \A s \in S : s \notin U
      OBVIOUS
    <2>1. IsFiniteSet(U) /\ S \cap U = {}
      BY <1>1, <2>0, FS_Subset
    <2>2. Cardinality(S \cup U) = Cardinality(S) + Cardinality(U) - Cardinality(S \cap U)
      BY <1>1, <2>1, FS_Union
    <2>3. Cardinality(S \cap U) = 0 /\ Cardinality(U) \in Nat
      BY <2>1, FS_EmptySet, FS_CardinalityType
    <2> QED BY <1>1, <2>2, <2>3
  <1>3. \A s \in S : Rank(S \cup T, s) = Rank(S, s) /\ Rank(S, s) <= Cardinality(S)
    <2> TAKE s \in S
    <2>0. \A t \in T : ~ (t <= s)
      OBVIOUS
    <2>1. {j \in S \cup T : j <= s} = {j \in S : j <= s}
      BY <2>0
    <2>2. Rank(S, s) \in 0 .. Cardinality(S)
      BY RanksGrow, s \in Nat
    <2> QED BY <2>1, <2>2, <1>1 DEF Rank
  <1>4. \A t \in T : Rank(S \cup T, t) = Cardinality(S) + Rank(T, t) /\ Rank(T, t) >= 1
    <2> TAKE t \in T
    <2> DEFINE U == {j \in T : j <= t}
    <2>0. \A s \in S : s <= t
      OBVIOUS
    <2>1. {j \in S \cup T : j <= t} = S \cup U
      BY <2>0
    <2>2. Cardinality(S \cup U) = Cardinality(S) + Cardinality(U)
      BY <1>2
    <2>3. IsFiniteSet(U) /\ t \in U
      BY <1>1, FS_Subset
    <2>4. Cardinality(U) >= 1
      BY <2>3, FS_EmptySet, FS_CardinalityType
    <2> QED BY <2>1, <2>2, <2>4 DEF Rank
  <1> QED BY <1>2, <1>3, <1>4

\* Two sets, one after the other, in their order
LEMMA InOrderJoins ==
  ASSUME NEW n \in Nat, NEW S \in SUBSET (1 .. n), NEW T \in SUBSET (1 .. n),
         \A s \in S : \A t \in T : s < t
  PROVE  InOrder(S \cup T) = InOrder(S) \o InOrder(T)
  <1> DEFINE R == S \cup T
  <1>1. R \subseteq 1 .. n
    OBVIOUS
  <1>2. Cardinality(R) = Cardinality(S) + Cardinality(T)
    BY RanksJoin
  <1>3. Cardinality(S) \in Nat /\ Cardinality(T) \in Nat
    BY CursorsCounted
  <1>4. \A i \in 1 .. Cardinality(S) : Ranked(R, i) = Ranked(S, i)
    <2> TAKE i \in 1 .. Cardinality(S)
    <2>1. \A s \in S : Rank(R, s) = Rank(S, s)
      BY RanksJoin
    <2>2. \A t \in T : Rank(R, t) # i
      <3> TAKE t \in T
      <3>1. Rank(R, t) = Cardinality(S) + Rank(T, t) /\ Rank(T, t) >= 1
        BY RanksJoin
      <3>2. Rank(T, t) \in Nat
        <4>1. Rank(T, t) \in 0 .. Cardinality(T)
          BY RanksGrow, t \in Nat
        <4> QED BY <1>3, <4>1
      <3> QED BY <1>3, <3>1, <3>2
    <2> QED BY <2>1, <2>2 DEF Ranked
  <1>5. \A i \in 1 .. Cardinality(T) : Ranked(R, Cardinality(S) + i) = Ranked(T, i)
    <2> TAKE i \in 1 .. Cardinality(T)
    <2>1. \A s \in S : Rank(R, s) # Cardinality(S) + i
      <3> TAKE s \in S
      <3>1. Rank(R, s) = Rank(S, s) /\ Rank(S, s) <= Cardinality(S)
        BY RanksJoin
      <3>2. Rank(S, s) \in Nat
        BY <1>3, RanksGrow, s \in Nat
      <3> QED BY <1>3, <3>1, <3>2
    <2>2. \A t \in T : Rank(R, t) = Cardinality(S) + i <=> Rank(T, t) = i
      <3> TAKE t \in T
      <3>1. Rank(R, t) = Cardinality(S) + Rank(T, t)
        BY RanksJoin
      <3>2. Rank(T, t) \in Nat
        <4>1. Rank(T, t) \in 0 .. Cardinality(T)
          BY RanksGrow, t \in Nat
        <4> QED BY <1>3, <4>1
      <3> QED BY <1>3, <3>1, <3>2
    <2> QED BY <2>1, <2>2 DEF Ranked
  <1> HIDE DEF R
  <1>6. /\ InOrder(S) \in Seq(S) /\ Len(InOrder(S)) = Cardinality(S)
        /\ \A i \in 1 .. Cardinality(S) : InOrder(S)[i] = Member(Ranked(S, i))
    BY InOrderIs
  <1>7. /\ InOrder(T) \in Seq(T) /\ Len(InOrder(T)) = Cardinality(T)
        /\ \A i \in 1 .. Cardinality(T) : InOrder(T)[i] = Member(Ranked(T, i))
    BY InOrderIs
  <1>8. /\ InOrder(R) \in Seq(R) /\ Len(InOrder(R)) = Cardinality(R)
        /\ \A i \in 1 .. Cardinality(R) : InOrder(R)[i] = Member(Ranked(R, i))
    BY <1>1, InOrderIs
  <1>9. \A i \in 1 .. Cardinality(S) : InOrder(R)[i] = InOrder(S)[i]
    BY <1>2, <1>3, <1>4, <1>6, <1>8
  <1>10. \A i \in 1 .. Cardinality(T) : InOrder(R)[Cardinality(S) + i] = InOrder(T)[i]
    BY <1>2, <1>3, <1>5, <1>7, <1>8
  <1>11. InOrder(R) = InOrder(S) \o InOrder(T)
    <2> DEFINE both == InOrder(S) \o InOrder(T)
    <2>1. both \in Seq(R) /\ Len(both) = Cardinality(R)
      BY <1>2, <1>3, <1>6, <1>7 DEF R
    <2>2. \A i \in 1 .. Cardinality(R) : both[i] = InOrder(R)[i]
      <3> TAKE i \in 1 .. Cardinality(R)
      <3>0. i \in Nat /\ i >= 1 /\ i <= Cardinality(S) + Cardinality(T)
        BY <1>2, <1>3
      <3>1. CASE i <= Cardinality(S)
        <4>1. i \in 1 .. Cardinality(S)
          BY <1>3, <3>0, <3>1
        <4>2. both[i] = InOrder(S)[i]
          BY <1>3, <1>6, <1>7, <4>1
        <4> QED BY <1>9, <4>1, <4>2
      <3>2. CASE i > Cardinality(S)
        <4>1. i - Cardinality(S) \in 1 .. Cardinality(T) /\ Cardinality(S) + (i - Cardinality(S)) = i
          BY <1>3, <3>0, <3>2
        <4>2. both[i] = InOrder(T)[i - Cardinality(S)]
          BY <1>3, <1>6, <1>7, <3>0, <3>2
        <4> QED BY <1>10, <4>1, <4>2
      <3> HIDE DEF both
      <3> QED BY <1>3, <3>0, <3>1, <3>2
    <2> HIDE DEF both
    <2>3. InOrder(R) \in Seq(R) /\ Len(InOrder(R)) = Len(both)
      BY <1>8, <2>1
    <2>4. \A i \in 1 .. Len(InOrder(R)) : InOrder(R)[i] = both[i]
      BY <1>8, <2>2
    <2>5. InOrder(R) = both
      BY <2>1, <2>3, <2>4, SeqEqual
    <2> QED BY <2>5 DEF both
  <1> QED BY <1>11 DEF R

\* One cursor in its order
LEMMA InOrderOne ==
  ASSUME NEW k \in Nat \ {0}
  PROVE  InOrder({k}) = <<k>>
  <1>1. InOrder({k}) \in Seq({k}) /\ Len(InOrder({k})) = Cardinality({k})
    BY InOrderIs, k \in Nat, {k} \subseteq 1 .. k
  <1>2. Cardinality({k}) = 1
    BY FS_Singleton
  <1> QED BY <1>1, <1>2

-------------------------------------------------------------------------------
(* What a client wants, in order *)

\* The cursors wanted after low, up to high
LEMMA WantsAre ==
  ASSUME NEW c, NEW low \in Nat, NEW high \in Nat
  PROVE  /\ Wants(c, low, high) \in SUBSET (1 .. high)
         /\ Wants(c, low, high) \in SUBSET (low + 1 .. high)
         /\ \A k \in Nat : k \in Wants(c, low, high) <=> low < k /\ k <= high /\ Wanted(c, k)
  BY DEF Wants

\* What is wanted up to a cursor, and what is wanted after it
LEMMA WantsSplit ==
  ASSUME NEW c, NEW low \in Nat, NEW mid \in Nat, NEW high \in Nat, low <= mid, mid <= high
  PROVE  /\ Wants(c, low, high) = Wants(c, low, mid) \cup Wants(c, mid, high)
         /\ \A s \in Wants(c, low, mid) : \A t \in Wants(c, mid, high) : s < t
         /\ Wants(c, low, mid) \in SUBSET (1 .. high)
         /\ Wants(c, mid, high) \in SUBSET (1 .. high)
  <1>1. /\ Wants(c, low, mid) \in SUBSET (1 .. mid)
        /\ Wants(c, mid, high) \in SUBSET (mid + 1 .. high)
        /\ Wants(c, low, high) \in SUBSET (1 .. high)
        /\ \A k \in Nat : k \in Wants(c, low, mid) <=> low < k /\ k <= mid /\ Wanted(c, k)
        /\ \A k \in Nat : k \in Wants(c, mid, high) <=> mid < k /\ k <= high /\ Wanted(c, k)
        /\ \A k \in Nat : k \in Wants(c, low, high) <=> low < k /\ k <= high /\ Wanted(c, k)
    BY WantsAre
  <1>2. \A k : k \in Wants(c, low, high) <=> k \in Wants(c, low, mid) \/ k \in Wants(c, mid, high)
    <2> TAKE k
    <2>1. CASE k \in Nat
      BY <1>1, <2>1
    <2>2. CASE k \notin Nat
      BY <1>1, <2>2
    <2> QED BY <2>1, <2>2
  <1> QED BY <1>1, <1>2

\* In order, too
LEMMA OrderSplits ==
  ASSUME NEW c, NEW low \in Nat, NEW mid \in Nat, NEW high \in Nat, low <= mid, mid <= high
  PROVE  InOrder(Wants(c, low, high))
           = InOrder(Wants(c, low, mid)) \o InOrder(Wants(c, mid, high))
  <1> DEFINE S == Wants(c, low, mid)
             T == Wants(c, mid, high)
  <1>1. /\ Wants(c, low, high) = S \cup T
        /\ S \in SUBSET (1 .. high) /\ T \in SUBSET (1 .. high)
        /\ \A s \in S : \A t \in T : s < t
    BY WantsSplit
  <1> HIDE DEF S, T
  <1>2. InOrder(S \cup T) = InOrder(S) \o InOrder(T)
    BY <1>1, InOrderJoins
  <1> QED BY <1>1, <1>2 DEF S, T

\* The order is a sequence of cursors.
LEMMA OrderIs ==
  ASSUME NEW c, NEW low \in Nat, NEW high \in Nat
  PROVE  /\ InOrder(Wants(c, low, high)) \in Seq(1 .. high)
         /\ InOrder(Wants(c, low, high)) \in Seq(Nat)
         /\ InOrder(Wants(c, low, high)) = <<>> <=> Wants(c, low, high) = {}
  <1> DEFINE S == Wants(c, low, high)
  <1>1. S \in SUBSET (1 .. high)
    BY WantsAre
  <1> HIDE DEF S
  <1>2. /\ InOrder(S) \in Seq(S) /\ Len(InOrder(S)) = Cardinality(S)
        /\ IsFiniteSet(S)
    BY <1>1, InOrderIs, CursorsCounted
  <1>3. InOrder(S) \in Seq(1 .. high)
    BY <1>1, <1>2, SeqMonotonic
  <1>4. InOrder(S) \in Seq(Nat)
    BY <1>3, SeqMonotonic, 1 .. high \subseteq Nat
  <1>5. Cardinality(S) = 0 <=> S = {}
    BY <1>2, FS_EmptySet
  <1>6. InOrder(S) = <<>> <=> Len(InOrder(S)) = 0
    BY <1>4
  <1> QED BY <1>2, <1>3, <1>4, <1>5, <1>6 DEF S

\* Whatever is wanted has a first.
LEMMA OrderBegins ==
  ASSUME NEW c, NEW low \in Nat, NEW high \in Nat, Wants(c, low, high) # {}
  PROVE  \E k \in low + 1 .. high :
            /\ Wants(c, low, k) = {k}
            /\ InOrder(Wants(c, low, high)) = <<k>> \o InOrder(Wants(c, k, high))
            /\ Head(InOrder(Wants(c, low, high))) = k
            /\ Tail(InOrder(Wants(c, low, high))) = InOrder(Wants(c, k, high))
  <1>1. /\ Wants(c, low, high) \in SUBSET (low + 1 .. high)
        /\ \A k \in Nat : k \in Wants(c, low, high) <=> low < k /\ k <= high /\ Wanted(c, k)
    BY WantsAre
  <1>2. PICK k \in Wants(c, low, high) : \A j \in Wants(c, low, high) : k <= j
    BY <1>1, LeastExists, Wants(c, low, high) \subseteq Nat
  <1>3. k \in Nat /\ low < k /\ k <= high /\ Wanted(c, k) /\ k \in low + 1 .. high
    BY <1>1
  <1>4. Wants(c, low, k) = {k}
    <2>1. /\ Wants(c, low, k) \in SUBSET (low + 1 .. k)
          /\ \A j \in Nat : j \in Wants(c, low, k) <=> low < j /\ j <= k /\ Wanted(c, j)
      BY <1>3, WantsAre
    <2>2. \A j \in Wants(c, low, k) : j = k
      <3> TAKE j \in Wants(c, low, k)
      <3>1. j \in Nat /\ low < j /\ j <= k /\ Wanted(c, j)
        BY <1>3, <2>1
      <3>2. j \in Wants(c, low, high)
        BY <1>1, <1>3, <3>1
      <3> QED BY <1>2, <1>3, <3>1, <3>2
    <2>3. k \in Wants(c, low, k)
      BY <1>3, <2>1
    <2> QED BY <2>2, <2>3
  <1>5. InOrder(Wants(c, low, k)) = <<k>>
    BY <1>3, <1>4, InOrderOne
  <1>6. InOrder(Wants(c, low, high)) = <<k>> \o InOrder(Wants(c, k, high))
    <2>1. InOrder(Wants(c, low, high)) = InOrder(Wants(c, low, k)) \o InOrder(Wants(c, k, high))
      BY <1>3, OrderSplits, low <= k
    <2> QED BY <1>5, <2>1
  <1>7. InOrder(Wants(c, k, high)) \in Seq(Nat)
    BY <1>3, OrderIs
  <1>8. /\ Head(<<k>> \o InOrder(Wants(c, k, high))) = k
        /\ Tail(<<k>> \o InOrder(Wants(c, k, high))) = InOrder(Wants(c, k, high))
    BY <1>3, <1>7
  <1> QED BY <1>3, <1>4, <1>6, <1>8

\* One more
LEMMA OrderGrows ==
  ASSUME NEW c, NEW low \in Nat, NEW mid \in Nat, NEW k \in Nat, low <= mid, mid < k,
         Wants(c, mid, k) = {k}
  PROVE  InOrder(Wants(c, low, k)) = Append(InOrder(Wants(c, low, mid)), k)
  <1>1. InOrder(Wants(c, low, k)) = InOrder(Wants(c, low, mid)) \o InOrder(Wants(c, mid, k))
    BY OrderSplits, mid <= k
  <1>2. InOrder(Wants(c, mid, k)) = <<k>>
    BY InOrderOne
  <1>3. InOrder(Wants(c, low, mid)) \in Seq(Nat)
    BY OrderIs
  <1> DEFINE before == InOrder(Wants(c, low, mid))
  <1> HIDE DEF before
  <1>4. Append(before, k) = before \o <<k>>
    BY <1>3, AppendIsConcat DEF before
  <1> QED BY <1>1, <1>2, <1>4 DEF before

\* Where nothing is wanted, nothing is missed.
LEMMA OrderStays ==
  ASSUME NEW c, NEW low \in Nat, NEW mid \in Nat, NEW high \in Nat, low <= mid, mid <= high
  PROVE  /\ Wants(c, mid, high) = {} => Wants(c, low, high) = Wants(c, low, mid)
         /\ Wants(c, low, mid) = {} => Wants(c, low, high) = Wants(c, mid, high)
         /\ Wants(c, low, high) = {} => Wants(c, low, mid) = {} /\ Wants(c, mid, high) = {}
  <1>1. Wants(c, low, high) = Wants(c, low, mid) \cup Wants(c, mid, high)
    BY WantsSplit
  <1> QED BY <1>1

-------------------------------------------------------------------------------
(* Queues of events *)

Item == [marker : BOOLEAN, cursor : Nat]

Envelopes(s) == [i \in 1 .. Len(s) |-> Event(s[i])]

\* The queue holds what is wanted after low up to high,
Carries(q, c, low, high) == q = Envelopes(InOrder(Wants(c, low, high)))

\* and the marker of the end after it.
Closes(q, c, low, high) ==
    \E k \in 0 .. high : q = Append(Envelopes(InOrder(Wants(c, low, high))), Marker(k))

\* Events and markers are items, with their fields.
LEMMA ItemsAre ==
  ASSUME NEW k \in Nat
  PROVE  /\ Event(k) \in Item /\ ~ Event(k).marker /\ Event(k).cursor = k
         /\ Marker(k) \in Item /\ Marker(k).marker /\ Marker(k).cursor = k
  BY DEF Event, Marker, Item

\* Cursors in envelopes
LEMMA EnvelopesAre ==
  ASSUME NEW s \in Seq(Nat)
  PROVE  /\ Envelopes(s) \in Seq(Item) /\ Len(Envelopes(s)) = Len(s)
         /\ \A i \in 1 .. Len(s) : Envelopes(s)[i] = Event(s[i])
         /\ CursorsOf(Envelopes(s)) = s
  <1>1. \A i \in 1 .. Len(s) : s[i] \in Nat /\ Event(s[i]) \in Item
    BY ItemsAre
  <1>2. Envelopes(s) \in [1 .. Len(s) -> Item]
    BY <1>1 DEF Envelopes
  <1>3. /\ Envelopes(s) \in Seq(Item) /\ Len(Envelopes(s)) = Len(s)
        /\ \A i \in 1 .. Len(s) : Envelopes(s)[i] = Event(s[i])
    BY <1>2 DEF Envelopes
  <1>4. \A i \in 1 .. Len(s) : Envelopes(s)[i].cursor = s[i]
    BY <1>1, <1>3, ItemsAre
  <1>5. CursorsOf(Envelopes(s)) = [i \in 1 .. Len(s) |-> s[i]]
    BY <1>3, <1>4 DEF CursorsOf
  <1> QED BY <1>3, <1>5

\* No cursors, no envelopes
LEMMA EnvelopesNothing == Envelopes(<<>>) = <<>>
  <1>1. Envelopes(<<>>) \in Seq(Item) /\ Len(Envelopes(<<>>)) = Len(<<>>)
    BY EnvelopesAre, <<>> \in Seq(Nat)
  <1> QED BY <1>1

\* Envelopes of one more cursor
LEMMA EnvelopesGrow ==
  ASSUME NEW s \in Seq(Nat), NEW k \in Nat
  PROVE  Envelopes(Append(s, k)) = Append(Envelopes(s), Event(k))
  <1>1. Append(s, k) \in Seq(Nat) /\ Len(Append(s, k)) = Len(s) + 1
    OBVIOUS
  <1>2. /\ Envelopes(Append(s, k)) \in Seq(Item) /\ Len(Envelopes(Append(s, k))) = Len(s) + 1
        /\ \A i \in 1 .. Len(s) + 1 : Envelopes(Append(s, k))[i] = Event(Append(s, k)[i])
    BY <1>1, EnvelopesAre
  <1>3. /\ Envelopes(s) \in Seq(Item) /\ Len(Envelopes(s)) = Len(s)
        /\ \A i \in 1 .. Len(s) : Envelopes(s)[i] = Event(s[i])
    BY EnvelopesAre
  <1> DEFINE both == Append(Envelopes(s), Event(k))
  <1>4. both \in Seq(Item) /\ Len(both) = Len(s) + 1
    BY <1>3, ItemsAre
  <1>5. \A i \in 1 .. Len(s) + 1 : both[i] = Event(Append(s, k)[i])
    <2> TAKE i \in 1 .. Len(s) + 1
    <2>1. CASE i \in 1 .. Len(s)
      BY <1>3, <2>1, ItemsAre
    <2>2. CASE i = Len(s) + 1
      BY <1>3, <2>2, ItemsAre
    <2>3. i \in 1 .. Len(s) \/ i = Len(s) + 1
      OBVIOUS
    <2> QED BY <2>1, <2>2, <2>3
  <1> HIDE DEF both
  <1>6. Envelopes(Append(s, k)) = both
    BY <1>2, <1>4, <1>5, SeqEqual
  <1> QED BY <1>6 DEF both

\* The first envelope, and the others
LEMMA EnvelopesBegin ==
  ASSUME NEW s \in Seq(Nat), NEW k \in Nat
  PROVE  /\ Envelopes(<<k>> \o s) # <<>>
         /\ Head(Envelopes(<<k>> \o s)) = Event(k)
         /\ Tail(Envelopes(<<k>> \o s)) = Envelopes(s)
  <1> DEFINE ks == <<k>> \o s
  <1>1. /\ ks \in Seq(Nat) /\ Len(ks) = Len(s) + 1 /\ ks[1] = k
        /\ \A i \in 1 .. Len(s) : ks[i + 1] = s[i]
    OBVIOUS
  <1> HIDE DEF ks
  <1>2. /\ Envelopes(ks) \in Seq(Item) /\ Len(Envelopes(ks)) = Len(s) + 1
        /\ \A i \in 1 .. Len(s) + 1 : Envelopes(ks)[i] = Event(ks[i])
    BY <1>1, EnvelopesAre
  <1>3. /\ Envelopes(s) \in Seq(Item) /\ Len(Envelopes(s)) = Len(s)
        /\ \A i \in 1 .. Len(s) : Envelopes(s)[i] = Event(s[i])
    BY EnvelopesAre
  <1> DEFINE rest == Tail(Envelopes(ks))
  <1>4. /\ Envelopes(ks) # <<>> /\ Head(Envelopes(ks)) = Envelopes(ks)[1]
        /\ rest \in Seq(Item) /\ Len(rest) = Len(s)
        /\ \A i \in 1 .. Len(s) : rest[i] = Envelopes(ks)[i + 1]
    BY <1>2
  <1> HIDE DEF rest
  <1>5. \A i \in 1 .. Len(s) : rest[i] = Envelopes(s)[i]
    <2> TAKE i \in 1 .. Len(s)
    <2>1. i + 1 \in 1 .. Len(s) + 1
      OBVIOUS
    <2> QED BY <1>1, <1>2, <1>3, <1>4, <2>1
  <1>6. rest = Envelopes(s)
    BY <1>3, <1>4, <1>5, SeqEqual
  <1>7. Envelopes(ks)[1] = Event(k)
    BY <1>1, <1>2, 1 \in 1 .. Len(s) + 1
  <1> QED BY <1>4, <1>6, <1>7 DEF ks, rest

\* What a queue carries are items.
LEMMA CarriedAre ==
  ASSUME NEW c, NEW low \in Nat, NEW high \in Nat, NEW q, Carries(q, c, low, high)
  PROVE  /\ q \in Seq(Item) /\ CursorsOf(q) = InOrder(Wants(c, low, high))
         /\ q = <<>> => Wants(c, low, high) = {}
         /\ Wants(c, low, high) = {} => q = <<>>
  <1> DEFINE s == InOrder(Wants(c, low, high))
  <1>1. s \in Seq(Nat) /\ (s = <<>> <=> Wants(c, low, high) = {})
    BY OrderIs
  <1>2. Envelopes(s) \in Seq(Item) /\ Len(Envelopes(s)) = Len(s) /\ CursorsOf(Envelopes(s)) = s
    BY <1>1, EnvelopesAre
  <1>3. q = Envelopes(s)
    BY DEF Carries
  <1> HIDE DEF s
  <1>4. q = <<>> <=> s = <<>>
    BY <1>1, <1>2, <1>3
  <1> QED BY <1>1, <1>2, <1>3, <1>4 DEF s

\* And so with the marker of the end.
LEMMA ClosedAre ==
  ASSUME NEW c, NEW low \in Nat, NEW high \in Nat, NEW q, Closes(q, c, low, high)
  PROVE  q \in Seq(Item) /\ q # <<>>
  <1> DEFINE s == Envelopes(InOrder(Wants(c, low, high)))
  <1>1. s \in Seq(Item)
    BY CarriedAre DEF Carries
  <1>2. PICK k \in 0 .. high : q = Append(s, Marker(k))
    BY DEF Closes
  <1>3. Marker(k) \in Item
    BY ItemsAre, k \in Nat
  <1> HIDE DEF s
  <1> QED BY <1>1, <1>2, <1>3

\* A queue that carries nothing
LEMMA CarriesNothing ==
  ASSUME NEW c, NEW low \in Nat, NEW high \in Nat, Wants(c, low, high) = {}
  PROVE  Carries(<<>>, c, low, high)
  BY InOrderNothing, EnvelopesNothing DEF Carries

\* The first event of a queue is the next one wanted.
LEMMA CarriesHead ==
  ASSUME NEW c, NEW low \in Nat, NEW high \in Nat, NEW q, Carries(q, c, low, high), q # <<>>
  PROVE  \E k \in low + 1 .. high :
            Wants(c, low, k) = {k} /\ Head(q) = Event(k) /\ Carries(Tail(q), c, k, high)
  <1>1. Wants(c, low, high) # {}
    <2>1. Wants(c, low, high) = {} => q = <<>>
      BY CarriedAre
    <2> QED BY <2>1
  <1>2. PICK k \in low + 1 .. high :
            /\ Wants(c, low, k) = {k}
            /\ InOrder(Wants(c, low, high)) = <<k>> \o InOrder(Wants(c, k, high))
    <2>1. \E k \in low + 1 .. high :
            /\ Wants(c, low, k) = {k}
            /\ InOrder(Wants(c, low, high)) = <<k>> \o InOrder(Wants(c, k, high))
            /\ Head(InOrder(Wants(c, low, high))) = k
            /\ Tail(InOrder(Wants(c, low, high))) = InOrder(Wants(c, k, high))
      BY <1>1, OrderBegins
    <2> QED BY <2>1
  <1>3. InOrder(Wants(c, k, high)) \in Seq(Nat) /\ k \in Nat
    BY OrderIs, k \in Nat
  <1>4. Head(q) = Event(k) /\ Tail(q) = Envelopes(InOrder(Wants(c, k, high)))
    BY <1>2, <1>3, EnvelopesBegin DEF Carries
  <1> QED BY <1>2, <1>4 DEF Carries

\* With a marker at the end, it may be the marker.
LEMMA ClosesHead ==
  ASSUME NEW c, NEW low \in Nat, NEW high \in Nat, NEW q, Closes(q, c, low, high)
  PROVE  \/ \E k \in low + 1 .. high :
               Wants(c, low, k) = {k} /\ Head(q) = Event(k) /\ Closes(Tail(q), c, k, high)
         \/ \E k \in 0 .. high :
               Wants(c, low, high) = {} /\ Head(q) = Marker(k) /\ Tail(q) = <<>>
  <1> DEFINE s == Envelopes(InOrder(Wants(c, low, high)))
  <1>1. PICK m \in 0 .. high : q = Append(s, Marker(m))
    BY DEF Closes
  <1>2. Marker(m) \in Item
    BY ItemsAre, m \in Nat
  <1>3. Carries(s, c, low, high)
    BY DEF Carries
  <1>4. s \in Seq(Item)
    BY <1>3, CarriedAre
  <1> HIDE DEF s
  <1>5. CASE s = <<>>
    <2>1. Wants(c, low, high) = {}
      BY <1>3, <1>5, CarriedAre
    <2>2. Head(q) = Marker(m) /\ Tail(q) = <<>>
      BY <1>1, <1>2, <1>4, <1>5, HeadTailAppend
    <2> QED BY <2>1, <2>2
  <1>6. CASE s # <<>>
    <2>1. PICK k \in low + 1 .. high :
              Wants(c, low, k) = {k} /\ Head(s) = Event(k) /\ Carries(Tail(s), c, k, high)
      BY <1>3, <1>6, CarriesHead
    <2>2. Head(q) = Head(s) /\ Tail(q) = Append(Tail(s), Marker(m))
      BY <1>1, <1>2, <1>4, <1>6, HeadTailAppend
    <2>3. Closes(Tail(q), c, k, high)
      BY <2>1, <2>2 DEF Closes, Carries
    <2> QED BY <2>1, <2>2, <2>3
  <1> QED BY <1>5, <1>6

\* One more event,
LEMMA CarriesMore ==
  ASSUME NEW c, NEW low \in Nat, NEW mid \in Nat, NEW k \in Nat, low <= mid, mid < k,
         Wants(c, mid, k) = {k}, NEW q, Carries(q, c, low, mid)
  PROVE  Carries(Append(q, Event(k)), c, low, k)
  <1>1. InOrder(Wants(c, low, k)) = Append(InOrder(Wants(c, low, mid)), k)
    BY OrderGrows
  <1>2. InOrder(Wants(c, low, mid)) \in Seq(Nat)
    BY OrderIs
  <1>3. Envelopes(Append(InOrder(Wants(c, low, mid)), k)) = Append(q, Event(k))
    BY <1>2, EnvelopesGrow DEF Carries
  <1> QED BY <1>1, <1>3 DEF Carries

\* or the marker
LEMMA CarriesLast ==
  ASSUME NEW c, NEW low \in Nat, NEW high \in Nat, NEW k \in 0 .. high, NEW q,
         Carries(q, c, low, high)
  PROVE  Closes(Append(q, Marker(k)), c, low, high)
  BY DEF Carries, Closes

\* Further than what is wanted
LEMMA CarriesOn ==
  ASSUME NEW c, NEW low \in Nat, NEW mid \in Nat, NEW high \in Nat, low <= mid, mid <= high, NEW q
  PROVE  /\ Wants(c, mid, high) = {} /\ Carries(q, c, low, mid) => Carries(q, c, low, high)
         /\ Wants(c, mid, high) = {} /\ Closes(q, c, low, mid) => Closes(q, c, low, high)
         /\ Wants(c, low, mid) = {} /\ Carries(q, c, mid, high) => Carries(q, c, low, high)
         /\ Wants(c, low, mid) = {} /\ Carries(q, c, low, high) => Carries(q, c, mid, high)
         /\ Wants(c, low, mid) = {} /\ Closes(q, c, mid, high) => Closes(q, c, low, high)
  <1>1. /\ Wants(c, mid, high) = {} => Wants(c, low, high) = Wants(c, low, mid)
        /\ Wants(c, low, mid) = {} => Wants(c, low, high) = Wants(c, mid, high)
    BY OrderStays
  <1>2. 0 .. mid \subseteq 0 .. high
    OBVIOUS
  <1> QED BY <1>1, <1>2 DEF Carries, Closes

-------------------------------------------------------------------------------
(* The inductive invariant of EventDelivery *)

SomeItems == Seq([marker : BOOLEAN, cursor : 0..MaxLog])

\* The types of the variables, with their domains
Typed ==
    /\ log \in Seq(Kinds) /\ Len(log) <= MaxLog
    /\ hub \in {"up", "failed", "down"}
    /\ worker \in {"idle", "committed"}
    /\ latest \in 0..MaxLog /\ latest <= Len(log)
    /\ sub \in [Clients -> Subs]
    /\ conn \in [Clients -> {"down", "up", "eof"}]
    /\ wire \in [Clients -> SomeItems]
    /\ lastCursor \in [Clients -> 0..MaxLog]
    /\ inbox \in [Clients -> SomeItems]
    /\ overflow \in [Clients -> BOOLEAN]
    /\ asking \in [Clients -> BOOLEAN]
    /\ pos \in [Clients -> 0..MaxLog]
    /\ seen \in [Clients -> Seq(Nat)]
    /\ losses \in 0..Losses /\ stops \in 0..Stops
    /\ front \in [Clients -> {"terminal", "browser", "command"}]

\* The queues of a client keep to their sizes.
Sized(c) ==
    /\ Len(sub[c].live) <= LiveCap /\ Len(sub[c].replay) <= ReplayLimit
    /\ Len(wire[c]) <= WireCap /\ Len(inbox[c]) <= InboxCap

\* Nothing is on its way to a client.
Quiet(c) == wire[c] = <<>> /\ inbox[c] = <<>> /\ ~ overflow[c] /\ ~ asking[c]

\* So it is until a subscription has its replay; only a connection that is up has one.
\* A terminal has no inbox.
Rests(c) ==
    /\ conn[c] = "down" => Quiet(c)
    /\ conn[c] = "up" /\ sub[c].state # "live" => Quiet(c) /\ lastCursor[c] = 0
    /\ conn[c] # "up" \/ hub = "down" => sub[c].state = "off"
    /\ front[c] = "terminal" => inbox[c] = <<>> /\ ~ overflow[c] /\ ~ asking[c]

\* While the replay is read, the live queue takes what comes after it.
Loads(c) ==
    sub[c].state = "loading" =>
        /\ sub[c].after = pos[c] /\ pos[c] <= sub[c].high /\ sub[c].high <= latest
        /\ ~ sub[c].overflowed => sub[c].live = InOrder(Wants(c, sub[c].high, latest))

Top(a, b) == IF a < b THEN b ELSE a

\* What was sent goes up to e: the replay and the live events follow.
Streams(c, e) ==
    sub[c].state = "live" =>
        /\ sub[c].next <= latest /\ sub[c].last <= Top(e, sub[c].next)
        /\ sub[c].replay = InOrder(Wants(c, e, sub[c].next))
        /\ ~ sub[c].truncated /\ ~ sub[c].overflowed =>
              sub[c].live = InOrder(Wants(c, Top(e, sub[c].next), latest))

\* From where the client will resume to x in the inbox, and to e on the wire
Way(c, x, e) ==
    /\ pos[c] <= x /\ x <= e /\ e <= latest /\ lastCursor[c] <= x
    /\ \/ /\ Carries(inbox[c], c, pos[c], x)
          /\ Carries(wire[c], c, x, e) \/ (conn[c] = "eof" /\ Closes(wire[c], c, x, e))
       \/ Closes(inbox[c], c, pos[c], x) /\ wire[c] = <<>> /\ conn[c] = "eof"
    /\ Streams(c, e)

OnTheWay(c) == conn[c] # "down" /\ ~ overflow[c] => \E x \in Nat, e \in Nat : Way(c, x, e)

\* The first item in the inbox is the next event wanted, or a marker before it.
First(c, item) ==
    \/ \E k \in pos[c] + 1 .. latest : Wants(c, pos[c], k) = {k} /\ item = Event(k)
    \/ \E k \in 0 .. latest : Wants(c, pos[c], Top(pos[c], k)) = {} /\ item = Marker(k)

\* After an overflow one more item may be taken.
LastTaken(c) == overflow[c] /\ asking[c] => inbox[c] # <<>> /\ First(c, Head(inbox[c]))

\* A command line has nothing of all this.
Apart(c) == sub[c].state = "off" /\ Quiet(c)

ClientInv(c) ==
    /\ Sized(c)
    /\ pos[c] <= Len(log) /\ seen[c] = InOrder(Wants(c, 0, pos[c]))
    /\ IF front[c] = "command" THEN Apart(c)
       ELSE pos[c] <= latest /\ Rests(c) /\ Loads(c) /\ OnTheWay(c) /\ LastTaken(c)

DeliveryInv == Typed /\ \A c \in Clients : ClientInv(c)

\* What the log holds stays where it is.
Grown ==
    /\ front' = front /\ Len(log) <= Len(log')
    /\ \A k \in 1 .. Len(log) : log'[k] = log[k]

\* What was wanted stays wanted, and queues carry what they carried.
LEMMA WantsStay ==
  ASSUME Typed, Grown, NEW c, NEW low \in Nat, NEW high \in Nat, high <= Len(log)
  PROVE  /\ Wants(c, low, high)' = Wants(c, low, high)
         /\ \A q : Carries(q, c, low, high)' = Carries(q, c, low, high)
         /\ \A q : Closes(q, c, low, high)' = Closes(q, c, low, high)
  <1>1. \A k \in low + 1 .. high : log'[k] = log[k]
    <2> TAKE k \in low + 1 .. high
    <2>1. Len(log) \in Nat
      BY DEF Typed
    <2>2. k \in 1 .. Len(log)
      BY <2>1
    <2> QED BY <2>2 DEF Grown
  <1>2. front' = front
    BY DEF Grown
  <1>3. \A k \in low + 1 .. high : Wanted(c, k)' = Wanted(c, k)
    BY <1>1, <1>2 DEF Wanted, Interest
  <1>4. Wants(c, low, high)' = Wants(c, low, high)
    BY <1>3 DEF Wants
  <1>5. \A q : Carries(q, c, low, high)' = Carries(q, c, low, high)
    BY <1>4 DEF Carries
  <1>6. \A q : Closes(q, c, low, high)' = Closes(q, c, low, high)
    BY <1>4 DEF Closes
  <1> QED BY <1>4, <1>5, <1>6

\* The client's own part of the state
Untouched(c) ==
    /\ sub'[c] = sub[c] /\ conn'[c] = conn[c] /\ wire'[c] = wire[c]
    /\ lastCursor'[c] = lastCursor[c] /\ inbox'[c] = inbox[c]
    /\ overflow'[c] = overflow[c] /\ asking'[c] = asking[c]
    /\ pos'[c] = pos[c] /\ seen'[c] = seen[c]

\* The numbers of a client are naturals.
LEMMA NumbersAre ==
  ASSUME Typed, NEW c \in Clients
  PROVE  /\ pos[c] \in Nat /\ latest \in Nat /\ Len(log) \in Nat /\ latest <= Len(log)
         /\ lastCursor[c] \in Nat /\ MaxLog \in Nat /\ Len(log) <= MaxLog /\ pos[c] <= MaxLog
         /\ sub[c] \in Subs /\ sub[c].high \in Nat /\ sub[c].next \in Nat /\ sub[c].last \in Nat
  BY CapacitiesAssumption DEF Typed, Subs

\* What comes first stays first.
LEMMA FirstStays ==
  ASSUME Typed, Grown, NEW c \in Clients, NEW item, First(c, item),
         pos'[c] = pos[c], pos[c] <= latest, latest' \in Nat, latest <= latest'
  PROVE  First(c, item)'
  <1>1. /\ pos[c] \in Nat /\ latest \in Nat /\ Len(log) \in Nat /\ latest <= Len(log)
    BY NumbersAre
  <1>2. \A low \in Nat, high \in Nat : high <= Len(log) =>
           Wants(c, low, high)' = Wants(c, low, high)
    BY WantsStay
  <1>3. CASE \E k \in pos[c] + 1 .. latest : Wants(c, pos[c], k) = {k} /\ item = Event(k)
    <2>1. PICK k \in pos[c] + 1 .. latest : Wants(c, pos[c], k) = {k} /\ item = Event(k)
      BY <1>3
    <2>2. k \in Nat /\ k <= Len(log) /\ k \in pos[c] + 1 .. latest'
      BY <1>1
    <2>3. Wants(c, pos[c], k)' = {k}
      BY <1>1, <1>2, <2>1, <2>2
    <2> QED BY <2>1, <2>2, <2>3 DEF First, Event
  <1>4. CASE \E k \in 0 .. latest : Wants(c, pos[c], Top(pos[c], k)) = {} /\ item = Marker(k)
    <2>1. PICK k \in 0 .. latest : Wants(c, pos[c], Top(pos[c], k)) = {} /\ item = Marker(k)
      BY <1>4
    <2>2. Top(pos[c], k) \in Nat /\ Top(pos[c], k) <= Len(log) /\ Top(pos[c], k)' = Top(pos[c], k)
      BY <1>1 DEF Top
    <2>3. Wants(c, pos[c], Top(pos[c], k))' = {}
      BY <1>1, <1>2, <2>1, <2>2
    <2>4. k \in 0 .. latest'
      BY <1>1
    <2> QED BY <2>1, <2>3, <2>4 DEF First, Marker
  <1> QED BY <1>3, <1>4 DEF First

\* A client nothing happens to keeps its invariant.
LEMMA ClientStays ==
  ASSUME Typed, Grown, NEW c \in Clients, ClientInv(c), Untouched(c),
         latest' = latest, hub' = "down" => hub = "down"
  PROVE  ClientInv(c)'
  <1> USE DEF Untouched
  <1>1. /\ pos[c] \in Nat /\ latest \in Nat /\ Len(log) \in Nat /\ latest <= Len(log)
        /\ sub[c].high \in Nat /\ sub[c].next \in Nat
    BY NumbersAre
  <1>2. front' = front /\ Len(log) <= Len(log') /\ Len(log') \in Nat
    BY <1>1 DEF Grown, Typed
  <1>3. \A low \in Nat, high \in Nat : high <= Len(log) =>
           /\ Wants(c, low, high)' = Wants(c, low, high)
           /\ \A q : Carries(q, c, low, high)' = Carries(q, c, low, high)
           /\ \A q : Closes(q, c, low, high)' = Closes(q, c, low, high)
    BY WantsStay
  <1>4. Sized(c)'
    BY DEF ClientInv, Sized
  <1>5. pos'[c] <= Len(log') /\ seen'[c] = InOrder(Wants(c, 0, pos[c]))'
    BY <1>1, <1>2, <1>3 DEF ClientInv
  <1>6. CASE front[c] = "command"
    BY <1>2, <1>4, <1>5, <1>6 DEF ClientInv, Apart, Quiet
  <1>7. CASE front[c] # "command"
    <2>1. pos[c] <= latest /\ Rests(c) /\ Loads(c) /\ OnTheWay(c) /\ LastTaken(c)
      BY <1>7 DEF ClientInv
    <2>2. Rests(c)'
      BY <1>2, <2>1 DEF Rests, Quiet
    <2>3. Loads(c)'
      BY <1>1, <1>3, <2>1 DEF Loads
    <2>4. OnTheWay(c)'
      <3> SUFFICES ASSUME conn[c] # "down", ~ overflow[c]
                   PROVE  OnTheWay(c)'
        BY DEF OnTheWay
      <3>1. PICK x \in Nat, e \in Nat : Way(c, x, e)
        BY <2>1 DEF OnTheWay
      <3>2. e <= Len(log) /\ x <= Len(log)
        BY <1>1, <3>1 DEF Way
      <3>3. Streams(c, e)'
        <4>1. Top(e, sub[c].next) \in Nat
          BY <1>1 DEF Top
        <4> QED BY <1>1, <1>3, <3>1, <4>1 DEF Way, Streams
      <3>4. Way(c, x, e)'
        BY <1>1, <1>3, <3>1, <3>2, <3>3 DEF Way
      <3> QED BY <3>4 DEF OnTheWay
    <2>5. LastTaken(c)'
      <3> SUFFICES ASSUME overflow[c], asking[c]
                   PROVE  LastTaken(c)'
        BY DEF LastTaken
      <3>1. inbox[c] # <<>> /\ First(c, Head(inbox[c]))
        BY <2>1 DEF LastTaken
      <3>2. First(c, Head(inbox[c]))'
        BY <1>1, <2>1, <3>1, FirstStays
      <3> QED BY <3>1, <3>2 DEF LastTaken
    <2> QED BY <1>2, <1>4, <1>5, <1>7, <2>1, <2>2, <2>3, <2>4, <2>5 DEF ClientInv
  <1> QED BY <1>6, <1>7

\* A step of one client
LEMMA OneClientMoves ==
  ASSUME DeliveryInv, NEW c \in Clients, Typed', ClientInv(c)', UNCHANGED <<log, latest, hub, front>>,
         \A d \in Clients \ {c} : Untouched(d)
  PROVE  DeliveryInv'
  <1>1. Grown
    BY DEF Grown, DeliveryInv, Typed
  <1>2. \A d \in Clients \ {c} : ClientInv(d)'
    BY <1>1, ClientStays DEF DeliveryInv
  <1> QED BY <1>2 DEF DeliveryInv

-------------------------------------------------------------------------------
(* The hub keeps the invariant *)

\* Nothing is wanted in an empty range.
LEMMA WantsNothing ==
  ASSUME NEW c, NEW k \in Nat
  PROVE  Wants(c, k, k) = {} /\ InOrder(Wants(c, k, k)) = <<>>
  <1>1. Wants(c, k, k) = {}
    <2>1. k + 1 .. k = {}
      OBVIOUS
    <2> QED BY <2>1 DEF Wants
  <1> QED BY <1>1, InOrderNothing

\* The invariant holds initially.
LEMMA DeliveryBegins == Init => DeliveryInv
  <1> SUFFICES ASSUME Init PROVE DeliveryInv
    OBVIOUS
  <1> USE CapacitiesAssumption
  <1>1. NoSub \in Subs
    <2>1. <<>> \in Seq(1 .. MaxLog)
      OBVIOUS
    <2> QED BY <2>1 DEF NoSub, Subs
  <1>2. Typed
    <2>1. log \in Seq(Kinds) /\ Len(log) = 0
      BY DEF Init
    <2>2. front \in [Clients -> {"terminal", "browser", "command"}]
      BY InterestAssumption DEF Init
    <2>3. <<>> \in SomeItems /\ <<>> \in Seq(Nat)
      BY DEF SomeItems
    <2> QED BY <1>1, <2>1, <2>2, <2>3 DEF Init, Typed
  <1>3. ASSUME NEW c \in Clients PROVE ClientInv(c)
    <2>1. sub[c] = NoSub /\ conn[c] = "down" /\ pos[c] = 0 /\ seen[c] = <<>>
      BY DEF Init
    <2>2. Quiet(c) /\ sub[c].state = "off"
      BY <2>1 DEF Init, Quiet, NoSub
    <2>3. Sized(c)
      BY <2>1 DEF Init, Sized, NoSub
    <2>4. seen[c] = InOrder(Wants(c, 0, pos[c]))
      BY <2>1, WantsNothing
    <2>5. pos[c] <= latest /\ pos[c] <= Len(log)
      BY <2>1 DEF Init
    <2>6. Rests(c) /\ Loads(c) /\ OnTheWay(c) /\ LastTaken(c)
      BY <2>1, <2>2 DEF Rests, Loads, OnTheWay, LastTaken, Quiet
    <2> QED BY <2>2, <2>3, <2>4, <2>5, <2>6 DEF ClientInv, Apart
  <1> QED BY <1>2, <1>3 DEF DeliveryInv

\* A batch is stored.
LEMMA CommitKeeps ==
  ASSUME DeliveryInv, NEW batch \in Batches, Commit(batch)
  PROVE  DeliveryInv'
  <1>1. batch \in Seq(Kinds)
    <2>1. PICK n \in 1 .. BatchSize : batch \in [1 .. n -> Produced]
      BY DEF Batches
    <2>2. n \in Nat
      BY CapacitiesAssumption
    <2>3. batch \in [1 .. n -> Kinds]
      BY <2>1, InterestAssumption
    <2> QED BY <2>2, <2>3
  <1>2. Typed
    BY DEF DeliveryInv
  <1>3. /\ log' \in Seq(Kinds) /\ Len(log') = Len(log) + Len(batch)
        /\ \A k \in 1 .. Len(log) : log'[k] = log[k]
    BY <1>1, <1>2 DEF Commit, Typed
  <1>4. Grown
    BY <1>1, <1>2, <1>3 DEF Grown, Commit, Typed, countVars
  <1>5. Typed'
    BY <1>1, <1>2, <1>3 DEF Typed, Commit, connVars, webVars, clientVars, countVars
  <1>6. ASSUME NEW c \in Clients PROVE ClientInv(c)'
    <2>1. Untouched(c) /\ latest' = latest /\ hub' = hub
      BY DEF Commit, Untouched, connVars, webVars, clientVars
    <2> QED BY <1>2, <1>4, <2>1, ClientStays DEF DeliveryInv
  <1> QED BY <1>5, <1>6 DEF DeliveryInv

\* What a subscription is offered, it takes or it overflows.
LEMMA OffersAre ==
  ASSUME NEW s \in Subs, NEW new \in Seq(1 .. MaxLog)
  PROVE  /\ Offer(s, new) \in Subs
         /\ Offer(s, new).state = s.state /\ Offer(s, new).after = s.after
         /\ Offer(s, new).high = s.high /\ Offer(s, new).replay = s.replay
         /\ Offer(s, new).truncated = s.truncated /\ Offer(s, new).next = s.next
         /\ Offer(s, new).last = s.last
         /\ s.overflowed => Offer(s, new) = s
         /\ s.state = "off" => Offer(s, new) = s
         /\ s.state # "off" /\ ~ Offer(s, new).overflowed => Offer(s, new).live = s.live \o new
         /\ Len(s.live) <= LiveCap => Len(Offer(s, new).live) <= LiveCap
  <1>1. CASE s.state = "off" \/ s.overflowed
    BY <1>1 DEF Offer, Subs
  <1>2. CASE ~ (s.state = "off" \/ s.overflowed) /\ Len(s.live) + Len(new) <= LiveCap
    <2>1. Offer(s, new) = [s EXCEPT !.live = s.live \o new]
      BY <1>2 DEF Offer
    <2>2. /\ s.live \o new \in Seq(1 .. MaxLog)
          /\ Len(s.live \o new) = Len(s.live) + Len(new)
      BY DEF Subs
    <2>3. [s EXCEPT !.live = s.live \o new] \in Subs
      BY <2>2 DEF Subs
    <2> QED BY <1>2, <2>1, <2>2, <2>3 DEF Subs
  <1>3. CASE ~ (s.state = "off" \/ s.overflowed) /\ ~ (Len(s.live) + Len(new) <= LiveCap)
    <2>1. Offer(s, new) = [s EXCEPT !.live = <<>>, !.overflowed = TRUE]
      BY <1>3 DEF Offer
    <2>2. <<>> \in Seq(1 .. MaxLog) /\ Len(<<>>) <= LiveCap
      BY CapacitiesAssumption
    <2>3. [s EXCEPT !.live = <<>>, !.overflowed = TRUE] \in Subs
      BY <2>2 DEF Subs
    <2> QED BY <1>3, <2>1, <2>2, <2>3 DEF Subs
  <1> QED BY <1>1, <1>2, <1>3

\* The committed batch reaches the subscriptions.
LEMMA FanOutKeeps ==
  ASSUME DeliveryInv, FanOut
  PROVE  DeliveryInv'
  <1>1. Typed
    BY DEF DeliveryInv
  <1>2. Grown
    BY <1>1 DEF Grown, FanOut, Typed, countVars
  <1>3. latest' = Len(log) /\ Len(log) \in Nat /\ latest \in Nat /\ latest <= Len(log) /\ Len(log) <= MaxLog
    BY <1>1 DEF Typed, FanOut
  <1>4. ASSUME NEW c \in Clients
        PROVE  /\ InOrder(Wants(c, latest, Len(log))) \in Seq(1 .. MaxLog)
               /\ sub'[c] = Offer(sub[c], InOrder(Wants(c, latest, Len(log))))
               /\ sub'[c] \in Subs
               /\ UNCHANGED <<conn[c], wire[c], lastCursor[c], inbox[c], overflow[c], asking[c],
                              pos[c], seen[c]>>
    <2>1. InOrder(Wants(c, latest, Len(log))) \in Seq(1 .. Len(log))
      BY <1>3, OrderIs
    <2>2. 1 .. Len(log) \subseteq 1 .. MaxLog
      BY <1>3, CapacitiesAssumption
    <2>3. InOrder(Wants(c, latest, Len(log))) \in Seq(1 .. MaxLog)
      BY <2>1, <2>2, SeqMonotonic
    <2>4. sub[c] \in Subs
      BY <1>1 DEF Typed
    <2>5. Offer(sub[c], InOrder(Wants(c, latest, Len(log)))) \in Subs
      BY <2>3, <2>4, OffersAre
    <2>6. sub'[c] = Offer(sub[c], InOrder(Wants(c, latest, Len(log))))
      BY DEF FanOut
    <2> QED BY <2>3, <2>5, <2>6 DEF FanOut, connVars, webVars, clientVars
  <1>5. Typed'
    <2>1. sub' \in [Clients -> Subs]
      BY <1>4 DEF FanOut
    <2> QED BY <1>1, <1>3, <2>1 DEF Typed, FanOut, connVars, webVars, clientVars, countVars
  <1>6. ASSUME NEW c \in Clients PROVE ClientInv(c)'
    <2> DEFINE new == InOrder(Wants(c, latest, Len(log)))
    <2>1. /\ sub[c] \in Subs /\ new \in Seq(1 .. MaxLog) /\ sub'[c] = Offer(sub[c], new)
          /\ conn'[c] = conn[c] /\ wire'[c] = wire[c] /\ lastCursor'[c] = lastCursor[c]
          /\ inbox'[c] = inbox[c] /\ overflow'[c] = overflow[c] /\ asking'[c] = asking[c]
          /\ pos'[c] = pos[c] /\ seen'[c] = seen[c]
      BY <1>1, <1>4 DEF Typed
    <2> HIDE DEF new
    <2>2. /\ sub'[c].state = sub[c].state /\ sub'[c].after = sub[c].after
          /\ sub'[c].high = sub[c].high /\ sub'[c].replay = sub[c].replay
          /\ sub'[c].truncated = sub[c].truncated /\ sub'[c].next = sub[c].next
          /\ sub'[c].last = sub[c].last
          /\ sub[c].overflowed => sub'[c].overflowed
          /\ sub[c].state # "off" /\ ~ sub'[c].overflowed => sub'[c].live = sub[c].live \o new
          /\ Len(sub[c].live) <= LiveCap => Len(sub'[c].live) <= LiveCap
      <3>1. /\ Offer(sub[c], new).state = sub[c].state /\ Offer(sub[c], new).after = sub[c].after
            /\ Offer(sub[c], new).high = sub[c].high /\ Offer(sub[c], new).replay = sub[c].replay
            /\ Offer(sub[c], new).truncated = sub[c].truncated
            /\ Offer(sub[c], new).next = sub[c].next /\ Offer(sub[c], new).last = sub[c].last
        BY <2>1, OffersAre
      <3>2. sub[c].overflowed => Offer(sub[c], new) = sub[c]
        BY <2>1, OffersAre
      <3>3. /\ sub[c].state # "off" /\ ~ Offer(sub[c], new).overflowed =>
                  Offer(sub[c], new).live = sub[c].live \o new
            /\ Len(sub[c].live) <= LiveCap => Len(Offer(sub[c], new).live) <= LiveCap
        BY <2>1, OffersAre
      <3> QED BY <2>1, <3>1, <3>2, <3>3
    <2>3. /\ pos[c] \in Nat /\ latest <= Len(log)
          /\ sub[c].high \in Nat /\ sub[c].next \in Nat /\ sub[c].last \in Nat
      BY <1>1, NumbersAre
    <2>4. front' = front /\ log' = log /\ hub' = hub
      BY DEF FanOut, countVars
    <2>5. \A low \in Nat, high \in Nat : high <= Len(log) =>
             /\ Wants(c, low, high)' = Wants(c, low, high)
             /\ \A q : Carries(q, c, low, high)' = Carries(q, c, low, high)
             /\ \A q : Closes(q, c, low, high)' = Closes(q, c, low, high)
      BY <1>1, <1>2, WantsStay
    <2>6. Sized(c)'
      BY <2>1, <2>2 DEF DeliveryInv, ClientInv, Sized
    <2>7. pos'[c] <= Len(log') /\ seen'[c] = InOrder(Wants(c, 0, pos[c]))'
      BY <2>1, <2>3, <2>4, <2>5 DEF DeliveryInv, ClientInv
    <2>8. CASE front[c] = "command"
      <3>1. Apart(c)
        BY <2>8 DEF DeliveryInv, ClientInv
      <3>2. Apart(c)'
        BY <2>1, <2>2, <3>1 DEF Apart, Quiet
      <3> QED BY <2>4, <2>6, <2>7, <2>8, <3>2 DEF ClientInv
    <2>9. CASE front[c] # "command"
      <3>1. pos[c] <= latest /\ Rests(c) /\ Loads(c) /\ OnTheWay(c) /\ LastTaken(c)
        BY <2>9 DEF DeliveryInv, ClientInv
      <3>2. Rests(c)'
        BY <2>1, <2>2, <2>4, <3>1 DEF Rests, Quiet
      <3>3. \A k \in Nat : k <= latest =>
               InOrder(Wants(c, k, Len(log))) = InOrder(Wants(c, k, latest)) \o new
        BY <1>3, OrderSplits DEF new
      <3>4. Loads(c)'
        <4> SUFFICES ASSUME sub[c].state = "loading"
                     PROVE  Loads(c)'
          BY <2>2 DEF Loads
        <4>1. /\ sub[c].after = pos[c] /\ pos[c] <= sub[c].high /\ sub[c].high <= latest
              /\ ~ sub[c].overflowed => sub[c].live = InOrder(Wants(c, sub[c].high, latest))
          BY <3>1 DEF Loads
        <4>2. sub'[c].after = pos'[c] /\ pos'[c] <= sub'[c].high /\ sub'[c].high <= latest'
          BY <1>3, <2>1, <2>2, <2>3, <4>1
        <4>3. Wants(c, sub[c].high, latest)' = Wants(c, sub[c].high, Len(log))
          BY <1>3, <2>2, <2>3, <2>5
        <4>4. ~ sub'[c].overflowed => sub'[c].live = InOrder(Wants(c, sub[c].high, Len(log)))
          BY <2>2, <2>3, <3>3, <4>1
        <4> QED BY <4>2, <4>3, <4>4 DEF Loads
      <3>5. OnTheWay(c)'
        <4> SUFFICES ASSUME conn[c] # "down", ~ overflow[c]
                     PROVE  OnTheWay(c)'
          BY <2>1 DEF OnTheWay
        <4>1. PICK x \in Nat, e \in Nat : Way(c, x, e)
          BY <3>1 DEF OnTheWay
        <4>2. e <= Len(log) /\ x <= Len(log) /\ e <= latest
          BY <1>3, <4>1 DEF Way
        <4>3. Streams(c, e)'
          <5> SUFFICES ASSUME sub[c].state = "live"
                       PROVE  Streams(c, e)'
            BY <2>2 DEF Streams
          <5>1. /\ sub[c].next <= latest /\ sub[c].last <= Top(e, sub[c].next)
                /\ sub[c].replay = InOrder(Wants(c, e, sub[c].next))
                /\ ~ sub[c].truncated /\ ~ sub[c].overflowed =>
                      sub[c].live = InOrder(Wants(c, Top(e, sub[c].next), latest))
            BY <4>1 DEF Way, Streams
          <5>2. Top(e, sub[c].next) \in Nat /\ Top(e, sub[c].next) <= latest
            BY <2>3, <4>2, <5>1 DEF Top
          <5>3. Top(e, sub[c].next)' = Top(e, sub[c].next)
            BY <2>2 DEF Top
          <5>4. sub'[c].next <= latest' /\ sub'[c].last <= Top(e, sub[c].next)'
            BY <1>3, <2>2, <2>3, <5>1, <5>3
          <5>5. sub'[c].replay = InOrder(Wants(c, e, sub[c].next))'
            BY <1>3, <2>2, <2>3, <2>5, <5>1
          <5>6. ~ sub'[c].truncated /\ ~ sub'[c].overflowed =>
                   sub'[c].live = InOrder(Wants(c, Top(e, sub[c].next), latest))'
            <6>1. Wants(c, Top(e, sub[c].next), latest)' = Wants(c, Top(e, sub[c].next), Len(log))
              BY <1>3, <2>5, <5>2, <5>3
            <6>2. ~ sub'[c].truncated /\ ~ sub'[c].overflowed =>
                     sub'[c].live = InOrder(Wants(c, Top(e, sub[c].next), Len(log)))
              BY <2>2, <3>3, <5>1, <5>2
            <6> QED BY <6>1, <6>2
          <5> QED BY <5>4, <5>5, <5>6 DEF Streams
        <4>4. Way(c, x, e)'
          BY <1>3, <2>1, <2>3, <2>5, <4>1, <4>2, <4>3 DEF Way
        <4> QED BY <4>4 DEF OnTheWay
      <3>6. LastTaken(c)'
        <4> SUFFICES ASSUME overflow[c], asking[c]
                     PROVE  LastTaken(c)'
          BY <2>1 DEF LastTaken
        <4>1. inbox[c] # <<>> /\ First(c, Head(inbox[c]))
          BY <3>1 DEF LastTaken
        <4>2. First(c, Head(inbox[c]))'
          BY <1>1, <1>2, <1>3, <2>1, <2>3, <3>1, <4>1, FirstStays
        <4> QED BY <2>1, <4>1, <4>2 DEF LastTaken
      <3>7. pos'[c] <= latest'
        BY <1>3, <2>1, <2>3, <3>1
      <3> QED BY <2>4, <2>6, <2>7, <2>9, <3>2, <3>4, <3>5, <3>6, <3>7 DEF ClientInv
    <2> QED BY <2>8, <2>9
  <1> QED BY <1>5, <1>6 DEF DeliveryInv

\* A subscription that is over stays that way.
LEMMA WorkerFailsKeeps ==
  ASSUME DeliveryInv, WorkerFails
  PROVE  DeliveryInv'
  <1>1. Typed
    BY DEF DeliveryInv
  <1>2. Grown
    <2>1. log' = log /\ front' = front
      BY DEF WorkerFails, countVars
    <2>2. Len(log) \in Nat
      BY <1>1 DEF Typed
    <2> QED BY <2>1, <2>2 DEF Grown
  <1>3. ASSUME NEW c \in Clients
        PROVE  /\ sub'[c] \in Subs
               /\ sub[c].state = "off" => sub'[c] = sub[c]
               /\ sub'[c].state = sub[c].state /\ sub'[c].after = sub[c].after
               /\ sub'[c].high = sub[c].high /\ sub'[c].replay = sub[c].replay
               /\ sub'[c].truncated = sub[c].truncated /\ sub'[c].next = sub[c].next
               /\ sub'[c].last = sub[c].last
               /\ sub[c].state # "off" => sub'[c].overflowed
               /\ Len(sub[c].live) <= LiveCap => Len(sub'[c].live) <= LiveCap
    <2>1. sub[c] \in Subs /\ <<>> \in Seq(1 .. MaxLog) /\ Len(<<>>) <= LiveCap
      BY <1>1, CapacitiesAssumption DEF Typed
    <2>2. sub'[c] = IF sub[c].state = "off" THEN sub[c]
                    ELSE [sub[c] EXCEPT !.live = <<>>, !.overflowed = TRUE]
      BY DEF WorkerFails
    <2> QED BY <2>1, <2>2 DEF Subs
  <1>4. Typed'
    <2>1. sub' \in [Clients -> Subs]
      BY <1>3 DEF WorkerFails
    <2> QED BY <1>1, <2>1 DEF Typed, WorkerFails, connVars, webVars, clientVars, countVars
  <1>5. ASSUME NEW c \in Clients PROVE ClientInv(c)'
    <2>1. /\ conn'[c] = conn[c] /\ wire'[c] = wire[c] /\ lastCursor'[c] = lastCursor[c]
          /\ inbox'[c] = inbox[c] /\ overflow'[c] = overflow[c] /\ asking'[c] = asking[c]
          /\ pos'[c] = pos[c] /\ seen'[c] = seen[c]
          /\ front' = front /\ log' = log /\ hub = "up" /\ hub' = "failed" /\ latest' = latest
      BY DEF WorkerFails, connVars, webVars, clientVars, countVars
    <2>2. CASE sub[c].state = "off"
      <3>1. Untouched(c)
        BY <1>3, <2>1, <2>2 DEF Untouched
      <3> QED BY <1>1, <1>2, <2>1, <3>1, ClientStays DEF DeliveryInv
    <2>3. CASE sub[c].state # "off"
      <3>1. /\ pos[c] \in Nat /\ latest \in Nat /\ Len(log) \in Nat /\ latest <= Len(log)
            /\ sub[c].high \in Nat /\ sub[c].next \in Nat /\ sub[c].last \in Nat
        BY <1>1, NumbersAre
      <3>2. \A low \in Nat, high \in Nat : high <= Len(log) =>
               /\ Wants(c, low, high)' = Wants(c, low, high)
               /\ \A q : Carries(q, c, low, high)' = Carries(q, c, low, high)
               /\ \A q : Closes(q, c, low, high)' = Closes(q, c, low, high)
        BY <1>1, <1>2, WantsStay
      <3>3. Sized(c)'
        BY <1>3, <2>1 DEF DeliveryInv, ClientInv, Sized
      <3>4. pos'[c] <= Len(log') /\ seen'[c] = InOrder(Wants(c, 0, pos[c]))'
        BY <2>1, <3>1, <3>2 DEF DeliveryInv, ClientInv
      <3>5. front[c] # "command" /\ pos[c] <= latest
            /\ Rests(c) /\ Loads(c) /\ OnTheWay(c) /\ LastTaken(c)
        BY <2>3 DEF DeliveryInv, ClientInv, Apart
      <3>6. Rests(c)'
        BY <1>3, <2>1, <3>5 DEF Rests, Quiet
      <3>7. Loads(c)'
        BY <1>3, <2>1, <2>3, <3>5 DEF Loads
      <3>8. OnTheWay(c)'
        <4> SUFFICES ASSUME conn[c] # "down", ~ overflow[c]
                     PROVE  OnTheWay(c)'
          BY <2>1 DEF OnTheWay
        <4>1. PICK x \in Nat, e \in Nat : Way(c, x, e)
          BY <3>5 DEF OnTheWay
        <4>2. e <= Len(log) /\ x <= Len(log)
          BY <3>1, <4>1 DEF Way
        <4>3. Streams(c, e)'
          <5>1. Streams(c, e)
            BY <4>1 DEF Way
          <5> QED BY <1>3, <2>1, <2>3, <3>1, <3>2, <5>1 DEF Streams, Top
        <4>4. Way(c, x, e)'
          BY <2>1, <3>1, <3>2, <4>1, <4>2, <4>3 DEF Way
        <4> QED BY <4>4 DEF OnTheWay
      <3>9. LastTaken(c)'
        BY <1>1, <1>2, <2>1, <3>1, <3>5, FirstStays DEF LastTaken
      <3> QED BY <2>1, <3>3, <3>4, <3>5, <3>6, <3>7, <3>8, <3>9 DEF ClientInv
    <2> QED BY <2>2, <2>3
  <1> QED BY <1>4, <1>5 DEF DeliveryInv

\* A process that ends takes the subscriptions with it; what was sent is still on the wire.
LEMMA ProcessEndsKeeps ==
  ASSUME DeliveryInv, ProcessEnds
  PROVE  DeliveryInv'
  <1>1. Typed
    BY DEF DeliveryInv
  <1>2. Grown
    BY <1>1 DEF Grown, ProcessEnds, Typed, countVars
  <1>3. NoSub \in Subs /\ Len(NoSub.live) = 0 /\ Len(NoSub.replay) = 0 /\ NoSub.state = "off"
    <2>1. <<>> \in Seq(1 .. MaxLog) /\ 0 \in 0 .. MaxLog
      BY CapacitiesAssumption
    <2> QED BY <2>1 DEF NoSub, Subs
  <1>4. Typed'
    <2>1. /\ sub' \in [Clients -> Subs] /\ conn' \in [Clients -> {"down", "up", "eof"}]
      BY <1>1, <1>3 DEF ProcessEnds, Typed
    <2>2. stops' \in 0 .. Stops
      BY <1>1, CapacitiesAssumption DEF Typed, ProcessEnds
    <2> QED BY <1>1, <2>1, <2>2 DEF Typed, ProcessEnds, webVars, clientVars
  <1>5. ASSUME NEW c \in Clients PROVE ClientInv(c)'
    <2>1. /\ wire'[c] = wire[c] /\ lastCursor'[c] = lastCursor[c]
          /\ inbox'[c] = inbox[c] /\ overflow'[c] = overflow[c] /\ asking'[c] = asking[c]
          /\ pos'[c] = pos[c] /\ seen'[c] = seen[c] /\ sub'[c] = NoSub
          /\ conn'[c] = (IF conn[c] = "down" THEN "down" ELSE "eof")
          /\ front' = front /\ log' = log /\ latest' = latest
      BY DEF ProcessEnds, webVars, clientVars
    <2>2. /\ pos[c] \in Nat /\ latest \in Nat /\ Len(log) \in Nat /\ latest <= Len(log)
      BY <1>1, NumbersAre
    <2>3. \A low \in Nat, high \in Nat : high <= Len(log) =>
             /\ Wants(c, low, high)' = Wants(c, low, high)
             /\ \A q : Carries(q, c, low, high)' = Carries(q, c, low, high)
             /\ \A q : Closes(q, c, low, high)' = Closes(q, c, low, high)
      BY <1>1, <1>2, WantsStay
    <2>4. Sized(c)'
      BY <1>3, <2>1, CapacitiesAssumption DEF DeliveryInv, ClientInv, Sized
    <2>5. pos'[c] <= Len(log') /\ seen'[c] = InOrder(Wants(c, 0, pos[c]))'
      BY <2>1, <2>2, <2>3 DEF DeliveryInv, ClientInv
    <2>6. CASE front[c] = "command"
      BY <1>3, <2>1, <2>4, <2>5, <2>6 DEF DeliveryInv, ClientInv, Apart, Quiet
    <2>7. CASE front[c] # "command"
      <3>1. pos[c] <= latest /\ Rests(c) /\ Loads(c) /\ OnTheWay(c) /\ LastTaken(c)
        BY <2>7 DEF DeliveryInv, ClientInv
      <3>2. Rests(c)'
        BY <1>3, <2>1, <3>1 DEF Rests, Quiet
      <3>3. Loads(c)'
        BY <1>3, <2>1 DEF Loads
      <3>4. OnTheWay(c)'
        <4> SUFFICES ASSUME conn[c] # "down", ~ overflow[c]
                     PROVE  OnTheWay(c)'
          BY <2>1 DEF OnTheWay
        <4>1. PICK x \in Nat, e \in Nat : Way(c, x, e)
          BY <3>1 DEF OnTheWay
        <4>2. e <= Len(log) /\ x <= Len(log)
          BY <2>2, <4>1 DEF Way
        <4>3. Streams(c, e)'
          BY <1>3, <2>1 DEF Streams
        <4>4. Way(c, x, e)'
          BY <2>1, <2>2, <2>3, <4>1, <4>2, <4>3 DEF Way
        <4> QED BY <4>4 DEF OnTheWay
      <3>5. LastTaken(c)'
        BY <1>1, <1>2, <2>1, <2>2, <3>1, FirstStays DEF LastTaken
      <3> QED BY <2>1, <2>4, <2>5, <2>7, <3>1, <3>2, <3>3, <3>4, <3>5 DEF ClientInv
    <2> QED BY <2>6, <2>7
  <1> QED BY <1>4, <1>5 DEF DeliveryInv

\* A new process starts where the log ends.
LEMMA HubStartsKeeps ==
  ASSUME DeliveryInv, HubStarts
  PROVE  DeliveryInv'
  <1>1. Typed
    BY DEF DeliveryInv
  <1>2. Grown
    BY <1>1 DEF Grown, HubStarts, Typed, countVars
  <1>3. latest' = Len(log) /\ Len(log) \in Nat /\ latest \in Nat /\ latest <= Len(log) /\ Len(log) <= MaxLog
    BY <1>1 DEF Typed, HubStarts
  <1>4. Typed'
    BY <1>1, <1>3, CapacitiesAssumption DEF Typed, HubStarts, connVars, webVars, clientVars, countVars
  <1>5. ASSUME NEW c \in Clients PROVE ClientInv(c)'
    <2>1. /\ conn'[c] = conn[c] /\ wire'[c] = wire[c] /\ lastCursor'[c] = lastCursor[c]
          /\ inbox'[c] = inbox[c] /\ overflow'[c] = overflow[c] /\ asking'[c] = asking[c]
          /\ pos'[c] = pos[c] /\ seen'[c] = seen[c] /\ sub'[c] = sub[c]
          /\ front' = front /\ log' = log
          /\ hub = "down" /\ hub' = "up"
      BY DEF HubStarts, connVars, webVars, clientVars, countVars
    <2>2. pos[c] \in Nat
      BY <1>1, NumbersAre
    <2>3. \A low \in Nat, high \in Nat : high <= Len(log) =>
             /\ Wants(c, low, high)' = Wants(c, low, high)
             /\ \A q : Carries(q, c, low, high)' = Carries(q, c, low, high)
             /\ \A q : Closes(q, c, low, high)' = Closes(q, c, low, high)
      BY <1>1, <1>2, WantsStay
    <2>4. Sized(c)'
      BY <2>1 DEF DeliveryInv, ClientInv, Sized
    <2>5. pos'[c] <= Len(log') /\ seen'[c] = InOrder(Wants(c, 0, pos[c]))'
      BY <1>3, <2>1, <2>2, <2>3 DEF DeliveryInv, ClientInv
    <2>6. CASE front[c] = "command"
      BY <2>1, <2>4, <2>5, <2>6 DEF DeliveryInv, ClientInv, Apart, Quiet
    <2>7. CASE front[c] # "command"
      <3>1. pos[c] <= latest /\ Rests(c) /\ Loads(c) /\ OnTheWay(c) /\ LastTaken(c)
        BY <2>7 DEF DeliveryInv, ClientInv
      <3>2. Rests(c)' /\ sub[c].state = "off"
        BY <2>1, <3>1 DEF Rests, Quiet
      <3>3. Loads(c)'
        BY <2>1, <3>2 DEF Loads
      <3>4. OnTheWay(c)'
        <4> SUFFICES ASSUME conn[c] # "down", ~ overflow[c]
                     PROVE  OnTheWay(c)'
          BY <2>1 DEF OnTheWay
        <4>1. PICK x \in Nat, e \in Nat : Way(c, x, e)
          BY <3>1 DEF OnTheWay
        <4>2. e <= Len(log) /\ x <= Len(log)
          BY <1>3, <4>1 DEF Way
        <4>3. Streams(c, e)'
          BY <2>1, <3>2 DEF Streams
        <4>4. Way(c, x, e)'
          BY <1>3, <2>1, <2>2, <2>3, <4>1, <4>2, <4>3 DEF Way
        <4> QED BY <4>4 DEF OnTheWay
      <3>5. LastTaken(c)'
        BY <1>1, <1>2, <1>3, <2>1, <2>2, <3>1, FirstStays DEF LastTaken
      <3>6. pos'[c] <= latest'
        BY <1>3, <2>1, <2>2, <3>1
      <3> QED BY <2>1, <2>4, <2>5, <2>7, <3>2, <3>3, <3>4, <3>5, <3>6 DEF ClientInv
    <2> QED BY <2>6, <2>7
  <1> QED BY <1>4, <1>5 DEF DeliveryInv

-------------------------------------------------------------------------------
(* Connections that begin and end keep the invariant *)

\* A client without a connection
LEMMA QuietIsSound ==
  ASSUME Typed, NEW c \in Clients, log' = log, front' = front, latest' = latest,
         sub'[c].state = "off", Quiet(c)', conn'[c] = "down" \/ (conn'[c] = "up" /\ lastCursor'[c] = 0),
         NEW p \in Nat, pos'[c] = p, p <= latest, seen'[c] = InOrder(Wants(c, 0, p)), Sized(c)'
  PROVE  ClientInv(c)'
  <1>1. Grown
    BY DEF Grown, Typed
  <1>2. latest \in Nat /\ Len(log) \in Nat /\ latest <= Len(log)
    BY NumbersAre
  <1>3. \A low \in Nat, high \in Nat : high <= Len(log) =>
           /\ Wants(c, low, high)' = Wants(c, low, high)
           /\ \A q : Carries(q, c, low, high)' = Carries(q, c, low, high)
    BY <1>1, WantsStay
  <1>4. pos'[c] <= Len(log') /\ pos'[c] <= latest' /\ seen'[c] = InOrder(Wants(c, 0, pos[c]))'
    BY <1>2, <1>3
  <1>5. Rests(c)' /\ Loads(c)' /\ LastTaken(c)'
    BY DEF Rests, Loads, LastTaken, Quiet
  <1>6. OnTheWay(c)'
    <2> SUFFICES ASSUME conn'[c] = "up", lastCursor'[c] = 0
                 PROVE  Way(c, p, p)'
      BY DEF OnTheWay
    <2>1. Carries(<<>>, c, p, p)
      BY CarriesNothing, WantsNothing
    <2>2. Carries(inbox[c], c, pos[c], p)' /\ Carries(wire[c], c, p, p)'
      BY <1>2, <1>3, <2>1 DEF Quiet
    <2> QED BY <2>2 DEF Way, Streams
  <1> QED BY <1>4, <1>5, <1>6 DEF ClientInv, Apart

\* While the log stays, so does what is wanted from it.
LEMMA WantsSame ==
  ASSUME log' = log, front' = front
  PROVE  /\ \A c, low, high : Wants(c, low, high)' = Wants(c, low, high)
         /\ \A q, c, low, high : Carries(q, c, low, high)' = Carries(q, c, low, high)
         /\ \A q, c, low, high : Closes(q, c, low, high)' = Closes(q, c, low, high)
  <1>1. \A c, low, high : Wants(c, low, high)' = Wants(c, low, high)
    BY DEF Wants, Wanted, Interest
  <1> QED BY <1>1 DEF Carries, Closes

\* NoSub is a subscription without anything.
LEMMA NoSubIs ==
  /\ NoSub \in Subs /\ NoSub.state = "off" /\ NoSub.overflowed = FALSE
  /\ Len(NoSub.live) <= LiveCap /\ Len(NoSub.replay) <= ReplayLimit
  <1>1. <<>> \in Seq(1 .. MaxLog) /\ 0 \in 0 .. MaxLog /\ Len(<<>>) = 0
    BY CapacitiesAssumption
  <1> QED BY <1>1, CapacitiesAssumption DEF NoSub, Subs

\* A client leaves its connection.
LEMMA LeaveKeeps ==
  ASSUME DeliveryInv, NEW c \in Clients, Leave(c),
         UNCHANGED <<log, hub, worker, latest, lastCursor, losses, stops, front>>,
         NEW p \in 0 .. MaxLog, pos' = [pos EXCEPT ![c] = p], p <= latest,
         seen' \in [Clients -> Seq(Nat)], \A d \in Clients \ {c} : seen'[d] = seen[d],
         seen'[c] = InOrder(Wants(c, 0, p))
  PROVE  DeliveryInv'
  <1>1. Typed
    BY DEF DeliveryInv
  <1>2. <<>> \in SomeItems /\ Len(<<>>) = 0
    BY DEF SomeItems
  <1>3. Typed'
    BY <1>1, <1>2, NoSubIs DEF Typed, Leave, Unsubscribed
  <1>4. \A d \in Clients \ {c} : Untouched(d)
    BY <1>1 DEF Untouched, Leave, Unsubscribed, Typed
  <1>5. Quiet(c)' /\ sub'[c] = NoSub /\ conn'[c] = "down" /\ pos'[c] = p
    BY <1>1 DEF Quiet, Leave, Unsubscribed, Typed
  <1>6. Sized(c)'
    BY <1>2, <1>5, NoSubIs, CapacitiesAssumption DEF Sized, Quiet
  <1>7. ClientInv(c)'
    <2>1. sub'[c].state = "off" /\ p \in Nat
      BY <1>5, NoSubIs, CapacitiesAssumption
    <2> QED BY <1>1, <1>5, <1>6, <2>1, QuietIsSound
  <1> QED BY <1>3, <1>4, <1>7, OneClientMoves

\* A connection is made.
LEMMA ConnectKeeps ==
  ASSUME DeliveryInv, NEW c \in Clients, Connect(c)
  PROVE  DeliveryInv'
  <1>1. Typed /\ ClientInv(c)
    BY DEF DeliveryInv
  <1>2. Typed'
    BY <1>1, CapacitiesAssumption DEF Typed, Connect, hubVars, webVars, clientVars, countVars
  <1>3. \A d \in Clients \ {c} : Untouched(d)
    BY <1>1 DEF Untouched, Connect, webVars, clientVars, Typed
  <1>4. /\ conn'[c] = "up" /\ lastCursor'[c] = 0 /\ pos'[c] = pos[c] /\ seen'[c] = seen[c]
        /\ sub'[c] = sub[c] /\ wire'[c] = wire[c] /\ inbox'[c] = inbox[c] /\ conn[c] = "down"
        /\ overflow'[c] = overflow[c] /\ asking'[c] = asking[c]
        /\ UNCHANGED <<log, latest, hub, front>>
    BY <1>1 DEF Connect, Typed, hubVars, webVars, clientVars, countVars
  <1>5. Sized(c)'
    BY <1>1, <1>4 DEF ClientInv, Sized
  <1>6. pos[c] \in Nat
    BY <1>1, NumbersAre
  <1>7. ClientInv(c)'
    <2>1. CASE front[c] = "command"
      <3>1. Apart(c)
        BY <1>1, <2>1 DEF ClientInv
      <3>2. Apart(c)'
        BY <1>4, <3>1 DEF Apart, Quiet
      <3>3. pos'[c] <= Len(log') /\ seen'[c] = InOrder(Wants(c, 0, pos[c]))'
        <4>2. pos[c] <= Len(log) /\ seen[c] = InOrder(Wants(c, 0, pos[c]))
          BY <1>1 DEF ClientInv
        <4>3. Wants(c, 0, pos[c])' = Wants(c, 0, pos[c])
          BY <1>4, WantsSame
        <4> QED BY <1>4, <4>2, <4>3
      <3> QED BY <1>4, <1>5, <2>1, <3>2, <3>3 DEF ClientInv
    <2>2. CASE front[c] # "command"
      <3>1. Rests(c) /\ pos[c] <= latest /\ seen[c] = InOrder(Wants(c, 0, pos[c]))
        BY <1>1, <2>2 DEF ClientInv
      <3>2. sub[c].state = "off" /\ Quiet(c)
        BY <1>4, <3>1 DEF Rests
      <3>3. Quiet(c)'
        BY <1>4, <3>2 DEF Quiet
      <3> QED BY <1>1, <1>4, <1>5, <1>6, <3>1, <3>2, <3>3, QuietIsSound
    <2> QED BY <2>1, <2>2
  <1> QED BY <1>2, <1>3, <1>4, <1>7, OneClientMoves

\* A refused subscription ends the connection.
LEMMA SubscribeRefusedKeeps ==
  ASSUME DeliveryInv, NEW c \in Clients, front[c] # "command", SubscribeRefused(c)
  PROVE  DeliveryInv'
  <1>1. Typed /\ ClientInv(c)
    BY DEF DeliveryInv
  <1>2. Typed'
    BY <1>1 DEF Typed, SubscribeRefused, hubVars, webVars, clientVars, countVars
  <1>3. \A d \in Clients \ {c} : Untouched(d)
    BY <1>1 DEF Untouched, SubscribeRefused, webVars, clientVars, Typed
  <1>4. /\ conn'[c] = "down" /\ conn[c] = "up" /\ sub[c].state = "off"
        /\ UNCHANGED <<log, latest, hub, front>>
        /\ UNCHANGED <<sub, wire, lastCursor, inbox, overflow, asking, pos, seen>>
    BY <1>1 DEF SubscribeRefused, Typed, hubVars, webVars, clientVars, countVars
  <1>5. Sized(c)'
    BY <1>1, <1>4 DEF ClientInv, Sized
  <1>6. pos[c] \in Nat
    BY <1>1, NumbersAre
  <1>7. Rests(c) /\ pos[c] <= latest /\ seen[c] = InOrder(Wants(c, 0, pos[c]))
    BY <1>1 DEF ClientInv
  <1>8. Quiet(c)'
    BY <1>4, <1>7 DEF Rests, Quiet
  <1>9. ClientInv(c)'
    BY <1>1, <1>4, <1>5, <1>6, <1>7, <1>8, QuietIsSound
  <1> QED BY <1>2, <1>3, <1>4, <1>9, OneClientMoves

\* The browser comes back after an overflow.
LEMMA BrowserResyncsKeeps ==
  ASSUME DeliveryInv, NEW c \in Clients, BrowserResyncs(c)
  PROVE  DeliveryInv'
  <1>1. Typed /\ ClientInv(c)
    BY DEF DeliveryInv
  <1>2. front[c] # "command"
    BY <1>1 DEF BrowserResyncs, ClientInv, Apart, Quiet
  <1>3. pos[c] <= latest /\ seen[c] = InOrder(Wants(c, 0, pos[c])) /\ pos[c] \in 0 .. MaxLog
    BY <1>1, <1>2 DEF ClientInv, Typed
  <1>4. /\ Leave(c) /\ UNCHANGED <<log, hub, worker, latest, lastCursor, losses, stops, front>>
        /\ pos' = pos /\ seen' = seen
    BY DEF BrowserResyncs, ResumeFromDelivered, hubVars, countVars
  <1>5. pos' = [pos EXCEPT ![c] = pos[c]] /\ seen' \in [Clients -> Seq(Nat)]
    BY <1>1, <1>4 DEF Typed
  <1> QED BY <1>3, <1>4, <1>5, LeaveKeeps

\* A client sees the end of its connection.
LEMMA SeesEofKeeps ==
  ASSUME DeliveryInv, NEW c \in Clients, front[c] # "command", SeesEof(c)
  PROVE  DeliveryInv'
  <1>1. Typed /\ ClientInv(c)
    BY DEF DeliveryInv
  <1>2. pos[c] <= latest /\ seen[c] = InOrder(Wants(c, 0, pos[c])) /\ pos[c] \in 0 .. MaxLog
    BY <1>1 DEF ClientInv, Typed
  <1>3. /\ Leave(c) /\ UNCHANGED <<log, hub, worker, latest, lastCursor, losses, stops, front>>
        /\ pos' = pos /\ seen' = seen
    BY DEF SeesEof, hubVars, clientVars, countVars
  <1>4. pos' = [pos EXCEPT ![c] = pos[c]] /\ seen' \in [Clients -> Seq(Nat)]
    BY <1>1, <1>3 DEF Typed
  <1> QED BY <1>2, <1>3, <1>4, LeaveKeeps

-------------------------------------------------------------------------------
(* Subscriptions and their replays keep the invariant *)

\* The first of a set are all up to the last of them.
LEMMA FirstAre ==
  ASSUME NEW n \in Nat, NEW S \in SUBSET (1 .. n), NEW limit \in Nat
  PROVE  /\ FirstOf(S, limit) \in SUBSET S
         /\ Cardinality(S) <= limit => FirstOf(S, limit) = S
         /\ FirstOf(S, limit) # {} =>
               /\ Max(FirstOf(S, limit)) \in FirstOf(S, limit)
               /\ FirstOf(S, limit) = {k \in S : k <= Max(FirstOf(S, limit))}
         /\ Cardinality(FirstOf(S, limit)) <= limit
  <1> DEFINE F == FirstOf(S, limit)
  <1>1. F \in SUBSET S
    BY DEF FirstOf
  <1>2. IsFiniteSet(S) /\ Cardinality(S) \in Nat
    BY CursorsCounted
  <1>3. \A k \in S : Rank(S, k) \in Nat /\ Rank(S, k) <= Cardinality(S)
    <2> TAKE k \in S
    <2>1. Rank(S, k) \in 0 .. Cardinality(S)
      BY RanksGrow, k \in Nat
    <2> QED BY <1>2, <2>1
  <1>4. Cardinality(S) <= limit => F = S
    <2> SUFFICES ASSUME Cardinality(S) <= limit
                 PROVE  \A k \in S : Rank(S, k) <= limit
      BY DEF FirstOf
    <2> TAKE k \in S
    <2> QED BY <1>2, <1>3
  <1>5. CASE F = {}
    BY <1>1, <1>4, <1>5, FS_EmptySet
  <1>6. CASE F # {}
    <2> HIDE DEF F
    <2>1. F \in SUBSET (0 .. n)
      BY <1>1
    <2>2. Max(F) \in F /\ \A k \in F : k <= Max(F)
      BY <1>6, <2>1, MaxIsGreatest
    <2>0. Max(F) \in S /\ Max(F) \in Nat /\ \A j \in S : j \in Nat
      <3>1. \A j \in S : j \in Nat
        OBVIOUS
      <3> QED BY <1>1, <2>2, <3>1
    <2>3. \A k \in S : k <= Max(F) => k \in F
      <3> SUFFICES ASSUME NEW k \in S, k <= Max(F)
                   PROVE  k \in F
        OBVIOUS
      <3>1. {j \in S : j <= k} \in SUBSET {j \in S : j <= Max(F)}
        <4>1. \A j \in S : j <= k => j <= Max(F)
          BY <2>0
        <4> QED BY <4>1
      <3>2. IsFiniteSet({j \in S : j <= Max(F)})
        BY <1>2, FS_Subset
      <3>3. Rank(S, k) <= Rank(S, Max(F))
        BY <3>1, <3>2, FS_Subset DEF Rank
      <3>4. Rank(S, Max(F)) <= limit
        BY <2>2 DEF F, FirstOf
      <3>5. Rank(S, k) <= limit
        BY <1>3, <2>0, <3>3, <3>4
      <3> QED BY <3>5 DEF F, FirstOf
    <2>4. F = {k \in S : k <= Max(F)}
      BY <1>1, <2>2, <2>3
    <2>5. Cardinality(F) = Rank(S, Max(F))
      BY <2>4 DEF Rank
    <2>6. Rank(S, Max(F)) <= limit
      BY <2>2 DEF F, FirstOf
    <2> QED BY <1>1, <1>4, <2>2, <2>4, <2>5, <2>6 DEF F
  <1> QED BY <1>5, <1>6

\* The rows of a replay, the first of them, and the cursor to go on from
Replays(s, rows, scanned, next) ==
    /\ rows = Scoped(s.after, s.high)
    /\ scanned = FirstOf(rows, ReplayLimit)
    /\ next = NextCursor(s, scanned)

\* What a replay holds, and how far it goes
LEMMA ReplayIs ==
  ASSUME Typed, NEW c \in Clients, NEW s \in Subs, s.after <= s.high, s.high <= Len(log),
         NEW rows, NEW scanned, NEW next, Replays(s, rows, scanned, next)
  PROVE  /\ next \in s.after .. s.high
         /\ {k \in scanned : Wanted(c, k)} = Wants(c, s.after, next)
         /\ Cardinality(Wants(c, s.after, next)) <= ReplayLimit
         /\ ~ (Cardinality(rows) > ReplayLimit) => Wants(c, next, s.high) = {}
  <1>0. ReplayLimit \in Nat /\ s.after \in Nat /\ s.high \in Nat
    BY CapacitiesAssumption DEF Subs
  <1>1. /\ rows \in SUBSET (1 .. s.high) /\ rows \in SUBSET (s.after + 1 .. s.high)
        /\ \A k \in Nat : k \in rows <=> s.after < k /\ k <= s.high /\ log[k] \in Scope
    BY <1>0 DEF Replays, Scoped
  <1>2. /\ scanned \in SUBSET rows
        /\ Cardinality(rows) <= ReplayLimit => scanned = rows
        /\ scanned # {} => Max(scanned) \in scanned /\ scanned = {k \in rows : k <= Max(scanned)}
        /\ Cardinality(scanned) <= ReplayLimit
    <2>1. PICK n \in Nat : rows \in SUBSET (1 .. n)
      BY <1>0, <1>1
    <2>2. FirstOf(rows, ReplayLimit) \in SUBSET rows
      BY <1>0, <2>1, FirstAre
    <2>3. Cardinality(rows) <= ReplayLimit => FirstOf(rows, ReplayLimit) = rows
      BY <1>0, <2>1, FirstAre
    <2>4. Cardinality(FirstOf(rows, ReplayLimit)) <= ReplayLimit
      BY <1>0, <2>1, FirstAre
    <2>5. FirstOf(rows, ReplayLimit) # {} =>
             /\ Max(FirstOf(rows, ReplayLimit)) \in FirstOf(rows, ReplayLimit)
             /\ FirstOf(rows, ReplayLimit) = {k \in rows : k <= Max(FirstOf(rows, ReplayLimit))}
      BY <1>0, <2>1, FirstAre
    <2>6. scanned = FirstOf(rows, ReplayLimit)
      BY DEF Replays
    <2> QED BY <2>2, <2>3, <2>4, <2>5, <2>6
  <1>3. IsFiniteSet(rows) /\ Cardinality(rows) \in Nat
    BY <1>0, <1>1, CursorsCounted
  <1>4. \A k : Wanted(c, k) => log[k] \in Scope
    BY InterestAssumption DEF Wanted, Interest
  <1>5. next \in s.after .. s.high /\ (scanned # {} => next = Max(scanned)) /\ next \in Nat
        /\ (scanned = {} => next = s.after)
    BY <1>0, <1>1, <1>2 DEF Replays, NextCursor
  <1>6. /\ Wants(c, s.after, next) \in SUBSET (s.after + 1 .. next)
        /\ \A k \in Nat : k \in Wants(c, s.after, next) <=> s.after < k /\ k <= next /\ Wanted(c, k)
        /\ Wants(c, next, s.high) \in SUBSET (next + 1 .. s.high)
        /\ \A k \in Nat : k \in Wants(c, next, s.high) <=> next < k /\ k <= s.high /\ Wanted(c, k)
    BY <1>0, <1>5, WantsAre
  <1>7. {k \in scanned : Wanted(c, k)} = Wants(c, s.after, next)
    <2>1. CASE scanned = {}
      <3>1. Wants(c, s.after, next) = {}
        BY <1>0, <1>5, <2>1, WantsNothing
      <3> QED BY <2>1, <3>1
    <2>2. CASE scanned # {}
      <3>1. \A k \in scanned : k \in Nat /\ k \in rows /\ k <= next
        BY <1>0, <1>1, <1>2, <1>5, <2>2
      <3>2. \A k \in Wants(c, s.after, next) : k \in Nat
        BY <1>0, <1>6
      <3>3. \A k \in Nat : k \in scanned /\ Wanted(c, k) => k \in Wants(c, s.after, next)
        BY <1>1, <1>6, <3>1
      <3>4. \A k \in Nat : k \in Wants(c, s.after, next) => k \in scanned /\ Wanted(c, k)
        <4> SUFFICES ASSUME NEW k \in Nat, k \in Wants(c, s.after, next)
                     PROVE  k \in scanned /\ Wanted(c, k)
          OBVIOUS
        <4>1. s.after < k /\ k <= next /\ Wanted(c, k)
          BY <1>6
        <4>2. k \in rows
          BY <1>0, <1>1, <1>4, <1>5, <4>1
        <4> QED BY <1>2, <1>5, <2>2, <4>1, <4>2
      <3> QED BY <3>1, <3>2, <3>3, <3>4
    <2> QED BY <2>1, <2>2
  <1>8. Cardinality(Wants(c, s.after, next)) <= ReplayLimit
    <2>1. IsFiniteSet(scanned) /\ Wants(c, s.after, next) \in SUBSET scanned
      BY <1>2, <1>3, <1>7, FS_Subset
    <2>2. IsFiniteSet(Wants(c, s.after, next))
          /\ Cardinality(Wants(c, s.after, next)) <= Cardinality(scanned)
      BY <2>1, FS_Subset
    <2>3. Cardinality(scanned) \in Nat /\ Cardinality(Wants(c, s.after, next)) \in Nat
      BY <2>1, <2>2, FS_CardinalityType
    <2> QED BY <1>0, <1>2, <2>2, <2>3
  <1>9. ASSUME ~ (Cardinality(rows) > ReplayLimit) PROVE Wants(c, next, s.high) = {}
    <2>1. scanned = rows
      BY <1>0, <1>2, <1>3, <1>9
    <2>2. \A k \in Wants(c, next, s.high) : FALSE
      <3> TAKE k \in Wants(c, next, s.high)
      <3>1. k \in Nat /\ next < k /\ k <= s.high /\ Wanted(c, k)
        BY <1>5, <1>6
      <3>2. k \in rows
        BY <1>0, <1>1, <1>4, <1>5, <3>1
      <3>3. k <= next
        BY <1>2, <1>5, <2>1, <3>2
      <3> QED BY <1>5, <3>1, <3>3
    <2> QED BY <2>2
  <1> QED BY <1>5, <1>7, <1>8, <1>9

\* What the invariant says of a subscription, in one place
LEMMA SubscriptionIs ==
  ASSUME DeliveryInv, NEW c \in Clients, sub[c].state # "off"
  PROVE  /\ front[c] # "command" /\ pos[c] <= latest /\ seen[c] = InOrder(Wants(c, 0, pos[c]))
         /\ Rests(c) /\ Loads(c) /\ OnTheWay(c) /\ LastTaken(c) /\ Sized(c)
         /\ conn[c] = "up" /\ hub # "down" /\ sub[c] \in Subs
  <1>1. ClientInv(c) /\ Typed
    BY DEF DeliveryInv
  <1>2. front[c] # "command"
    BY <1>1 DEF ClientInv, Apart
  <1>3. conn[c] = "up" /\ hub # "down"
    BY <1>1, <1>2 DEF ClientInv, Rests
  <1>4. sub[c] \in Subs
    BY <1>1 DEF Typed
  <1> QED BY <1>1, <1>2, <1>3, <1>4 DEF ClientInv

\* The rest of the invariant of a client whose cursor, log and hub stay
LEMMA ClientHas ==
  ASSUME Typed, NEW c \in Clients, log' = log, front' = front, latest' = latest,
         pos'[c] = pos[c], seen'[c] = seen[c], pos[c] <= latest,
         seen[c] = InOrder(Wants(c, 0, pos[c])), front[c] # "command",
         Sized(c)', Rests(c)', Loads(c)', OnTheWay(c)', LastTaken(c)'
  PROVE  ClientInv(c)'
  <1>1. pos[c] \in Nat /\ latest \in Nat /\ Len(log) \in Nat /\ latest <= Len(log)
    BY NumbersAre
  <1>2. seen'[c] = InOrder(Wants(c, 0, pos[c]))'
    BY WantsSame
  <1> QED BY <1>1, <1>2 DEF ClientInv

\* A subscription is registered.
LEMMA SubscribeKeeps ==
  ASSUME DeliveryInv, NEW c \in Clients, front[c] # "command", Subscribe(c)
  PROVE  DeliveryInv'
  <1>1. Typed /\ ClientInv(c)
    BY DEF DeliveryInv
  <1>2. /\ conn[c] = "up" /\ sub[c].state = "off" /\ hub = "up"
        /\ UNCHANGED <<log, latest, hub, worker, front, losses, stops>>
        /\ UNCHANGED <<conn, wire, lastCursor, inbox, overflow, asking, pos, seen>>
    BY DEF Subscribe, hubVars, connVars, webVars, clientVars, countVars
  <1>3. /\ sub'[c] \in Subs /\ sub'[c].state = "loading" /\ sub'[c].after = pos[c]
        /\ sub'[c].high = latest /\ sub'[c].live = <<>> /\ sub'[c].replay = <<>>
    <2>1. sub'[c] = [NoSub EXCEPT !.state = "loading", !.after = pos[c], !.high = latest]
      BY <1>1 DEF Subscribe, Typed
    <2>2. pos[c] \in 0 .. MaxLog /\ latest \in 0 .. MaxLog
      BY <1>1 DEF Typed
    <2>3. NoSub \in Subs /\ NoSub.live = <<>> /\ NoSub.replay = <<>>
      BY NoSubIs DEF NoSub
    <2> QED BY <2>1, <2>2, <2>3 DEF Subs
  <1>4. Typed' /\ \A d \in Clients \ {c} : Untouched(d)
    <2>1. sub' \in [Clients -> Subs] /\ \A d \in Clients \ {c} : sub'[d] = sub[d]
      BY <1>1, <1>3 DEF Typed, Subscribe
    <2> QED BY <1>1, <1>2, <2>1 DEF Typed, Untouched
  <1>5. /\ Rests(c) /\ Loads(c) /\ OnTheWay(c) /\ LastTaken(c) /\ Sized(c) /\ pos[c] <= latest
        /\ seen[c] = InOrder(Wants(c, 0, pos[c]))
    BY <1>1 DEF ClientInv
  <1>6. Sized(c)'
    BY <1>2, <1>3, <1>5, CapacitiesAssumption DEF Sized
  <1>7. Rests(c)'
    BY <1>2, <1>3, <1>5 DEF Rests, Quiet
  <1>8. Loads(c)'
    <2>1. latest \in Nat
      BY <1>1, NumbersAre
    <2>2. InOrder(Wants(c, latest, latest)) = <<>>
      BY <2>1, WantsNothing
    <2>3. Wants(c, sub[c].high, latest)' = Wants(c, latest, latest)
      BY <1>2, <1>3, WantsSame
    <2> QED BY <1>2, <1>3, <1>5, <2>1, <2>2, <2>3 DEF Loads
  <1>9. OnTheWay(c)'
    <2> SUFFICES ASSUME ~ overflow[c]
                 PROVE  OnTheWay(c)'
      BY <1>2 DEF OnTheWay
    <2>1. PICK x \in Nat, e \in Nat : Way(c, x, e)
      BY <1>2, <1>5 DEF OnTheWay
    <2>2. Way(c, x, e)'
      BY <1>2, <1>3, <2>1, WantsSame DEF Way, Streams
    <2> QED BY <2>2 DEF OnTheWay
  <1>10. LastTaken(c)'
    BY <1>2, <1>5, <1>7 DEF Rests, LastTaken, Quiet
  <1>11. ClientInv(c)'
    BY <1>1, <1>2, <1>5, <1>6, <1>7, <1>8, <1>9, <1>10, ClientHas
  <1> QED BY <1>2, <1>4, <1>11, OneClientMoves

\* The replay is read, and the live queue goes on from there.
LEMMA LoadReplayKeeps ==
  ASSUME DeliveryInv, NEW c \in Clients, LoadReplay(c)
  PROVE  DeliveryInv'
  <1> DEFINE s == sub[c]
             rows == Scoped(s.after, s.high)
             scanned == FirstOf(rows, ReplayLimit)
             next == NextCursor(s, scanned)
  <1>1. Typed
    BY DEF DeliveryInv
  <1>2. /\ s.state = "loading"
        /\ UNCHANGED <<log, latest, hub, worker, front, losses, stops>>
        /\ UNCHANGED <<conn, wire, lastCursor, inbox, overflow, asking, pos, seen>>
    BY DEF LoadReplay, hubVars, connVars, webVars, clientVars, countVars
  <1>3. /\ front[c] # "command" /\ pos[c] <= latest /\ seen[c] = InOrder(Wants(c, 0, pos[c]))
        /\ Rests(c) /\ Loads(c) /\ OnTheWay(c) /\ LastTaken(c) /\ Sized(c)
        /\ conn[c] = "up" /\ hub # "down" /\ s \in Subs
    BY <1>2, SubscriptionIs
  <1>4. /\ s.after = pos[c] /\ pos[c] <= s.high /\ s.high <= latest
        /\ ~ s.overflowed => s.live = InOrder(Wants(c, s.high, latest))
    BY <1>2, <1>3 DEF Loads
  <1>5. /\ pos[c] \in Nat /\ latest \in Nat /\ latest <= Len(log) /\ Len(log) <= MaxLog
        /\ s.high \in Nat /\ Len(log) \in Nat /\ MaxLog \in Nat
    BY <1>1, NumbersAre
  <1>6. /\ next \in s.after .. s.high
        /\ {k \in scanned : Wanted(c, k)} = Wants(c, s.after, next)
        /\ Cardinality(Wants(c, s.after, next)) <= ReplayLimit
        /\ ~ (Cardinality(rows) > ReplayLimit) => Wants(c, next, s.high) = {}
    <2>1. s.after <= s.high /\ s.high <= Len(log)
      BY <1>4, <1>5
    <2>2. Replays(s, rows, scanned, next)
      BY DEF Replays
    <2> HIDE DEF s, rows, scanned, next
    <2> QED BY <1>1, <1>3, <2>1, <2>2, ReplayIs
  <1>7. sub' = [sub EXCEPT ![c] = [s EXCEPT !.state = "live",
                  !.replay = InOrder({k \in scanned : Wanted(c, k)}),
                  !.truncated = Cardinality(rows) > ReplayLimit, !.next = next, !.last = next]]
    BY DEF LoadReplay
  <1> HIDE DEF scanned, rows, next
  <1>8. next \in Nat /\ next \in 0 .. MaxLog /\ pos[c] <= next /\ next <= s.high
    BY <1>4, <1>5, <1>6
  <1> DEFINE replay == InOrder(Wants(c, pos[c], next))
  <1>9. replay \in Seq(1 .. MaxLog) /\ Len(replay) <= ReplayLimit
    <2>1. replay \in Seq(1 .. next)
      BY <1>5, <1>8, OrderIs
    <2>2. 1 .. next \subseteq 1 .. MaxLog
      BY <1>5, <1>8
    <2>3. Len(replay) = Cardinality(Wants(c, pos[c], next))
      <3>1. Wants(c, pos[c], next) \in SUBSET (1 .. next)
        BY <1>5, <1>8, WantsAre
      <3> QED BY <1>8, <3>1, InOrderIs
    <2> QED BY <1>4, <1>6, <2>1, <2>2, <2>3, SeqMonotonic
  <1>10. /\ sub'[c] \in Subs /\ sub'[c].state = "live" /\ sub'[c].replay = replay
         /\ sub'[c].live = s.live /\ sub'[c].overflowed = s.overflowed
         /\ sub'[c].truncated = (Cardinality(rows) > ReplayLimit)
         /\ sub'[c].next = next /\ sub'[c].last = next
    <2>1. sub'[c] = [s EXCEPT !.state = "live", !.replay = replay,
                       !.truncated = Cardinality(rows) > ReplayLimit, !.next = next, !.last = next]
      BY <1>1, <1>4, <1>6, <1>7 DEF Typed
    <2> HIDE DEF s, replay
    <2>2. (Cardinality(rows) > ReplayLimit) \in BOOLEAN
      OBVIOUS
    <2> QED BY <1>3, <1>8, <1>9, <2>1, <2>2 DEF Subs
  <1>11. Typed' /\ \A d \in Clients \ {c} : Untouched(d)
    <2>1. sub' \in [Clients -> Subs] /\ \A d \in Clients \ {c} : sub'[d] = sub[d]
      BY <1>1, <1>7, <1>10 DEF Typed
    <2> QED BY <1>1, <1>2, <2>1 DEF Typed, Untouched
  <1>12. Sized(c)'
    BY <1>2, <1>3, <1>9, <1>10 DEF Sized
  <1>13. Rests(c)'
    BY <1>2, <1>3, <1>10 DEF Rests
  <1>14. Loads(c)'
    BY <1>10 DEF Loads
  <1>15. Quiet(c) /\ lastCursor[c] = 0
    BY <1>2, <1>3 DEF Rests
  <1>16. OnTheWay(c)'
    <2>1. Top(pos[c], next) = next
      BY <1>5, <1>8 DEF Top
    <2>2. ~ sub'[c].truncated /\ ~ sub'[c].overflowed => sub'[c].live = InOrder(Wants(c, next, latest))
      <3> SUFFICES ASSUME ~ (Cardinality(rows) > ReplayLimit), ~ s.overflowed
                   PROVE  s.live = InOrder(Wants(c, next, latest))
        BY <1>10
      <3>1. Wants(c, next, s.high) = {}
        BY <1>6
      <3>2. Wants(c, next, latest) = Wants(c, s.high, latest)
        <4>1. next \in Nat /\ s.high \in Nat /\ latest \in Nat /\ next <= s.high /\ s.high <= latest
          BY <1>4, <1>5, <1>8
        <4> HIDE DEF s
        <4> QED BY <3>1, <4>1, OrderStays
      <3> QED BY <1>4, <3>2
    <2>3. Streams(c, pos[c])'
      <3>1. Top(pos[c], sub[c].next)' = next
        BY <1>2, <1>10, <2>1 DEF Top
      <3>2. /\ Wants(c, pos[c], sub[c].next)' = Wants(c, pos[c], next)
            /\ Wants(c, Top(pos[c], sub[c].next), latest)' = Wants(c, next, latest)
        BY <1>2, <1>10, <3>1, WantsSame
      <3>3. next <= latest
        BY <1>4, <1>5, <1>8
      <3> QED BY <1>2, <1>8, <1>10, <2>2, <3>1, <3>2, <3>3 DEF Streams
    <2>4. Carries(<<>>, c, pos[c], pos[c])
      BY <1>5, CarriesNothing, WantsNothing
    <2>5. Carries(inbox[c], c, pos[c], pos[c])' /\ Carries(wire[c], c, pos[c], pos[c])'
      BY <1>2, <1>15, <2>4, WantsSame DEF Quiet
    <2>6. Way(c, pos[c], pos[c])'
      BY <1>2, <1>3, <1>5, <1>15, <2>3, <2>5 DEF Way
    <2>7. pos'[c] \in Nat
      BY <1>2, <1>5
    <2> QED BY <2>6, <2>7 DEF OnTheWay
  <1>17. LastTaken(c)'
    BY <1>2, <1>15 DEF LastTaken, Quiet
  <1>18. ClientInv(c)'
    BY <1>1, <1>2, <1>3, <1>12, <1>13, <1>14, <1>16, <1>17, ClientHas
  <1> QED BY <1>2, <1>11, <1>18, OneClientMoves

\* A replayed event is sent.
LEMMA PumpReplaysKeeps ==
  ASSUME DeliveryInv, NEW c \in Clients, PumpReplays(c)
  PROVE  DeliveryInv'
  <1>1. Typed
    BY DEF DeliveryInv
  <1>2. /\ sub[c].state = "live" /\ sub[c].replay # <<>> /\ Len(wire[c]) < WireCap
        /\ wire' = [wire EXCEPT ![c] = Append(wire[c], Event(Head(sub[c].replay)))]
        /\ sub' = [sub EXCEPT ![c].replay = Tail(sub[c].replay), ![c].last = Head(sub[c].replay)]
        /\ UNCHANGED <<log, latest, hub, worker, front, losses, stops>>
        /\ UNCHANGED <<conn, lastCursor, inbox, overflow, asking, pos, seen>>
    BY <1>1 DEF PumpReplays, Room, Send, hubVars, webVars, clientVars, countVars, Typed
  <1>3. /\ front[c] # "command" /\ pos[c] <= latest /\ seen[c] = InOrder(Wants(c, 0, pos[c]))
        /\ Rests(c) /\ Loads(c) /\ OnTheWay(c) /\ LastTaken(c) /\ Sized(c)
        /\ conn[c] = "up" /\ hub # "down" /\ sub[c] \in Subs
    BY <1>2, SubscriptionIs
  <1>4. /\ latest \in Nat /\ latest <= Len(log) /\ sub[c].next \in Nat /\ MaxLog \in Nat
        /\ Len(log) <= MaxLog /\ Len(log) \in Nat /\ pos[c] \in Nat /\ lastCursor[c] \in Nat
    BY <1>1, NumbersAre
  <1>5. /\ sub[c].replay \in Seq(1 .. MaxLog) /\ Head(sub[c].replay) \in 1 .. MaxLog
        /\ Tail(sub[c].replay) \in Seq(1 .. MaxLog)
        /\ Len(Tail(sub[c].replay)) = Len(sub[c].replay) - 1 /\ Len(sub[c].replay) \in Nat
    <2>1. sub[c].replay \in Seq(1 .. MaxLog)
      BY <1>3 DEF Subs
    <2> QED BY <1>2, <2>1, HeadTailProperties, LenProperties
  <1>6. PICK k \in 1 .. MaxLog : k = Head(sub[c].replay)
    BY <1>5
  <1>7. /\ sub'[c] \in Subs /\ sub'[c].state = "live" /\ sub'[c].replay = Tail(sub[c].replay)
        /\ sub'[c].live = sub[c].live /\ sub'[c].overflowed = sub[c].overflowed
        /\ sub'[c].truncated = sub[c].truncated
        /\ sub'[c].next = sub[c].next /\ sub'[c].last = k
    <2>1. sub'[c] = [sub[c] EXCEPT !.replay = Tail(sub[c].replay), !.last = k]
      BY <1>1, <1>2, <1>6 DEF Typed
    <2>2. k \in 0 .. MaxLog
      BY <1>4
    <2> DEFINE rest == Tail(sub[c].replay)
    <2>3. rest \in Seq(1 .. MaxLog) /\ sub'[c] = [sub[c] EXCEPT !.replay = rest, !.last = k]
      BY <1>5, <2>1
    <2> HIDE DEF rest
    <2>4. sub'[c] \in Subs
      BY <1>3, <2>2, <2>3 DEF Subs
    <2>5. /\ sub'[c].state = sub[c].state /\ sub'[c].replay = rest
          /\ sub'[c].live = sub[c].live /\ sub'[c].overflowed = sub[c].overflowed
          /\ sub'[c].truncated = sub[c].truncated
          /\ sub'[c].next = sub[c].next /\ sub'[c].last = k
      BY <1>3, <2>3 DEF Subs
    <2> QED BY <1>2, <2>4, <2>5 DEF rest
  <1>8. /\ Event(k) \in [marker : BOOLEAN, cursor : 0..MaxLog]
        /\ wire'[c] = Append(wire[c], Event(k)) /\ wire[c] \in SomeItems
        /\ wire'[c] \in SomeItems /\ Len(wire'[c]) = Len(wire[c]) + 1 /\ Len(wire[c]) \in Nat
    <2>1. Event(k) \in [marker : BOOLEAN, cursor : 0..MaxLog]
      BY <1>4 DEF Event
    <2>2. wire'[c] = Append(wire[c], Event(k)) /\ wire[c] \in SomeItems
      BY <1>1, <1>2, <1>6 DEF Typed
    <2> QED BY <2>1, <2>2 DEF SomeItems
  <1>9. Typed' /\ \A d \in Clients \ {c} : Untouched(d)
    <2>1. sub' \in [Clients -> Subs] /\ wire' \in [Clients -> SomeItems]
      BY <1>1, <1>2, <1>7, <1>8 DEF Typed
    <2>2. \A d \in Clients \ {c} : sub'[d] = sub[d] /\ wire'[d] = wire[d]
      BY <1>1, <1>2 DEF Typed
    <2> QED BY <1>1, <1>2, <2>1, <2>2 DEF Typed, Untouched
  <1>10. Sized(c)'
    <2>1. WireCap \in Nat
      BY CapacitiesAssumption
    <2>2. /\ Len(sub[c].live) <= LiveCap /\ Len(sub[c].replay) <= ReplayLimit
          /\ Len(inbox[c]) <= InboxCap /\ ReplayLimit \in Nat
      BY <1>3, CapacitiesAssumption DEF Sized
    <2>3. Len(sub'[c].replay) <= ReplayLimit
      BY <1>5, <1>7, <2>2
    <2>4. Len(wire'[c]) <= WireCap
      BY <1>2, <1>8, <2>1
    <2> QED BY <1>2, <1>7, <2>2, <2>3, <2>4 DEF Sized
  <1>11. Rests(c)'
    BY <1>2, <1>3, <1>7 DEF Rests
  <1>12. Loads(c)'
    BY <1>7 DEF Loads
  <1>13. OnTheWay(c)'
    <2> SUFFICES ASSUME ~ overflow[c]
                 PROVE  OnTheWay(c)'
      BY <1>2 DEF OnTheWay
    <2>1. PICK x \in Nat, e \in Nat : Way(c, x, e)
      BY <1>3 DEF OnTheWay
    <2>2. /\ pos[c] <= x /\ x <= e /\ e <= latest /\ lastCursor[c] <= x
          /\ Carries(inbox[c], c, pos[c], x) /\ Carries(wire[c], c, x, e)
      BY <1>3, <2>1 DEF Way
    <2>3. /\ sub[c].next <= latest
          /\ sub[c].replay = InOrder(Wants(c, e, sub[c].next))
          /\ ~ sub[c].truncated /\ ~ sub[c].overflowed =>
                sub[c].live = InOrder(Wants(c, Top(e, sub[c].next), latest))
      BY <1>2, <2>1 DEF Way, Streams
    <2>4. Wants(c, e, sub[c].next) # {}
      BY <1>2, <1>4, <2>3, InOrderNothing
    <2>5. /\ k \in e + 1 .. sub[c].next /\ Wants(c, e, k) = {k}
          /\ Tail(sub[c].replay) = InOrder(Wants(c, k, sub[c].next))
      <3>1. PICK j \in e + 1 .. sub[c].next :
               /\ Wants(c, e, j) = {j}
               /\ InOrder(Wants(c, e, sub[c].next)) = <<j>> \o InOrder(Wants(c, j, sub[c].next))
               /\ Head(InOrder(Wants(c, e, sub[c].next))) = j
               /\ Tail(InOrder(Wants(c, e, sub[c].next))) = InOrder(Wants(c, j, sub[c].next))
        BY <1>4, <2>4, OrderBegins
      <3>2. j = k
        BY <1>6, <2>3, <3>1
      <3> QED BY <2>3, <3>1, <3>2
    <2>6. k \in Nat /\ e < k /\ k <= sub[c].next /\ x <= k /\ k <= latest
      BY <1>4, <2>2, <2>3, <2>5
    <2>7. Carries(Append(wire[c], Event(k)), c, x, k)
      BY <2>2, <2>5, <2>6, CarriesMore
    <2>8. Top(e, sub[c].next) = sub[c].next /\ Top(k, sub[c].next) = sub[c].next
      BY <1>4, <2>6 DEF Top
    <2>9. Streams(c, k)'
      <3>1. Top(k, sub[c].next)' = sub[c].next
        BY <1>7, <2>8 DEF Top
      <3>2. /\ Wants(c, k, sub[c].next)' = Wants(c, k, sub[c].next)
            /\ Wants(c, Top(k, sub[c].next), latest)' = Wants(c, sub[c].next, latest)
        BY <1>2, <1>7, <3>1, WantsSame
      <3> QED BY <1>2, <1>7, <2>3, <2>5, <2>6, <2>8, <3>1, <3>2 DEF Streams
    <2>10. Way(c, x, k)'
      <3>1. Carries(inbox[c], c, pos[c], x)' /\ Carries(wire[c], c, x, k)'
        BY <1>2, <1>8, <2>2, <2>7, WantsSame
      <3> QED BY <1>2, <2>2, <2>6, <2>9, <3>1 DEF Way
    <2> QED BY <2>6, <2>10 DEF OnTheWay
  <1>14. LastTaken(c)'
    <2>1. Grown
      BY <1>2, <1>4 DEF Grown
    <2>2. \A item : First(c, item) => First(c, item)'
      BY <1>1, <1>2, <1>3, <1>4, <2>1, FirstStays
    <2> QED BY <1>2, <1>3, <2>2 DEF LastTaken
  <1>15. ClientInv(c)'
    BY <1>1, <1>2, <1>3, <1>10, <1>11, <1>12, <1>13, <1>14, ClientHas
  <1> QED BY <1>2, <1>9, <1>15, OneClientMoves

\* A live event is sent.
LEMMA PumpSendsKeeps ==
  ASSUME DeliveryInv, NEW c \in Clients, PumpSends(c)
  PROVE  DeliveryInv'
  <1>1. Typed
    BY DEF DeliveryInv
  <1>2. /\ sub[c].state = "live" /\ sub[c].live # <<>> /\ sub[c].replay = <<>>
        /\ ~ sub[c].truncated /\ ~ sub[c].overflowed /\ Len(wire[c]) < WireCap
        /\ wire' = [wire EXCEPT ![c] = Append(wire[c], Event(Head(sub[c].live)))]
        /\ sub' = [sub EXCEPT ![c].live = Tail(sub[c].live), ![c].last = Head(sub[c].live)]
        /\ UNCHANGED <<log, latest, hub, worker, front, losses, stops>>
        /\ UNCHANGED <<conn, lastCursor, inbox, overflow, asking, pos, seen>>
    BY <1>1 DEF PumpSends, MayGoLive, Room, Send, hubVars, webVars, clientVars, countVars, Typed
  <1>3. /\ front[c] # "command" /\ pos[c] <= latest /\ seen[c] = InOrder(Wants(c, 0, pos[c]))
        /\ Rests(c) /\ Loads(c) /\ OnTheWay(c) /\ LastTaken(c) /\ Sized(c)
        /\ conn[c] = "up" /\ hub # "down" /\ sub[c] \in Subs
    BY <1>2, SubscriptionIs
  <1>4. /\ latest \in Nat /\ latest <= Len(log) /\ sub[c].next \in Nat /\ MaxLog \in Nat
        /\ Len(log) <= MaxLog /\ Len(log) \in Nat /\ pos[c] \in Nat /\ lastCursor[c] \in Nat
    BY <1>1, NumbersAre
  <1>5. /\ sub[c].live \in Seq(1 .. MaxLog) /\ Head(sub[c].live) \in 1 .. MaxLog
        /\ Tail(sub[c].live) \in Seq(1 .. MaxLog)
        /\ Len(Tail(sub[c].live)) = Len(sub[c].live) - 1 /\ Len(sub[c].live) \in Nat
    <2>1. sub[c].live \in Seq(1 .. MaxLog)
      BY <1>3 DEF Subs
    <2> QED BY <1>2, <2>1, HeadTailProperties, LenProperties
  <1>6. PICK k \in 1 .. MaxLog : k = Head(sub[c].live)
    BY <1>5
  <1>7. /\ sub'[c] \in Subs /\ sub'[c].state = "live" /\ sub'[c].replay = sub[c].replay
        /\ sub'[c].live = Tail(sub[c].live) /\ sub'[c].overflowed = sub[c].overflowed
        /\ sub'[c].truncated = sub[c].truncated
        /\ sub'[c].next = sub[c].next /\ sub'[c].last = k
    <2>1. sub'[c] = [sub[c] EXCEPT !.live = Tail(sub[c].live), !.last = k]
      BY <1>1, <1>2, <1>6 DEF Typed
    <2>2. k \in 0 .. MaxLog
      BY <1>4
    <2> DEFINE rest == Tail(sub[c].live)
    <2>3. rest \in Seq(1 .. MaxLog) /\ sub'[c] = [sub[c] EXCEPT !.live = rest, !.last = k]
      BY <1>5, <2>1
    <2> HIDE DEF rest
    <2>4. sub'[c] \in Subs
      BY <1>3, <2>2, <2>3 DEF Subs
    <2>5. /\ sub'[c].state = sub[c].state /\ sub'[c].replay = sub[c].replay
          /\ sub'[c].live = rest /\ sub'[c].overflowed = sub[c].overflowed
          /\ sub'[c].truncated = sub[c].truncated
          /\ sub'[c].next = sub[c].next /\ sub'[c].last = k
      BY <1>3, <2>3 DEF Subs
    <2> QED BY <1>2, <2>4, <2>5 DEF rest
  <1>8. /\ Event(k) \in [marker : BOOLEAN, cursor : 0..MaxLog]
        /\ wire'[c] = Append(wire[c], Event(k)) /\ wire[c] \in SomeItems
        /\ wire'[c] \in SomeItems /\ Len(wire'[c]) = Len(wire[c]) + 1 /\ Len(wire[c]) \in Nat
    <2>1. Event(k) \in [marker : BOOLEAN, cursor : 0..MaxLog]
      BY <1>4 DEF Event
    <2>2. wire'[c] = Append(wire[c], Event(k)) /\ wire[c] \in SomeItems
      BY <1>1, <1>2, <1>6 DEF Typed
    <2> QED BY <2>1, <2>2 DEF SomeItems
  <1>9. Typed' /\ \A d \in Clients \ {c} : Untouched(d)
    <2>1. sub' \in [Clients -> Subs] /\ wire' \in [Clients -> SomeItems]
      BY <1>1, <1>2, <1>7, <1>8 DEF Typed
    <2>2. \A d \in Clients \ {c} : sub'[d] = sub[d] /\ wire'[d] = wire[d]
      BY <1>1, <1>2 DEF Typed
    <2> QED BY <1>1, <1>2, <2>1, <2>2 DEF Typed, Untouched
  <1>10. Sized(c)'
    <2>1. WireCap \in Nat
      BY CapacitiesAssumption
    <2>2. /\ Len(sub[c].live) <= LiveCap /\ Len(sub[c].replay) <= ReplayLimit
          /\ Len(inbox[c]) <= InboxCap /\ LiveCap \in Nat
      BY <1>3, CapacitiesAssumption DEF Sized
    <2>3. Len(sub'[c].live) <= LiveCap
      BY <1>5, <1>7, <2>2
    <2>4. Len(wire'[c]) <= WireCap
      BY <1>2, <1>8, <2>1
    <2> QED BY <1>2, <1>7, <2>2, <2>3, <2>4 DEF Sized
  <1>11. Rests(c)'
    BY <1>2, <1>3, <1>7 DEF Rests
  <1>12. Loads(c)'
    BY <1>7 DEF Loads
  <1>13. OnTheWay(c)'
    <2> SUFFICES ASSUME ~ overflow[c]
                 PROVE  OnTheWay(c)'
      BY <1>2 DEF OnTheWay
    <2>1. PICK x \in Nat, e \in Nat : Way(c, x, e)
      BY <1>3 DEF OnTheWay
    <2>2. /\ pos[c] <= x /\ x <= e /\ e <= latest /\ lastCursor[c] <= x
          /\ Carries(inbox[c], c, pos[c], x) /\ Carries(wire[c], c, x, e)
      BY <1>3, <2>1 DEF Way
    <2> DEFINE far == Top(e, sub[c].next)
    <2>3. /\ sub[c].next <= latest /\ InOrder(Wants(c, e, sub[c].next)) = <<>>
          /\ sub[c].live = InOrder(Wants(c, far, latest))
      BY <1>2, <2>1 DEF Way, Streams
    <2>4. far \in Nat /\ e <= far /\ x <= far /\ far <= latest
      BY <1>4, <2>2, <2>3 DEF Top
    <2>5. Wants(c, e, far) = {}
      <3>1. CASE e < sub[c].next
        BY <1>4, <2>3, <3>1, OrderIs DEF Top
      <3>2. CASE ~ (e < sub[c].next)
        BY <1>4, <3>2, WantsNothing DEF Top
      <3> QED BY <3>1, <3>2
    <2> HIDE DEF far
    <2>6. Wants(c, far, latest) # {}
      BY <1>2, <1>4, <2>3, InOrderNothing
    <2>7. /\ k \in far + 1 .. latest /\ Wants(c, far, k) = {k}
          /\ Tail(sub[c].live) = InOrder(Wants(c, k, latest))
      <3>1. PICK j \in far + 1 .. latest :
               /\ Wants(c, far, j) = {j}
               /\ InOrder(Wants(c, far, latest)) = <<j>> \o InOrder(Wants(c, j, latest))
               /\ Head(InOrder(Wants(c, far, latest))) = j
               /\ Tail(InOrder(Wants(c, far, latest))) = InOrder(Wants(c, j, latest))
        BY <1>4, <2>4, <2>6, OrderBegins
      <3>2. j = k
        BY <1>6, <2>3, <3>1
      <3> QED BY <2>3, <3>1, <3>2
    <2>8. k \in Nat /\ far < k /\ k <= latest /\ x <= k
      BY <1>4, <2>4, <2>7
    <2>9. Carries(wire[c], c, x, far)
      BY <2>2, <2>4, <2>5, CarriesOn
    <2>10. Carries(Append(wire[c], Event(k)), c, x, k)
      BY <2>4, <2>7, <2>8, <2>9, CarriesMore
    <2>11. sub[c].next < k /\ Top(k, sub[c].next) = k
      <3>1. sub[c].next <= far
        BY <1>4 DEF Top, far
      <3> QED BY <1>4, <2>4, <2>8, <3>1 DEF Top
    <2>12. InOrder(Wants(c, k, sub[c].next)) = <<>>
      <3>1. k + 1 .. sub[c].next = {}
        BY <1>4, <2>8, <2>11
      <3>2. Wants(c, k, sub[c].next) = {}
        BY <3>1 DEF Wants
      <3> QED BY <3>2, InOrderNothing
    <2>13. Streams(c, k)'
      <3>1. Top(k, sub[c].next)' = k
        BY <1>7, <2>11 DEF Top
      <3>2. /\ Wants(c, k, sub[c].next)' = Wants(c, k, sub[c].next)
            /\ Wants(c, Top(k, sub[c].next), latest)' = Wants(c, k, latest)
        BY <1>2, <1>7, <3>1, WantsSame
      <3>3. sub'[c].next <= latest' /\ sub'[c].last <= Top(k, sub[c].next)'
        <4>1. k <= k
          BY <2>8
        <4>2. sub'[c].last <= Top(k, sub[c].next)'
          BY <1>7, <3>1, <4>1
        <4> QED BY <1>2, <1>7, <2>3, <4>2
      <3>4. sub'[c].replay = InOrder(Wants(c, k, sub[c].next))'
        BY <1>2, <1>7, <2>12, <3>2
      <3>5. sub'[c].live = InOrder(Wants(c, Top(k, sub[c].next), latest))'
        BY <1>2, <1>7, <2>7, <3>2
      <3> QED BY <3>3, <3>4, <3>5 DEF Streams
    <2>14. Way(c, x, k)'
      <3>1. Carries(inbox[c], c, pos[c], x)' /\ Carries(wire[c], c, x, k)'
        BY <1>2, <1>8, <2>2, <2>10, WantsSame
      <3> QED BY <1>2, <2>2, <2>8, <2>13, <3>1 DEF Way
    <2> QED BY <2>8, <2>14 DEF OnTheWay
  <1>14. LastTaken(c)'
    <2>1. Grown
      BY <1>2, <1>4 DEF Grown
    <2>2. \A item : First(c, item) => First(c, item)'
      BY <1>1, <1>2, <1>3, <1>4, <2>1, FirstStays
    <2> QED BY <1>2, <1>3, <2>2 DEF LastTaken
  <1>15. ClientInv(c)'
    BY <1>1, <1>2, <1>3, <1>10, <1>11, <1>12, <1>13, <1>14, ClientHas
  <1> QED BY <1>2, <1>9, <1>15, OneClientMoves

\* The pump ends with a marker.
LEMMA PumpEndsKeeps ==
  ASSUME DeliveryInv, NEW c \in Clients, PumpEnds(c)
  PROVE  DeliveryInv'
  <1>1. Typed
    BY DEF DeliveryInv
  <1> DEFINE mark == IF sub[c].truncated THEN sub[c].next ELSE sub[c].last
  <1>2. /\ sub[c].state = "live" /\ sub[c].replay = <<>> /\ Len(wire[c]) < WireCap
        /\ wire' = [wire EXCEPT ![c] = Append(wire[c], Marker(mark))]
        /\ conn' = [conn EXCEPT ![c] = "eof"]
        /\ sub' = [sub EXCEPT ![c] = NoSub]
        /\ UNCHANGED <<log, latest, hub, worker, front, losses, stops>>
        /\ UNCHANGED <<lastCursor, inbox, overflow, asking, pos, seen>>
    BY <1>1 DEF PumpEnds, Room, Send, Unsubscribed, hubVars, webVars, clientVars, countVars, Typed
  <1>3. /\ front[c] # "command" /\ pos[c] <= latest /\ seen[c] = InOrder(Wants(c, 0, pos[c]))
        /\ Rests(c) /\ Loads(c) /\ OnTheWay(c) /\ LastTaken(c) /\ Sized(c)
        /\ conn[c] = "up" /\ hub # "down" /\ sub[c] \in Subs
    BY <1>2, SubscriptionIs
  <1>4. /\ latest \in Nat /\ latest <= Len(log) /\ sub[c].next \in Nat /\ MaxLog \in Nat
        /\ Len(log) <= MaxLog /\ Len(log) \in Nat /\ pos[c] \in Nat /\ lastCursor[c] \in Nat
        /\ sub[c].last \in Nat
    BY <1>1, NumbersAre
  <1>5. mark \in 0 .. MaxLog
    BY <1>3 DEF Subs
  <1>6. PICK k \in 0 .. MaxLog : k = mark
    BY <1>5
  <1>7. /\ conn'[c] = "eof" /\ sub'[c] = NoSub /\ wire'[c] = Append(wire[c], Marker(k))
        /\ wire[c] \in SomeItems
        /\ wire'[c] \in SomeItems /\ Len(wire'[c]) = Len(wire[c]) + 1 /\ Len(wire[c]) \in Nat
    <2>1. Marker(k) \in [marker : BOOLEAN, cursor : 0..MaxLog]
      BY DEF Marker
    <2>2. wire'[c] = Append(wire[c], Marker(k)) /\ wire[c] \in SomeItems
      BY <1>1, <1>2, <1>6 DEF Typed
    <2>3. conn'[c] = "eof" /\ sub'[c] = NoSub
      BY <1>1, <1>2 DEF Typed
    <2> QED BY <2>1, <2>2, <2>3 DEF SomeItems
  <1>8. Typed' /\ \A d \in Clients \ {c} : Untouched(d)
    <2>1. /\ sub' \in [Clients -> Subs] /\ wire' \in [Clients -> SomeItems]
          /\ conn' \in [Clients -> {"down", "up", "eof"}]
      BY <1>1, <1>2, <1>7, NoSubIs DEF Typed
    <2>2. \A d \in Clients \ {c} : sub'[d] = sub[d] /\ wire'[d] = wire[d] /\ conn'[d] = conn[d]
      BY <1>1, <1>2 DEF Typed
    <2> QED BY <1>1, <1>2, <2>1, <2>2 DEF Typed, Untouched
  <1>9. Sized(c)'
    <2>1. WireCap \in Nat /\ Len(inbox[c]) <= InboxCap
      BY <1>3, CapacitiesAssumption DEF Sized
    <2>2. Len(wire'[c]) <= WireCap
      BY <1>2, <1>7, <2>1
    <2> QED BY <1>2, <1>7, <2>1, <2>2, NoSubIs DEF Sized
  <1>10. Rests(c)'
    BY <1>2, <1>3, <1>7, NoSubIs DEF Rests
  <1>11. Loads(c)'
    BY <1>7, NoSubIs DEF Loads
  <1>12. OnTheWay(c)'
    <2> SUFFICES ASSUME ~ overflow[c]
                 PROVE  OnTheWay(c)'
      BY <1>2 DEF OnTheWay
    <2>1. PICK x \in Nat, e \in Nat : Way(c, x, e)
      BY <1>3 DEF OnTheWay
    <2>2. /\ pos[c] <= x /\ x <= e /\ e <= latest /\ lastCursor[c] <= x
          /\ Carries(inbox[c], c, pos[c], x) /\ Carries(wire[c], c, x, e)
      BY <1>3, <2>1 DEF Way
    <2>3. PICK far \in Nat : far = Top(e, sub[c].next)
      BY <1>4 DEF Top
    <2>4. /\ sub[c].next <= latest /\ InOrder(Wants(c, e, sub[c].next)) = <<>>
          /\ sub[c].last <= far
      BY <1>2, <2>1, <2>3 DEF Way, Streams
    <2>5. e <= far /\ x <= far /\ far <= latest /\ sub[c].next <= far
      BY <1>4, <2>2, <2>3, <2>4 DEF Top
    <2>6. Wants(c, e, far) = {}
      <3>1. CASE e < sub[c].next
        BY <1>4, <2>3, <2>4, <3>1, OrderIs DEF Top
      <3>2. CASE ~ (e < sub[c].next)
        BY <1>4, <2>3, <3>2, WantsNothing DEF Top
      <3> QED BY <3>1, <3>2
    <2>7. Carries(wire[c], c, x, far)
      BY <2>2, <2>5, <2>6, CarriesOn
    <2>8. k \in 0 .. far
      BY <1>4, <1>6, <2>4, <2>5
    <2>9. Closes(Append(wire[c], Marker(k)), c, x, far)
      BY <2>7, <2>8, CarriesLast
    <2>10. Carries(inbox[c], c, pos[c], x)' /\ Closes(wire[c], c, x, far)'
      BY <1>2, <1>7, <2>2, <2>9, WantsSame
    <2>11. Streams(c, far)'
      BY <1>7, NoSubIs DEF Streams
    <2>12. Way(c, x, far)'
      BY <1>2, <1>7, <2>2, <2>5, <2>10, <2>11 DEF Way
    <2> QED BY <2>12 DEF OnTheWay
  <1>13. LastTaken(c)'
    <2>1. Grown
      BY <1>2, <1>4 DEF Grown
    <2>2. \A item : First(c, item) => First(c, item)'
      BY <1>1, <1>2, <1>3, <1>4, <2>1, FirstStays
    <2> QED BY <1>2, <1>3, <2>2 DEF LastTaken
  <1>14. ClientInv(c)'
    BY <1>1, <1>2, <1>3, <1>9, <1>10, <1>11, <1>12, <1>13, ClientHas
  <1> QED BY <1>2, <1>8, <1>14, OneClientMoves

\* A connection is lost.
LEMMA LostKeeps ==
  ASSUME DeliveryInv, NEW c \in Clients, Lost(c)
  PROVE  DeliveryInv'
  <1>1. Typed /\ ClientInv(c)
    BY DEF DeliveryInv
  <1>2. /\ conn[c] # "down"
        /\ wire' = [wire EXCEPT ![c] = <<>>]
        /\ conn' = [conn EXCEPT ![c] = "eof"]
        /\ sub' = [sub EXCEPT ![c] = NoSub]
        /\ losses' = losses + 1 /\ losses < Losses
        /\ UNCHANGED <<log, latest, hub, worker, front, stops>>
        /\ UNCHANGED <<lastCursor, inbox, overflow, asking, pos, seen>>
    BY DEF Lost, Unsubscribed, hubVars, webVars, clientVars
  <1>3. pos[c] \in Nat /\ latest \in Nat /\ latest <= Len(log) /\ Len(log) \in Nat
    BY <1>1, NumbersAre
  <1>4. /\ conn'[c] = "eof" /\ sub'[c] = NoSub /\ wire'[c] = <<>>
        /\ <<>> \in SomeItems /\ Len(<<>>) = 0
    BY <1>1, <1>2 DEF Typed, SomeItems
  <1>5. Typed' /\ \A d \in Clients \ {c} : Untouched(d)
    <2>1. /\ sub' \in [Clients -> Subs] /\ wire' \in [Clients -> SomeItems]
          /\ conn' \in [Clients -> {"down", "up", "eof"}]
      BY <1>1, <1>2, <1>4, NoSubIs DEF Typed
    <2>2. \A d \in Clients \ {c} : sub'[d] = sub[d] /\ wire'[d] = wire[d] /\ conn'[d] = conn[d]
      BY <1>1, <1>2 DEF Typed
    <2>3. losses' \in 0 .. Losses
      BY <1>1, <1>2, CapacitiesAssumption DEF Typed
    <2> QED BY <1>1, <1>2, <2>1, <2>2, <2>3 DEF Typed, Untouched
  <1>6. Sized(c)'
    BY <1>1, <1>2, <1>4, NoSubIs, CapacitiesAssumption DEF ClientInv, Sized
  <1>7. pos'[c] <= Len(log') /\ seen'[c] = InOrder(Wants(c, 0, pos[c]))'
    BY <1>1, <1>2, WantsSame DEF ClientInv
  <1>8. CASE front[c] = "command"
    <2>1. Apart(c)
      BY <1>1, <1>8 DEF ClientInv
    <2>2. Apart(c)'
      BY <1>2, <1>4, <2>1, NoSubIs DEF Apart, Quiet
    <2>3. ClientInv(c)'
      BY <1>2, <1>6, <1>7, <1>8, <2>2 DEF ClientInv
    <2> QED BY <1>2, <1>5, <2>3, OneClientMoves
  <1>9. CASE front[c] # "command"
    <2>1. /\ pos[c] <= latest /\ seen[c] = InOrder(Wants(c, 0, pos[c]))
          /\ Rests(c) /\ OnTheWay(c) /\ LastTaken(c)
      BY <1>1, <1>9 DEF ClientInv
    <2>2. Rests(c)'
      BY <1>2, <1>4, <2>1, NoSubIs DEF Rests
    <2>3. Loads(c)'
      BY <1>4, NoSubIs DEF Loads
    <2>4. OnTheWay(c)'
      <3> SUFFICES ASSUME ~ overflow[c]
                   PROVE  OnTheWay(c)'
        BY <1>2 DEF OnTheWay
      <3>1. PICK x \in Nat, e \in Nat : Way(c, x, e)
        BY <1>2, <2>1 DEF OnTheWay
      <3>2. /\ pos[c] <= x /\ x <= latest /\ lastCursor[c] <= x
            /\ Carries(inbox[c], c, pos[c], x) \/ Closes(inbox[c], c, pos[c], x)
        BY <1>3, <3>1 DEF Way
      <3>3. Carries(<<>>, c, x, x)
        BY CarriesNothing, WantsNothing
      <3>4. /\ Carries(inbox[c], c, pos[c], x)' \/ Closes(inbox[c], c, pos[c], x)'
            /\ Carries(wire[c], c, x, x)'
        BY <1>2, <1>4, <3>2, <3>3, WantsSame
      <3>5. Streams(c, x)'
        BY <1>4, NoSubIs DEF Streams
      <3>6. Way(c, x, x)'
        BY <1>2, <1>4, <3>2, <3>4, <3>5 DEF Way
      <3> QED BY <3>6 DEF OnTheWay
    <2>5. LastTaken(c)'
      <3>1. Grown
        BY <1>2, <1>3 DEF Grown
      <3>2. \A item : First(c, item) => First(c, item)'
        BY <1>1, <1>2, <1>3, <2>1, <3>1, FirstStays
      <3> QED BY <1>2, <2>1, <3>2 DEF LastTaken
    <2>6. ClientInv(c)'
      BY <1>1, <1>2, <1>6, <1>9, <2>1, <2>2, <2>3, <2>4, <2>5, ClientHas
    <2> QED BY <1>2, <1>5, <2>6, OneClientMoves
  <1> QED BY <1>8, <1>9

-------------------------------------------------------------------------------
(* What a client does keeps the invariant *)

\* The next event wanted is shown.
LEMMA ShowsEvent ==
  ASSUME Typed, NEW c \in Clients, NEW k \in Nat, pos[c] < k, k <= latest, Wants(c, pos[c], k) = {k},
         seen[c] = InOrder(Wants(c, 0, pos[c])), Show(c, Event(k))
  PROVE  /\ pos' = [pos EXCEPT ![c] = k] /\ k \in 0 .. MaxLog
         /\ seen' \in [Clients -> Seq(Nat)] /\ \A d \in Clients \ {c} : seen'[d] = seen[d]
         /\ seen'[c] = InOrder(Wants(c, 0, k))
  <1>1. ~ Event(k).marker /\ Event(k).cursor = k
    BY DEF Event
  <1>2. /\ pos[c] \in Nat /\ latest \in Nat /\ latest <= Len(log) /\ Len(log) <= MaxLog
        /\ Len(log) \in Nat /\ MaxLog \in Nat
    BY NumbersAre
  <1>3. pos' = [pos EXCEPT ![c] = k]
    BY <1>1, <1>2 DEF Show, Advance
  <1>4. seen' = [seen EXCEPT ![c] = Append(seen[c], k)]
    BY <1>1 DEF Show
  <1>5. Append(seen[c], k) = InOrder(Wants(c, 0, k))
    <2>1. PICK p \in Nat : p = pos[c]
      BY <1>2
    <2>2. 0 \in Nat /\ 0 <= p /\ p < k /\ Wants(c, p, k) = {k}
      BY <2>1
    <2>3. InOrder(Wants(c, 0, k)) = Append(InOrder(Wants(c, 0, p)), k)
      BY <2>2, OrderGrows
    <2> QED BY <2>1, <2>3
  <1>6. seen \in [Clients -> Seq(Nat)] /\ Append(seen[c], k) \in Seq(Nat)
    BY DEF Typed
  <1> QED BY <1>2, <1>3, <1>4, <1>5, <1>6

\* A marker moves the cursor over what is not wanted.
LEMMA ShowsMarker ==
  ASSUME Typed, NEW c \in Clients, NEW k \in Nat, pos[c] <= latest, k <= latest,
         Wants(c, pos[c], Top(pos[c], k)) = {},
         seen[c] = InOrder(Wants(c, 0, pos[c])), Show(c, Marker(k))
  PROVE  /\ pos' = [pos EXCEPT ![c] = Top(pos[c], k)] /\ Top(pos[c], k) \in 0 .. MaxLog
         /\ pos[c] <= Top(pos[c], k) /\ Top(pos[c], k) <= latest
         /\ seen' = seen /\ seen[c] = InOrder(Wants(c, 0, Top(pos[c], k)))
  <1>1. Marker(k).marker /\ Marker(k).cursor = k
    BY DEF Marker
  <1>2. /\ pos[c] \in Nat /\ latest \in Nat /\ latest <= Len(log) /\ Len(log) <= MaxLog
        /\ Len(log) \in Nat /\ MaxLog \in Nat
    BY NumbersAre
  <1>3. pos' = [pos EXCEPT ![c] = Top(pos[c], k)]
    BY <1>1, <1>2 DEF Show, Advance, Top
  <1>4. seen' = seen
    BY <1>1 DEF Show
  <1>5. Top(pos[c], k) \in 0 .. MaxLog /\ pos[c] <= Top(pos[c], k) /\ Top(pos[c], k) <= latest
    BY <1>2 DEF Top
  <1>6. Wants(c, 0, Top(pos[c], k)) = Wants(c, 0, pos[c])
    <2>1. PICK p \in Nat : p = Top(pos[c], k)
      BY <1>5
    <2>2. PICK q \in Nat : q = pos[c]
      BY <1>2
    <2>3. 0 \in Nat /\ 0 <= q /\ q <= p
      BY <1>5, <2>1, <2>2
    <2>4. Wants(c, q, p) = {} => Wants(c, 0, p) = Wants(c, 0, q)
      BY <2>3, OrderStays
    <2> QED BY <2>1, <2>2, <2>4
  <1> QED BY <1>3, <1>4, <1>5, <1>6

\* A browser waits for the next envelope.
LEMMA BrowserAsksKeeps ==
  ASSUME DeliveryInv, NEW c \in Clients, BrowserAsks(c)
  PROVE  DeliveryInv'
  <1>1. Typed /\ ClientInv(c)
    BY DEF DeliveryInv
  <1>2. /\ front[c] = "browser" /\ ~ overflow[c]
        /\ sub[c].state = "live" \/ conn[c] = "eof"
        /\ asking' = [asking EXCEPT ![c] = TRUE]
        /\ UNCHANGED <<log, latest, hub, worker, front, losses, stops>>
        /\ UNCHANGED <<sub, conn, wire, lastCursor, inbox, overflow, pos, seen>>
    BY DEF BrowserAsks, web, hubVars, connVars, clientVars, countVars
  <1>3. Typed' /\ \A d \in Clients \ {c} : Untouched(d)
    BY <1>1, <1>2 DEF Typed, Untouched
  <1>4. /\ pos[c] <= latest /\ seen[c] = InOrder(Wants(c, 0, pos[c]))
        /\ Rests(c) /\ Loads(c) /\ OnTheWay(c) /\ Sized(c)
    BY <1>1, <1>2 DEF ClientInv
  <1>5. Sized(c)'
    BY <1>2, <1>4 DEF Sized
  <1>6. Rests(c)' /\ Loads(c)'
    <2>1. conn[c] # "down" /\ ~ (conn[c] = "up" /\ sub[c].state # "live")
      BY <1>2, <1>4 DEF Rests
    <2>2. Rests(c)'
      BY <1>2, <1>4, <2>1 DEF Rests
    <2>3. Loads(c)'
      BY <1>2, <1>4, WantsSame DEF Loads
    <2> QED BY <2>2, <2>3
  <1>7. OnTheWay(c)'
    <2> SUFFICES ASSUME conn[c] # "down"
                 PROVE  OnTheWay(c)'
      BY <1>2 DEF OnTheWay
    <2>1. PICK x \in Nat, e \in Nat : Way(c, x, e)
      BY <1>2, <1>4 DEF OnTheWay
    <2>2. Streams(c, e)'
      BY <1>2, <2>1, WantsSame DEF Way, Streams, Top
    <2>3. Way(c, x, e)'
      BY <1>2, <2>1, <2>2, WantsSame DEF Way
    <2> QED BY <2>3 DEF OnTheWay
  <1>8. LastTaken(c)'
    BY <1>2 DEF LastTaken
  <1>9. ClientInv(c)'
    BY <1>1, <1>2, <1>4, <1>5, <1>6, <1>7, <1>8, ClientHas
  <1> QED BY <1>2, <1>3, <1>9, OneClientMoves

\* What is between the place p, where the inbox q begins, and e: part of Way
Queued(q, c, p, x, e) ==
    \/ /\ Carries(q, c, p, x)
       /\ Carries(wire[c], c, x, e) \/ (conn[c] = "eof" /\ Closes(wire[c], c, x, e))
    \/ Closes(q, c, p, x) /\ wire[c] = <<>> /\ conn[c] = "eof"

\* A browser takes an envelope.
LEMMA BrowserTakesKeeps ==
  ASSUME DeliveryInv, NEW c \in Clients, BrowserTakes(c)
  PROVE  DeliveryInv'
  <1>1. Typed /\ ClientInv(c)
    BY DEF DeliveryInv
  <1> DEFINE item == Head(inbox[c])
  <1>2. /\ asking[c] /\ inbox[c] # <<>> /\ Show(c, item)
        /\ UNCHANGED <<log, latest, hub, worker, lastCursor, front, losses, stops>>
        /\ item.marker => Leave(c)
        /\ ~ item.marker =>
              /\ asking' = [asking EXCEPT ![c] = FALSE] /\ inbox' = [inbox EXCEPT ![c] = Tail(inbox[c])]
              /\ UNCHANGED <<sub, conn, wire, overflow>>
    BY <1>1 DEF BrowserTakes, hubVars, countVars, Typed
  <1>3. front[c] # "command"
    BY <1>1, <1>2 DEF ClientInv, Apart, Quiet
  <1>4. /\ pos[c] <= latest /\ seen[c] = InOrder(Wants(c, 0, pos[c]))
        /\ Rests(c) /\ Loads(c) /\ OnTheWay(c) /\ LastTaken(c) /\ Sized(c)
    BY <1>1, <1>3 DEF ClientInv
  <1>5. /\ latest \in Nat /\ latest <= Len(log) /\ Len(log) \in Nat /\ pos[c] \in Nat
    BY <1>1, NumbersAre
  <1>6. \/ \E k \in pos[c] + 1 .. latest :
              /\ Wants(c, pos[c], k) = {k} /\ item = Event(k)
              /\ ~ overflow[c] => \E x \in Nat, e \in Nat :
                    Way(c, x, e) /\ k <= x /\ Queued(Tail(inbox[c]), c, k, x, e)
        \/ \E k \in 0 .. latest : Wants(c, pos[c], Top(pos[c], k)) = {} /\ item = Marker(k)
    <2>1. CASE overflow[c]
      BY <1>2, <1>4, <2>1 DEF LastTaken, First
    <2>2. CASE ~ overflow[c]
      <3>1. conn[c] # "down"
        BY <1>2, <1>4 DEF Rests, Quiet
      <3>2. PICK x \in Nat, e \in Nat : Way(c, x, e)
        BY <1>4, <2>2, <3>1 DEF OnTheWay
      <3>3. pos[c] <= x /\ x <= latest
        BY <1>5, <3>2 DEF Way
      <3>4. CASE Carries(inbox[c], c, pos[c], x) /\ (Carries(wire[c], c, x, e)
                    \/ (conn[c] = "eof" /\ Closes(wire[c], c, x, e)))
        <4>1. PICK k \in pos[c] + 1 .. x :
                 Wants(c, pos[c], k) = {k} /\ item = Event(k) /\ Carries(Tail(inbox[c]), c, k, x)
          BY <1>2, <1>5, <3>4, CarriesHead
        <4>2. k \in pos[c] + 1 .. latest /\ k <= x
          BY <1>5, <3>3
        <4>3. Queued(Tail(inbox[c]), c, k, x, e)
          BY <3>4, <4>1 DEF Queued
        <4> QED BY <3>2, <4>1, <4>2, <4>3
      <3>5. CASE Closes(inbox[c], c, pos[c], x) /\ wire[c] = <<>> /\ conn[c] = "eof"
        <4>0. \/ \E k \in pos[c] + 1 .. x : /\ Wants(c, pos[c], k) = {k} /\ Head(inbox[c]) = Event(k)
                                           /\ Closes(Tail(inbox[c]), c, k, x)
              \/ \E k \in 0 .. x : /\ Wants(c, pos[c], x) = {} /\ Head(inbox[c]) = Marker(k)
                                  /\ Tail(inbox[c]) = <<>>
          BY <1>5, <3>5, ClosesHead
        <4>1. CASE \E k \in pos[c] + 1 .. x :
                 Wants(c, pos[c], k) = {k} /\ item = Event(k) /\ Closes(Tail(inbox[c]), c, k, x)
          <5>1. PICK k \in pos[c] + 1 .. x :
                   Wants(c, pos[c], k) = {k} /\ item = Event(k) /\ Closes(Tail(inbox[c]), c, k, x)
            BY <4>1
          <5>2. k \in pos[c] + 1 .. latest /\ k <= x
            BY <1>5, <3>3
          <5>3. Queued(Tail(inbox[c]), c, k, x, e)
            BY <3>5, <5>1 DEF Queued
          <5> QED BY <3>2, <5>1, <5>2, <5>3
        <4>2. CASE \E k \in 0 .. x : Wants(c, pos[c], x) = {} /\ item = Marker(k)
          <5>1. PICK k \in 0 .. x : Wants(c, pos[c], x) = {} /\ item = Marker(k)
            BY <4>2
          <5>2. /\ k \in 0 .. latest /\ Top(pos[c], k) \in Nat /\ pos[c] <= Top(pos[c], k)
                /\ Top(pos[c], k) <= x
            BY <1>5, <3>3 DEF Top
          <5>3. Wants(c, pos[c], Top(pos[c], k)) = {}
            BY <1>5, <5>1, <5>2, OrderStays
          <5> QED BY <5>1, <5>2, <5>3
        <4> QED BY <4>0, <4>1, <4>2
      <3> QED BY <3>2, <3>4, <3>5 DEF Way
    <2> QED BY <2>1, <2>2
  <1>7. CASE \E k \in 0 .. latest : Wants(c, pos[c], Top(pos[c], k)) = {} /\ item = Marker(k)
    <2>1. PICK k \in 0 .. latest : Wants(c, pos[c], Top(pos[c], k)) = {} /\ item = Marker(k)
      BY <1>7
    <2>2. item.marker /\ k \in Nat /\ k <= latest
      BY <1>5, <2>1 DEF Marker
    <2>3. PICK p \in Nat : p = Top(pos[c], k)
      BY <1>5, <2>2 DEF Top
    <2>4. /\ pos' = [pos EXCEPT ![c] = p] /\ p \in 0 .. MaxLog /\ p <= latest
          /\ seen' = seen /\ seen[c] = InOrder(Wants(c, 0, p))
      BY <1>1, <1>2, <1>4, <2>1, <2>2, <2>3, ShowsMarker
    <2>5. seen' \in [Clients -> Seq(Nat)]
      BY <1>1, <2>4 DEF Typed
    <2> QED BY <1>2, <2>2, <2>4, <2>5, LeaveKeeps
  <1>8. CASE \E k \in pos[c] + 1 .. latest :
              /\ Wants(c, pos[c], k) = {k} /\ item = Event(k)
              /\ ~ overflow[c] => \E x \in Nat, e \in Nat :
                    Way(c, x, e) /\ k <= x /\ Queued(Tail(inbox[c]), c, k, x, e)
    <2>1. PICK k \in pos[c] + 1 .. latest :
              /\ Wants(c, pos[c], k) = {k} /\ item = Event(k)
              /\ ~ overflow[c] => \E x \in Nat, e \in Nat :
                    Way(c, x, e) /\ k <= x /\ Queued(Tail(inbox[c]), c, k, x, e)
      BY <1>8
    <2>2. ~ item.marker /\ k \in Nat /\ pos[c] < k /\ k <= latest
      BY <1>5, <2>1 DEF Event
    <2>3. /\ pos' = [pos EXCEPT ![c] = k] /\ k \in 0 .. MaxLog
          /\ seen' \in [Clients -> Seq(Nat)] /\ \A d \in Clients \ {c} : seen'[d] = seen[d]
          /\ seen'[c] = InOrder(Wants(c, 0, k))
      BY <1>1, <1>2, <1>4, <2>1, <2>2, ShowsEvent
    <2>4. /\ inbox[c] \in SomeItems /\ Tail(inbox[c]) \in SomeItems
          /\ Len(Tail(inbox[c])) = Len(inbox[c]) - 1 /\ Len(inbox[c]) \in Nat
      <3>1. inbox[c] \in SomeItems
        BY <1>1 DEF Typed
      <3> QED BY <1>2, <3>1, HeadTailProperties, LenProperties DEF SomeItems
    <2>5. /\ asking' = [asking EXCEPT ![c] = FALSE] /\ inbox' = [inbox EXCEPT ![c] = Tail(inbox[c])]
          /\ UNCHANGED <<sub, conn, wire, overflow>>
          /\ asking'[c] = FALSE /\ inbox'[c] = Tail(inbox[c]) /\ pos'[c] = k
      BY <1>1, <1>2, <2>2, <2>3 DEF Typed
    <2>6. Typed' /\ \A d \in Clients \ {c} : Untouched(d)
      BY <1>1, <1>2, <2>3, <2>4, <2>5 DEF Typed, Untouched
    <2>7. Sized(c)'
      <3>1. Len(inbox'[c]) <= InboxCap
        BY <1>4, <2>4, <2>5, CapacitiesAssumption DEF Sized
      <3> QED BY <1>4, <2>5, <3>1 DEF Sized
    <2>8. Rests(c)' /\ Loads(c)' /\ LastTaken(c)'
      <3>1. conn[c] # "down" /\ ~ (conn[c] = "up" /\ sub[c].state # "live") /\ front[c] # "terminal"
        BY <1>2, <1>4 DEF Rests, Quiet
      <3>2. Rests(c)'
        BY <1>2, <1>4, <2>5, <3>1 DEF Rests
      <3>3. sub[c].state # "loading"
        BY <1>4, <3>1 DEF Rests
      <3>4. Loads(c)' /\ LastTaken(c)'
        BY <2>5, <3>3 DEF Loads, LastTaken
      <3> QED BY <3>2, <3>4
    <2>9. OnTheWay(c)'
      <3> SUFFICES ASSUME ~ overflow[c]
                   PROVE  OnTheWay(c)'
        BY <2>5 DEF OnTheWay
      <3>1. PICK x \in Nat, e \in Nat :
                    Way(c, x, e) /\ k <= x /\ Queued(Tail(inbox[c]), c, k, x, e)
        BY <2>1
      <3>2. Streams(c, e)'
        BY <1>2, <2>5, <3>1, WantsSame DEF Way, Streams, Top
      <3>4. /\ \A low, high : Carries(inbox[c], c, low, high)' = Carries(Tail(inbox[c]), c, low, high)
            /\ \A low, high : Closes(inbox[c], c, low, high)' = Closes(Tail(inbox[c]), c, low, high)
            /\ \A low, high : Carries(wire[c], c, low, high)' = Carries(wire[c], c, low, high)
            /\ \A low, high : Closes(wire[c], c, low, high)' = Closes(wire[c], c, low, high)
        BY <1>2, <2>5, WantsSame
      <3>5. Way(c, x, e)'
        BY <1>2, <2>2, <2>5, <3>1, <3>2, <3>4 DEF Way, Queued
      <3> QED BY <3>5 DEF OnTheWay
    <2>10. ClientInv(c)'
      <3>1. pos'[c] <= latest' /\ pos'[c] <= Len(log') /\ seen'[c] = InOrder(Wants(c, 0, pos[c]))'
        BY <1>2, <1>5, <2>2, <2>3, <2>5, WantsSame
      <3> QED BY <1>2, <1>3, <2>7, <2>8, <2>9, <3>1 DEF ClientInv
    <2> QED BY <1>2, <2>6, <2>10, OneClientMoves
  <1> QED BY <1>6, <1>7, <1>8

\* What comes first on the wire is the next event wanted after the inbox, or the marker.
LEMMA WireHead ==
  ASSUME Typed, NEW c \in Clients, NEW x \in Nat, NEW e \in Nat, Way(c, x, e), wire[c] # <<>>
  PROVE  /\ Carries(inbox[c], c, pos[c], x)
         /\ \/ \E k \in x + 1 .. e :
                  /\ Wants(c, x, k) = {k} /\ Head(wire[c]) = Event(k)
                  /\ \/ Carries(Tail(wire[c]), c, k, e)
                     \/ conn[c] = "eof" /\ Closes(Tail(wire[c]), c, k, e)
            \/ \E k \in 0 .. e :
                  /\ Wants(c, x, e) = {} /\ Head(wire[c]) = Marker(k)
                  /\ Tail(wire[c]) = <<>>
  <1>1. /\ Carries(inbox[c], c, pos[c], x)
        /\ Carries(wire[c], c, x, e) \/ (conn[c] = "eof" /\ Closes(wire[c], c, x, e))
    BY DEF Way
  <1>2. CASE Carries(wire[c], c, x, e)
    <2>1. PICK k \in x + 1 .. e :
             Wants(c, x, k) = {k} /\ Head(wire[c]) = Event(k) /\ Carries(Tail(wire[c]), c, k, e)
      BY <1>2, CarriesHead
    <2> QED BY <1>1, <2>1
  <1>3. CASE conn[c] = "eof" /\ Closes(wire[c], c, x, e)
    <2>1. \/ \E k \in x + 1 .. e : /\ Wants(c, x, k) = {k} /\ Head(wire[c]) = Event(k)
                                   /\ Closes(Tail(wire[c]), c, k, e)
          \/ \E k \in 0 .. e : /\ Wants(c, x, e) = {} /\ Head(wire[c]) = Marker(k)
                               /\ Tail(wire[c]) = <<>>
      BY <1>3, ClosesHead
    <2>2. CASE \E k \in x + 1 .. e : /\ Wants(c, x, k) = {k} /\ Head(wire[c]) = Event(k)
                                     /\ Closes(Tail(wire[c]), c, k, e)
      <3>1. PICK k \in x + 1 .. e : /\ Wants(c, x, k) = {k} /\ Head(wire[c]) = Event(k)
                                    /\ Closes(Tail(wire[c]), c, k, e)
        BY <2>2
      <3> QED BY <1>1, <1>3, <3>1
    <2>3. CASE \E k \in 0 .. e : /\ Wants(c, x, e) = {} /\ Head(wire[c]) = Marker(k)
                                 /\ Tail(wire[c]) = <<>>
      BY <1>1, <2>3
    <2> QED BY <2>1, <2>2, <2>3
  <1> QED BY <1>1, <1>2, <1>3

\* An item leaves the wire.
LEMMA DispatchIs ==
  ASSUME Typed, NEW c \in Clients, wire[c] # <<>>, Dispatch(c, Head(wire[c])), NEW item,
         item = Head(wire[c])
  PROVE  /\ item \in [marker : BOOLEAN, cursor : 0..MaxLog]
         /\ wire' \in [Clients -> SomeItems] /\ wire'[c] = Tail(wire[c])
         /\ Len(wire'[c]) <= Len(wire[c])
         /\ lastCursor' \in [Clients -> 0..MaxLog]
         /\ \A d \in Clients \ {c} : wire'[d] = wire[d] /\ lastCursor'[d] = lastCursor[d]
         /\ item.marker => lastCursor'[c] = lastCursor[c]
         /\ ~ item.marker /\ item.cursor > lastCursor[c] => lastCursor'[c] = item.cursor
  <1>1. wire[c] \in SomeItems /\ lastCursor \in [Clients -> 0 .. MaxLog]
    BY DEF Typed
  <1>2. /\ item \in [marker : BOOLEAN, cursor : 0..MaxLog]
        /\ Tail(wire[c]) \in SomeItems /\ Len(Tail(wire[c])) = Len(wire[c]) - 1
        /\ Len(wire[c]) \in Nat
    BY <1>1, HeadTailProperties, LenProperties DEF SomeItems
  <1>3. wire' = [wire EXCEPT ![c] = Tail(wire[c])]
    BY DEF Dispatch, Typed
  <1>4. /\ wire' \in [Clients -> SomeItems] /\ wire'[c] = Tail(wire[c])
        /\ Len(wire'[c]) <= Len(wire[c]) /\ \A d \in Clients \ {c} : wire'[d] = wire[d]
    BY <1>2, <1>3 DEF Typed
  <1>5. item.cursor \in 0 .. MaxLog /\ item.marker \in BOOLEAN
    BY <1>2
  <1>6. CASE item.marker
    BY <1>1, <1>2, <1>4, <1>6 DEF Dispatch
  <1>7. CASE ~ item.marker
    <2>1. lastCursor' = [lastCursor EXCEPT ![c] =
                           IF item.cursor > lastCursor[c] THEN item.cursor ELSE lastCursor[c]]
      BY <1>1, <1>7 DEF Dispatch, Fresh
    <2> QED BY <1>1, <1>2, <1>4, <1>5, <1>7, <2>1
  <1> QED BY <1>6, <1>7

\* A terminal receives an item.
LEMMA ReceiveKeeps ==
  ASSUME DeliveryInv, NEW c \in Clients, Receive(c)
  PROVE  DeliveryInv'
  <1>1. Typed /\ ClientInv(c)
    BY DEF DeliveryInv
  <1> DEFINE item == Head(wire[c])
  <1>2. /\ front[c] = "terminal" /\ wire[c] # <<>> /\ Dispatch(c, Head(wire[c]))
        /\ Fresh(c, item) => Show(c, item)
        /\ UNCHANGED <<log, latest, hub, worker, front, losses, stops>>
        /\ UNCHANGED <<sub, conn, inbox, overflow, asking>>
    BY DEF Receive, hubVars, webVars, countVars
  <1>3. /\ pos[c] <= latest /\ seen[c] = InOrder(Wants(c, 0, pos[c]))
        /\ Rests(c) /\ Loads(c) /\ OnTheWay(c) /\ LastTaken(c) /\ Sized(c)
    BY <1>1, <1>2 DEF ClientInv
  <1>4. /\ latest \in Nat /\ latest <= Len(log) /\ Len(log) \in Nat /\ pos[c] \in Nat
        /\ lastCursor[c] \in Nat
    BY <1>1, NumbersAre
  <1>5. /\ inbox[c] = <<>> /\ ~ overflow[c] /\ ~ asking[c] /\ conn[c] # "down"
        /\ ~ (conn[c] = "up" /\ sub[c].state # "live")
    BY <1>2, <1>3 DEF Rests, Quiet
  <1>6. PICK x \in Nat, e \in Nat : Way(c, x, e)
    BY <1>3, <1>5 DEF OnTheWay
  <1>7. /\ pos[c] <= x /\ x <= e /\ e <= latest /\ lastCursor[c] <= x
        /\ Streams(c, e)
    BY <1>6 DEF Way
  <1>8. Wants(c, pos[c], x) = {}
    BY <1>1, <1>2, <1>4, <1>5, <1>6, WireHead, CarriedAre
  <1>9. /\ item \in [marker : BOOLEAN, cursor : 0..MaxLog]
        /\ wire' \in [Clients -> SomeItems] /\ wire'[c] = Tail(wire[c])
        /\ Len(wire'[c]) <= Len(wire[c])
        /\ lastCursor' \in [Clients -> 0..MaxLog]
        /\ \A d \in Clients \ {c} : wire'[d] = wire[d] /\ lastCursor'[d] = lastCursor[d]
        /\ item.marker => lastCursor'[c] = lastCursor[c]
        /\ ~ item.marker /\ item.cursor > lastCursor[c] => lastCursor'[c] = item.cursor
    BY <1>1, <1>2, DispatchIs
  <1>10. ASSUME NEW p \in 0 .. MaxLog, pos' = [pos EXCEPT ![c] = p], p <= latest,
                seen' \in [Clients -> Seq(Nat)], \A d \in Clients \ {c} : seen'[d] = seen[d],
                seen'[c] = InOrder(Wants(c, 0, p)), NEW y \in Nat, p <= y, y <= e,
                Wants(c, p, y) = {}, lastCursor'[c] <= y,
                \/ Carries(Tail(wire[c]), c, y, e)
                \/ conn[c] = "eof" /\ Closes(Tail(wire[c]), c, y, e)
         PROVE  DeliveryInv'
    <2>1. Typed' /\ (\A d \in Clients \ {c} : Untouched(d)) /\ pos'[c] = p
      BY <1>1, <1>2, <1>9, <1>10 DEF Typed, Untouched
    <2>2. Sized(c)'
      <3>1. Len(wire'[c]) <= WireCap
        <4>1. /\ Len(wire[c]) \in Nat /\ Len(wire'[c]) \in Nat /\ Len(wire[c]) <= WireCap
              /\ WireCap \in Nat
          <5>1. wire[c] \in SomeItems /\ wire'[c] \in SomeItems
            BY <1>1, <1>9 DEF Typed
          <5> QED BY <1>3, <5>1, LenProperties, CapacitiesAssumption DEF Sized, SomeItems
        <4> QED BY <1>9, <4>1
      <3> QED BY <1>2, <1>3, <3>1 DEF Sized
    <2>3. Rests(c)'
      BY <1>2, <1>3, <1>5 DEF Rests
    <2>4. Loads(c)' /\ LastTaken(c)'
      <3>1. sub[c].state # "loading"
        BY <1>3, <1>5 DEF Rests
      <3> QED BY <1>2, <1>5, <3>1 DEF Loads, LastTaken
    <2>5. OnTheWay(c)'
      <3>1. Streams(c, e)'
        BY <1>2, <1>7, WantsSame DEF Streams, Top
      <3>2. Carries(<<>>, c, p, y)
        BY <1>10, CarriesNothing
      <3>3. Carries(inbox[c], c, pos[c], y)'
        BY <1>2, <1>5, <2>1, <3>2, WantsSame
      <3>4. Carries(wire[c], c, y, e)' \/ (conn'[c] = "eof" /\ Closes(wire[c], c, y, e)')
        BY <1>2, <1>9, <1>10, WantsSame
      <3>5. Way(c, y, e)'
        BY <1>2, <1>7, <1>10, <2>1, <3>1, <3>3, <3>4 DEF Way
      <3> QED BY <3>5 DEF OnTheWay
    <2>6. ClientInv(c)'
      <3>1. pos'[c] <= latest' /\ pos'[c] <= Len(log') /\ seen'[c] = InOrder(Wants(c, 0, pos[c]))'
        BY <1>2, <1>4, <1>10, <2>1, WantsSame
      <3> QED BY <1>2, <2>2, <2>3, <2>4, <2>5, <3>1 DEF ClientInv
    <2> QED BY <1>2, <2>1, <2>6, OneClientMoves
  <1>11. CASE \E k \in x + 1 .. e :
                  /\ Wants(c, x, k) = {k} /\ item = Event(k)
                  /\ \/ Carries(Tail(wire[c]), c, k, e)
                     \/ conn[c] = "eof" /\ Closes(Tail(wire[c]), c, k, e)
    <2>1. PICK k \in x + 1 .. e :
                  /\ Wants(c, x, k) = {k} /\ item = Event(k)
                  /\ \/ Carries(Tail(wire[c]), c, k, e)
                     \/ conn[c] = "eof" /\ Closes(Tail(wire[c]), c, k, e)
      BY <1>11
    <2>2. /\ k \in Nat /\ x < k /\ k <= e /\ pos[c] < k /\ k <= latest /\ k > lastCursor[c]
          /\ ~ item.marker /\ item.cursor = k
      BY <1>4, <1>7, <2>1 DEF Event
    <2>3. Wants(c, pos[c], k) = {k}
      BY <1>4, <1>7, <1>8, <2>1, <2>2, OrderStays
    <2>4. Show(c, Event(k))
      BY <1>2, <2>1, <2>2 DEF Fresh
    <2>5. /\ pos' = [pos EXCEPT ![c] = k] /\ k \in 0 .. MaxLog
          /\ seen' \in [Clients -> Seq(Nat)] /\ \A d \in Clients \ {c} : seen'[d] = seen[d]
          /\ seen'[c] = InOrder(Wants(c, 0, k))
      BY <1>1, <1>3, <2>2, <2>3, <2>4, ShowsEvent
    <2>6. lastCursor'[c] <= k /\ k <= k
      BY <1>9, <2>2
    <2>7. Wants(c, k, k) = {}
      BY <2>2, WantsNothing
    <2> QED BY <1>10, <2>1, <2>2, <2>5, <2>6, <2>7
  <1>12. CASE \E k \in 0 .. e : Wants(c, x, e) = {} /\ item = Marker(k) /\ Tail(wire[c]) = <<>>
    <2>1. PICK k \in 0 .. e : Wants(c, x, e) = {} /\ item = Marker(k) /\ Tail(wire[c]) = <<>>
      BY <1>12
    <2>2. k \in Nat /\ k <= e /\ k <= latest /\ item.marker /\ pos[c] <= e
      BY <1>4, <1>7, <2>1 DEF Marker
    <2>3. PICK p \in Nat : p = Top(pos[c], k)
      BY <1>4, <2>2 DEF Top
    <2>4. pos[c] <= p /\ p <= e /\ p <= latest
      BY <1>4, <1>7, <2>2, <2>3 DEF Top
    <2>5. Wants(c, pos[c], e) = {}
      BY <1>4, <1>7, <1>8, <2>1, OrderStays
    <2>6. Wants(c, pos[c], p) = {} /\ Wants(c, p, e) = {}
      BY <1>4, <2>4, <2>5, OrderStays
    <2>7. Show(c, Marker(k))
      BY <1>2, <2>1, <2>2 DEF Fresh
    <2>8. Wants(c, pos[c], Top(pos[c], k)) = {}
      BY <2>3, <2>6
    <2>9. /\ pos' = [pos EXCEPT ![c] = p] /\ p \in 0 .. MaxLog
          /\ seen' = seen /\ seen[c] = InOrder(Wants(c, 0, p))
      BY <1>1, <1>3, <2>2, <2>3, <2>7, <2>8, ShowsMarker
    <2>10. /\ seen' \in [Clients -> Seq(Nat)] /\ \A d \in Clients \ {c} : seen'[d] = seen[d]
           /\ seen'[c] = InOrder(Wants(c, 0, p))
      BY <1>1, <2>9 DEF Typed
    <2>11. lastCursor'[c] <= e /\ e <= e
      BY <1>4, <1>7, <1>9, <2>2
    <2>12. Carries(Tail(wire[c]), c, e, e)
      BY <2>1, CarriesNothing, WantsNothing
    <2> QED BY <1>10, <2>4, <2>6, <2>9, <2>10, <2>11, <2>12
  <1> QED BY <1>1, <1>2, <1>6, <1>11, <1>12, WireHead

\* The web bridge queues an item for its browser, or notes that there is no room.
LEMMA RelayKeeps ==
  ASSUME DeliveryInv, NEW c \in Clients, Relay(c)
  PROVE  DeliveryInv'
  <1>1. Typed /\ ClientInv(c)
    BY DEF DeliveryInv
  <1> DEFINE item == Head(wire[c])
  <1>2. /\ front[c] = "browser" /\ wire[c] # <<>> /\ Dispatch(c, Head(wire[c]))
        /\ inbox' = IF Fresh(c, item) /\ Len(inbox[c]) < InboxCap
                    THEN [inbox EXCEPT ![c] = Append(inbox[c], item)] ELSE inbox
        /\ overflow' = [overflow EXCEPT ![c] =
                          overflow[c] \/ (Fresh(c, item) /\ Len(inbox[c]) >= InboxCap)]
        /\ UNCHANGED <<log, latest, hub, worker, front, losses, stops>>
        /\ UNCHANGED <<sub, conn, asking, pos, seen>>
    BY <1>1 DEF Relay, web, hubVars, clientVars, countVars, Typed
  <1>3. /\ pos[c] <= latest /\ seen[c] = InOrder(Wants(c, 0, pos[c]))
        /\ Rests(c) /\ Loads(c) /\ OnTheWay(c) /\ LastTaken(c) /\ Sized(c)
    BY <1>1, <1>2 DEF ClientInv
  <1>4. /\ latest \in Nat /\ latest <= Len(log) /\ Len(log) \in Nat /\ pos[c] \in Nat
        /\ lastCursor[c] \in Nat
    BY <1>1, NumbersAre
  <1>5. conn[c] # "down" /\ ~ (conn[c] = "up" /\ sub[c].state # "live")
    BY <1>2, <1>3 DEF Rests, Quiet
  <1>6. /\ item \in [marker : BOOLEAN, cursor : 0..MaxLog]
        /\ wire' \in [Clients -> SomeItems] /\ wire'[c] = Tail(wire[c])
        /\ Len(wire'[c]) <= Len(wire[c])
        /\ lastCursor' \in [Clients -> 0..MaxLog]
        /\ \A d \in Clients \ {c} : wire'[d] = wire[d] /\ lastCursor'[d] = lastCursor[d]
        /\ item.marker => lastCursor'[c] = lastCursor[c]
        /\ ~ item.marker /\ item.cursor > lastCursor[c] => lastCursor'[c] = item.cursor
    BY <1>1, <1>2, DispatchIs
  <1>7. /\ inbox[c] \in SomeItems /\ Append(inbox[c], item) \in SomeItems
        /\ Len(Append(inbox[c], item)) = Len(inbox[c]) + 1 /\ Len(inbox[c]) \in Nat
        /\ Len(inbox[c]) <= InboxCap /\ InboxCap \in Nat /\ InboxCap >= 1
        /\ inbox[c] # <<>> => Head(Append(inbox[c], item)) = Head(inbox[c])
    <2>1. inbox[c] \in SomeItems
      BY <1>1 DEF Typed
    <2>2. /\ Append(inbox[c], item) \in SomeItems
          /\ Len(Append(inbox[c], item)) = Len(inbox[c]) + 1 /\ Len(inbox[c]) \in Nat
      BY <1>6, <2>1, AppendProperties, LenProperties DEF SomeItems
    <2>3. inbox[c] # <<>> => Head(Append(inbox[c], item)) = Head(inbox[c])
      BY <1>6, <2>1, HeadTailAppend DEF SomeItems
    <2> QED BY <1>3, <2>1, <2>2, <2>3, CapacitiesAssumption DEF Sized
  <1>8. /\ inbox' \in [Clients -> SomeItems] /\ overflow' \in [Clients -> BOOLEAN]
        /\ \A d \in Clients \ {c} : inbox'[d] = inbox[d] /\ overflow'[d] = overflow[d]
        /\ Fresh(c, item) /\ Len(inbox[c]) < InboxCap => inbox'[c] = Append(inbox[c], item)
        /\ ~ (Fresh(c, item) /\ Len(inbox[c]) < InboxCap) => inbox'[c] = inbox[c]
        /\ overflow'[c] <=> overflow[c] \/ (Fresh(c, item) /\ Len(inbox[c]) >= InboxCap)
    <2>1. inbox' \in [Clients -> SomeItems] /\ \A d \in Clients \ {c} : inbox'[d] = inbox[d]
      BY <1>1, <1>2, <1>7 DEF Typed
    <2>2. /\ Fresh(c, item) /\ Len(inbox[c]) < InboxCap => inbox'[c] = Append(inbox[c], item)
          /\ ~ (Fresh(c, item) /\ Len(inbox[c]) < InboxCap) => inbox'[c] = inbox[c]
      BY <1>1, <1>2 DEF Typed
    <2>3. Fresh(c, item) \in BOOLEAN
      BY <1>6 DEF Fresh
    <2>4. /\ overflow' \in [Clients -> BOOLEAN]
          /\ \A d \in Clients \ {c} : overflow'[d] = overflow[d]
          /\ overflow'[c] <=> overflow[c] \/ (Fresh(c, item) /\ Len(inbox[c]) >= InboxCap)
      BY <1>1, <1>2, <2>3, Zenon DEF Typed
    <2> QED BY <2>1, <2>2, <2>4
  <1>9. Typed' /\ \A d \in Clients \ {c} : Untouched(d)
    BY <1>1, <1>2, <1>6, <1>8 DEF Typed, Untouched
  <1>10. Sized(c)'
    <2>1. Len(wire'[c]) <= WireCap
      <3>1. /\ Len(wire[c]) \in Nat /\ Len(wire'[c]) \in Nat /\ Len(wire[c]) <= WireCap
            /\ WireCap \in Nat
        <4>1. wire[c] \in SomeItems /\ wire'[c] \in SomeItems
          BY <1>1, <1>6 DEF Typed
        <4> QED BY <1>3, <4>1, LenProperties, CapacitiesAssumption DEF Sized, SomeItems
      <3> QED BY <1>6, <3>1
    <2>2. Len(inbox'[c]) <= InboxCap
      <3>1. CASE Fresh(c, item) /\ Len(inbox[c]) < InboxCap
        BY <1>7, <1>8, <3>1
      <3>2. CASE ~ (Fresh(c, item) /\ Len(inbox[c]) < InboxCap)
        BY <1>7, <1>8, <3>2
      <3> QED BY <3>1, <3>2
    <2> QED BY <1>2, <1>3, <2>1, <2>2 DEF Sized
  <1>11. Rests(c)' /\ Loads(c)'
    <2>1. sub[c].state # "loading"
      BY <1>3, <1>5 DEF Rests
    <2>2. front[c] # "terminal"
      BY <1>2
    <2> QED BY <1>2, <1>3, <1>5, <2>1, <2>2 DEF Rests, Loads
  <1>12. ASSUME OnTheWay(c)', LastTaken(c)'
         PROVE  DeliveryInv'
    <2>1. front[c] # "command"
      BY <1>2
    <2>2. ClientInv(c)'
      BY <1>1, <1>2, <1>3, <1>10, <1>11, <1>12, <2>1, ClientHas
    <2> QED BY <1>2, <1>9, <2>2, OneClientMoves
  <1>13. \A first : First(c, first) => First(c, first)'
    <2>1. Grown
      BY <1>1, <1>2, <1>4 DEF Grown
    <2> QED BY <1>1, <1>2, <1>3, <1>4, <2>1, FirstStays
  <1>14. CASE overflow[c]
    <2>1. LastTaken(c)'
      <3> SUFFICES ASSUME asking[c]
                   PROVE  LastTaken(c)'
        BY <1>2 DEF LastTaken
      <3>1. inbox[c] # <<>> /\ First(c, Head(inbox[c]))
        BY <1>3, <1>14 DEF LastTaken
      <3>2. inbox'[c] # <<>> /\ Head(inbox'[c]) = Head(inbox[c])
        <4>1. CASE Fresh(c, item) /\ Len(inbox[c]) < InboxCap
          <5>1. Append(inbox[c], item) # <<>>
            BY <1>7
          <5> QED BY <1>7, <1>8, <3>1, <4>1, <5>1
        <4>2. CASE ~ (Fresh(c, item) /\ Len(inbox[c]) < InboxCap)
          BY <1>8, <3>1, <4>2
        <4> QED BY <4>1, <4>2
      <3>3. First(c, Head(inbox[c]))'
        <4>1. PICK first : first = Head(inbox[c])
          OBVIOUS
        <4>2. First(c, first)'
          BY <1>13, <3>1, <4>1
        <4>3. Head(inbox[c])' = first
          BY <3>2, <4>1
        <4> QED BY <4>2, <4>3 DEF First
      <3> QED BY <3>2, <3>3 DEF LastTaken
    <2>2. OnTheWay(c)'
      BY <1>8, <1>14 DEF OnTheWay
    <2> QED BY <1>12, <2>1, <2>2
  <1>15. CASE ~ overflow[c]
    <2>1. PICK x \in Nat, e \in Nat : Way(c, x, e)
      BY <1>3, <1>5, <1>15 DEF OnTheWay
    <2>2. /\ pos[c] <= x /\ x <= e /\ e <= latest /\ lastCursor[c] <= x /\ Streams(c, e)
          /\ Carries(inbox[c], c, pos[c], x)
      BY <1>1, <1>2, <2>1, WireHead DEF Way
    <2>3. CASE Len(inbox[c]) >= InboxCap /\ Fresh(c, item)
      <3>1. OnTheWay(c)'
        BY <1>8, <2>3 DEF OnTheWay
      <3>2. inbox[c] # <<>> /\ inbox'[c] = inbox[c]
        BY <1>7, <1>8, <2>3
      <3>3. PICK k \in pos[c] + 1 .. x :
               /\ Wants(c, pos[c], k) = {k} /\ Head(inbox[c]) = Event(k)
               /\ Carries(Tail(inbox[c]), c, k, x)
        <4>1. pos[c] \in Nat /\ Carries(inbox[c], c, pos[c], x) /\ inbox[c] # <<>>
          BY <1>4, <2>2, <3>2
        <4> QED BY <4>1, CarriesHead
      <3>4. k \in pos[c] + 1 .. latest
        BY <1>4, <2>2
      <3>5. First(c, Head(inbox[c]))
        BY <3>3, <3>4 DEF First
      <3>6. LastTaken(c)'
        <4>1. PICK first : first = Head(inbox[c])
          OBVIOUS
        <4>2. First(c, first)'
          BY <1>13, <3>5, <4>1
        <4>3. Head(inbox[c])' = first
          BY <3>2, <4>1
        <4>4. First(c, Head(inbox[c]))'
          BY <4>2, <4>3 DEF First
        <4> QED BY <3>2, <4>4 DEF LastTaken
      <3> QED BY <1>12, <3>1, <3>6
    <2>4. CASE Len(inbox[c]) < InboxCap /\ Fresh(c, item)
      <3>1. ~ overflow'[c] /\ inbox'[c] = Append(inbox[c], item)
        BY <1>7, <1>8, <1>15, <2>4
      <3>2. LastTaken(c)'
        BY <3>1 DEF LastTaken
      <3>3. Streams(c, e)'
        BY <1>2, <2>2, WantsSame DEF Streams, Top
      <3>4. CASE \E k \in x + 1 .. e :
                  /\ Wants(c, x, k) = {k} /\ item = Event(k)
                  /\ \/ Carries(Tail(wire[c]), c, k, e)
                     \/ conn[c] = "eof" /\ Closes(Tail(wire[c]), c, k, e)
        <4>1. PICK k \in x + 1 .. e :
                  /\ Wants(c, x, k) = {k} /\ item = Event(k)
                  /\ \/ Carries(Tail(wire[c]), c, k, e)
                     \/ conn[c] = "eof" /\ Closes(Tail(wire[c]), c, k, e)
          BY <3>4
        <4>2. /\ k \in Nat /\ x < k /\ k <= e /\ pos[c] <= k /\ k > lastCursor[c]
              /\ ~ item.marker /\ item.cursor = k
          BY <1>4, <2>2, <4>1 DEF Event
        <4>3. lastCursor'[c] <= k
          BY <1>6, <4>2
        <4>4. Carries(Append(inbox[c], Event(k)), c, pos[c], k)
          BY <1>4, <2>2, <4>1, <4>2, CarriesMore
        <4>5. Carries(inbox[c], c, pos[c], k)'
          BY <1>2, <3>1, <4>1, <4>4, WantsSame
        <4>6. Carries(wire[c], c, k, e)' \/ (conn'[c] = "eof" /\ Closes(wire[c], c, k, e)')
          BY <1>2, <1>6, <4>1, WantsSame
        <4>7. Way(c, k, e)'
          BY <1>2, <2>2, <3>3, <4>2, <4>3, <4>5, <4>6 DEF Way
        <4>8. OnTheWay(c)'
          BY <4>2, <4>7 DEF OnTheWay
        <4> QED BY <1>12, <3>2, <4>8
      <3>5. CASE \E k \in 0 .. e : Wants(c, x, e) = {} /\ item = Marker(k) /\ Tail(wire[c]) = <<>>
        <4>1. PICK k \in 0 .. e : Wants(c, x, e) = {} /\ item = Marker(k) /\ Tail(wire[c]) = <<>>
          BY <3>5
        <4>2. item.marker /\ e <= e /\ pos[c] <= e /\ lastCursor'[c] <= e
          BY <1>4, <1>6, <2>2, <4>1 DEF Marker
        <4>3. Carries(inbox[c], c, pos[c], e)
          BY <1>4, <2>2, <4>1, CarriesOn
        <4>4. Closes(Append(inbox[c], Marker(k)), c, pos[c], e)
          BY <1>4, <4>3, CarriesLast
        <4>5. Closes(inbox[c], c, pos[c], e)'
          BY <1>2, <3>1, <4>1, <4>4, WantsSame
        <4>6. conn[c] = "eof"
          <5>1. CASE conn[c] = "eof"
            BY <5>1
          <5>2. CASE Carries(wire[c], c, x, e)
            <6>1. wire[c] = <<>>
              BY <4>1, <5>2, CarriedAre
            <6> QED BY <1>2, <6>1
          <5> QED BY <1>2, <2>1, <5>1, <5>2 DEF Way
        <4>7. Way(c, e, e)'
          BY <1>2, <1>6, <2>2, <3>3, <4>1, <4>2, <4>5, <4>6 DEF Way
        <4>8. OnTheWay(c)'
          BY <4>7 DEF OnTheWay
        <4> QED BY <1>12, <3>2, <4>8
      <3> QED BY <1>1, <1>2, <2>1, <3>4, <3>5, WireHead
    <2>5. Fresh(c, item)
      <3>1. CASE item.marker
        BY <3>1 DEF Fresh
      <3>2. CASE \E k \in x + 1 .. e : item = Event(k)
        BY <1>4, <2>2, <3>2 DEF Fresh, Event
      <3>3. CASE \E k \in 0 .. e : item = Marker(k)
        BY <3>1, <3>3 DEF Marker
      <3> QED BY <1>1, <1>2, <2>1, <3>1, <3>2, <3>3, WireHead
    <2> QED BY <1>7, <2>3, <2>4, <2>5
  <1> QED BY <1>14, <1>15

-------------------------------------------------------------------------------
(* No event is skipped *)

\* In the beginning, and after every step, the invariant holds.
LEMMA NextKeeps ==
  ASSUME DeliveryInv, [Next]_vars
  PROVE  DeliveryInv'
  <1>1. CASE UNCHANGED vars
    <2>1. Typed /\ Typed'
      BY <1>1 DEF DeliveryInv, Typed, vars, hubVars, connVars, webVars, clientVars, countVars
    <2>2. /\ Grown /\ latest' = latest /\ hub' = hub
          /\ \A c \in Clients : Untouched(c)
      BY <1>1, <2>1 DEF Grown, Untouched, Typed, vars, hubVars, connVars, webVars, clientVars,
                        countVars
    <2>3. \A c \in Clients : ClientInv(c)'
      BY <2>1, <2>2, ClientStays DEF DeliveryInv
    <2> QED BY <2>1, <2>3 DEF DeliveryInv
  <1>2. ASSUME NEW batch \in Batches, Commit(batch)
        PROVE  DeliveryInv'
    BY <1>2, CommitKeeps
  <1>3. CASE FanOut \/ WorkerFails \/ ProcessEnds \/ HubStarts
    BY <1>3, FanOutKeeps, WorkerFailsKeeps, ProcessEndsKeeps, HubStartsKeeps
  <1>4. ASSUME NEW c \in Clients, ServerStep(c) \/ Lost(c)
        PROVE  DeliveryInv'
    BY <1>4, LoadReplayKeeps, PumpReplaysKeeps, PumpSendsKeeps, PumpEndsKeeps, LostKeeps
       DEF ServerStep
  <1>5. ASSUME NEW c \in Clients, ClientStep(c)
        PROVE  DeliveryInv'
    BY <1>5, ConnectKeeps, SubscribeKeeps, SubscribeRefusedKeeps, ReceiveKeeps, RelayKeeps,
       SeesEofKeeps DEF ClientStep
  <1>6. ASSUME NEW c \in Clients, BrowserStep(c)
        PROVE  DeliveryInv'
    BY <1>6, BrowserAsksKeeps, BrowserTakesKeeps, BrowserResyncsKeeps DEF BrowserStep
  <1> QED BY <1>1, <1>2, <1>3, <1>4, <1>5, <1>6 DEF Next

\* Parts of a sequence, joined in any order
LEMMA JoinsAssociate ==
  ASSUME NEW s \in Seq(Nat), NEW t \in Seq(Nat), NEW u \in Seq(Nat)
  PROVE  (s \o t) \o u = s \o (t \o u)
  BY ConcatAssociative

\* Four parts of a sequence, joined from the left or from the right
FromLeft(a, b, d, f)  == ((a \o b) \o d) \o f
FromRight(a, b, d, f) == a \o (b \o (d \o f))

\* Both are the same.
LEMMA FourJoined ==
  ASSUME NEW a \in Seq(Nat), NEW b \in Seq(Nat), NEW d \in Seq(Nat), NEW f \in Seq(Nat)
  PROVE  FromLeft(a, b, d, f) = FromRight(a, b, d, f)
  <1>1. b \o d \in Seq(Nat)
    BY ConcatProperties
  <1>2. (a \o b) \o d = a \o (b \o d)
    BY JoinsAssociate, Zenon
  <1>3. (a \o (b \o d)) \o f = a \o ((b \o d) \o f)
    BY <1>1, JoinsAssociate, Zenon
  <1>4. (b \o d) \o f = b \o (d \o f)
    BY JoinsAssociate, Zenon
  <1>5. ((a \o b) \o d) \o f = a \o (b \o (d \o f))
    BY <1>2, <1>3, <1>4, Zenon
  <1> QED BY <1>5, Zenon DEF FromLeft, FromRight

\* What the invariant says of what runs check
LEMMA NothingIsSkippedFollows ==
  ASSUME DeliveryInv
  PROVE  NothingIsSkipped
  <1>1. Typed /\ \A c \in Clients : ClientInv(c)
    BY DEF DeliveryInv
  <1>2. TypeOK
    <2>1. \A c \in Clients :
             /\ sub[c] \in Subs
             /\ Len(sub[c].live) <= LiveCap /\ Len(sub[c].replay) <= ReplayLimit
             /\ conn[c] \in {"down", "up", "eof"}
             /\ wire[c] \in Items /\ Len(wire[c]) <= WireCap
             /\ inbox[c] \in Items /\ Len(inbox[c]) <= InboxCap
             /\ lastCursor[c] \in 0..MaxLog /\ pos[c] \in 0..MaxLog
             /\ overflow[c] \in BOOLEAN /\ asking[c] \in BOOLEAN
      BY <1>1 DEF Typed, ClientInv, Sized, Items, SomeItems
    <2>2. \A c \in Clients : seen[c] \in Seq(1..MaxLog)
      <3> TAKE c \in Clients
      <3>1. pos[c] \in Nat /\ MaxLog \in Nat /\ pos[c] <= MaxLog
        BY <1>1, NumbersAre
      <3>2. InOrder(Wants(c, 0, pos[c])) \in Seq(1 .. pos[c])
        BY <3>1, 0 \in Nat, OrderIs
      <3>3. 1 .. pos[c] \subseteq 1 .. MaxLog
        BY <3>1
      <3>4. InOrder(Wants(c, 0, pos[c])) \in Seq(1 .. MaxLog)
        BY <3>2, <3>3, SeqMonotonic
      <3> QED BY <1>1, <3>4 DEF ClientInv
    <2> QED BY <1>1, <2>1, <2>2 DEF TypeOK, Typed
  <1>3. ClientSawEverything
    BY <1>1 DEF ClientInv, ClientSawEverything
  <1>4. ASSUME NEW c \in Clients, sub[c].state = "live", ~ sub[c].truncated, ~ sub[c].overflowed,
               ~ overflow[c]
        PROVE  CursorsOf(inbox[c]) \o CursorsOf(wire[c]) \o sub[c].replay \o sub[c].live
                 = InOrder(Wants(c, pos[c], latest))
    <2>1. front[c] # "command" /\ Rests(c) /\ OnTheWay(c)
      BY <1>1, <1>4 DEF ClientInv, Apart
    <2>2. conn[c] = "up"
      BY <1>4, <2>1 DEF Rests
    <2>3. PICK x \in Nat, e \in Nat : Way(c, x, e)
      BY <1>4, <2>1, <2>2 DEF OnTheWay
    <2>4. /\ pos[c] \in Nat /\ latest \in Nat /\ sub[c].next \in Nat
      BY <1>1, NumbersAre
    <2>5. PICK low \in Nat : low = pos[c]
      BY <2>4
    <2>6. PICK next \in Nat : next = sub[c].next
      BY <2>4
    <2>7. PICK high \in Nat : high = latest
      BY <2>4
    <2>8. PICK far \in Nat : far = Top(e, next)
      BY DEF Top
    <2>9. /\ low <= x /\ x <= e /\ e <= high /\ next <= high
          /\ Carries(inbox[c], c, low, x) /\ Carries(wire[c], c, x, e)
          /\ sub[c].replay = InOrder(Wants(c, e, next))
          /\ sub[c].live = InOrder(Wants(c, far, high))
      BY <1>4, <2>2, <2>3, <2>5, <2>6, <2>7, <2>8 DEF Way, Streams
    <2>10. e <= far /\ far <= high /\ x <= high /\ InOrder(Wants(c, e, next)) = InOrder(Wants(c, e, far))
      <3>1. CASE e < next
        BY <2>8, <2>9, <3>1 DEF Top
      <3>2. CASE ~ (e < next)
        <4>1. far = e
          BY <2>8, <3>2 DEF Top
        <4>2. e + 1 .. next = {}
          BY <3>2
        <4>3. Wants(c, e, next) = {}
          BY <4>2 DEF Wants
        <4>4. Wants(c, e, far) = {}
          BY <4>1, WantsNothing
        <4> QED BY <2>9, <4>1, <4>3, <4>4
      <3> QED BY <3>1, <3>2
    <2>11. /\ CursorsOf(inbox[c]) = InOrder(Wants(c, low, x))
           /\ CursorsOf(wire[c]) = InOrder(Wants(c, x, e))
      BY <2>9, CarriedAre
    <2>12. /\ InOrder(Wants(c, low, high))
                = InOrder(Wants(c, low, x)) \o InOrder(Wants(c, x, high))
           /\ InOrder(Wants(c, x, high)) = InOrder(Wants(c, x, e)) \o InOrder(Wants(c, e, high))
           /\ InOrder(Wants(c, e, high)) = InOrder(Wants(c, e, far)) \o InOrder(Wants(c, far, high))
      <3>1. low <= x /\ x <= e /\ e <= far /\ x <= high /\ e <= high /\ far <= high
        BY <2>9, <2>10
      <3>2. InOrder(Wants(c, low, high))
              = InOrder(Wants(c, low, x)) \o InOrder(Wants(c, x, high))
        BY <3>1, OrderSplits
      <3>3. InOrder(Wants(c, x, high)) = InOrder(Wants(c, x, e)) \o InOrder(Wants(c, e, high))
        BY <3>1, OrderSplits
      <3>4. InOrder(Wants(c, e, high)) = InOrder(Wants(c, e, far)) \o InOrder(Wants(c, far, high))
        BY <3>1, OrderSplits
      <3> QED BY <3>2, <3>3, <3>4
    <2>13. PICK a \in Seq(Nat), b \in Seq(Nat), d \in Seq(Nat), f \in Seq(Nat) :
              /\ a = InOrder(Wants(c, low, x)) /\ b = InOrder(Wants(c, x, e))
              /\ d = InOrder(Wants(c, e, far)) /\ f = InOrder(Wants(c, far, high))
      BY OrderIs
    <2>14. FromLeft(a, b, d, f) = FromRight(a, b, d, f)
      BY FourJoined
    <2> QED BY <2>5, <2>7, <2>9, <2>10, <2>11, <2>12, <2>13, <2>14 DEF FromLeft, FromRight
  <1>5. ReplayMeetsLive
    BY <1>4 DEF ReplayMeetsLive
  <1> QED BY <1>2, <1>3, <1>5 DEF NothingIsSkipped

(***************************************************************************)
(* The types of the variables hold; up to the cursor it would resume from  *)
(* every client has shown exactly the events it wants, in order; and a     *)
(* live subscription holds exactly what comes next: for any number of      *)
(* clients, terminals and browsers, any capacities, any replay limit and   *)
(* any sequence of commits, overflows, lost connections and restarts.      *)
(***************************************************************************)
THEOREM NoEventIsSkipped == Spec => []NothingIsSkipped
  <1>1. Init => DeliveryInv
    BY DeliveryBegins
  <1>2. DeliveryInv /\ [Next]_vars => DeliveryInv'
    BY NextKeeps
  <1>3. DeliveryInv => NothingIsSkipped
    BY NothingIsSkippedFollows
  <1> QED BY <1>1, <1>2, <1>3, PTL DEF Spec

-------------------------------------------------------------------------------
(* The inductive invariant of CommandLine *)

Inputs == {"interrupt", "eof", "line"}

Answers == [kind : Commands \cup Inputs \cup {"reconnect"},
            outcome : {"ok", "late", "broken", "lost", "shown", "plain"}]

Known == [active : BOOLEAN, submitting : BOOLEAN, cancelling : BOOLEAN, unattended : BOOLEAN,
          prompt : BOOLEAN, shown : BOOLEAN, errors : BOOLEAN, polling : BOOLEAN,
          replaying : BOOLEAN, left : 0..ReplayLimit, cut : BOOLEAN,
          re : {"no", "closing", "opening", "answering", "over"}]

\* The types of the daemon's variables,
DaemonTyped ==
    /\ run \in [status : Terminal \cup {"none", "running"}, text : BOOLEAN]
    /\ ask \in {"none", "open", "over"}
    /\ owed \in Seq(RunKinds) /\ published \subseteq RunKinds

\* and of the client's.
LoopTyped ==
    /\ rpc \in [Commands -> {"idle", "sent", "flush"}] /\ ahead \in 0..Len(owed)
    /\ at \in {"start", "answer", "loop", "ended"}
    /\ exit \in {"none", "zero", "one", "interrupted"}
    /\ cl \in Known
    /\ snapshot \in Kept /\ candidate \in Kept
    /\ results \in Seq(Answers) /\ acts \subseteq Inputs

\* The queue holds an answer or an input of the kind.
Holds(q, kind) == \E i \in 1 .. Len(q) : q[i].kind = kind

\* The queue holds the answer to a snapshot that was taken.
HoldsTaken(q) == \E i \in 1 .. Len(q) : q[i].kind = "snapshot" /\ q[i].outcome = "ok"

\* At most one snapshot is answered at a time.
Once(q) == \A i, j \in 1 .. Len(q) : q[i].kind = "snapshot" /\ q[j].kind = "snapshot" => i = j

\* Nothing happens before the loop but connecting, and nothing after it.
Stages ==
    /\ at = "ended" <=> exit # "none"
    /\ cl.re # "no" => at = "loop"
    /\ at \in {"start", "answer"} => rpc = Idle
    /\ OneShot /\ at \in {"start", "answer"} => run.status = "none"

One(fact) == IF fact THEN 1 ELSE 0

\* The events there can be by now
Caused == One(ask # "none") + One(ask = "over") + One(run.status \in Terminal)

\* There is one run; its events are in the log or wait for it.
RunGoesOn ==
    /\ ask = "open" => Active
    /\ rpc["submit"] = "sent" => run.status = "none"
    /\ log \in Seq(RunKinds) /\ Len(log) + Len(owed) <= Caused
    /\ Failure \in published => \/ stops > 0
                                \/ \E k \in 1 .. Len(log) : log[k] = Failure
                                \/ \E k \in 1 .. Len(owed) : owed[k] = Failure

\* A snapshot of the run as it ended,
OfTheRun(s) == run.status \in Terminal /\ s.status = run.status /\ s.text = run.text

\* with everything in the log.
Complete(s) == OfTheRun(s) /\ owed = <<>> /\ s.cursor = Len(log)

\* One snapshot is under way at a time, and what it says stays true.
SnapshotsHold ==
    /\ Once(results)
    /\ rpc["snapshot"] # "idle" => ~ Holds(results, "snapshot")
    /\ rpc["snapshot"] # "idle" \/ Holds(results, "snapshot") => cl.polling
    /\ rpc["snapshot"] = "flush" => OfTheRun(snapshot) /\ ahead = Len(owed)
    /\ HoldsTaken(results) => Complete(snapshot)
    /\ candidate # NoSnapshot => Complete(candidate)

\* A cancellation comes from the user, or from a request nobody can answer.
CancelsAreMeant ==
    /\ cl.cancelling => cl.unattended \/ "interrupt" \in acts
    /\ Holds(results, "interrupt") => "interrupt" \in acts
    /\ OneShot /\ (rpc["cancel"] # "idle" \/ Holds(results, "cancel")) => cl.cancelling

\* A failed tool is not forgotten.
ErrorsAreKept ==
    at # "ended" => \A k \in 1 .. pos[Me] : log[k] = Failure => cl.errors

\* ExitsAreEarned, but for the types
Earned ==
    /\ OneShot /\ exit = "zero" =>
          /\ run.status = "succeeded" /\ run.text
          /\ \A k \in 1..Len(log) : log[k] # Failure /\ (log[k] \in Scope => k \in ToSet(seen[Me]))
          /\ Failure \in published => stops > 0
    /\ exit = "interrupted" => "interrupt" \in acts \/ run.status = "cancelled"

CommandTyped == DaemonTyped /\ LoopTyped

CommandParts ==
    /\ Stages /\ RunGoesOn /\ SnapshotsHold /\ CancelsAreMeant /\ ErrorsAreKept /\ Earned

CommandInv ==
    /\ DeliveryInv /\ CommandTyped
    /\ IF IsCommand THEN CommandParts ELSE exit = "none"

\* One more in the queue
LEMMA QueueGrows ==
  ASSUME NEW q \in Seq(Answers), NEW r \in Answers
  PROVE  /\ Append(q, r) \in Seq(Answers)
         /\ \A kind : Holds(Append(q, r), kind) <=> Holds(q, kind) \/ r.kind = kind
         /\ HoldsTaken(Append(q, r)) <=> HoldsTaken(q) \/ (r.kind = "snapshot" /\ r.outcome = "ok")
         /\ Once(q) /\ (r.kind = "snapshot" => ~ Holds(q, "snapshot")) => Once(Append(q, r))
  <1> DEFINE more == Append(q, r)
  <1>1. /\ more \in Seq(Answers) /\ Len(more) = Len(q) + 1 /\ Len(q) \in Nat
        /\ \A i \in 1 .. Len(q) : more[i] = q[i]
        /\ more[Len(q) + 1] = r
    OBVIOUS
  <1> HIDE DEF more
  <1>2. \A i \in 1 .. Len(more) : i \in 1 .. Len(q) \/ i = Len(q) + 1
    BY <1>1
  <1>3. \A i \in 1 .. Len(q) : i \in 1 .. Len(more)
    BY <1>1
  <1>4. Len(q) + 1 \in 1 .. Len(more)
    BY <1>1
  <1>5. \A kind : Holds(more, kind) <=> Holds(q, kind) \/ r.kind = kind
    BY <1>1, <1>2, <1>3, <1>4 DEF Holds
  <1>6. HoldsTaken(more) <=> HoldsTaken(q) \/ (r.kind = "snapshot" /\ r.outcome = "ok")
    BY <1>1, <1>2, <1>3, <1>4 DEF HoldsTaken
  <1>7. ASSUME Once(q), r.kind = "snapshot" => ~ Holds(q, "snapshot")
        PROVE  Once(more)
    BY <1>1, <1>2, <1>7 DEF Once, Holds
  <1> QED BY <1>1, <1>5, <1>6, <1>7 DEF more

\* The first leaves the queue.
LEMMA QueueShrinks ==
  ASSUME NEW q \in Seq(Answers), q # <<>>
  PROVE  /\ Tail(q) \in Seq(Answers) /\ Head(q) \in Answers
         /\ Holds(q, Head(q).kind)
         /\ \A kind : Holds(Tail(q), kind) => Holds(q, kind)
         /\ HoldsTaken(Tail(q)) => HoldsTaken(q)
         /\ Head(q).kind = "snapshot" /\ Head(q).outcome = "ok" => HoldsTaken(q)
         /\ Once(q) => Once(Tail(q))
         /\ Once(q) /\ Head(q).kind = "snapshot" => ~ Holds(Tail(q), "snapshot")
  <1> DEFINE rest == Tail(q)
             first == Head(q)
  <1>1. /\ rest \in Seq(Answers) /\ Len(rest) = Len(q) - 1 /\ Len(q) \in Nat /\ Len(q) >= 1
        /\ first = q[1] /\ first \in Answers
        /\ \A i \in 1 .. Len(rest) : rest[i] = q[i + 1]
    <2>1. Len(q) \in Nat /\ Len(q) # 0
      OBVIOUS
    <2> QED BY <2>1
  <1> HIDE DEF rest, first
  <1>2. 1 \in 1 .. Len(q) /\ \A i \in 1 .. Len(rest) : i + 1 \in 1 .. Len(q) /\ i + 1 # 1
    BY <1>1
  <1>3. Holds(q, first.kind)
    BY <1>1, <1>2 DEF Holds
  <1>4. \A kind : Holds(rest, kind) => Holds(q, kind)
    BY <1>1, <1>2 DEF Holds
  <1>5. HoldsTaken(rest) => HoldsTaken(q)
    BY <1>1, <1>2 DEF HoldsTaken
  <1>6. first.kind = "snapshot" /\ first.outcome = "ok" => HoldsTaken(q)
    BY <1>1, <1>2 DEF HoldsTaken
  <1>7. Once(q) => Once(rest)
    <2> SUFFICES ASSUME Once(q), NEW i \in 1 .. Len(rest), NEW j \in 1 .. Len(rest),
                        rest[i].kind = "snapshot", rest[j].kind = "snapshot"
                 PROVE  i = j
      BY DEF Once
    <2>1. i + 1 = j + 1
      BY <1>1, <1>2 DEF Once
    <2> QED BY <1>1, <2>1
  <1>8. Once(q) /\ first.kind = "snapshot" => ~ Holds(rest, "snapshot")
    BY <1>1, <1>2 DEF Once, Holds
  <1> QED BY <1>1, <1>3, <1>4, <1>5, <1>6, <1>7, <1>8 DEF rest, first

\* An empty queue
LEMMA QueueIsEmpty ==
  /\ <<>> \in Seq(Answers) /\ Once(<<>>) /\ ~ HoldsTaken(<<>>)
  /\ \A kind : ~ Holds(<<>>, kind)
  BY DEF Once, HoldsTaken, Holds

\* The answers of the client's own, to what it gives up
LEMMA QueueOfLost ==
  ASSUME NEW q \in Seq(Answers), NEW s \in SetToSeqs(InFlight),
         NEW joined, joined = q \o [i \in 1 .. Len(s) |-> Result(s[i], "lost")]
  PROVE  /\ joined \in Seq(Answers)
         /\ \A kind : Holds(joined, kind) =>
               Holds(q, kind) \/ (kind \in Commands /\ rpc[kind] # "idle")
         /\ HoldsTaken(joined) => HoldsTaken(q)
         /\ Once(q) /\ (rpc["snapshot"] # "idle" => ~ Holds(q, "snapshot")) => Once(joined)
  <1> DEFINE lost == [i \in 1 .. Len(s) |-> Result(s[i], "lost")]
  <1>1. /\ s \in [1 .. Cardinality(InFlight) -> InFlight]
        /\ \A i, j \in 1 .. Cardinality(InFlight) : i # j => s[i] # s[j]
    BY DEF SetToSeqs
  <1>2. Cardinality(InFlight) \in Nat
    <2>1. IsFiniteSet({"submit", "cancel", "snapshot", "approve"})
      <3>1. IsFiniteSet({"submit"})
        BY FS_Singleton
      <3>2. IsFiniteSet({"submit"} \cup {"cancel"})
        BY <3>1, FS_AddElement
      <3>3. IsFiniteSet(({"submit"} \cup {"cancel"}) \cup {"snapshot"})
        BY <3>2, FS_AddElement
      <3>4. IsFiniteSet((({"submit"} \cup {"cancel"}) \cup {"snapshot"}) \cup {"approve"})
        BY <3>3, FS_AddElement
      <3>5. (({"submit"} \cup {"cancel"}) \cup {"snapshot"}) \cup {"approve"}
              = {"submit", "cancel", "snapshot", "approve"}
        OBVIOUS
      <3> QED BY <3>4, <3>5
    <2>2. InFlight \subseteq {"submit", "cancel", "snapshot", "approve"}
      BY DEF InFlight, Commands
    <2> QED BY <2>1, <2>2, FS_Subset, FS_CardinalityType
  <1>3. /\ Len(s) = Cardinality(InFlight) /\ Len(s) \in Nat
        /\ \A i \in 1 .. Len(s) : s[i] \in Commands /\ rpc[s[i]] # "idle"
        /\ \A i, j \in 1 .. Len(s) : s[i] = s[j] => i = j
    <2>1. s \in Seq(InFlight) /\ Len(s) = Cardinality(InFlight)
      BY <1>1, <1>2
    <2> QED BY <1>1, <1>2, <2>1 DEF InFlight
  <1>4. /\ lost \in Seq(Answers) /\ Len(lost) = Len(s)
        /\ \A i \in 1 .. Len(s) : lost[i].kind = s[i] /\ lost[i].outcome = "lost"
    <2>1. \A i \in 1 .. Len(s) : Result(s[i], "lost") \in Answers
      BY <1>3 DEF Result, Answers
    <2>2. lost \in [1 .. Len(s) -> Answers]
      BY <2>1
    <2>3. Len(s) \in Nat
      BY <1>3
    <2>4. lost \in Seq(Answers) /\ Len(lost) = Len(s)
      BY <2>2, <2>3
    <2>5. \A i \in 1 .. Len(s) : lost[i] = Result(s[i], "lost")
      OBVIOUS
    <2>6. \A i \in 1 .. Len(s) : lost[i].kind = s[i] /\ lost[i].outcome = "lost"
      BY <2>5 DEF Result
    <2> QED BY <2>4, <2>6
  <1>5. joined = q \o lost
    OBVIOUS
  <1> HIDE DEF lost
  <1>6. /\ joined \in Seq(Answers) /\ Len(joined) = Len(q) + Len(s) /\ Len(q) \in Nat
        /\ \A i \in 1 .. Len(q) : joined[i] = q[i]
        /\ \A i \in Len(q) + 1 .. Len(joined) :
              joined[i] = lost[i - Len(q)] /\ i - Len(q) \in 1 .. Len(s)
    <2>1. /\ joined \in Seq(Answers) /\ Len(joined) = Len(q) + Len(lost)
          /\ \A i \in 1 .. Len(q) + Len(lost) :
                joined[i] = IF i <= Len(q) THEN q[i] ELSE lost[i - Len(q)]
      <3>1. lost \in Seq(Answers)
        BY <1>4
      <3> QED BY <1>5, <3>1, ConcatProperties, Zenon
    <2>2. Len(q) \in Nat /\ Len(s) \in Nat /\ Len(lost) = Len(s)
      BY <1>3, <1>4
    <2>3. \A i \in 1 .. Len(q) : joined[i] = q[i]
      BY <2>1, <2>2
    <2>4. \A i \in Len(q) + 1 .. Len(joined) :
             joined[i] = lost[i - Len(q)] /\ i - Len(q) \in 1 .. Len(s)
      BY <2>1, <2>2
    <2> QED BY <2>1, <2>2, <2>3, <2>4
  <1>7. \A i \in 1 .. Len(joined) : i \in 1 .. Len(q) \/ i \in Len(q) + 1 .. Len(joined)
    BY <1>3, <1>6
  <1>8. \A kind : Holds(joined, kind) => Holds(q, kind) \/ (kind \in Commands /\ rpc[kind] # "idle")
    BY <1>3, <1>4, <1>6, <1>7 DEF Holds
  <1>9. HoldsTaken(joined) => HoldsTaken(q)
    BY <1>3, <1>4, <1>6, <1>7 DEF HoldsTaken
  <1>10. ASSUME Once(q), rpc["snapshot"] # "idle" => ~ Holds(q, "snapshot")
         PROVE  Once(joined)
    <2> SUFFICES ASSUME NEW i \in 1 .. Len(joined), NEW j \in 1 .. Len(joined),
                        joined[i].kind = "snapshot", joined[j].kind = "snapshot"
                 PROVE  i = j
      BY DEF Once
    <2>1. CASE i \in 1 .. Len(q) /\ j \in 1 .. Len(q)
      BY <1>6, <1>10, <2>1 DEF Once
    <2>2. \A m \in 1 .. Len(joined), n \in 1 .. Len(joined) :
             m \in 1 .. Len(q) /\ n \in Len(q) + 1 .. Len(joined) =>
                ~ (joined[m].kind = "snapshot" /\ joined[n].kind = "snapshot")
      BY <1>3, <1>4, <1>6, <1>10 DEF Holds
    <2>3. CASE i \in Len(q) + 1 .. Len(joined) /\ j \in Len(q) + 1 .. Len(joined)
      <3>1. s[i - Len(q)] = s[j - Len(q)]
        BY <1>4, <1>6, <2>3
      <3>2. i - Len(q) = j - Len(q)
        BY <1>3, <1>6, <2>3, <3>1
      <3> QED BY <1>6, <2>3, <3>2
    <2> QED BY <1>7, <2>1, <2>2, <2>3
  <1> QED BY <1>6, <1>8, <1>9, <1>10

\* The number of events there can be is at most three.
LEMMA CausedIs ==
  ASSUME DaemonTyped
  PROVE  Caused \in Nat /\ Caused <= 3
  BY DEF Caused, One

\* What the numbers are, for a command line
LEMMA BehindIs ==
  ASSUME CommandInv
  PROVE  /\ Me \in Clients /\ Len(log) \in Nat /\ pos[Me] \in Nat /\ pos[Me] <= Len(log)
         /\ Behind \in Nat /\ ReplayLimit \in Nat /\ MaxLog \in Nat /\ Len(log) <= MaxLog
  <1>1. Me \in Clients
    BY CommandAssumption
  <1>2. Typed /\ ClientInv(Me)
    BY <1>1 DEF CommandInv, DeliveryInv
  <1>3. pos[Me] <= Len(log)
    BY <1>2 DEF ClientInv
  <1> QED BY <1>1, <1>2, <1>3, NumbersAre, CapacitiesAssumption DEF Behind

\* What the client knows of its replay when it is counted
LEMMA CountedIs ==
  ASSUME CommandInv, NEW known \in Known
  PROVE  /\ Counted(known) \in Known
         /\ Counted(known) = [known EXCEPT !.replaying = Counted(known).replaying,
                                           !.cut = Counted(known).cut, !.left = Counted(known).left]
  <1>1. Behind \in Nat /\ ReplayLimit \in Nat
    BY BehindIs
  <1>2. PICK r \in BOOLEAN : r = (Behind > 0)
    BY (Behind > 0) \in BOOLEAN
  <1>3. PICK u \in BOOLEAN : u = (Behind > ReplayLimit)
    BY (Behind > ReplayLimit) \in BOOLEAN
  <1>4. PICK n \in 0 .. ReplayLimit : n = IF Behind > ReplayLimit THEN ReplayLimit ELSE Behind
    BY <1>1
  <1>5. Counted(known) = [known EXCEPT !.replaying = r, !.cut = u, !.left = n]
    BY <1>2, <1>3, <1>4 DEF Counted
  <1>6. [known EXCEPT !.replaying = r, !.cut = u, !.left = n] \in Known
    BY DEF Known
  <1> QED BY <1>5, <1>6 DEF Known

\* A step of the client that leaves the run and the stream alone
LEMMA ClientKeeps ==
  ASSUME CommandInv, IsCommand, at # "ended", DeliveryInv',
         UNCHANGED <<log, seen, pos, stops, front, how, daemonVars, exit>>,
         LoopTyped', Stages', SnapshotsHold', CancelsAreMeant',
         cl'.errors = cl.errors, rpc'["submit"] = "sent" => run.status = "none"
  PROVE  CommandInv'
  <1>1. CommandTyped /\ CommandParts
    BY DEF CommandInv
  <1>2. CommandTyped' /\ IsCommand'
    BY <1>1 DEF CommandTyped, DaemonTyped, daemonVars, IsCommand
  <1>3. RunGoesOn'
    BY <1>1 DEF CommandParts, RunGoesOn, daemonVars, Caused, Active
  <1>4. ErrorsAreKept'
    BY <1>1 DEF CommandParts, ErrorsAreKept
  <1>5. exit = "none"
    BY <1>1 DEF CommandParts, Stages
  <1>6. Earned'
    BY <1>5 DEF Earned
  <1> QED BY <1>2, <1>3, <1>4, <1>6 DEF CommandInv, CommandParts

\* Snapshots hold while none is taken and none comes into the queue.
LEMMA SnapshotsStay ==
  ASSUME CommandInv, IsCommand, UNCHANGED <<log, daemonVars, snapshot, ahead>>,
         candidate' \in {candidate, NoSnapshot}, cl'.polling = cl.polling,
         rpc'["snapshot"] = rpc["snapshot"], Once(results'),
         Holds(results', "snapshot") => Holds(results, "snapshot"),
         HoldsTaken(results') => HoldsTaken(results)
  PROVE  SnapshotsHold'
  <1>1. SnapshotsHold
    BY DEF CommandInv, CommandParts
  <1>2. OfTheRun(snapshot)' = OfTheRun(snapshot)
    BY DEF OfTheRun, daemonVars
  <1>3. Complete(snapshot)' = Complete(snapshot)
    BY <1>2 DEF Complete, daemonVars
  <1>4. candidate' # NoSnapshot => Complete(candidate)'
    BY <1>1 DEF SnapshotsHold, Complete, OfTheRun, daemonVars
  <1> QED BY <1>1, <1>2, <1>3, <1>4 DEF SnapshotsHold, daemonVars

\* A command is sent, or fails at once when there is no connection.
LEMMA SendsIs ==
  ASSUME LoopTyped, NEW k \in Commands, NEW rest \in Seq(Answers), Sends(k, rest)
  PROVE  /\ rpc' \in [Commands -> {"idle", "sent", "flush"}] /\ results' \in Seq(Answers)
         /\ \A j \in Commands \ {k} : rpc'[j] = rpc[j]
         /\ rpc'[k] \in {rpc[k], "sent"}
         /\ \A kind : Holds(results', kind) => Holds(rest, kind) \/ kind = k
         /\ HoldsTaken(results') => HoldsTaken(rest)
         /\ k # "snapshot" /\ Once(rest) => Once(results')
         /\ cl.re = "no" => results' = rest /\ rpc'[k] = "sent"
  <1>1. Result(k, "broken") \in Answers /\ Result(k, "broken").kind = k
        /\ Result(k, "broken").outcome = "broken"
    BY DEF Result, Answers
  <1>2. CASE cl.re \in {"closing", "opening"}
    <2>1. rpc' = rpc /\ results' = Append(rest, Result(k, "broken"))
      BY <1>2 DEF Sends
    <2>2. /\ results' \in Seq(Answers)
          /\ \A kind : Holds(results', kind) => Holds(rest, kind) \/ kind = k
          /\ HoldsTaken(results') => HoldsTaken(rest)
          /\ k # "snapshot" /\ Once(rest) => Once(results')
      BY <1>1, <2>1, QueueGrows
    <2> QED BY <1>2, <2>1, <2>2 DEF LoopTyped
  <1>3. CASE cl.re \notin {"closing", "opening"}
    <2>1. rpc' = [rpc EXCEPT ![k] = "sent"] /\ results' = rest
      BY <1>3 DEF Sends
    <2> QED BY <2>1 DEF LoopTyped
  <1> QED BY <1>2, <1>3

-------------------------------------------------------------------------------
(* The client's steps keep the invariant *)

\* A step of the client that leaves snapshots alone
LEMMA LoopKeeps ==
  ASSUME CommandInv, IsCommand, at # "ended", DeliveryInv',
         UNCHANGED <<log, seen, pos, stops, front, how, daemonVars, exit, ahead, snapshot>>,
         at' = "loop" \/ (at' = at /\ rpc' = rpc /\ cl' = cl),
         candidate' \in {candidate, NoSnapshot}, acts' \subseteq Inputs, cl' \in Known,
         rpc' \in [Commands -> {"idle", "sent", "flush"}], results' \in Seq(Answers),
         cl'.polling = cl.polling, cl'.errors = cl.errors,
         rpc'["snapshot"] = rpc["snapshot"], Once(results'),
         Holds(results', "snapshot") => Holds(results, "snapshot"),
         HoldsTaken(results') => HoldsTaken(results), CancelsAreMeant',
         rpc'["submit"] = "sent" => run.status = "none"
  PROVE  CommandInv'
  <1>1. CommandTyped /\ CommandParts
    BY DEF CommandInv
  <1>2. NoSnapshot \in Kept
    BY CapacitiesAssumption DEF NoSnapshot, Kept
  <1>3. LoopTyped'
    BY <1>1, <1>2 DEF CommandTyped, LoopTyped, daemonVars
  <1>4. Stages'
    BY <1>1 DEF CommandParts, Stages, daemonVars, OneShot, Idle
  <1>5. SnapshotsHold'
    BY SnapshotsStay
  <1> QED BY <1>3, <1>4, <1>5, ClientKeeps

\* Cancellations are meant while none begins.
LEMMA CancelsStay ==
  ASSUME CommandInv, IsCommand, how' = how, acts \subseteq acts',
         cl'.cancelling = cl.cancelling, cl'.unattended = cl.unattended,
         rpc'["cancel"] = rpc["cancel"],
         Holds(results', "interrupt") => Holds(results, "interrupt") \/ "interrupt" \in acts',
         Holds(results', "cancel") => Holds(results, "cancel")
  PROVE  CancelsAreMeant'
  <1>1. CancelsAreMeant
    BY DEF CommandInv, CommandParts
  <1> QED BY <1>1 DEF CancelsAreMeant, OneShot

\* A cancellation that begins
LEMMA CancelBegins ==
  ASSUME CommandInv, IsCommand, acts' = acts, cl'.cancelling,
         cl'.unattended \/ "interrupt" \in acts,
         Holds(results', "interrupt") => Holds(results, "interrupt")
  PROVE  CancelsAreMeant'
  <1>1. CancelsAreMeant
    BY DEF CommandInv, CommandParts
  <1> QED BY <1>1 DEF CancelsAreMeant

\* What is taken from the queue
LEMMA TakesIs ==
  ASSUME CommandInv, IsCommand, NEW kind, Takes(kind)
  PROVE  /\ at = "loop" /\ exit = "none" /\ Holds(results, kind)
         /\ Rest \in Seq(Answers) /\ Head(results) \in Answers /\ Head(results).kind = kind
         /\ \A k : Holds(Rest, k) => Holds(results, k)
         /\ HoldsTaken(Rest) => HoldsTaken(results)
         /\ kind = "snapshot" /\ Ok => HoldsTaken(results)
         /\ Once(Rest) /\ (kind = "snapshot" => ~ Holds(Rest, "snapshot"))
         /\ LoopTyped /\ Typed
  <1>1. /\ LoopTyped /\ Stages /\ SnapshotsHold /\ Typed
    BY DEF CommandInv, CommandTyped, CommandParts, DeliveryInv
  <1>2. at = "loop" /\ results # <<>> /\ Head(results).kind = kind /\ results \in Seq(Answers)
    BY <1>1 DEF Takes, Waits, LoopTyped
  <1>3. /\ Tail(results) \in Seq(Answers) /\ Head(results) \in Answers
        /\ Holds(results, Head(results).kind)
        /\ \A k : Holds(Tail(results), k) => Holds(results, k)
        /\ HoldsTaken(Tail(results)) => HoldsTaken(results)
        /\ Head(results).kind = "snapshot" /\ Head(results).outcome = "ok" => HoldsTaken(results)
        /\ Once(results) => Once(Tail(results))
        /\ Once(results) /\ Head(results).kind = "snapshot" => ~ Holds(Tail(results), "snapshot")
    BY <1>2, QueueShrinks
  <1> QED BY <1>1, <1>2, <1>3 DEF Rest, Ok, Stages, SnapshotsHold

\* An item of the queue that starts no command
LEMMA GoesKeeps ==
  ASSUME CommandInv, IsCommand, NEW kind, Takes(kind), NEW known \in Known, Goes(known),
         kind # "snapshot", UNCHANGED candidate, LoopOnly, UNCHANGED acts,
         known.polling = cl.polling, known.errors = cl.errors,
         known.cancelling = cl.cancelling, known.unattended = cl.unattended
  PROVE  CommandInv'
  <1>1. /\ at = "loop" /\ Rest \in Seq(Answers) /\ LoopTyped
        /\ \A k : Holds(Rest, k) => Holds(results, k)
        /\ HoldsTaken(Rest) => HoldsTaken(results)
        /\ Once(Rest)
    BY TakesIs
  <1>2. cl' = known /\ results' = Rest /\ rpc' = rpc
    BY DEF Goes
  <1>3. /\ UNCHANGED vars /\ UNCHANGED <<how, daemonVars, ahead, at, exit, snapshot, acts>>
        /\ UNCHANGED <<log, seen, pos, stops, front>>
    BY DEF LoopOnly, vars, clientVars, countVars
  <1>4. DeliveryInv'
    BY <1>3, NextKeeps DEF CommandInv
  <1>5. CancelsAreMeant'
    BY <1>1, <1>2, <1>3, CancelsStay
  <1>6. rpc["submit"] = "sent" => run.status = "none"
    BY DEF CommandInv, CommandParts, RunGoesOn
  <1> QED BY <1>1, <1>2, <1>3, <1>4, <1>5, <1>6, LoopKeeps DEF LoopTyped

\* A cancellation is asked for.
LEMMA RequestsCancelKeeps ==
  ASSUME CommandInv, IsCommand, NEW kind, Takes(kind), NEW known \in Known,
         RequestsCancel(known, Rest), kind # "snapshot", UNCHANGED candidate, LoopOnly,
         UNCHANGED acts, known.polling = cl.polling, known.errors = cl.errors,
         known.unattended \/ "interrupt" \in acts
  PROVE  CommandInv'
  <1>1. /\ at = "loop" /\ Rest \in Seq(Answers) /\ LoopTyped
        /\ \A k : Holds(Rest, k) => Holds(results, k)
        /\ HoldsTaken(Rest) => HoldsTaken(results)
        /\ Once(Rest)
    BY TakesIs
  <1>2. cl' = [known EXCEPT !.cancelling = TRUE]
    BY DEF RequestsCancel
  <1>3. /\ cl' \in Known /\ cl'.cancelling /\ cl'.unattended = known.unattended
        /\ cl'.polling = cl.polling /\ cl'.errors = cl.errors
    BY <1>2 DEF Known
  <1>4. /\ rpc' \in [Commands -> {"idle", "sent", "flush"}] /\ results' \in Seq(Answers)
        /\ rpc'["snapshot"] = rpc["snapshot"] /\ rpc'["submit"] = rpc["submit"]
        /\ \A k : Holds(results', k) => Holds(results, k) \/ k = "cancel"
        /\ HoldsTaken(results') => HoldsTaken(results)
        /\ Once(results')
    <2>1. CASE known.active
      <3>1. Sends("cancel", Rest) /\ "cancel" \in Commands
        BY <2>1 DEF RequestsCancel, Commands
      <3>2. /\ rpc' \in [Commands -> {"idle", "sent", "flush"}] /\ results' \in Seq(Answers)
            /\ \A j \in Commands \ {"cancel"} : rpc'[j] = rpc[j]
            /\ \A k : Holds(results', k) => Holds(Rest, k) \/ k = "cancel"
            /\ HoldsTaken(results') => HoldsTaken(Rest)
            /\ "cancel" # "snapshot" /\ Once(Rest) => Once(results')
        BY <1>1, <3>1, SendsIs
      <3> QED BY <1>1, <3>2 DEF Commands
    <2>2. CASE ~ known.active
      <3>1. rpc' = rpc /\ results' = Rest
        BY <2>2 DEF RequestsCancel
      <3> QED BY <1>1, <3>1 DEF LoopTyped
    <2> QED BY <2>1, <2>2
  <1>5. /\ UNCHANGED vars /\ UNCHANGED <<how, daemonVars, ahead, at, exit, snapshot, acts>>
        /\ UNCHANGED <<log, seen, pos, stops, front>>
    BY DEF LoopOnly, vars, clientVars, countVars
  <1>6. DeliveryInv'
    BY <1>5, NextKeeps DEF CommandInv
  <1>7. CancelsAreMeant'
    BY <1>3, <1>4, <1>5, CancelBegins
  <1>8. rpc'["submit"] = "sent" => run.status = "none"
    BY <1>4 DEF CommandInv, CommandParts, RunGoesOn
  <1> QED BY <1>1, <1>3, <1>4, <1>5, <1>6, <1>7, <1>8, LoopKeeps DEF LoopTyped

\* A command is sent.
LEMMA CommandSentKeeps ==
  ASSUME CommandInv, IsCommand, at \in {"answer", "loop"}, at' = "loop",
         NEW k \in {"submit", "approve"},
         NEW rest \in Seq(Answers), Sends(k, rest), NEW known \in Known, cl' = known,
         \A j : Holds(rest, j) => Holds(results, j), HoldsTaken(rest) => HoldsTaken(results),
         Once(rest), UNCHANGED <<vars, how, daemonVars, ahead, exit, snapshot, candidate, acts>>,
         known.polling = cl.polling, known.errors = cl.errors,
         \/ known.cancelling = cl.cancelling /\ known.unattended = cl.unattended
         \/ known.cancelling /\ known.unattended
         \/ ~ known.cancelling /\ ~ OneShot,
         k = "submit" => run.status = "none"
  PROVE  CommandInv'
  <1>1. LoopTyped /\ CancelsAreMeant /\ RunGoesOn
    BY DEF CommandInv, CommandTyped, CommandParts
  <1>2. k \in Commands /\ k # "snapshot" /\ k # "cancel" /\ k # "interrupt"
    BY DEF Commands
  <1>3. /\ rpc' \in [Commands -> {"idle", "sent", "flush"}] /\ results' \in Seq(Answers)
        /\ \A j \in Commands \ {k} : rpc'[j] = rpc[j]
        /\ rpc'[k] \in {rpc[k], "sent"}
        /\ \A j : Holds(results', j) => Holds(rest, j) \/ j = k
        /\ HoldsTaken(results') => HoldsTaken(rest)
        /\ k # "snapshot" /\ Once(rest) => Once(results')
    BY <1>1, <1>2, SendsIs
  <1>4. /\ rpc'["snapshot"] = rpc["snapshot"] /\ rpc'["cancel"] = rpc["cancel"]
        /\ rpc'["submit"] = "sent" => run.status = "none"
        /\ Holds(results', "snapshot") => Holds(results, "snapshot")
        /\ Holds(results', "interrupt") => Holds(results, "interrupt")
        /\ Holds(results', "cancel") => Holds(results, "cancel")
        /\ HoldsTaken(results') => HoldsTaken(results) /\ Once(results')
    BY <1>1, <1>2, <1>3 DEF Commands, RunGoesOn
  <1>5. CancelsAreMeant'
    <2>1. CASE known.cancelling = cl.cancelling /\ known.unattended = cl.unattended
      BY <1>4, <2>1, CancelsStay
    <2>2. CASE known.cancelling /\ known.unattended
      BY <1>4, <2>2, CancelBegins
    <2>3. CASE ~ known.cancelling /\ ~ OneShot
      BY <1>1, <1>4, <2>3 DEF CancelsAreMeant, OneShot
    <2> QED BY <2>1, <2>2, <2>3
  <1>6. DeliveryInv'
    BY NextKeeps DEF CommandInv
  <1>7. UNCHANGED <<log, seen, pos, stops, front>>
    BY DEF vars, clientVars, countVars
  <1>8. acts' \subseteq Inputs
    BY <1>1 DEF LoopTyped
  <1> QED BY <1>3, <1>4, <1>5, <1>6, <1>7, <1>8, LoopKeeps

\* The command line closes its connection.
LEMMA CommandLeaves ==
  ASSUME DeliveryInv, IsCommand, Leave(Me),
         UNCHANGED <<log, latest, hub, worker, front, losses, stops, lastCursor, pos, seen>>
  PROVE  DeliveryInv'
  <1>1. Typed /\ Me \in Clients /\ ClientInv(Me)
    BY CommandAssumption DEF DeliveryInv
  <1>2. /\ conn' = [conn EXCEPT ![Me] = "down"] /\ wire' = [wire EXCEPT ![Me] = <<>>]
        /\ sub' = [sub EXCEPT ![Me] = NoSub] /\ inbox' = [inbox EXCEPT ![Me] = <<>>]
        /\ overflow' = [overflow EXCEPT ![Me] = FALSE]
        /\ asking' = [asking EXCEPT ![Me] = FALSE]
    BY DEF Leave, Unsubscribed
  <1>3. Typed'
    <2>1. <<>> \in SomeItems
      BY DEF SomeItems
    <2>2. /\ sub' \in [Clients -> Subs] /\ conn' \in [Clients -> {"down", "up", "eof"}]
          /\ wire' \in [Clients -> SomeItems] /\ inbox' \in [Clients -> SomeItems]
          /\ overflow' \in [Clients -> BOOLEAN] /\ asking' \in [Clients -> BOOLEAN]
      BY <1>1, <1>2, <2>1, NoSubIs DEF Typed
    <2> QED BY <1>1, <2>2 DEF Typed
  <1>4. \A d \in Clients \ {Me} : Untouched(d)
    BY <1>1, <1>2 DEF Untouched, Typed
  <1>5. ClientInv(Me)'
    <2>1. /\ sub'[Me] = NoSub /\ wire'[Me] = <<>> /\ inbox'[Me] = <<>>
          /\ ~ overflow'[Me] /\ ~ asking'[Me]
      BY <1>1, <1>2 DEF Typed
    <2>2. Apart(Me)' /\ Sized(Me)'
      BY <2>1, NoSubIs, CapacitiesAssumption DEF Apart, Quiet, Sized
    <2>3. pos'[Me] <= Len(log') /\ seen'[Me] = InOrder(Wants(Me, 0, pos[Me]))'
      BY <1>1, WantsSame DEF ClientInv
    <2> QED BY <2>2, <2>3 DEF ClientInv, IsCommand
  <1> QED BY <1>1, <1>3, <1>4, <1>5, OneClientMoves

\* The command ends.
LEMMA EndKeeps ==
  ASSUME CommandInv, IsCommand, at # "ended", NEW code \in {"zero", "one", "interrupted"},
         End(code),
         code = "zero" /\ OneShot =>
           /\ run.status = "succeeded" /\ run.text
           /\ \A k \in 1..Len(log) : log[k] # Failure /\ (log[k] \in Scope => k \in ToSet(seen[Me]))
           /\ Failure \in published => stops > 0,
         code = "interrupted" => "interrupt" \in acts \/ run.status = "cancelled"
  PROVE  CommandInv'
  <1>1. CommandTyped /\ CommandParts /\ Typed /\ Me \in Clients /\ ClientInv(Me)
    BY CommandAssumption DEF CommandInv, DeliveryInv
  <1>2. /\ at' = "ended" /\ exit' = code /\ cl' = NewClient /\ rpc' = Idle /\ ahead' = 0
        /\ results' = <<>> /\ snapshot' = NoSnapshot /\ candidate' = NoSnapshot
        /\ Leave(Me) /\ UNCHANGED <<log, latest, hub, worker, front, losses, stops, lastCursor>>
        /\ UNCHANGED <<pos, seen, how, run, ask, owed, published, acts>>
    BY DEF End, hubVars, clientVars, countVars, daemonVars
  <1>3. DeliveryInv'
    BY <1>2, CommandLeaves DEF CommandInv
  <1>4. NewClient \in Known /\ NoSnapshot \in Kept /\ 0 \in 0 .. Len(owed)
    BY <1>1, CapacitiesAssumption
       DEF NewClient, Known, NoSnapshot, Kept, CommandTyped, DaemonTyped
  <1>5. CommandTyped'
    BY <1>1, <1>2, <1>4, QueueIsEmpty DEF CommandTyped, DaemonTyped, LoopTyped, Idle
  <1>6. Stages'
    BY <1>2 DEF Stages, NewClient
  <1>7. RunGoesOn'
    BY <1>1, <1>2 DEF CommandParts, RunGoesOn, Caused, Active, Idle, Commands
  <1>8. SnapshotsHold' /\ CancelsAreMeant'
    BY <1>2, QueueIsEmpty DEF SnapshotsHold, CancelsAreMeant, Idle, Commands, NewClient
  <1>9. ErrorsAreKept'
    BY <1>2 DEF ErrorsAreKept
  <1>10. Earned'
    BY <1>2 DEF Earned, OneShot
  <1>11. IsCommand'
    BY <1>2 DEF IsCommand
  <1> QED BY <1>3, <1>5, <1>6, <1>7, <1>8, <1>9, <1>10, <1>11 DEF CommandInv, CommandParts

\* The loop begins, and a command is submitted.
LEMMA EntersKeeps ==
  ASSUME CommandInv, IsCommand, Enters
  PROVE  CommandInv'
  <1>1. LoopTyped /\ Stages /\ SnapshotsHold /\ CancelsAreMeant /\ RunGoesOn
    BY DEF CommandInv, CommandTyped, CommandParts
  <1>2. /\ at = "answer" /\ at' = "loop"
        /\ UNCHANGED <<vars, how, daemonVars, ahead, exit, snapshot, candidate, acts>>
    BY DEF Enters
  <1>3. CASE OneShot
    <2>1. cl' = [cl EXCEPT !.submitting = TRUE] /\ Sends("submit", results)
      BY <1>3 DEF Enters
    <2>2. PICK known \in Known : known = [cl EXCEPT !.submitting = TRUE]
      BY <1>1 DEF LoopTyped, Known
    <2>3. /\ known.polling = cl.polling /\ known.errors = cl.errors
          /\ known.cancelling = cl.cancelling /\ known.unattended = cl.unattended
      BY <1>1, <2>2 DEF LoopTyped, Known
    <2>4. run.status = "none" /\ results \in Seq(Answers) /\ Once(results)
      BY <1>1, <1>2, <1>3 DEF Stages, SnapshotsHold, LoopTyped
    <2> QED BY <1>2, <2>1, <2>2, <2>3, <2>4, CommandSentKeeps
  <1>4. CASE ~ OneShot
    <2>1. cl' = cl /\ rpc' = rpc /\ results' = results
      BY <1>4 DEF Enters
    <2>2. DeliveryInv' /\ UNCHANGED <<log, seen, pos, stops, front>>
      BY <1>2, NextKeeps DEF CommandInv, vars, clientVars, countVars
    <2>3. CancelsAreMeant'
      BY <1>2, <2>1, CancelsStay
    <2>4. /\ rpc["submit"] = "sent" => run.status = "none"
          /\ Once(results)
      BY <1>1 DEF RunGoesOn, SnapshotsHold
    <2> QED BY <1>1, <1>2, <2>1, <2>2, <2>3, <2>4, LoopKeeps DEF LoopTyped
  <1> QED BY <1>3, <1>4

\* A prompt is shown, or nobody can answer it.
LEMMA ShowPromptKeeps ==
  ASSUME CommandInv, IsCommand, ShowPrompt
  PROVE  CommandInv'
  <1> DEFINE denied == [cl EXCEPT !.prompt = FALSE, !.unattended = TRUE]
  <1>1. LoopTyped /\ Stages /\ SnapshotsHold /\ CancelsAreMeant /\ RunGoesOn
    BY DEF CommandInv, CommandTyped, CommandParts
  <1>2. /\ at = "loop" /\ at' = at
        /\ UNCHANGED <<vars, how, daemonVars, ahead, exit, snapshot, candidate, acts>>
        /\ UNCHANGED <<log, seen, pos, stops, front>>
        /\ results \in Seq(Answers) /\ Once(results) /\ cl \in Known
        /\ rpc \in [Commands -> {"idle", "sent", "flush"}] /\ acts \subseteq Inputs
    BY <1>1 DEF ShowPrompt, MustShow, vars, clientVars, countVars, LoopTyped, SnapshotsHold
  <1>3. DeliveryInv' /\ (rpc["submit"] = "sent" => run.status = "none")
    BY <1>1, <1>2, NextKeeps DEF CommandInv, RunGoesOn
  <1>4. CASE ~ cl.prompt \/ how.interactive
    <2>1. cl' = [cl EXCEPT !.shown = cl.prompt] /\ rpc' = rpc /\ results' = results
      BY <1>4 DEF ShowPrompt
    <2>2. /\ cl' \in Known /\ cl'.polling = cl.polling /\ cl'.errors = cl.errors
          /\ cl'.cancelling = cl.cancelling /\ cl'.unattended = cl.unattended
      BY <1>2, <2>1 DEF Known
    <2>3. CancelsAreMeant'
      BY <1>2, <2>1, <2>2, CancelsStay
    <2> QED BY <1>2, <1>3, <2>1, <2>2, <2>3, LoopKeeps
  <1>5. PICK known \in Known : known = [denied EXCEPT !.cancelling = TRUE]
    BY <1>2 DEF Known
  <1>6. /\ known.polling = cl.polling /\ known.errors = cl.errors
        /\ known.cancelling /\ known.unattended
    BY <1>2, <1>5 DEF Known
  <1>7. CASE ~ (~ cl.prompt \/ how.interactive) /\ (cl.cancelling \/ ~ cl.active)
    <2>1. cl' = known /\ Sends("approve", results)
      BY <1>5, <1>7 DEF ShowPrompt
    <2> QED BY <1>2, <1>6, <2>1, CommandSentKeeps
  <1>8. CASE ~ (~ cl.prompt \/ how.interactive) /\ ~ (cl.cancelling \/ ~ cl.active)
    <2>1. /\ cl' = known /\ results' = results
          /\ rpc' = [rpc EXCEPT !["approve"] = "sent", !["cancel"] = "sent"]
      BY <1>5, <1>8 DEF ShowPrompt
    <2>2. /\ rpc' \in [Commands -> {"idle", "sent", "flush"}]
          /\ rpc'["snapshot"] = rpc["snapshot"] /\ rpc'["submit"] = rpc["submit"]
      BY <1>2, <2>1 DEF Commands
    <2>3. CancelsAreMeant'
      BY <1>2, <1>6, <2>1, CancelBegins
    <2> QED BY <1>2, <1>3, <1>6, <2>1, <2>2, <2>3, LoopKeeps
  <1> QED BY <1>4, <1>7, <1>8

\* The answer to a message
LEMMA TakesSubmittedKeeps ==
  ASSUME CommandInv, IsCommand, TakesSubmitted
  PROVE  CommandInv'
  <1>1. Takes("submit") /\ at # "ended" /\ LoopTyped /\ "submit" # "snapshot"
    BY TakesIs DEF TakesSubmitted
  <1>2. CASE ~ Ok /\ End("one")
    BY <1>1, <1>2, EndKeeps
  <1>3. CASE Ok
    <2>1. PICK known \in Known : known = [cl EXCEPT !.submitting = FALSE, !.active = TRUE]
      BY <1>1 DEF LoopTyped, Known
    <2>2. /\ known.polling = cl.polling /\ known.errors = cl.errors
          /\ known.cancelling = cl.cancelling /\ known.unattended = cl.unattended
      BY <1>1, <2>1 DEF LoopTyped, Known
    <2>3. /\ IF cl.cancelling THEN RequestsCancel(known, Rest) ELSE Goes(known)
          /\ UNCHANGED candidate /\ LoopOnly
      BY <1>3, <2>1 DEF TakesSubmitted
    <2>4. UNCHANGED acts
      BY <2>3 DEF LoopOnly
    <2>5. CASE cl.cancelling
      <3>1. known.unattended \/ "interrupt" \in acts
        BY <2>2, <2>5 DEF CommandInv, CommandParts, CancelsAreMeant
      <3> QED BY <1>1, <2>2, <2>3, <2>4, <2>5, <3>1, RequestsCancelKeeps
    <2>6. CASE ~ cl.cancelling
      BY <1>1, <2>2, <2>3, <2>4, <2>6, GoesKeeps
    <2> QED BY <2>5, <2>6
  <1> QED BY <1>2, <1>3 DEF TakesSubmitted

\* The answer to a cancellation: the run of a one-shot command is cancelled on purpose.
LEMMA TakesCancelledKeeps ==
  ASSUME CommandInv, IsCommand, TakesCancelled
  PROVE  CommandInv'
  <1>1. /\ Takes("cancel") /\ at # "ended" /\ LoopTyped /\ "cancel" # "snapshot"
        /\ Holds(results, "cancel")
    BY TakesIs DEF TakesCancelled
  <1>2. CASE Head(results).outcome = "broken" /\ End("one")
    BY <1>1, <1>2, EndKeeps
  <1>3. CASE OneShot /\ End(IF cl.unattended THEN "one" ELSE "interrupted")
    <2>1. cl.unattended \/ "interrupt" \in acts
      BY <1>1, <1>3 DEF CommandInv, CommandParts, CancelsAreMeant
    <2>2. CASE cl.unattended
      BY <1>1, <1>3, <2>2, EndKeeps
    <2>3. CASE ~ cl.unattended
      BY <1>1, <1>3, <2>1, <2>3, EndKeeps
    <2> QED BY <2>2, <2>3
  <1>4. CASE Goes(cl) /\ UNCHANGED candidate /\ LoopOnly
    <2>1. UNCHANGED acts /\ cl \in Known
      BY <1>1, <1>4 DEF LoopOnly, LoopTyped
    <2> QED BY <1>1, <1>4, <2>1, GoesKeeps
  <1> QED BY <1>2, <1>3, <1>4 DEF TakesCancelled

\* The answer to a response
LEMMA TakesApprovedKeeps ==
  ASSUME CommandInv, IsCommand, TakesApproved
  PROVE  CommandInv'
  <1>1. Takes("approve") /\ at # "ended" /\ LoopTyped /\ "approve" # "snapshot"
    BY TakesIs DEF TakesApproved
  <1>2. CASE ~ Ok /\ End("one")
    BY <1>1, <1>2, EndKeeps
  <1>3. CASE Goes(cl) /\ UNCHANGED candidate /\ LoopOnly
    <2>1. UNCHANGED acts /\ cl \in Known
      BY <1>1, <1>3 DEF LoopOnly, LoopTyped
    <2> QED BY <1>1, <1>3, <2>1, GoesKeeps
  <1> QED BY <1>2, <1>3 DEF TakesApproved

\* An interrupt
LEMMA TakesInterruptKeeps ==
  ASSUME CommandInv, IsCommand, TakesInterrupt
  PROVE  CommandInv'
  <1>1. /\ Takes("interrupt") /\ at # "ended" /\ LoopTyped /\ "interrupt" # "snapshot"
        /\ Holds(results, "interrupt")
    BY TakesIs DEF TakesInterrupt
  <1>2. "interrupt" \in acts
    BY <1>1 DEF CommandInv, CommandParts, CancelsAreMeant
  <1>3. CASE End("interrupted")
    BY <1>1, <1>2, <1>3, EndKeeps
  <1>4. CASE /\ IF cl.cancelling THEN Goes(cl) ELSE RequestsCancel(cl, Rest)
             /\ UNCHANGED candidate /\ LoopOnly
    <2>1. UNCHANGED acts /\ cl \in Known
      BY <1>1, <1>4 DEF LoopOnly, LoopTyped
    <2>2. CASE cl.cancelling
      BY <1>1, <1>4, <2>1, <2>2, GoesKeeps
    <2>3. CASE ~ cl.cancelling
      BY <1>1, <1>2, <1>4, <2>1, <2>3, RequestsCancelKeeps
    <2> QED BY <2>2, <2>3
  <1> QED BY <1>3, <1>4 DEF TakesInterrupt

\* The end of the input
LEMMA TakesEofKeeps ==
  ASSUME CommandInv, IsCommand, TakesEof
  PROVE  CommandInv'
  <1>1. Takes("eof") /\ at # "ended" /\ LoopTyped /\ "eof" # "snapshot"
    BY TakesIs DEF TakesEof
  <1>2. CASE ~ OneShot /\ End("zero")
    BY <1>1, <1>2, EndKeeps
  <1>3. CASE OneShot
    <2>1. PICK known \in Known : known = [cl EXCEPT !.unattended = TRUE]
      BY <1>1 DEF LoopTyped, Known
    <2>2. known.polling = cl.polling /\ known.errors = cl.errors /\ known.unattended
      BY <1>1, <2>1 DEF LoopTyped, Known
    <2>3. /\ IF cl.cancelling THEN Goes(cl) ELSE RequestsCancel(known, Rest)
          /\ UNCHANGED candidate /\ LoopOnly
      BY <1>3, <2>1 DEF TakesEof
    <2>4. UNCHANGED acts /\ cl \in Known
      BY <1>1, <2>3 DEF LoopOnly, LoopTyped
    <2>5. CASE cl.cancelling
      BY <1>1, <2>3, <2>4, <2>5, GoesKeeps
    <2>6. CASE ~ cl.cancelling
      BY <1>1, <2>2, <2>3, <2>4, <2>6, RequestsCancelKeeps
    <2> QED BY <2>5, <2>6
  <1> QED BY <1>2, <1>3 DEF TakesEof

\* A line
LEMMA TakesLineKeeps ==
  ASSUME CommandInv, IsCommand, TakesLine
  PROVE  CommandInv'
  <1>1. /\ Takes("line") /\ at = "loop" /\ LoopTyped /\ "line" # "snapshot"
        /\ Rest \in Seq(Answers) /\ (\A k : Holds(Rest, k) => Holds(results, k))
        /\ HoldsTaken(Rest) => HoldsTaken(results)
        /\ Once(Rest)
    BY TakesIs DEF TakesLine
  <1>2. UNCHANGED candidate /\ LoopOnly /\ UNCHANGED acts /\ cl \in Known
    BY <1>1 DEF TakesLine, LoopOnly, LoopTyped
  <1>3. CASE Goes(cl)
    BY <1>1, <1>2, <1>3, GoesKeeps
  <1>4. /\ UNCHANGED <<vars, how, daemonVars, ahead, exit, snapshot, candidate, acts>>
        /\ at' = "loop" /\ at \in {"answer", "loop"}
    BY <1>1, <1>2 DEF LoopOnly
  <1>5. CASE /\ cl' = [cl EXCEPT !.prompt = FALSE, !.shown = FALSE]
             /\ Sends("approve", Rest)
    <2>1. PICK known \in Known : known = [cl EXCEPT !.prompt = FALSE, !.shown = FALSE]
      BY <1>2 DEF Known
    <2>2. /\ known.polling = cl.polling /\ known.errors = cl.errors
          /\ known.cancelling = cl.cancelling /\ known.unattended = cl.unattended
      BY <1>2, <2>1 DEF Known
    <2> QED BY <1>1, <1>4, <1>5, <2>1, <2>2, CommandSentKeeps
  <1>6. CASE /\ ~ OneShot /\ run.status = "none" /\ Sends("submit", Rest)
             /\ cl' = [cl EXCEPT !.submitting = TRUE, !.cancelling = FALSE]
    <2>1. PICK known \in Known : known = [cl EXCEPT !.submitting = TRUE, !.cancelling = FALSE]
      BY <1>2 DEF Known
    <2>2. /\ known.polling = cl.polling /\ known.errors = cl.errors /\ ~ known.cancelling
      BY <1>2, <2>1 DEF Known
    <2> QED BY <1>1, <1>4, <1>6, <2>1, <2>2, CommandSentKeeps
  <1> QED BY <1>3, <1>5, <1>6 DEF TakesLine

\* The reconnection
LEMMA TakesReconnectedKeeps ==
  ASSUME CommandInv, IsCommand, TakesReconnected
  PROVE  CommandInv'
  <1>1. Takes("reconnect") /\ at # "ended" /\ LoopTyped /\ "reconnect" # "snapshot"
    BY TakesIs DEF TakesReconnected
  <1>2. CASE ~ Ok /\ End("one")
    BY <1>1, <1>2, EndKeeps
  <1>3. CASE Goes([cl EXCEPT !.re = "no"]) /\ UNCHANGED candidate /\ LoopOnly
    <2>1. PICK known \in Known : known = [cl EXCEPT !.re = "no"]
      BY <1>1 DEF LoopTyped, Known
    <2>2. /\ known.polling = cl.polling /\ known.errors = cl.errors
          /\ known.cancelling = cl.cancelling /\ known.unattended = cl.unattended
      BY <1>1, <2>1 DEF LoopTyped, Known
    <2>3. UNCHANGED acts
      BY <1>3 DEF LoopOnly
    <2> QED BY <1>1, <1>3, <2>1, <2>2, <2>3, GoesKeeps
  <1> QED BY <1>2, <1>3 DEF TakesReconnected

\* The answer to a snapshot: what was taken says how the run ended.
LEMMA TakesSnapshotKeeps ==
  ASSUME CommandInv, IsCommand, TakesSnapshot
  PROVE  CommandInv'
  <1>1. /\ Takes("snapshot") /\ at = "loop" /\ LoopTyped /\ Holds(results, "snapshot")
        /\ Rest \in Seq(Answers) /\ (\A k : Holds(Rest, k) => Holds(results, k))
        /\ HoldsTaken(Rest) => HoldsTaken(results)
        /\ Ok => HoldsTaken(results)
        /\ Once(Rest) /\ ~ Holds(Rest, "snapshot")
    BY TakesIs DEF TakesSnapshot
  <1>2. SnapshotsHold /\ Stages /\ RunGoesOn
    BY DEF CommandInv, CommandParts
  <1>3. CASE ~ Ok /\ End("one")
    BY <1>1, <1>3, EndKeeps
  <1>4. CASE /\ Goes([cl EXCEPT !.polling = FALSE])
             /\ candidate' = IF Ok THEN snapshot ELSE candidate
             /\ snapshot' = NoSnapshot
             /\ UNCHANGED <<vars, how, daemonVars, ahead, at, exit, acts>>
    <2>1. /\ cl' = [cl EXCEPT !.polling = FALSE] /\ results' = Rest /\ rpc' = rpc
          /\ UNCHANGED <<log, seen, pos, stops, front>>
      BY <1>4 DEF Goes, vars, clientVars, countVars
    <2>2. /\ cl' \in Known /\ cl'.errors = cl.errors /\ cl'.re = cl.re
          /\ cl'.cancelling = cl.cancelling /\ cl'.unattended = cl.unattended
      BY <1>1, <2>1 DEF LoopTyped, Known
    <2>3. DeliveryInv'
      BY <1>4, NextKeeps DEF CommandInv
    <2>4. NoSnapshot \in Kept
      BY CapacitiesAssumption DEF NoSnapshot, Kept
    <2>5. LoopTyped'
      BY <1>1, <1>4, <2>1, <2>2, <2>4 DEF LoopTyped, daemonVars
    <2>6. Stages'
      BY <1>1, <1>2, <1>4, <2>1, <2>2 DEF Stages, daemonVars, OneShot
    <2>7. rpc["snapshot"] = "idle"
      BY <1>1, <1>2 DEF SnapshotsHold
    <2>8. HoldsTaken(results') => Holds(results', "snapshot")
      BY DEF HoldsTaken, Holds
    <2>9. Ok => Complete(snapshot)
      BY <1>1, <1>2 DEF SnapshotsHold
    <2>10. candidate' # NoSnapshot => Complete(candidate)'
      BY <1>2, <1>4, <2>1, <2>9 DEF SnapshotsHold, Complete, OfTheRun, daemonVars
    <2>11. SnapshotsHold'
      BY <1>1, <2>1, <2>7, <2>8, <2>10 DEF SnapshotsHold
    <2>12. CancelsAreMeant'
      BY <1>1, <1>4, <2>1, <2>2, CancelsStay
    <2>13. rpc'["submit"] = "sent" => run.status = "none"
      BY <1>2, <2>1 DEF RunGoesOn
    <2> QED BY <1>1, <1>4, <2>1, <2>2, <2>3, <2>5, <2>6, <2>11, <2>12, <2>13, ClientKeeps
  <1> QED BY <1>3, <1>4 DEF TakesSnapshot

\* Every step of the loop keeps the invariant.
LEMMA LoopStepKeeps ==
  ASSUME CommandInv, IsCommand, Loop
  PROVE  CommandInv'
  BY TakesSubmittedKeeps, TakesSnapshotKeeps, TakesCancelledKeeps, TakesApprovedKeeps,
     TakesInterruptKeeps, TakesEofKeeps, TakesLineKeeps, TakesReconnectedKeeps DEF Loop

\* The client asks how the run stands.
LEMMA PollsKeeps ==
  ASSUME CommandInv, IsCommand, Polls
  PROVE  CommandInv'
  <1>1. LoopTyped /\ Stages /\ SnapshotsHold /\ RunGoesOn
    BY DEF CommandInv, CommandTyped, CommandParts
  <1>2. /\ at = "loop" /\ ~ cl.polling /\ cl.re = "no" /\ cl' = [cl EXCEPT !.polling = TRUE]
        /\ Sends("snapshot", results) /\ "snapshot" \in Commands /\ results \in Seq(Answers)
        /\ UNCHANGED <<vars, how, daemonVars, ahead, at, exit, snapshot, candidate, acts>>
        /\ UNCHANGED <<log, seen, pos, stops, front>>
    BY <1>1 DEF Polls, Waits, Commands, vars, clientVars, countVars, LoopTyped
  <1>3. /\ rpc' \in [Commands -> {"idle", "sent", "flush"}] /\ results' = results
        /\ \A j \in Commands \ {"snapshot"} : rpc'[j] = rpc[j]
        /\ rpc'["snapshot"] = "sent"
    BY <1>1, <1>2, SendsIs
  <1>4. /\ cl' \in Known /\ cl'.errors = cl.errors /\ cl'.re = cl.re /\ cl'.polling
        /\ cl'.cancelling = cl.cancelling /\ cl'.unattended = cl.unattended
    BY <1>1, <1>2 DEF LoopTyped, Known
  <1>5. DeliveryInv'
    BY <1>2, NextKeeps DEF CommandInv
  <1>6. LoopTyped'
    BY <1>1, <1>2, <1>3, <1>4 DEF LoopTyped, daemonVars
  <1>7. Stages'
    BY <1>1, <1>2, <1>4 DEF Stages, daemonVars, OneShot
  <1>8. rpc'["cancel"] = rpc["cancel"] /\ rpc'["submit"] = rpc["submit"]
    BY <1>3 DEF Commands
  <1>9. SnapshotsHold'
    <2>1. ~ Holds(results, "snapshot") /\ ~ HoldsTaken(results) /\ Once(results)
      BY <1>1, <1>2 DEF SnapshotsHold, HoldsTaken, Holds
    <2>2. candidate' # NoSnapshot => Complete(candidate)'
      BY <1>1, <1>2 DEF SnapshotsHold, Complete, OfTheRun, daemonVars
    <2> QED BY <1>3, <1>4, <2>1, <2>2 DEF SnapshotsHold
  <1>10. CancelsAreMeant'
    BY <1>2, <1>3, <1>4, <1>8, CancelsStay
  <1>11. rpc'["submit"] = "sent" => run.status = "none"
    BY <1>1, <1>8 DEF RunGoesOn
  <1> QED BY <1>2, <1>4, <1>5, <1>6, <1>7, <1>9, <1>10, <1>11, ClientKeeps

\* The user does something.
LEMMA UserActsKeeps ==
  ASSUME CommandInv, IsCommand, NEW act \in Inputs, UserActs(act)
  PROVE  CommandInv'
  <1>1. LoopTyped /\ SnapshotsHold /\ RunGoesOn
    BY DEF CommandInv, CommandTyped, CommandParts
  <1>2. /\ at # "ended" /\ acts' = acts \cup {act} /\ results \in Seq(Answers) /\ Once(results)
        /\ UNCHANGED <<vars, how, daemonVars, rpc, ahead, at, exit, cl, snapshot, candidate>>
        /\ UNCHANGED <<log, seen, pos, stops, front>>
    BY <1>1 DEF UserActs, vars, clientVars, countVars, LoopTyped, SnapshotsHold
  <1>3. PICK r \in Answers : /\ results' = Append(results, r)
                             /\ r.kind = "interrupt" => act = "interrupt"
                             /\ r.kind \in Inputs
    <2>1. CASE act \in {"interrupt", "eof"}
      <3>1. Result(act, "ok") \in Answers /\ Result(act, "ok").kind = act
        BY <2>1 DEF Result, Answers, Inputs
      <3> QED BY <2>1, <3>1 DEF UserActs
    <2>2. CASE act \notin {"interrupt", "eof"}
      <3>1. PICK o \in {"shown", "plain"} : o = IF cl.shown THEN "shown" ELSE "plain"
        OBVIOUS
      <3>2. Result("line", o) \in Answers /\ Result("line", o).kind = "line"
        BY DEF Result, Answers, Inputs
      <3>3. results' = Append(results, Result("line", o))
        BY <2>2, <3>1 DEF UserActs
      <3> QED BY <3>2, <3>3 DEF Inputs
    <2> QED BY <2>1, <2>2
  <1>4. r.kind # "snapshot" /\ r.kind # "cancel"
    BY <1>3 DEF Inputs
  <1>5. /\ results' \in Seq(Answers)
        /\ \A kind : Holds(results', kind) <=> Holds(results, kind) \/ r.kind = kind
        /\ HoldsTaken(results') => HoldsTaken(results)
        /\ Once(results')
    BY <1>2, <1>3, <1>4, QueueGrows
  <1>6. /\ Holds(results', "interrupt") => Holds(results, "interrupt") \/ "interrupt" \in acts'
        /\ Holds(results', "cancel") => Holds(results, "cancel")
        /\ Holds(results', "snapshot") => Holds(results, "snapshot")
    BY <1>2, <1>3, <1>4, <1>5
  <1>7. CancelsAreMeant'
    BY <1>2, <1>6, CancelsStay
  <1>8. DeliveryInv'
    BY <1>2, NextKeeps DEF CommandInv
  <1>9. /\ acts' \subseteq Inputs /\ cl \in Known /\ rpc \in [Commands -> {"idle", "sent", "flush"}]
        /\ rpc["submit"] = "sent" => run.status = "none"
    BY <1>1, <1>2 DEF LoopTyped, RunGoesOn
  <1> QED BY <1>2, <1>5, <1>6, <1>7, <1>8, <1>9, LoopKeeps

\* Whatever is wanted up to a cursor is in the order.
LEMMA OrderHolds ==
  ASSUME NEW c, NEW n \in Nat, NEW k \in Wants(c, 0, n)
  PROVE  k \in ToSet(InOrder(Wants(c, 0, n)))
  <1>1. k \in Nat /\ 0 < k /\ k <= n /\ Wanted(c, k)
    <2>1. k \in 1 .. n
      BY DEF Wants
    <2> QED BY <2>1 DEF Wants
  <1>2. k - 1 \in Nat /\ 0 <= k - 1 /\ k - 1 < k
    BY <1>1
  <1>3. Wants(c, k - 1, k) = {k}
    <2>1. (k - 1) + 1 .. k = {k}
      BY <1>1
    <2> QED BY <1>1, <2>1 DEF Wants
  <1>4. InOrder(Wants(c, 0, k)) = Append(InOrder(Wants(c, 0, k - 1)), k)
    <2>1. PICK m \in Nat : m = k - 1
      BY <1>2
    <2>2. Wants(c, m, k) = {k} /\ 0 <= m /\ m < k
      BY <1>2, <1>3, <2>1
    <2>3. InOrder(Wants(c, 0, k)) = Append(InOrder(Wants(c, 0, m)), k)
      BY <1>1, <2>2, OrderGrows, 0 \in Nat
    <2> QED BY <2>1, <2>3
  <1>5. InOrder(Wants(c, 0, n)) = InOrder(Wants(c, 0, k)) \o InOrder(Wants(c, k, n))
    BY <1>1, OrderSplits, 0 \in Nat, 0 <= k
  <1>6. PICK a \in Seq(Nat), b \in Seq(Nat) :
           a = InOrder(Wants(c, 0, k - 1)) /\ b = InOrder(Wants(c, k, n))
    BY <1>1, <1>2, OrderIs, 0 \in Nat
  <1>7. InOrder(Wants(c, 0, n)) = Append(a, k) \o b
    BY <1>4, <1>5, <1>6
  <1>8. Len(a) + 1 \in DOMAIN (Append(a, k) \o b) /\ (Append(a, k) \o b)[Len(a) + 1] = k
    BY <1>1
  <1> QED BY <1>7, <1>8 DEF ToSet

\* What has been seen when the result is reported
LEMMA SeesAll ==
  ASSUME CommandInv, IsCommand, CanFinish
  PROVE  /\ Complete(candidate) /\ pos[Me] = Len(log)
         /\ \A k \in 1 .. Len(log) : log[k] \in Scope => k \in ToSet(seen[Me])
         /\ ~ cl.errors => \A k \in 1 .. Len(log) : log[k] # Failure
         /\ ~ cl.errors => (Failure \in published => stops > 0)
  <1>1. SnapshotsHold /\ ErrorsAreKept /\ RunGoesOn /\ at = "loop"
    BY DEF CommandInv, CommandParts, CanFinish
  <1>2. Complete(candidate)
    BY <1>1 DEF SnapshotsHold, CanFinish
  <1>3. Me \in Clients /\ Len(log) \in Nat /\ pos[Me] \in Nat /\ pos[Me] <= Len(log)
    BY BehindIs
  <1>4. pos[Me] = Len(log)
    BY <1>2, <1>3 DEF Complete, CanFinish
  <1>5. seen[Me] = InOrder(Wants(Me, 0, Len(log)))
    BY <1>3, <1>4 DEF CommandInv, DeliveryInv, ClientInv
  <1>6. \A k \in 1 .. Len(log) : log[k] \in Scope => k \in ToSet(seen[Me])
    <2> SUFFICES ASSUME NEW k \in 1 .. Len(log), log[k] \in Scope
                 PROVE  k \in ToSet(seen[Me])
      OBVIOUS
    <2>1. Wanted(Me, k)
      BY DEF Wanted, Interest, IsCommand
    <2>2. k \in Wants(Me, 0, Len(log))
      BY <1>3, <2>1 DEF Wants
    <2> QED BY <1>3, <1>5, <2>2, OrderHolds
  <1>7. ~ cl.errors => \A k \in 1 .. Len(log) : log[k] # Failure
    BY <1>1, <1>4 DEF ErrorsAreKept
  <1>8. ~ cl.errors => (Failure \in published => stops > 0)
    <2>1. owed = <<>>
      BY <1>2 DEF Complete
    <2>2. ~ \E k \in 1 .. Len(owed) : owed[k] = Failure
      BY <2>1
    <2> QED BY <1>1, <1>7, <2>2 DEF RunGoesOn
  <1> QED BY <1>2, <1>4, <1>6, <1>7, <1>8

\* The result is reported.
LEMMA FinishKeeps ==
  ASSUME CommandInv, IsCommand, Finish
  PROVE  CommandInv'
  <1>1. CanFinish /\ at = "loop" /\ LoopTyped /\ SnapshotsHold /\ CancelsAreMeant /\ RunGoesOn
    BY DEF Finish, CanFinish, CommandInv, CommandTyped, CommandParts
  <1>2. /\ Complete(candidate)
        /\ \A k \in 1 .. Len(log) : log[k] \in Scope => k \in ToSet(seen[Me])
        /\ ~ cl.errors => \A k \in 1 .. Len(log) : log[k] # Failure
        /\ ~ cl.errors => (Failure \in published => stops > 0)
    BY <1>1, SeesAll
  <1>3. CASE OneShot
    <2>1. End(ExitCode)
      BY <1>3 DEF Finish
    <2>2. PICK code \in {"zero", "one", "interrupted"} : code = ExitCode
      BY DEF ExitCode
    <2>3. ASSUME code = "zero"
          PROVE  /\ run.status = "succeeded" /\ run.text
                 /\ \A k \in 1..Len(log) :
                       log[k] # Failure /\ (log[k] \in Scope => k \in ToSet(seen[Me]))
                 /\ Failure \in published => stops > 0
      <3>1. candidate.status = "succeeded" /\ candidate.text /\ ~ cl.errors
        BY <2>2, <2>3 DEF ExitCode
      <3> QED BY <1>2, <3>1 DEF Complete, OfTheRun
    <2>4. code = "interrupted" => "interrupt" \in acts \/ run.status = "cancelled"
      BY <1>1, <1>2, <2>2 DEF ExitCode, CancelsAreMeant, Complete, OfTheRun
    <2> QED BY <1>1, <2>1, <2>2, <2>3, <2>4, EndKeeps
  <1>4. CASE ~ OneShot
    <2>1. /\ cl' = [cl EXCEPT !.active = FALSE, !.cancelling = FALSE] /\ candidate' = NoSnapshot
          /\ UNCHANGED <<vars, how, daemonVars, rpc, ahead, at, exit, snapshot, results, acts>>
          /\ UNCHANGED <<log, seen, pos, stops, front>>
      BY <1>4 DEF Finish, vars, clientVars, countVars
    <2>2. /\ cl' \in Known /\ cl'.polling = cl.polling /\ cl'.errors = cl.errors
          /\ ~ cl'.cancelling
      BY <1>1, <2>1 DEF LoopTyped, Known
    <2>3. DeliveryInv'
      BY <2>1, NextKeeps DEF CommandInv
    <2>4. CancelsAreMeant'
      BY <1>1, <1>4, <2>1, <2>2 DEF CancelsAreMeant, OneShot
    <2>5. /\ results \in Seq(Answers) /\ Once(results) /\ acts \subseteq Inputs
          /\ rpc \in [Commands -> {"idle", "sent", "flush"}]
          /\ rpc["submit"] = "sent" => run.status = "none"
      BY <1>1 DEF LoopTyped, SnapshotsHold, RunGoesOn
    <2> QED BY <1>1, <2>1, <2>2, <2>3, <2>4, <2>5, LoopKeeps
  <1> QED BY <1>3, <1>4

\* The client connects, or there is no daemon.
LEMMA StartsKeeps ==
  ASSUME CommandInv, IsCommand, Starts
  PROVE  CommandInv'
  <1>1. /\ LoopTyped /\ Stages /\ SnapshotsHold /\ CancelsAreMeant /\ RunGoesOn /\ at = "start"
        /\ Me \in Clients /\ cl \in Known
    BY CommandAssumption DEF CommandInv, CommandTyped, CommandParts, Starts, LoopTyped
  <1>2. CASE End("one")
    BY <1>1, <1>2, EndKeeps
  <1>3. CASE /\ Connect(Me) /\ at' = "answer"
             /\ cl' = [Counted(cl) EXCEPT !.active = how.mode = "resume" /\ Active]
             /\ UNCHANGED <<how, daemonVars, rpc, ahead, exit, snapshot, candidate, results, acts>>
    <2>1. PICK on \in BOOLEAN : on = (how.mode = "resume" /\ Active)
      BY (how.mode = "resume" /\ Active) \in BOOLEAN
    <2>2. PICK counted \in Known :
             /\ cl' = [counted EXCEPT !.active = on]
             /\ counted = [cl EXCEPT !.replaying = Counted(cl).replaying,
                                     !.cut = Counted(cl).cut, !.left = Counted(cl).left]
      BY <1>1, <1>3, <2>1, CountedIs
    <2>3. /\ counted.polling = cl.polling /\ counted.errors = cl.errors /\ counted.re = cl.re
          /\ counted.cancelling = cl.cancelling /\ counted.unattended = cl.unattended
      BY <1>1, <2>2 DEF Known
    <2>4. /\ cl' \in Known /\ cl'.polling = cl.polling /\ cl'.errors = cl.errors /\ cl'.re = cl.re
          /\ cl'.cancelling = cl.cancelling /\ cl'.unattended = cl.unattended
      BY <2>2, <2>3 DEF Known
    <2>5. DeliveryInv'
      BY <1>1, <1>3, ConnectKeeps DEF CommandInv
    <2>6. UNCHANGED <<log, seen, pos, stops, front>>
      BY <1>3 DEF Connect, clientVars, countVars
    <2>7. LoopTyped'
      BY <1>1, <1>3, <2>4 DEF LoopTyped, daemonVars
    <2>8. Stages'
      BY <1>1, <1>3, <2>4 DEF Stages, daemonVars, OneShot, Idle
    <2>9. SnapshotsHold'
      BY <1>1, <1>3, <2>4, SnapshotsStay DEF SnapshotsHold, Connect
    <2>10. CancelsAreMeant'
      BY <1>3, <2>4, CancelsStay
    <2>11. rpc'["submit"] = "sent" => run.status = "none"
      BY <1>1, <1>3 DEF RunGoesOn
    <2> QED BY <1>1, <1>3, <2>4, <2>5, <2>6, <2>7, <2>8, <2>9, <2>10, <2>11, ClientKeeps
  <1> QED BY <1>2, <1>3 DEF Starts

\* It gives up before its loop, or in it.
LEMMA GivesUpKeeps ==
  ASSUME CommandInv, IsCommand, CannotStart \/ Disconnected
  PROVE  CommandInv'
  <1>1. at # "ended" /\ End("one")
    BY DEF CannotStart, Disconnected, OnStream, Waits
  <1> QED BY <1>1, EndKeeps

\* The old connection is closed, and what was asked on it has failed.
LEMMA ClosesOldKeeps ==
  ASSUME CommandInv, IsCommand, ClosesOld
  PROVE  CommandInv'
  <1>1. /\ LoopTyped /\ Stages /\ SnapshotsHold /\ CancelsAreMeant /\ DeliveryInv
        /\ cl \in Known /\ cl.re = "closing" /\ results \in Seq(Answers) /\ at = "loop"
    BY DEF CommandInv, CommandTyped, CommandParts, ClosesOld, LoopTyped, Stages
  <1>2. /\ Leave(Me) /\ rpc' = Idle /\ ahead' = 0 /\ cl' = [cl EXCEPT !.re = "opening"]
        /\ UNCHANGED <<log, latest, hub, worker, front, losses, stops, lastCursor, pos, seen>>
        /\ UNCHANGED <<how, daemonVars, at, exit, snapshot, candidate, acts>>
    BY DEF ClosesOld, hubVars, clientVars, countVars
  <1>3. PICK s \in SetToSeqs(InFlight) :
           results' = results \o [i \in 1..Len(s) |-> Result(s[i], "lost")]
    BY DEF ClosesOld
  <1>4. /\ results' \in Seq(Answers)
        /\ \A kind : Holds(results', kind) =>
              Holds(results, kind) \/ (kind \in Commands /\ rpc[kind] # "idle")
        /\ HoldsTaken(results') => HoldsTaken(results)
        /\ Once(results) /\ (rpc["snapshot"] # "idle" => ~ Holds(results, "snapshot"))
              => Once(results')
    BY <1>1, <1>3, QueueOfLost
  <1>5. /\ cl' \in Known /\ cl'.polling = cl.polling /\ cl'.errors = cl.errors
        /\ cl'.cancelling = cl.cancelling /\ cl'.unattended = cl.unattended
    BY <1>1, <1>2 DEF Known
  <1>6. DeliveryInv'
    BY <1>1, <1>2, CommandLeaves
  <1>7. Idle \in [Commands -> {"idle", "sent", "flush"}] /\ 0 \in 0 .. Len(owed)
    <2>1. Len(owed) \in Nat
      BY DEF CommandInv, CommandTyped, DaemonTyped
    <2> QED BY <2>1 DEF Idle
  <1>8. LoopTyped'
    BY <1>1, <1>2, <1>4, <1>5, <1>7 DEF LoopTyped, daemonVars
  <1>9. Stages'
    BY <1>1, <1>2 DEF Stages, daemonVars, OneShot
  <1>10. \A k \in Commands : rpc'[k] = "idle"
    BY <1>2 DEF Idle
  <1>11. SnapshotsHold'
    <2>1. candidate' # NoSnapshot => Complete(candidate)'
      BY <1>1, <1>2 DEF SnapshotsHold, Complete, OfTheRun, daemonVars
    <2>2. HoldsTaken(results') => Complete(snapshot)'
      BY <1>1, <1>2, <1>4 DEF SnapshotsHold, Complete, OfTheRun, daemonVars
    <2>3. rpc'["snapshot"] = "idle"
      BY <1>10 DEF Commands
    <2>4. Holds(results', "snapshot") => cl'.polling
      BY <1>1, <1>4, <1>5 DEF SnapshotsHold
    <2>5. Once(results')
      BY <1>1, <1>4 DEF SnapshotsHold
    <2> QED BY <2>1, <2>2, <2>3, <2>4, <2>5 DEF SnapshotsHold
  <1>12. CancelsAreMeant'
    <2>1. Holds(results', "interrupt") => Holds(results, "interrupt")
      BY <1>4 DEF Commands
    <2>2. Holds(results', "cancel") => Holds(results, "cancel") \/ rpc["cancel"] # "idle"
      BY <1>4
    <2>3. rpc'["cancel"] = "idle" /\ rpc'["submit"] = "idle"
      BY <1>10 DEF Commands
    <2> QED BY <1>1, <1>2, <1>5, <2>1, <2>2, <2>3 DEF CancelsAreMeant, OneShot
  <1>13. rpc'["submit"] # "sent"
    BY <1>10 DEF Commands
  <1> QED BY <1>1, <1>2, <1>5, <1>6, <1>8, <1>9, <1>11, <1>12, <1>13, ClientKeeps

\* An answer of its own goes into the queue.
LEMMA ReconnectAnswers ==
  ASSUME CommandInv, IsCommand, at = "loop", NEW outcome \in {"ok", "broken"},
         results' = Append(results, Result("reconnect", outcome)),
         cl' = [cl EXCEPT !.re = "over"],
         UNCHANGED <<vars, how, daemonVars, rpc, ahead, at, exit, snapshot, candidate, acts>>
  PROVE  CommandInv'
  <1>1. /\ LoopTyped /\ SnapshotsHold /\ RunGoesOn /\ cl \in Known
        /\ results \in Seq(Answers) /\ Once(results)
    BY DEF CommandInv, CommandTyped, CommandParts, LoopTyped, SnapshotsHold
  <1>2. Result("reconnect", outcome) \in Answers /\ Result("reconnect", outcome).kind = "reconnect"
    BY DEF Result, Answers
  <1>3. /\ results' \in Seq(Answers)
        /\ \A kind : Holds(results', kind) <=> Holds(results, kind) \/ "reconnect" = kind
        /\ HoldsTaken(results') => HoldsTaken(results)
        /\ Once(results')
    BY <1>1, <1>2, QueueGrows
  <1>4. /\ cl' \in Known /\ cl'.polling = cl.polling /\ cl'.errors = cl.errors
        /\ cl'.cancelling = cl.cancelling /\ cl'.unattended = cl.unattended
    BY <1>1 DEF Known
  <1>5. DeliveryInv'
    BY NextKeeps DEF CommandInv
  <1>6. UNCHANGED <<log, seen, pos, stops, front>>
    BY DEF vars, clientVars, countVars
  <1>7. CancelsAreMeant'
    BY <1>3, <1>4, CancelsStay
  <1>8. /\ acts' \subseteq Inputs /\ rpc' \in [Commands -> {"idle", "sent", "flush"}]
        /\ rpc'["submit"] = "sent" => run.status = "none"
    BY <1>1 DEF LoopTyped, RunGoesOn
  <1> QED BY <1>3, <1>4, <1>5, <1>6, <1>7, <1>8, LoopKeeps

\* The new connection is opened, and answered.
LEMMA ReopensKeeps ==
  ASSUME CommandInv, IsCommand, Reopens \/ Reconnected
  PROVE  CommandInv'
  <1>1. /\ LoopTyped /\ Stages /\ SnapshotsHold /\ RunGoesOn /\ cl \in Known /\ Me \in Clients
    BY CommandAssumption DEF CommandInv, CommandTyped, CommandParts, LoopTyped
  <1>2. at = "loop"
    BY <1>1 DEF Stages, Reopens, Reconnected
  <1>3. CASE Reconnected
    <2>1. PICK outcome \in {"ok", "broken"} : outcome = IF conn[Me] = "eof" THEN "broken" ELSE "ok"
      OBVIOUS
    <2> QED BY <1>2, <1>3, <2>1, ReconnectAnswers DEF Reconnected
  <1>4. CASE Reopens /\ hub # "up" /\ UNCHANGED vars
    BY <1>2, <1>4, ReconnectAnswers DEF Reopens
  <1>5. CASE Reopens /\ Connect(Me) /\ cl' = [Counted(cl) EXCEPT !.re = "answering"]
             /\ UNCHANGED results
    <2>1. PICK counted \in Known :
             /\ cl' = [counted EXCEPT !.re = "answering"]
             /\ counted = [cl EXCEPT !.replaying = Counted(cl).replaying,
                                     !.cut = Counted(cl).cut, !.left = Counted(cl).left]
      BY <1>1, <1>5, CountedIs
    <2>2. /\ counted.polling = cl.polling /\ counted.errors = cl.errors
          /\ counted.cancelling = cl.cancelling /\ counted.unattended = cl.unattended
      BY <1>1, <2>1 DEF Known
    <2>3. /\ cl' \in Known /\ cl'.polling = cl.polling /\ cl'.errors = cl.errors
          /\ cl'.cancelling = cl.cancelling /\ cl'.unattended = cl.unattended
      BY <2>1, <2>2 DEF Known
    <2>4. DeliveryInv'
      BY <1>1, <1>5, ConnectKeeps DEF CommandInv
    <2>5. /\ UNCHANGED <<log, seen, pos, stops, front>>
          /\ UNCHANGED <<how, daemonVars, rpc, ahead, at, exit, snapshot, candidate, acts>>
      BY <1>5 DEF Reopens, Connect, clientVars, countVars
    <2>6. CancelsAreMeant'
      BY <1>5, <2>3, <2>5, CancelsStay
    <2>7. /\ acts \subseteq Inputs /\ rpc \in [Commands -> {"idle", "sent", "flush"}]
          /\ rpc["submit"] = "sent" => run.status = "none"
          /\ results \in Seq(Answers) /\ Once(results)
      BY <1>1 DEF LoopTyped, RunGoesOn, SnapshotsHold
    <2> QED BY <1>2, <1>5, <2>3, <2>4, <2>5, <2>6, <2>7, LoopKeeps
  <1> QED BY <1>3, <1>4, <1>5 DEF Reopens

\* A marker ends the subscription.
LEMMA TakesMarkerKeeps ==
  ASSUME CommandInv, IsCommand, TakesMarker
  PROVE  CommandInv'
  <1>1. /\ LoopTyped /\ SnapshotsHold /\ RunGoesOn /\ DeliveryInv /\ cl \in Known
    BY DEF CommandInv, CommandTyped, CommandParts, LoopTyped
  <1>2. /\ at = "loop" /\ at' = at
        /\ cl' = [cl EXCEPT !.re = "closing", !.replaying = TRUE]
        /\ losses' = losses \/ (losses < Losses /\ losses' = losses + 1)
        /\ UNCHANGED <<log, hub, worker, latest, sub, conn, wire, lastCursor, inbox, overflow, asking,
                       pos, seen, stops, front>>
        /\ UNCHANGED <<how, daemonVars, rpc, ahead, at, exit, snapshot, candidate, results, acts>>
    BY DEF TakesMarker, OnStream, Waits, hubVars, connVars, webVars, clientVars
  <1>3. /\ cl' \in Known /\ cl'.polling = cl.polling /\ cl'.errors = cl.errors
        /\ cl'.cancelling = cl.cancelling /\ cl'.unattended = cl.unattended
    BY <1>1, <1>2 DEF Known
  <1>4. DeliveryInv'
    <2>1. Typed
      BY <1>1 DEF DeliveryInv
    <2>2. losses' \in 0 .. Losses
      BY <1>2, <2>1, CapacitiesAssumption DEF Typed
    <2>3. Typed'
      BY <1>2, <2>1, <2>2 DEF Typed
    <2>4. Grown /\ \A c \in Clients : Untouched(c)
      BY <1>2, <2>1 DEF Grown, Untouched, Typed
    <2>5. \A c \in Clients : ClientInv(c)'
      BY <1>1, <1>2, <2>1, <2>4, ClientStays DEF DeliveryInv
    <2> QED BY <2>3, <2>5 DEF DeliveryInv
  <1>5. CancelsAreMeant'
    BY <1>2, <1>3, CancelsStay
  <1>6. /\ acts \subseteq Inputs /\ rpc \in [Commands -> {"idle", "sent", "flush"}]
        /\ rpc["submit"] = "sent" => run.status = "none"
        /\ results \in Seq(Answers) /\ Once(results)
    BY <1>1 DEF LoopTyped, RunGoesOn, SnapshotsHold
  <1> QED BY <1>2, <1>3, <1>4, <1>5, <1>6, LoopKeeps

\* What an event changes of what the client knows
LEMMA LearnsIs ==
  ASSUME cl \in Known, NEW k
  PROVE  /\ Counts(Learns(cl, k)) \in Known
         /\ Counts(Learns(cl, k)).polling = cl.polling
         /\ Counts(Learns(cl, k)).cancelling = cl.cancelling
         /\ Counts(Learns(cl, k)).unattended = cl.unattended
         /\ Counts(Learns(cl, k)).re = cl.re
         /\ Counts(Learns(cl, k)).errors <=> cl.errors \/ log[k] = Failure
  <1>1. PICK failed \in BOOLEAN : failed <=> cl.errors \/ log[k] = Failure
    BY (cl.errors \/ log[k] = Failure) \in BOOLEAN
  <1>2. PICK asked \in BOOLEAN : asked = IF log[k] = Ask THEN TRUE ELSE cl.prompt /\ log[k] # Resolved
    BY (IF log[k] = Ask THEN TRUE ELSE cl.prompt /\ log[k] # Resolved) \in BOOLEAN
  <1>3. PICK known \in Known : known = [cl EXCEPT !.errors = failed, !.prompt = asked]
    BY DEF Known
  <1>4. Learns(cl, k) = known
    <2>1. failed = (cl.errors \/ log[k] = Failure)
      BY <1>1
    <2> QED BY <1>2, <1>3, <2>1 DEF Learns
  <1>5. /\ known.polling = cl.polling /\ known.cancelling = cl.cancelling /\ known.re = cl.re
        /\ known.unattended = cl.unattended /\ known.errors = failed
    BY <1>3 DEF Known
  <1>6. CASE known.left = 0
    BY <1>1, <1>4, <1>5, <1>6 DEF Counts
  <1>7. CASE known.left # 0
    <2>1. ReplayLimit \in Nat
      BY CapacitiesAssumption
    <2>2. PICK n \in 0 .. ReplayLimit : n = known.left - 1
      BY <1>7, <2>1 DEF Known
    <2>3. PICK on \in BOOLEAN : on = (known.replaying /\ (known.left > 1 \/ known.cut))
      BY (known.replaying /\ (known.left > 1 \/ known.cut)) \in BOOLEAN
    <2>4. Counts(known) = [known EXCEPT !.left = n, !.replaying = on]
      BY <1>7, <2>2, <2>3 DEF Counts
    <2>5. PICK next \in Known : next = [known EXCEPT !.left = n, !.replaying = on]
      BY DEF Known
    <2>6. /\ next.polling = known.polling /\ next.cancelling = known.cancelling
          /\ next.re = known.re /\ next.unattended = known.unattended
          /\ next.errors = known.errors
      BY <2>5 DEF Known
    <2> QED BY <1>1, <1>4, <1>5, <2>4, <2>5, <2>6
  <1> QED BY <1>6, <1>7

\* The next event is taken.
LEMMA TakesEventKeeps ==
  ASSUME CommandInv, IsCommand, TakesEvent
  PROVE  CommandInv'
  <1>1. /\ CommandTyped /\ CommandParts /\ DeliveryInv /\ cl \in Known /\ Typed
        /\ Me \in Clients /\ ClientInv(Me)
    BY CommandAssumption
       DEF CommandInv, CommandTyped, LoopTyped, DeliveryInv
  <1>2. /\ Len(log) \in Nat /\ pos[Me] \in Nat /\ Behind \in Nat /\ Len(log) <= MaxLog
        /\ MaxLog \in Nat
    BY BehindIs
  <1>3. PICK k \in Nat : k = pos[Me] + 1
    BY <1>2
  <1>4. /\ at = "loop" /\ cl' = Counts(Learns(cl, k)) /\ Show(Me, Event(k)) /\ Behind > 0
        /\ UNCHANGED <<log, hub, worker, latest, sub, conn, wire, lastCursor, inbox, overflow, asking,
                       losses, stops, front>>
        /\ UNCHANGED <<how, daemonVars, rpc, ahead, at, exit, snapshot, candidate, results, acts>>
    BY <1>3 DEF TakesEvent, OnStream, Waits, hubVars, connVars, webVars, countVars
  <1>5. k <= Len(log) /\ k \in 1 .. Len(log) /\ pos[Me] < k
    BY <1>2, <1>3, <1>4 DEF Behind
  <1>6. /\ pos' = [pos EXCEPT ![Me] = k] /\ seen' = [seen EXCEPT ![Me] = Append(seen[Me], k)]
    BY <1>1, <1>2, <1>3, <1>4, <1>5 DEF Show, Advance, Event, Typed
  <1>7. /\ cl' \in Known /\ cl'.polling = cl.polling /\ cl'.re = cl.re
        /\ cl'.cancelling = cl.cancelling /\ cl'.unattended = cl.unattended
        /\ cl'.errors <=> cl.errors \/ log[k] = Failure
    BY <1>1, <1>4, LearnsIs
  <1>8. Wants(Me, pos[Me], k) = {k}
    <2>1. log[k] \in RunKinds
      BY <1>1, <1>5 DEF CommandInv, CommandParts, RunGoesOn
    <2>2. Wanted(Me, k)
      BY <2>1, CommandAssumption DEF Wanted, Interest, IsCommand
    <2>3. pos[Me] + 1 .. k = {k}
      BY <1>2, <1>3
    <2> QED BY <2>2, <2>3 DEF Wants
  <1>9. seen'[Me] = InOrder(Wants(Me, 0, k))
    <2>1. PICK p \in Nat : p = pos[Me]
      BY <1>2
    <2>2. InOrder(Wants(Me, 0, k)) = Append(InOrder(Wants(Me, 0, p)), k)
      <3>1. 0 <= p /\ p < k /\ Wants(Me, p, k) = {k} /\ 0 \in Nat
        BY <1>5, <1>8, <2>1
      <3> QED BY <3>1, OrderGrows
    <2> QED BY <1>1, <1>6, <2>1, <2>2 DEF ClientInv, Typed
  <1>10. DeliveryInv'
    <2>1. Typed'
      <3>1. pos' \in [Clients -> 0 .. MaxLog]
        BY <1>1, <1>2, <1>5, <1>6 DEF Typed
      <3>2. seen' \in [Clients -> Seq(Nat)]
        BY <1>1, <1>6 DEF Typed
      <3> QED BY <1>1, <1>4, <3>1, <3>2 DEF Typed
    <2>2. \A d \in Clients \ {Me} : Untouched(d)
      BY <1>1, <1>4, <1>6 DEF Untouched, Typed
    <2>3. ClientInv(Me)'
      <3>1. pos'[Me] = k /\ pos'[Me] <= Len(log')
        BY <1>1, <1>4, <1>5, <1>6 DEF Typed
      <3>2. seen'[Me] = InOrder(Wants(Me, 0, pos[Me]))'
        BY <1>4, <1>9, <3>1, WantsSame
      <3>3. Sized(Me)' /\ Apart(Me)'
        BY <1>1, <1>4 DEF ClientInv, Sized, Apart, Quiet, IsCommand
      <3> QED BY <1>4, <3>1, <3>2, <3>3 DEF ClientInv, IsCommand
    <2> QED BY <1>1, <1>4, <2>1, <2>2, <2>3, OneClientMoves
  <1>11. CommandTyped' /\ IsCommand'
    BY <1>1, <1>4, <1>7 DEF CommandTyped, DaemonTyped, LoopTyped, daemonVars, IsCommand
  <1>12. Stages' /\ RunGoesOn'
    BY <1>1, <1>4, <1>7
       DEF CommandParts, Stages, RunGoesOn, daemonVars, OneShot, Caused, Active
  <1>13. SnapshotsHold'
    BY <1>1, <1>4, <1>7, SnapshotsStay DEF CommandParts, SnapshotsHold
  <1>14. CancelsAreMeant'
    BY <1>1, <1>4, <1>7, CancelsStay
  <1>15. ErrorsAreKept'
    <2> SUFFICES ASSUME NEW j \in 1 .. pos'[Me], log'[j] = Failure
                 PROVE  cl'.errors
      BY DEF ErrorsAreKept
    <2>1. pos'[Me] = k /\ log' = log
      BY <1>1, <1>4, <1>6 DEF Typed
    <2>2. j = k \/ j \in 1 .. pos[Me]
      BY <1>2, <1>3, <2>1
    <2>3. j \in 1 .. pos[Me] => cl.errors
      BY <1>1, <1>4, <2>1 DEF CommandParts, ErrorsAreKept
    <2> QED BY <1>7, <2>1, <2>2, <2>3
  <1>16. Earned'
    <2>1. exit' = "none"
      BY <1>1, <1>4 DEF CommandParts, Stages
    <2> QED BY <2>1 DEF Earned
  <1> QED BY <1>10, <1>11, <1>12, <1>13, <1>14, <1>15, <1>16 DEF CommandInv, CommandParts

\* The hub fails, or starts again.
LEMMA StreamStepKeeps ==
  ASSUME CommandInv, IsCommand, at # "ended", StreamStep
  PROVE  CommandInv'
  <1>1. /\ WorkerFails \/ HubStarts
        /\ UNCHANGED <<how, daemonVars, rpc, ahead, at, exit, cl, snapshot, candidate, results, acts>>
    BY DEF StreamStep, commandVars
  <1>2. DeliveryInv' /\ UNCHANGED <<log, seen, pos, stops, front>>
    BY <1>1, WorkerFailsKeeps, HubStartsKeeps
       DEF CommandInv, WorkerFails, HubStarts, clientVars, countVars
  <1>3. LoopTyped /\ SnapshotsHold /\ RunGoesOn /\ Once(results)
    BY DEF CommandInv, CommandTyped, CommandParts, SnapshotsHold
  <1>4. CancelsAreMeant'
    BY <1>1, CancelsStay
  <1>5. rpc["submit"] = "sent" => run.status = "none"
    BY <1>3 DEF RunGoesOn
  <1> QED BY <1>1, <1>2, <1>3, <1>4, <1>5, LoopKeeps DEF LoopTyped

-------------------------------------------------------------------------------
(* The daemon's steps keep the invariant *)

\* A step of the daemon that leaves what the client knows alone
LEMMA DaemonKeeps ==
  ASSUME CommandInv, IsCommand, at # "ended", DeliveryInv',
         UNCHANGED <<pos, seen, front, how, at, exit, cl, acts>>,
         \A k \in 1 .. pos[Me] : log'[k] = log[k],
         DaemonTyped', LoopTyped', Stages', RunGoesOn', SnapshotsHold', CancelsAreMeant'
  PROVE  CommandInv'
  <1>1. Stages /\ ErrorsAreKept
    BY DEF CommandInv, CommandParts
  <1>2. IsCommand'
    BY DEF IsCommand
  <1>3. ErrorsAreKept'
    BY <1>1 DEF ErrorsAreKept
  <1>4. Earned'
    <2>1. exit' = "none"
      BY <1>1 DEF Stages
    <2> QED BY <2>1 DEF Earned
  <1> QED BY <1>2, <1>3, <1>4 DEF CommandInv, CommandTyped, CommandParts

\* A step of a run that has not ended
LEMMA RunMoves ==
  ASSUME CommandInv, IsCommand, at # "ended", run.status \notin Terminal,
         at = "loop" \/ (rpc' = rpc /\ Active), DaemonTyped',
         \/ owed' = owed /\ published' = published /\ Caused <= Caused'
         \/ \E k \in RunKinds : /\ owed' = Append(owed, k) /\ published' = published \cup {k}
                                /\ Caused + 1 <= Caused',
         ask' = "open" => run'.status = "running",
         rpc'["submit"] = "sent" => run'.status = "none",
         UNCHANGED <<vars, how, ahead, at, exit, cl, snapshot, candidate, acts>>,
         rpc' \in [Commands -> {"idle", "sent", "flush"}], rpc'["snapshot"] = rpc["snapshot"],
         results' \in Seq(Answers), Once(results'),
         Holds(results', "snapshot") => Holds(results, "snapshot"),
         HoldsTaken(results') => HoldsTaken(results), CancelsAreMeant'
  PROVE  CommandInv'
  <1>1. CommandTyped /\ CommandParts /\ DaemonTyped /\ DaemonTyped'
    BY DEF CommandInv, CommandTyped
  <1>2. UNCHANGED <<log, pos, seen, stops, front>>
    BY DEF vars, clientVars, countVars
  <1>3. DeliveryInv'
    BY NextKeeps DEF CommandInv
  <1>4. Len(log) \in Nat /\ Caused \in Nat /\ Caused' \in Nat /\ owed \in Seq(RunKinds)
    <2>1. Caused' \in Nat
      BY <1>1 DEF Caused, One
    <2> QED BY <1>1, <2>1, BehindIs, CausedIs DEF DaemonTyped
  <1>5. /\ Len(owed') \in Nat /\ Len(owed) <= Len(owed')
        /\ Len(log) + Len(owed') <= Caused'
        /\ Failure \in published' => \/ Failure \in published
                                     \/ \E k \in 1 .. Len(owed') : owed'[k] = Failure
        /\ \A k \in 1 .. Len(owed) : k \in 1 .. Len(owed') /\ owed'[k] = owed[k]
    <2>1. Len(log) + Len(owed) <= Caused /\ Len(owed) \in Nat
      BY <1>1, <1>4 DEF CommandParts, RunGoesOn
    <2>2. CASE owed' = owed /\ published' = published /\ Caused <= Caused'
      BY <1>4, <2>1, <2>2
    <2>3. ASSUME NEW k \in RunKinds, owed' = Append(owed, k), published' = published \cup {k},
                 Caused + 1 <= Caused'
          PROVE  /\ Len(owed') \in Nat /\ Len(owed) <= Len(owed')
                 /\ Len(log) + Len(owed') <= Caused'
                 /\ Failure \in published' => \/ Failure \in published
                                              \/ \E j \in 1 .. Len(owed') : owed'[j] = Failure
                 /\ \A j \in 1 .. Len(owed) : j \in 1 .. Len(owed') /\ owed'[j] = owed[j]
      <3>1. /\ Len(owed') = Len(owed) + 1 /\ owed'[Len(owed) + 1] = k
            /\ \A j \in 1 .. Len(owed) : owed'[j] = owed[j]
        BY <1>4, <2>3
      <3>2. Len(owed) + 1 \in 1 .. Len(owed')
        BY <2>1, <3>1
      <3>3. Len(owed') \in Nat /\ Len(owed) <= Len(owed') /\ Len(log) + Len(owed') <= Caused'
        BY <1>4, <2>1, <2>3, <3>1
      <3>4. \A j \in 1 .. Len(owed) : j \in 1 .. Len(owed')
        BY <2>1, <3>1
      <3>5. Failure \in published' => \/ Failure \in published
                                      \/ \E j \in 1 .. Len(owed') : owed'[j] = Failure
        BY <2>3, <3>1, <3>2
      <3> QED BY <3>1, <3>3, <3>4, <3>5
    <2> QED BY <2>2, <2>3
  <1>6. LoopTyped'
    <2>1. ahead \in 0 .. Len(owed) /\ Len(owed) \in Nat
      BY <1>1, <1>4 DEF CommandTyped, LoopTyped
    <2>2. ahead' \in 0 .. Len(owed')
      BY <1>5, <2>1
    <2> QED BY <1>1, <2>2 DEF CommandTyped, LoopTyped
  <1>7. Stages'
    <2>1. OneShot' = OneShot
      BY DEF OneShot
    <2>2. at \in {"start", "answer"} => ~ OneShot
      BY <1>1 DEF CommandParts, Stages, Active
    <2>3. at \in {"start", "answer"} => rpc' = Idle
      BY <1>1 DEF CommandParts, Stages
    <2> QED BY <1>1, <2>1, <2>2, <2>3 DEF CommandParts, Stages
  <1>8. RunGoesOn'
    <2>1. ask' = "open" => Active'
      BY DEF Active
    <2>2. log' \in Seq(RunKinds) /\ Len(log') + Len(owed') <= Caused'
      BY <1>1, <1>2, <1>5 DEF CommandParts, RunGoesOn
    <2>3. Failure \in published' => \/ stops' > 0
                                    \/ \E k \in 1 .. Len(log') : log'[k] = Failure
                                    \/ \E k \in 1 .. Len(owed') : owed'[k] = Failure
      BY <1>1, <1>2, <1>5 DEF CommandParts, RunGoesOn
    <2> QED BY <2>1, <2>2, <2>3 DEF RunGoesOn
  <1>9. SnapshotsHold'
    <2>1. /\ rpc["snapshot"] # "flush" /\ ~ HoldsTaken(results) /\ candidate = NoSnapshot
      BY <1>1 DEF CommandParts, SnapshotsHold, Complete, OfTheRun
    <2> QED BY <1>1, <2>1 DEF CommandParts, SnapshotsHold
  <1> QED BY <1>2, <1>3, <1>6, <1>7, <1>8, <1>9, DaemonKeeps

\* A request for approval opens and ends.
LEMMA AsksKeep ==
  ASSUME CommandInv, IsCommand, at # "ended", Asks \/ AskEnds
  PROVE  CommandInv'
  <1>1. CommandTyped /\ CommandParts /\ DaemonTyped
    BY DEF CommandInv, CommandTyped
  <1>2. /\ UNCHANGED <<vars, how, run, rpc, ahead, at, exit, cl, snapshot, candidate, results, acts>>
        /\ Active
        /\ \/ ask = "none" /\ ask' = "open"
           \/ ask = "open" /\ ask' = "over"
    BY <1>1 DEF Asks, AskEnds, commandVars, CommandParts, RunGoesOn
  <1>3. PICK k \in RunKinds : owed' = Append(owed, k) /\ published' = published \cup {k}
    BY DEF Asks, AskEnds, Publish, RunKinds
  <1>4. DaemonTyped'
    BY <1>1, <1>2, <1>3 DEF DaemonTyped
  <1>5. Caused + 1 <= Caused'
    <2>1. run.status \notin Terminal /\ run' = run
      BY <1>2 DEF Active, Terminal
    <2> QED BY <1>2, <2>1 DEF Caused, One
  <1>6. CancelsAreMeant'
    BY <1>2, CancelsStay
  <1>7. run.status \notin Terminal /\ (ask' = "open" => run'.status = "running")
    BY <1>2 DEF Active, Terminal
  <1>8. /\ rpc'["submit"] = "sent" => run'.status = "none"
        /\ rpc' \in [Commands -> {"idle", "sent", "flush"}] /\ results' \in Seq(Answers)
        /\ Once(results')
    BY <1>1, <1>2 DEF CommandTyped, LoopTyped, CommandParts, RunGoesOn, SnapshotsHold
  <1> QED BY <1>2, <1>3, <1>4, <1>5, <1>6, <1>7, <1>8, RunMoves

\* The run ends.
LEMMA RunEndsKeeps ==
  ASSUME CommandInv, IsCommand, at # "ended", NEW status \in {"succeeded", "failed"},
         NEW text \in BOOLEAN, RunEnds(status, text)
  PROVE  CommandInv'
  <1>1. CommandTyped /\ CommandParts /\ DaemonTyped
    BY DEF CommandInv, CommandTyped
  <1>2. /\ UNCHANGED <<vars, how, ask, rpc, ahead, at, exit, cl, snapshot, candidate, results, acts>>
        /\ Active /\ ask # "open" /\ run' = [status |-> status, text |-> text]
        /\ Publish(Failure) \/ UNCHANGED <<owed, published>>
    BY DEF RunEnds, commandVars
  <1>3. status \in Terminal /\ run.status \notin Terminal /\ run'.status = status
    BY <1>2 DEF Terminal, Active
  <1>4. Caused' = Caused + 1 /\ Caused \in Nat
    BY <1>1, <1>2, <1>3 DEF Caused, One, DaemonTyped
  <1>5. Failure \in RunKinds
    BY DEF RunKinds
  <1>6. \/ owed' = owed /\ published' = published /\ Caused <= Caused'
        \/ \E k \in RunKinds : /\ owed' = Append(owed, k) /\ published' = published \cup {k}
                               /\ Caused + 1 <= Caused'
    BY <1>2, <1>4, <1>5 DEF Publish
  <1>7. DaemonTyped'
    BY <1>1, <1>2, <1>3, <1>6 DEF DaemonTyped
  <1>8. CancelsAreMeant'
    BY <1>2, CancelsStay
  <1>9. /\ rpc'["submit"] # "sent"
        /\ rpc' \in [Commands -> {"idle", "sent", "flush"}] /\ results' \in Seq(Answers)
        /\ Once(results')
    BY <1>1, <1>2 DEF CommandTyped, LoopTyped, CommandParts, RunGoesOn, SnapshotsHold, Active
  <1> QED BY <1>2, <1>3, <1>6, <1>7, <1>8, <1>9, RunMoves

\* A command is answered, or the answer comes too late.
LEMMA AnswersAre ==
  ASSUME CommandInv, IsCommand, at # "ended", NEW k \in {"submit", "cancel", "approve"},
         Handles(k), UNCHANGED <<how, cl, acts>>
  PROVE  /\ at = "loop" /\ rpc[k] = "sent" /\ rpc'[k] = "idle"
         /\ rpc' \in [Commands -> {"idle", "sent", "flush"}] /\ results' \in Seq(Answers)
         /\ \A j \in Commands \ {k} : rpc'[j] = rpc[j]
         /\ rpc'["snapshot"] = rpc["snapshot"] /\ Once(results')
         /\ Holds(results', "snapshot") => Holds(results, "snapshot")
         /\ HoldsTaken(results') => HoldsTaken(results)
         /\ CancelsAreMeant'
  <1>1. LoopTyped /\ Stages /\ SnapshotsHold /\ CancelsAreMeant
    BY DEF CommandInv, CommandTyped, CommandParts
  <1>2. PICK outcome \in {"ok", "late"} :
           /\ rpc' = [rpc EXCEPT ![k] = "idle"]
           /\ results' = Append(results, Result(k, outcome))
    BY DEF Handles, Answer
  <1>3. k \in Commands /\ k # "snapshot" /\ k # "interrupt" /\ rpc[k] = "sent"
    BY DEF Commands, Handles, Reaches
  <1>4. at = "loop"
    BY <1>1, <1>3 DEF LoopTyped, Stages, Idle
  <1>5. Result(k, outcome) \in Answers /\ Result(k, outcome).kind = k
    BY <1>3 DEF Result, Answers
  <1>6. results \in Seq(Answers)
    BY <1>1 DEF LoopTyped
  <1>7. /\ results' \in Seq(Answers)
        /\ \A kind : Holds(results', kind) <=> Holds(results, kind) \/ k = kind
        /\ HoldsTaken(results') => HoldsTaken(results)
        /\ Once(results) => Once(results')
    BY <1>2, <1>3, <1>5, <1>6, QueueGrows
  <1>8. /\ rpc' \in [Commands -> {"idle", "sent", "flush"}] /\ rpc'[k] = "idle"
        /\ \A j \in Commands \ {k} : rpc'[j] = rpc[j]
    BY <1>1, <1>2, <1>3 DEF LoopTyped
  <1>9. /\ rpc'["snapshot"] = rpc["snapshot"]
        /\ rpc'["cancel"] # "idle" => rpc["cancel"] # "idle"
        /\ Holds(results', "cancel") => Holds(results, "cancel") \/ rpc["cancel"] # "idle"
    BY <1>3, <1>7, <1>8 DEF Commands
  <1>10. CancelsAreMeant'
    BY <1>1, <1>3, <1>7, <1>9 DEF CancelsAreMeant, OneShot
  <1> QED BY <1>1, <1>3, <1>4, <1>7, <1>8, <1>9, <1>10 DEF SnapshotsHold

\* The answer changes nothing else.
LEMMA OnlyAnswers ==
  ASSUME CommandInv, IsCommand, at # "ended", NEW k \in {"cancel", "approve"}, Handles(k),
         UNCHANGED <<vars, how, daemonVars, ahead, at, exit, cl, snapshot, candidate, acts>>
  PROVE  CommandInv'
  <1>1. /\ at = "loop" /\ Once(results') /\ CancelsAreMeant'
        /\ rpc' \in [Commands -> {"idle", "sent", "flush"}] /\ results' \in Seq(Answers)
        /\ \A j \in Commands \ {k} : rpc'[j] = rpc[j]
        /\ rpc'["snapshot"] = rpc["snapshot"]
        /\ Holds(results', "snapshot") => Holds(results, "snapshot")
        /\ HoldsTaken(results') => HoldsTaken(results)
    BY AnswersAre
  <1>2. DeliveryInv' /\ UNCHANGED <<log, seen, pos, stops, front>>
    BY NextKeeps DEF CommandInv, vars, clientVars, countVars
  <1>3. LoopTyped /\ RunGoesOn
    BY DEF CommandInv, CommandTyped, CommandParts
  <1>4. rpc'["submit"] = "sent" => run.status = "none"
    BY <1>1, <1>3 DEF Commands, RunGoesOn
  <1> QED BY <1>1, <1>2, <1>3, <1>4, LoopKeeps DEF LoopTyped

\* A message is sent: the run begins.
LEMMA SubmittedKeeps ==
  ASSUME CommandInv, IsCommand, at # "ended", Submitted
  PROVE  CommandInv'
  <1>1. /\ Handles("submit") /\ run' = [run EXCEPT !.status = "running"]
        /\ UNCHANGED <<vars, how, ask, owed, published, ahead, at, exit, cl, snapshot, candidate, acts>>
    BY DEF Submitted
  <1>2. /\ at = "loop" /\ Once(results') /\ CancelsAreMeant'
        /\ rpc["submit"] = "sent" /\ rpc'["submit"] = "idle"
        /\ rpc' \in [Commands -> {"idle", "sent", "flush"}] /\ results' \in Seq(Answers)
        /\ rpc'["snapshot"] = rpc["snapshot"]
        /\ Holds(results', "snapshot") => Holds(results, "snapshot")
        /\ HoldsTaken(results') => HoldsTaken(results)
    BY <1>1, AnswersAre
  <1>3. DaemonTyped /\ RunGoesOn
    BY DEF CommandInv, CommandTyped, CommandParts
  <1>4. run.status = "none" /\ run.status \notin Terminal
    BY <1>2, <1>3 DEF RunGoesOn, Terminal
  <1>5. run' \in [status : Terminal \cup {"none", "running"}, text : BOOLEAN]
        /\ run'.status = "running"
    BY <1>1, <1>3 DEF DaemonTyped
  <1>6. DaemonTyped'
    BY <1>1, <1>3, <1>5 DEF DaemonTyped
  <1>7. Caused <= Caused'
    <2>1. run'.status \notin Terminal
      BY <1>5 DEF Terminal
    <2> QED BY <1>1, <1>4, <2>1 DEF Caused, One
  <1> QED BY <1>1, <1>2, <1>4, <1>5, <1>6, <1>7, RunMoves

\* The run is cancelled, and with it its request.
LEMMA CancelledKeeps ==
  ASSUME CommandInv, IsCommand, at # "ended", Cancelled
  PROVE  CommandInv'
  <1>1. /\ Handles("cancel")
        /\ run' = IF Active THEN [run EXCEPT !.status = "cancelled"] ELSE run
        /\ IF ask = "open" THEN ask' = "over" /\ Publish(Resolved)
           ELSE UNCHANGED <<ask, owed, published>>
        /\ UNCHANGED <<vars, how, ahead, at, exit, cl, snapshot, candidate, acts>>
    BY DEF Cancelled
  <1>2. /\ at = "loop" /\ Once(results') /\ CancelsAreMeant'
        /\ \A j \in Commands \ {"cancel"} : rpc'[j] = rpc[j]
        /\ rpc' \in [Commands -> {"idle", "sent", "flush"}] /\ results' \in Seq(Answers)
        /\ rpc'["snapshot"] = rpc["snapshot"]
        /\ Holds(results', "snapshot") => Holds(results, "snapshot")
        /\ HoldsTaken(results') => HoldsTaken(results)
    BY <1>1, AnswersAre
  <1>3. DaemonTyped /\ RunGoesOn
    BY DEF CommandInv, CommandTyped, CommandParts
  <1>4. CASE ~ Active
    <2>1. ask # "open"
      BY <1>3, <1>4 DEF RunGoesOn
    <2>2. UNCHANGED daemonVars
      BY <1>1, <1>4, <2>1 DEF daemonVars
    <2> QED BY <1>1, <2>2, OnlyAnswers
  <1>5. CASE Active
    <2>1. run.status \notin Terminal /\ run.status # "none"
      BY <1>5 DEF Active, Terminal
    <2>2. /\ run' \in [status : Terminal \cup {"none", "running"}, text : BOOLEAN]
          /\ run'.status = "cancelled" /\ run'.status \in Terminal
      BY <1>1, <1>3, <1>5 DEF DaemonTyped, Terminal
    <2>3. rpc'["submit"] # "sent"
      BY <1>2, <1>3, <2>1 DEF Commands, RunGoesOn
    <2>4. CASE ask = "open"
      <3>1. /\ ask' = "over" /\ Resolved \in RunKinds
            /\ owed' = Append(owed, Resolved) /\ published' = published \cup {Resolved}
        BY <1>1, <2>4 DEF Publish, RunKinds
      <3>2. Caused + 1 <= Caused'
        BY <2>1, <2>2, <2>4, <3>1 DEF Caused, One
      <3>3. DaemonTyped'
        BY <1>3, <2>2, <3>1 DEF DaemonTyped
      <3> QED BY <1>1, <1>2, <2>1, <2>3, <3>1, <3>2, <3>3, RunMoves
    <2>5. CASE ask # "open"
      <3>1. owed' = owed /\ published' = published /\ ask' = ask
        BY <1>1, <2>5
      <3>2. Caused <= Caused'
        BY <2>1, <2>2, <3>1 DEF Caused, One
      <3>3. DaemonTyped'
        BY <1>3, <2>2, <3>1 DEF DaemonTyped
      <3> QED BY <1>1, <1>2, <2>1, <2>3, <2>5, <3>1, <3>2, <3>3, RunMoves
    <2> QED BY <2>4, <2>5
  <1> QED BY <1>4, <1>5

\* The request is answered.
LEMMA ApprovedKeeps ==
  ASSUME CommandInv, IsCommand, at # "ended", Approved
  PROVE  CommandInv'
  <1>1. /\ Handles("approve")
        /\ IF ask = "open" THEN ask' = "over" /\ Publish(Resolved)
           ELSE UNCHANGED <<ask, owed, published>>
        /\ UNCHANGED <<vars, how, run, ahead, at, exit, cl, snapshot, candidate, acts>>
    BY DEF Approved
  <1>2. /\ at = "loop" /\ Once(results') /\ CancelsAreMeant'
        /\ \A j \in Commands \ {"approve"} : rpc'[j] = rpc[j]
        /\ rpc' \in [Commands -> {"idle", "sent", "flush"}] /\ results' \in Seq(Answers)
        /\ rpc'["snapshot"] = rpc["snapshot"]
        /\ Holds(results', "snapshot") => Holds(results, "snapshot")
        /\ HoldsTaken(results') => HoldsTaken(results)
    BY <1>1, AnswersAre
  <1>3. DaemonTyped /\ RunGoesOn
    BY DEF CommandInv, CommandTyped, CommandParts
  <1>4. CASE ask # "open"
    <2>1. UNCHANGED daemonVars
      BY <1>1, <1>4 DEF daemonVars
    <2> QED BY <1>1, <2>1, OnlyAnswers
  <1>5. CASE ask = "open"
    <2>1. run.status \notin Terminal /\ run.status # "none"
      BY <1>3, <1>5 DEF RunGoesOn, Active, Terminal
    <2>2. /\ ask' = "over" /\ Resolved \in RunKinds
          /\ owed' = Append(owed, Resolved) /\ published' = published \cup {Resolved}
      BY <1>1, <1>5 DEF Publish, RunKinds
    <2>3. Caused + 1 <= Caused'
      BY <1>1, <1>5, <2>1, <2>2 DEF Caused, One
    <2>4. DaemonTyped'
      BY <1>1, <1>3, <2>2 DEF DaemonTyped
    <2>5. rpc'["submit"] # "sent"
      BY <1>2, <1>3, <2>1 DEF Commands, RunGoesOn
    <2> QED BY <1>1, <1>2, <2>1, <2>2, <2>3, <2>4, <2>5, RunMoves
  <1> QED BY <1>4, <1>5

\* The first part of a snapshot: how the run ended
LEMMA RunReadKeeps ==
  ASSUME CommandInv, IsCommand, at # "ended", RunRead
  PROVE  CommandInv'
  <1>1. /\ LoopTyped /\ DaemonTyped /\ Stages /\ SnapshotsHold /\ RunGoesOn
    BY DEF CommandInv, CommandTyped, CommandParts
  <1>2. /\ rpc["snapshot"] = "sent" /\ run.status \in Terminal
        /\ snapshot' = [status |-> run.status, text |-> run.text, cursor |-> 0]
        /\ rpc' = [rpc EXCEPT !["snapshot"] = "flush"] /\ ahead' = Len(owed)
        /\ UNCHANGED <<vars, how, daemonVars, at, exit, cl, candidate, results, acts>>
        /\ UNCHANGED <<log, seen, pos, stops, front>>
    BY DEF RunRead, Reaches, vars, clientVars, countVars
  <1>3. at = "loop"
    BY <1>1, <1>2 DEF LoopTyped, Stages, Idle, Commands
  <1>4. DeliveryInv'
    BY <1>2, NextKeeps DEF CommandInv
  <1>5. snapshot' \in Kept
    BY <1>1, <1>2, CapacitiesAssumption DEF Kept, DaemonTyped
  <1>6. ahead' \in 0 .. Len(owed')
    <2>1. Len(owed) \in Nat /\ owed' = owed
      BY <1>1, <1>2 DEF DaemonTyped, daemonVars
    <2> QED BY <1>2, <2>1
  <1>7. /\ rpc' \in [Commands -> {"idle", "sent", "flush"}] /\ rpc'["snapshot"] = "flush"
        /\ rpc'["cancel"] = rpc["cancel"] /\ rpc'["submit"] = rpc["submit"]
    BY <1>1, <1>2 DEF LoopTyped, Commands
  <1>8. LoopTyped'
    BY <1>1, <1>2, <1>5, <1>6, <1>7 DEF LoopTyped
  <1>9. Stages'
    BY <1>1, <1>2, <1>3 DEF Stages, OneShot
  <1>10. SnapshotsHold'
    <2>1. ~ Holds(results, "snapshot") /\ cl.polling /\ Once(results)
      BY <1>1, <1>2 DEF SnapshotsHold
    <2>2. ~ HoldsTaken(results)
      BY <2>1 DEF HoldsTaken, Holds
    <2>3. OfTheRun(snapshot)' /\ ahead' = Len(owed')
      BY <1>2 DEF OfTheRun, daemonVars
    <2>4. candidate' # NoSnapshot => Complete(candidate)'
      BY <1>1, <1>2 DEF SnapshotsHold, Complete, OfTheRun, daemonVars
    <2> QED BY <1>2, <2>1, <2>2, <2>3, <2>4 DEF SnapshotsHold
  <1>11. CancelsAreMeant'
    BY <1>2, <1>7, CancelsStay
  <1>12. rpc'["submit"] = "sent" => run.status = "none"
    BY <1>1, <1>7 DEF RunGoesOn
  <1> QED BY <1>2, <1>3, <1>4, <1>8, <1>9, <1>10, <1>11, <1>12, ClientKeeps

\* The last cursor of the session is the end of the log.
LEMMA LatestIsLast ==
  ASSUME CommandInv, IsCommand
  PROVE  LatestCursor = Len(log) /\ LatestCursor \in 0 .. MaxLog
  <1>1. /\ Len(log) \in Nat /\ Len(log) <= MaxLog /\ MaxLog \in Nat
        /\ log \in Seq(RunKinds) /\ RunKinds \subseteq Scope
    BY BehindIs, CommandAssumption DEF CommandInv, CommandParts, RunGoesOn
  <1>2. Scoped(0, Len(log)) = 1 .. Len(log)
    <2>1. \A k \in 1 .. Len(log) : log[k] \in Scope
      BY <1>1
    <2> QED BY <2>1 DEF Scoped
  <1>3. PICK n \in Nat : n = Len(log)
    BY <1>1
  <1>4. CASE n = 0
    BY <1>1, <1>2, <1>3, <1>4 DEF LatestCursor
  <1>5. CASE n # 0
    <2>1. 1 .. n # {} /\ (1 .. n) \in SUBSET (0 .. n) /\ n \in 1 .. n
      BY <1>5
    <2>2. Max(1 .. n) \in 1 .. n /\ \A k \in 1 .. n : k <= Max(1 .. n)
      BY <2>1, MaxIsGreatest
    <2>3. Max(1 .. n) = n
      BY <2>1, <2>2
    <2>4. Scoped(0, Len(log)) = 1 .. n
      BY <1>2, <1>3
    <2>5. LatestCursor = n
      BY <2>1, <2>3, <2>4 DEF LatestCursor
    <2> QED BY <1>1, <1>3, <2>5
  <1> QED BY <1>4, <1>5

\* The second part: the cursor of the session, once the log holds what was accepted
LEMMA SessionReadKeeps ==
  ASSUME CommandInv, IsCommand, at # "ended", SessionRead
  PROVE  CommandInv'
  <1>1. /\ LoopTyped /\ DaemonTyped /\ Stages /\ SnapshotsHold /\ RunGoesOn
        /\ results \in Seq(Answers)
    BY DEF CommandInv, CommandTyped, CommandParts, LoopTyped
  <1>2. /\ rpc["snapshot"] = "flush" /\ ahead' = 0
        /\ UNCHANGED <<vars, how, daemonVars, at, exit, cl, candidate, acts>>
        /\ UNCHANGED <<log, seen, pos, stops, front>>
    BY DEF SessionRead, Reaches, vars, clientVars, countVars
  <1>3. PICK outcome \in {"ok", "late", "broken"} :
           /\ Answer("snapshot", outcome)
           /\ \/ outcome = "broken" /\ snapshot' = snapshot
              \/ ahead = 0 /\ snapshot' = [snapshot EXCEPT !.cursor = LatestCursor]
    BY DEF SessionRead
  <1>4. rpc' = [rpc EXCEPT !["snapshot"] = "idle"] /\ results' = Append(results, Result("snapshot", outcome))
    BY <1>3 DEF Answer
  <1>5. at = "loop"
    BY <1>1, <1>2 DEF LoopTyped, Stages, Idle, Commands
  <1>6. DeliveryInv'
    BY <1>2, NextKeeps DEF CommandInv
  <1>7. /\ rpc' \in [Commands -> {"idle", "sent", "flush"}] /\ rpc'["snapshot"] = "idle"
        /\ rpc'["cancel"] = rpc["cancel"] /\ rpc'["submit"] = rpc["submit"]
    BY <1>1, <1>4 DEF LoopTyped, Commands
  <1>8. /\ OfTheRun(snapshot) /\ ahead = Len(owed) /\ cl.polling /\ Once(results)
        /\ ~ Holds(results, "snapshot") /\ ~ HoldsTaken(results)
    BY <1>1, <1>2 DEF SnapshotsHold, HoldsTaken, Holds
  <1>9. /\ Result("snapshot", outcome) \in Answers /\ Result("snapshot", outcome).kind = "snapshot"
        /\ Result("snapshot", outcome).outcome = outcome
    BY DEF Result, Answers, Commands
  <1>10. /\ results' \in Seq(Answers) /\ Once(results')
         /\ \A kind : Holds(results', kind) <=> Holds(results, kind) \/ "snapshot" = kind
         /\ HoldsTaken(results') => outcome = "ok"
    BY <1>1, <1>4, <1>8, <1>9, QueueGrows
  <1>11. snapshot' \in Kept
    <2>1. snapshot \in Kept
      BY <1>1 DEF LoopTyped
    <2>2. LatestCursor \in 0 .. MaxLog
      BY LatestIsLast
    <2> QED BY <1>3, <2>1, <2>2 DEF Kept
  <1>12. LoopTyped'
    <2>1. ahead' \in 0 .. Len(owed')
      <3>1. Len(owed) \in Nat /\ owed' = owed
        BY <1>1, <1>2 DEF DaemonTyped, daemonVars
      <3> QED BY <1>2, <3>1
    <2> QED BY <1>1, <1>2, <1>7, <1>10, <1>11, <2>1 DEF LoopTyped
  <1>13. Stages'
    BY <1>1, <1>2, <1>5 DEF Stages, OneShot
  <1>14. SnapshotsHold'
    <2>1. outcome = "ok" => Complete(snapshot)'
      <3> SUFFICES ASSUME outcome = "ok" PROVE Complete(snapshot)'
        OBVIOUS
      <3>1. ahead = 0 /\ snapshot' = [snapshot EXCEPT !.cursor = Len(log)] /\ snapshot \in Kept
        BY <1>1, <1>3, LatestIsLast DEF LoopTyped
      <3>2. /\ snapshot'.status = snapshot.status /\ snapshot'.text = snapshot.text
            /\ snapshot'.cursor = Len(log)
        BY <3>1 DEF Kept
      <3>3. owed = <<>>
        <4>1. owed \in Seq(RunKinds) /\ Len(owed) = 0
          BY <1>1, <1>8, <3>1 DEF DaemonTyped
        <4> QED BY <4>1
      <3> QED BY <1>2, <1>8, <3>2, <3>3 DEF Complete, OfTheRun, daemonVars
    <2>2. candidate' # NoSnapshot => Complete(candidate)'
      BY <1>1, <1>2 DEF SnapshotsHold, Complete, OfTheRun, daemonVars
    <2> QED BY <1>2, <1>7, <1>8, <1>10, <2>1, <2>2 DEF SnapshotsHold
  <1>15. CancelsAreMeant'
    BY <1>2, <1>7, <1>10, CancelsStay
  <1>16. rpc'["submit"] = "sent" => run.status = "none"
    BY <1>1, <1>7 DEF RunGoesOn
  <1> QED BY <1>2, <1>5, <1>6, <1>12, <1>13, <1>14, <1>15, <1>16, ClientKeeps

\* Accepted events are stored.
LEMMA OwedCommittedKeeps ==
  ASSUME CommandInv, IsCommand, at # "ended", OwedCommitted
  PROVE  CommandInv'
  <1>1. /\ LoopTyped /\ DaemonTyped /\ Stages /\ SnapshotsHold /\ RunGoesOn /\ DeliveryInv /\ Typed
    BY DEF CommandInv, CommandTyped, CommandParts, DeliveryInv
  <1>2. PICK n \in Nat : n = IF Len(owed) < BatchSize THEN Len(owed) ELSE BatchSize
    BY <1>1, CapacitiesAssumption DEF DaemonTyped
  <1>3. /\ n > 0 /\ log' = log \o SubSeq(owed, 1, n) /\ owed' = SubSeq(owed, n + 1, Len(owed))
        /\ ahead' = IF ahead > n THEN ahead - n ELSE 0
        /\ UNCHANGED <<hub, worker, latest, sub, conn, wire, lastCursor, inbox, overflow, asking,
                       pos, seen, losses, stops, front>>
        /\ UNCHANGED <<how, run, ask, published, rpc, at, exit, cl, snapshot, candidate, results, acts>>
    BY <1>2 DEF OwedCommitted, hubVars, connVars, webVars, clientVars, countVars
  <1>4. /\ Len(owed) \in Nat /\ n <= Len(owed) /\ Len(log) \in Nat /\ MaxLog \in Nat
        /\ Len(log) + Len(owed) <= Caused /\ Caused \in Nat /\ Caused <= 3 /\ MaxLog >= 3
        /\ owed \in Seq(RunKinds) /\ log \in Seq(RunKinds) /\ RunKinds \subseteq Kinds
        /\ ahead \in 0 .. Len(owed)
    <2>1. Len(owed) \in Nat /\ BatchSize \in Nat
      BY <1>1, CapacitiesAssumption DEF DaemonTyped
    <2>2. n <= Len(owed)
      BY <1>2, <2>1
    <2> QED BY <1>1, <2>1, <2>2, BehindIs, CausedIs, CommandAssumption, InterestAssumption
            DEF DaemonTyped, RunGoesOn, LoopTyped
  <1>5. /\ SubSeq(owed, 1, n) \in Seq(RunKinds) /\ Len(SubSeq(owed, 1, n)) = n
        /\ \A i \in 1 .. n : SubSeq(owed, 1, n)[i] = owed[i]
    BY <1>3, <1>4
  <1>6. /\ owed' \in Seq(RunKinds) /\ Len(owed') = Len(owed) - n
        /\ \A i \in 1 .. Len(owed) - n : owed'[i] = owed[n + i]
    BY <1>3, <1>4
  <1>7. /\ log' \in Seq(RunKinds) /\ Len(log') = Len(log) + n
        /\ \A k \in 1 .. Len(log) : log'[k] = log[k]
        /\ \A i \in 1 .. n : log'[Len(log) + i] = owed[i] /\ Len(log) + i \in 1 .. Len(log')
    <2>1. PICK batch \in Seq(RunKinds) :
             /\ log' = log \o batch /\ Len(batch) = n /\ \A i \in 1 .. n : batch[i] = owed[i]
      BY <1>3, <1>5
    <2> QED BY <1>4, <2>1
  <1>8. DeliveryInv'
    <2>1. Len(log') <= MaxLog /\ latest <= Len(log')
      BY <1>1, <1>4, <1>7 DEF Typed
    <2>2. log' \in Seq(Kinds)
      BY <1>4, <1>7, SeqMonotonic
    <2>3. Typed'
      BY <1>1, <1>3, <2>1, <2>2 DEF Typed
    <2>4. Grown /\ \A c \in Clients : Untouched(c)
      BY <1>1, <1>3, <1>4, <1>7 DEF Grown, Untouched, Typed
    <2>5. \A c \in Clients : ClientInv(c)'
      BY <1>1, <1>3, <2>4, ClientStays DEF DeliveryInv
    <2> QED BY <2>3, <2>5 DEF DeliveryInv
  <1>9. DaemonTyped'
    BY <1>1, <1>3, <1>6 DEF DaemonTyped
  <1>10. LoopTyped'
    <2>1. ahead' \in 0 .. Len(owed')
      BY <1>3, <1>4, <1>6
    <2> QED BY <1>1, <1>3, <2>1 DEF LoopTyped
  <1>11. Stages'
    BY <1>1, <1>3 DEF Stages, OneShot
  <1>12. RunGoesOn'
    <2>1. Caused' = Caused
      BY <1>3 DEF Caused
    <2>2. Len(log') + Len(owed') <= Caused'
      BY <1>4, <1>6, <1>7, <2>1
    <2>3. ASSUME Failure \in published', ~ (stops' > 0),
                 ~ \E k \in 1 .. Len(log') : log'[k] = Failure
          PROVE  \E k \in 1 .. Len(owed') : owed'[k] = Failure
      <3>1. ~ \E k \in 1 .. Len(log) : log[k] = Failure
        <4>1. \A k \in 1 .. Len(log) : k \in 1 .. Len(log')
          BY <1>4, <1>7
        <4> QED BY <1>7, <2>3, <4>1
      <3>2. PICK k \in 1 .. Len(owed) : owed[k] = Failure
        BY <1>1, <1>3, <2>3, <3>1 DEF RunGoesOn
      <3>3. k \notin 1 .. n
        BY <1>7, <2>3, <3>2
      <3>4. k - n \in 1 .. Len(owed) - n /\ n + (k - n) = k
        BY <1>4, <3>2, <3>3
      <3> QED BY <1>6, <3>2, <3>4
    <2> QED BY <1>1, <1>3, <1>7, <2>2, <2>3 DEF RunGoesOn, Active
  <1>13. SnapshotsHold'
    <2>1. rpc["snapshot"] = "flush" => ahead' = Len(owed')
      <3>1. rpc["snapshot"] = "flush" => ahead = Len(owed)
        BY <1>1 DEF SnapshotsHold
      <3> QED BY <1>3, <1>4, <1>6, <3>1
    <2>2. ~ HoldsTaken(results) /\ candidate = NoSnapshot
      <3>1. owed # <<>>
        BY <1>3, <1>4
      <3> QED BY <1>1, <3>1 DEF SnapshotsHold, Complete
    <2>3. OfTheRun(snapshot)' = OfTheRun(snapshot)
      BY <1>3 DEF OfTheRun
    <2> QED BY <1>1, <1>3, <2>1, <2>2, <2>3 DEF SnapshotsHold
  <1>14. CancelsAreMeant'
    BY <1>3, CancelsStay
  <1>15. \A k \in 1 .. pos[Me] : log'[k] = log[k]
    <2>1. pos[Me] \in Nat /\ pos[Me] <= Len(log)
      BY BehindIs
    <2>2. \A k \in 1 .. pos[Me] : k \in 1 .. Len(log)
      BY <1>4, <2>1
    <2> QED BY <1>7, <2>2
  <1> QED BY <1>3, <1>8, <1>9, <1>10, <1>11, <1>12, <1>13, <1>14, <1>15, DaemonKeeps

\* The daemon ends, and its queue and its run with it.
LEMMA DaemonEndsKeeps ==
  ASSUME CommandInv, IsCommand, at # "ended", DaemonEnds
  PROVE  CommandInv'
  <1>1. /\ LoopTyped /\ DaemonTyped /\ Stages /\ SnapshotsHold /\ RunGoesOn /\ Typed
    BY DEF CommandInv, CommandTyped, CommandParts, DeliveryInv
  <1>2. /\ ProcessEnds /\ owed' = <<>> /\ ahead' = 0
        /\ ask' = IF ask = "open" THEN "over" ELSE ask
        /\ run' = IF Active THEN [run EXCEPT !.status = "interrupted"] ELSE run
        /\ UNCHANGED <<how, published, rpc, at, exit, cl, snapshot, candidate, results, acts>>
        /\ UNCHANGED <<log, pos, seen, front>> /\ stops' = stops + 1
    BY DEF DaemonEnds, ProcessEnds, clientVars
  <1>3. DeliveryInv'
    BY <1>2, ProcessEndsKeeps DEF CommandInv
  <1>4. /\ run' \in [status : Terminal \cup {"none", "running"}, text : BOOLEAN]
        /\ Active => run'.status \in Terminal
        /\ ~ Active => run' = run
    BY <1>1, <1>2 DEF DaemonTyped, Terminal
  <1>5. DaemonTyped'
    BY <1>1, <1>2, <1>4 DEF DaemonTyped
  <1>6. LoopTyped'
    BY <1>1, <1>2 DEF LoopTyped
  <1>7. run.status \in Terminal \/ run.status = "none" => run' = run
    BY <1>4 DEF Active, Terminal
  <1>8. Stages'
    BY <1>1, <1>2, <1>7 DEF Stages, OneShot
  <1>9. RunGoesOn'
    <2>1. ask' # "open"
      BY <1>2
    <2>2. Len(log) + Len(owed) <= Caused /\ Len(log) \in Nat /\ Len(owed) \in Nat /\ Caused \in Nat
      BY <1>1, BehindIs, CausedIs DEF RunGoesOn, DaemonTyped
    <2>3. Caused <= Caused' /\ Caused' \in Nat
      <3>1. run.status \in Terminal => run'.status \in Terminal
        BY <1>7
      <3> QED BY <1>2, <3>1 DEF Caused, One
    <2>4. Len(log') + Len(owed') <= Caused'
      BY <1>2, <2>2, <2>3
    <2>5. stops' > 0
      BY <1>1, <1>2, CapacitiesAssumption DEF Typed
    <2> QED BY <1>1, <1>2, <1>7, <2>1, <2>4, <2>5 DEF RunGoesOn
  <1>10. SnapshotsHold'
    <2>1. OfTheRun(snapshot) => OfTheRun(snapshot)'
      BY <1>2, <1>7 DEF OfTheRun
    <2>2. \A s \in Kept : Complete(s) => /\ run' = run
                                         /\ run.status \in Terminal /\ s.status = run.status
                                         /\ s.text = run.text /\ s.cursor = Len(log)
      BY <1>7 DEF Complete, OfTheRun
    <2>3. candidate # NoSnapshot => Complete(candidate)'
      BY <1>1, <1>2, <2>2 DEF SnapshotsHold, LoopTyped, Complete, OfTheRun
    <2>4. HoldsTaken(results) => Complete(snapshot)'
      BY <1>1, <1>2, <2>2 DEF SnapshotsHold, LoopTyped, Complete, OfTheRun
    <2> QED BY <1>1, <1>2, <2>1, <2>3, <2>4 DEF SnapshotsHold
  <1>11. CancelsAreMeant'
    BY <1>2, CancelsStay
  <1> QED BY <1>2, <1>3, <1>5, <1>6, <1>8, <1>9, <1>10, <1>11, DaemonKeeps

-------------------------------------------------------------------------------
(* Exit codes are earned *)

\* In the beginning
LEMMA CommandBegins == CommandInit => CommandInv
  <1> SUFFICES ASSUME CommandInit PROVE CommandInv
    OBVIOUS
  <1>1. /\ Init /\ how \in [mode : {"run", "chat", "resume"}, interactive : BOOLEAN]
        /\ run = [status |-> IF how.mode = "resume" THEN "running" ELSE "none", text |-> FALSE]
        /\ ask = "none" /\ owed = <<>> /\ published = {}
        /\ rpc = Idle /\ ahead = 0
        /\ at = "start" /\ exit = "none" /\ cl = NewClient
        /\ snapshot = NoSnapshot /\ candidate = NoSnapshot
        /\ results = IF how.mode = "chat" THEN <<Result("line", "plain")>> ELSE <<>>
        /\ acts = {}
    BY CommandAssumption DEF CommandInit
  <1>2. DeliveryInv /\ log = <<>> /\ pos = [c \in Clients |-> 0] /\ Me \in Clients
    BY <1>1, DeliveryBegins, CommandAssumption DEF Init
  <1>3. /\ run \in [status : Terminal \cup {"none", "running"}, text : BOOLEAN]
        /\ run.status \notin Terminal
        /\ OneShot => run.status = "none"
    BY <1>1 DEF Terminal, OneShot
  <1>4. DaemonTyped
    BY <1>1, <1>3 DEF DaemonTyped
  <1>5. /\ results \in Seq(Answers) /\ Once(results) /\ ~ HoldsTaken(results)
        /\ \A kind : Holds(results, kind) => kind = "line"
    <2>1. PICK r \in Answers : r = Result("line", "plain") /\ r.kind = "line"
      <3>1. Result("line", "plain") \in Answers /\ Result("line", "plain").kind = "line"
        BY DEF Result, Answers, Inputs
      <3> QED BY <3>1
    <2>2. PICK none \in Seq(Answers) : none = <<>>
      BY QueueIsEmpty
    <2>3. /\ Append(none, r) \in Seq(Answers)
          /\ \A kind : Holds(Append(none, r), kind) <=> Holds(none, kind) \/ r.kind = kind
          /\ HoldsTaken(Append(none, r)) <=>
                HoldsTaken(none) \/ (r.kind = "snapshot" /\ r.outcome = "ok")
          /\ Once(none) /\ (r.kind = "snapshot" => ~ Holds(none, "snapshot")) => Once(Append(none, r))
      BY QueueGrows
    <2>4. Once(none) /\ ~ HoldsTaken(none) /\ \A kind : ~ Holds(none, kind)
      BY <2>2, QueueIsEmpty
    <2>5. Append(none, r) = <<r>>
      BY <2>2
    <2>6. CASE how.mode = "chat"
      <3>1. results = Append(none, r)
        BY <1>1, <2>1, <2>5, <2>6
      <3> QED BY <2>1, <2>3, <2>4, <3>1
    <2>7. CASE how.mode # "chat"
      BY <1>1, <2>7, QueueIsEmpty
    <2> QED BY <2>6, <2>7
  <1>6. NewClient \in Known /\ NoSnapshot \in Kept
    BY CapacitiesAssumption DEF NewClient, Known, NoSnapshot, Kept
  <1>7. LoopTyped
    BY <1>1, <1>5, <1>6 DEF LoopTyped, Idle
  <1>8. Stages
    BY <1>1, <1>3 DEF Stages, NewClient
  <1>9. RunGoesOn
    <2>1. Caused \in Nat
      BY <1>4, CausedIs
    <2> QED BY <1>1, <1>2, <2>1 DEF RunGoesOn, Idle, Commands
  <1>10. SnapshotsHold /\ CancelsAreMeant
    BY <1>1, <1>5 DEF SnapshotsHold, CancelsAreMeant, Idle, Commands, NewClient
  <1>11. ErrorsAreKept /\ Earned
    BY <1>1, <1>2 DEF ErrorsAreKept, Earned
  <1> QED BY <1>1, <1>2, <1>4, <1>7, <1>8, <1>9, <1>10, <1>11
          DEF CommandInv, CommandTyped, CommandParts

\* A client stays the program it is.
LEMMA FrontsStay ==
  ASSUME Next
  PROVE  front' = front
  <1>1. ASSUME NEW batch \in Batches, Commit(batch) PROVE front' = front
    BY <1>1 DEF Commit, countVars
  <1>2. CASE FanOut \/ WorkerFails \/ ProcessEnds \/ HubStarts
    BY <1>2 DEF FanOut, WorkerFails, ProcessEnds, HubStarts, countVars
  <1>3. ASSUME NEW c \in Clients, ServerStep(c) \/ Lost(c) PROVE front' = front
    BY <1>3 DEF ServerStep, LoadReplay, PumpReplays, PumpSends, PumpEnds, Lost, countVars
  <1>4. ASSUME NEW c \in Clients, ClientStep(c) PROVE front' = front
    BY <1>4 DEF ClientStep, Connect, Subscribe, SubscribeRefused, Receive, Relay, SeesEof, countVars
  <1>5. ASSUME NEW c \in Clients, BrowserStep(c) PROVE front' = front
    BY <1>5 DEF BrowserStep, BrowserAsks, BrowserTakes, BrowserResyncs, countVars
  <1> QED BY <1>1, <1>2, <1>3, <1>4, <1>5 DEF Next

\* The command keeps its part while nothing of it changes.
LEMMA NothingKeeps ==
  ASSUME CommandInv, DeliveryInv', UNCHANGED <<how, daemonVars, commandVars, front>>,
         ~ IsCommand \/ UNCHANGED vars
  PROVE  CommandInv'
  <1>1. UNCHANGED <<how, run, ask, owed, published>>
    BY DEF daemonVars
  <1>2. UNCHANGED <<rpc, ahead, at, exit, cl, snapshot, candidate, results, acts>>
    BY DEF commandVars
  <1>3. DaemonTyped' /\ LoopTyped'
    BY <1>1, <1>2 DEF CommandInv, CommandTyped, DaemonTyped, LoopTyped
  <1>4. IsCommand' = IsCommand
    BY DEF IsCommand
  <1>5. CASE ~ IsCommand
    BY <1>2, <1>3, <1>4, <1>5 DEF CommandInv, CommandTyped
  <1>6. CASE IsCommand
    <2>1. UNCHANGED <<log, pos, seen, stops>>
      BY <1>6 DEF vars, clientVars, countVars
    <2>2. CommandParts
      BY <1>6 DEF CommandInv
    <2>3. Stages' /\ CancelsAreMeant' /\ ErrorsAreKept' /\ Earned'
      BY <1>1, <1>2, <2>1, <2>2
         DEF CommandParts, Stages, CancelsAreMeant, ErrorsAreKept, Earned, OneShot
    <2>4. RunGoesOn'
      BY <1>1, <1>2, <2>1, <2>2 DEF CommandParts, RunGoesOn, Caused, Active
    <2>5. SnapshotsHold'
      BY <1>1, <1>2, <2>1, <2>2 DEF CommandParts, SnapshotsHold, Complete, OfTheRun
    <2> QED BY <1>3, <1>4, <1>6, <2>3, <2>4, <2>5 DEF CommandInv, CommandTyped, CommandParts
  <1> QED BY <1>5, <1>6

\* Every step keeps the invariant.
LEMMA CommandNextKeeps ==
  ASSUME CommandInv, [CommandNext]_allVars
  PROVE  CommandInv'
  <1>1. CASE UNCHANGED allVars
    <2>1. UNCHANGED vars /\ UNCHANGED <<how, daemonVars, commandVars>>
      BY <1>1 DEF allVars
    <2>2. DeliveryInv' /\ front' = front
      BY <2>1, NextKeeps DEF CommandInv, vars, countVars
    <2> QED BY <2>1, <2>2, NothingKeeps
  <1>2. CASE OtherFronts
    <2>1. ~ IsCommand /\ Next /\ UNCHANGED <<how, daemonVars, commandVars>>
      BY <1>2 DEF OtherFronts
    <2>2. DeliveryInv' /\ front' = front
      BY <2>1, NextKeeps, FrontsStay DEF CommandInv
    <2> QED BY <2>1, <2>2, NothingKeeps
  <1>3. CASE ClientActs
    <2>1. IsCommand
      BY <1>3 DEF ClientActs
    <2>2. CASE Finish \/ ShowPrompt \/ Loop \/ Polls
      BY <2>1, <2>2, FinishKeeps, ShowPromptKeeps, LoopStepKeeps, PollsKeeps
    <2>3. CASE Connects
      BY <2>1, <2>3, StartsKeeps, EntersKeeps, GivesUpKeeps, ClosesOldKeeps, ReopensKeeps DEF Connects
    <2>4. CASE TakesEvent \/ TakesMarker \/ Disconnected
      BY <2>1, <2>4, TakesEventKeeps, TakesMarkerKeeps, GivesUpKeeps
    <2> QED BY <1>3, <2>2, <2>3, <2>4 DEF ClientActs
  <1>4. CASE at # "ended" /\ DaemonActs
    <2>1. OwedCommitted \/ RunStep \/ CommandHandled
      BY <1>4 DEF DaemonActs
    <2>2. IsCommand
      BY <2>1 DEF OwedCommitted, RunStep, AskEnds, RunEnds, CommandHandled, Submitted, Cancelled,
                  Approved, RunRead, SessionRead, Handles, Reaches, Serving
    <2>3. CASE OwedCommitted
      BY <1>4, <2>2, <2>3, OwedCommittedKeeps
    <2>4. CASE RunStep
      BY <1>4, <2>2, <2>4, AsksKeep, RunEndsKeeps DEF RunStep
    <2>5. CASE CommandHandled
      BY <1>4, <2>2, <2>5, SubmittedKeeps, CancelledKeeps, ApprovedKeeps, RunReadKeeps, SessionReadKeeps
         DEF CommandHandled
    <2> QED BY <2>1, <2>3, <2>4, <2>5
  <1>5. CASE Happens
    <2>1. IsCommand /\ at # "ended"
      BY <1>5 DEF Happens
    <2>2. CASE StreamStep \/ DaemonEnds \/ Asks \/ TakesMarker
      BY <2>1, <2>2, StreamStepKeeps, DaemonEndsKeeps, AsksKeep, TakesMarkerKeeps
    <2>3. ASSUME NEW act \in {"interrupt", "eof", "line"}, UserActs(act) PROVE CommandInv'
      BY <2>1, <2>3, UserActsKeeps DEF Inputs
    <2> QED BY <1>5, <2>2, <2>3 DEF Happens
  <1> QED BY <1>1, <1>2, <1>3, <1>4, <1>5 DEF CommandNext

(***************************************************************************)
(* The types of the command line's variables hold; a one-shot command      *)
(* exits with 0 only when its run succeeded with a text and it has seen    *)
(* every event the run caused, none of them a failed tool; and with 130    *)
(* only when the user interrupted it or the run was cancelled: for any     *)
(* replay limit, any batches, and any sequence of answers that come late,  *)
(* lost connections, markers, restarts and inputs.                         *)
(***************************************************************************)
THEOREM ExitsEarned == CommandSpec => []ExitsAreEarned
  <1>1. CommandInit => CommandInv
    BY CommandBegins
  <1>2. CommandInv /\ [CommandNext]_allVars => CommandInv'
    BY CommandNextKeeps
  <1>3. CommandInv => ExitsAreEarned
    <2> SUFFICES ASSUME CommandInv PROVE ExitsAreEarned
      OBVIOUS
    <2>1. DaemonTyped /\ LoopTyped
      BY DEF CommandInv, CommandTyped
    <2>2. CommandTypeOK
      BY <2>1 DEF CommandTypeOK, DaemonTyped, LoopTyped, Known
    <2>3. Earned
      <3>1. CASE IsCommand
        BY <3>1 DEF CommandInv, CommandParts
      <3>2. CASE ~ IsCommand
        BY <3>2 DEF CommandInv, Earned
      <3> QED BY <3>1, <3>2
    <2> QED BY <2>2, <2>3 DEF ExitsAreEarned, Earned
  <1> QED BY <1>1, <1>2, <1>3, PTL DEF CommandSpec

(***************************************************************************)
(* The stream below a command line, a terminal or a browser skips and      *)
(* repeats no event in the composition that runs check.                    *)
(***************************************************************************)
THEOREM NoEventIsSkippedBelow == CommandSpec => []NothingIsSkipped
  <1>1. CommandInit => CommandInv
    BY CommandBegins
  <1>2. CommandInv /\ [CommandNext]_allVars => CommandInv'
    BY CommandNextKeeps
  <1>3. CommandInv => NothingIsSkipped
    BY NothingIsSkippedFollows DEF CommandInv
  <1> QED BY <1>1, <1>2, <1>3, PTL DEF CommandSpec

-------------------------------------------------------------------------------
(* Every client sees what EventStream promises *)

\* The cursors are in order in the sequence, and this is its end.
Orders(s, S) == s = InOrder(S)
EndOf(s)     == IF s = <<>> THEN 0 ELSE s[Len(s)]

\* One more cursor that is wanted goes to the end of the order.
LEMMA OrderGrowsTo ==
  ASSUME NEW c, NEW n \in Nat, NEW m \in Nat, n < m, Wants(c, n, m) = {m}
  PROVE  InOrder(Wants(c, 0, m)) = Append(InOrder(Wants(c, 0, n)), m)
  <1>1. 0 \in Nat /\ n \in Nat /\ m \in Nat /\ 0 <= n /\ n < m /\ Wants(c, n, m) = {m}
    OBVIOUS
  <1> QED BY <1>1, OrderGrows

\* What is wanted last ends the order.
LEMMA OrderTo ==
  ASSUME NEW c, NEW m \in Nat \ {0}, Wanted(c, m), NEW s, Orders(s, Wants(c, 0, m))
  PROVE  s # <<>> /\ s[Len(s)] = m
  <1>1. PICK n \in Nat : n + 1 = m
    <2>1. m - 1 \in Nat /\ (m - 1) + 1 = m
      OBVIOUS
    <2> QED BY <2>1
  <1>2. Wants(c, n, m) = {m}
    <2>1. n + 1 .. m = {m}
      BY <1>1
    <2> QED BY <2>1 DEF Wants
  <1>3. InOrder(Wants(c, 0, m)) = Append(InOrder(Wants(c, 0, n)), m)
    <2>1. n \in Nat /\ m \in Nat /\ n < m
      BY <1>1
    <2> QED BY <1>2, <2>1, OrderGrowsTo, Zenon
  <1>4. PICK before \in Seq(Nat) : before = InOrder(Wants(c, 0, n))
    BY OrderIs, 0 \in Nat
  <1>5. s = Append(before, m)
    BY <1>3, <1>4 DEF Orders
  <1> QED BY <1>4, <1>5

\* The end of the order is the last cursor wanted: nothing is wanted after it.
LEMMA OrderEnds ==
  ASSUME NEW c, NEW p \in Nat, NEW s \in Seq(Nat), Orders(s, Wants(c, 0, p))
  PROVE  EndOf(s) \in 0 .. p /\ Wants(c, EndOf(s), p) = {}
  <1>1. s = <<>> <=> Wants(c, 0, p) = {}
    BY OrderIs, 0 \in Nat DEF Orders
  <1>2. CASE s = <<>>
    BY <1>1, <1>2 DEF EndOf
  <1>3. CASE s # <<>>
    <2> DEFINE W == Wants(c, 0, p)
    <2>1. W \in SUBSET (0 .. p) /\ W # {} /\ \A k \in W : k \in 1 .. p
      BY <1>1, <1>3 DEF Wants
    <2>2. PICK m \in 0 .. p : m \in W /\ \A k \in W : k <= m
      <3> HIDE DEF W
      <3>1. Max(W) \in W /\ \A k \in W : k <= Max(W)
        BY <2>1, MaxIsGreatest
      <3>2. Max(W) \in 0 .. p
        BY <2>1, <3>1
      <3> QED BY <3>1, <3>2
    <2>3. m \in Nat \ {0} /\ m <= p /\ Wanted(c, m)
      BY <2>1, <2>2 DEF Wants
    <2>4. Wants(c, m, p) = {}
      <3> SUFFICES ASSUME NEW k \in Wants(c, m, p) PROVE FALSE
        OBVIOUS
      <3>1. k \in m + 1 .. p /\ Wanted(c, k)
        BY DEF Wants
      <3>2. k \in 0 + 1 .. p /\ ~ (k <= m)
        BY <2>3, <3>1
      <3>3. k \in W
        BY <3>1, <3>2 DEF Wants
      <3> QED BY <2>2, <3>2, <3>3
    <2>5. Wants(c, 0, p) = Wants(c, 0, m)
      <3>1. 0 \in Nat /\ 0 <= m /\ m <= p /\ m \in Nat
        BY <2>3
      <3> HIDE DEF W
      <3> QED BY <2>4, <3>1, OrderStays
    <2>6. s[Len(s)] = m
      BY <2>3, <2>5, OrderTo
    <2> QED BY <1>3, <2>3, <2>4, <2>6 DEF EndOf
  <1> QED BY <1>2, <1>3

\* One more at the end of a sequence is all that was joined to it.
LEMMA OneIsAdded ==
  ASSUME NEW s \in Seq(Nat), NEW b \in Seq(Nat), NEW k \in Nat, Append(s, k) = s \o b
  PROVE  b # <<>> /\ Head(b) = k
  <1>1. /\ Len(s \o b) = Len(s) + Len(b) /\ Len(Append(s, k)) = Len(s) + 1
        /\ Append(s, k)[Len(s) + 1] = k
    OBVIOUS
  <1>2. \A i \in 1 .. Len(b) : (s \o b)[Len(s) + i] = b[i]
    OBVIOUS
  <1>3. PICK x \in Nat, y \in Nat : x = Len(s) /\ y = Len(b)
    OBVIOUS
  <1>4. x + y = x + 1
    BY <1>1, <1>3, Zenon
  <1>5. y = 1
    <2>1. \A u, v \in Nat : u + v = u + 1 => v = 1
      OBVIOUS
    <2> QED BY <1>3, <1>4, <2>1, Zenon
  <1>6. b # <<>> /\ Head(b) = b[1]
    BY <1>3, <1>5
  <1>7. b[1] = k
    <2>1. 1 \in 1 .. Len(b)
      BY <1>3, <1>5
    <2> QED BY <1>1, <1>2, <2>1, Zenon
  <1> QED BY <1>6, <1>7

\* What is shown next is the first event that is missing.
LEMMA NextIsFirst ==
  ASSUME NEW c, NEW n \in Nat, NEW p \in 0 .. n, NEW q \in 0 .. n, NEW s \in Seq(Nat),
         NEW k \in Nat, Orders(s, Wants(c, 0, p)), Orders(Append(s, k), Wants(c, 0, q))
  PROVE  k \in Wants(c, EndOf(s), n) /\ \A j \in Wants(c, EndOf(s), n) : k <= j
  <1>1. /\ p \in Nat /\ q \in Nat /\ 0 \in Nat /\ 0 <= p /\ 0 <= q /\ p <= n /\ q <= n
    OBVIOUS
  <1>2. p <= q
    <2> SUFFICES ASSUME q < p PROVE FALSE
      BY <1>1
    <2>1. InOrder(Wants(c, 0, p)) = InOrder(Wants(c, 0, q)) \o InOrder(Wants(c, q, p))
      BY <1>1, OrderSplits, q <= p
    <2>2. PICK b \in Seq(Nat) : b = InOrder(Wants(c, q, p))
      BY <1>1, OrderIs
    <2>3. s = Append(s, k) \o b
      BY <2>1, <2>2 DEF Orders
    <2>4. /\ Len(Append(s, k) \o b) = Len(s) + 1 + Len(b) /\ Len(b) \in Nat
          /\ Len(s) \in Nat
      OBVIOUS
    <2>5. Len(s) = Len(s) + 1 + Len(b)
      BY <2>3, <2>4, Zenon
    <2>6. \A u, v \in Nat : u # u + 1 + v
      OBVIOUS
    <2> QED BY <2>4, <2>5, <2>6, Zenon
  <1>3. PICK b \in Seq(Nat) : b = InOrder(Wants(c, p, q))
    BY <1>1, OrderIs
  <1>4. Append(s, k) = s \o b
    <2>1. InOrder(Wants(c, 0, q)) = InOrder(Wants(c, 0, p)) \o InOrder(Wants(c, p, q))
      BY <1>1, <1>2, OrderSplits
    <2> QED BY <1>3, <2>1 DEF Orders
  <1>5. b # <<>> /\ Head(b) = k
    BY <1>4, OneIsAdded
  <1>6. Wants(c, p, q) # {}
    BY <1>1, <1>3, <1>5, OrderIs
  <1>7. PICK j \in p + 1 .. q :
           Wants(c, p, j) = {j} /\ Head(InOrder(Wants(c, p, q))) = j
    <2>1. \E j \in p + 1 .. q :
            /\ Wants(c, p, j) = {j}
            /\ InOrder(Wants(c, p, q)) = <<j>> \o InOrder(Wants(c, j, q))
            /\ Head(InOrder(Wants(c, p, q))) = j
            /\ Tail(InOrder(Wants(c, p, q))) = InOrder(Wants(c, j, q))
      BY <1>1, <1>6, OrderBegins
    <2> QED BY <2>1
  <1>8. k = j /\ p < k /\ k <= n /\ Wants(c, p, k) = {k}
    BY <1>1, <1>3, <1>5, <1>7
  <1>9. PICK l \in 0 .. p : l = EndOf(s) /\ Wants(c, l, p) = {}
    BY <1>1, OrderEnds
  <1>10. l \in Nat /\ l <= p /\ p <= k /\ l < k
    BY <1>1, <1>8, <1>9
  <1>11. Wants(c, l, k) = {k}
    <2>1. Wants(c, l, k) = Wants(c, p, k)
      <3>1. l \in Nat /\ p \in Nat /\ l <= p /\ p <= k /\ Wants(c, l, p) = {}
        BY <1>1, <1>9, <1>10
      <3>2. Wants(c, l, p) = {} => Wants(c, l, k) = Wants(c, p, k)
        BY <3>1, OrderStays
      <3> QED BY <3>1, <3>2
    <2> QED BY <1>8, <2>1
  <1>12. /\ \A i \in Nat : i \in Wants(c, l, k) <=> l < i /\ i <= k /\ Wanted(c, i)
         /\ \A i \in Nat : i \in Wants(c, l, n) <=> l < i /\ i <= n /\ Wanted(c, i)
         /\ Wants(c, l, n) \in SUBSET (1 .. n)
    BY <1>10, WantsAre
  <1>13. k \in Wants(c, l, n)
    BY <1>8, <1>11, <1>12
  <1>14. \A i \in Wants(c, l, n) : k <= i
    <2> SUFFICES ASSUME NEW i \in Wants(c, l, n), ~ (k <= i) PROVE FALSE
      OBVIOUS
    <2>1. i \in Nat /\ i <= k
      BY <1>12
    <2>2. i \in Wants(c, l, k)
      BY <1>12, <2>1
    <2> QED BY <1>11, <2>1, <2>2
  <1> QED BY <1>9, <1>13, <1>14

\* What a step may do to the log and to what clients have shown
LogGrows ==
    /\ log' \in Seq(Kinds) /\ Len(log) < Len(log')
    /\ \A k \in 1 .. Len(log) : log'[k] = log[k]
    /\ seen' = seen

Shows(c, k) == log' = log /\ seen' = [seen EXCEPT ![c] = Append(seen[c], k)]

StreamMoves ==
    /\ front' = front
    /\ \/ log' = log /\ seen' = seen
       \/ LogGrows
       \/ \E c \in Clients : \E k \in Nat : Shows(c, k)

\* Every such step is one of the stream, or changes nothing of it.
LEMMA MovesImplement ==
  ASSUME DeliveryInv, DeliveryInv', StreamMoves
  PROVE  [Stream!Next]_<<log, seen, [c \in Clients |-> Interest(c)]>>
  <1>1. Typed /\ Typed' /\ front' = front
    BY DEF DeliveryInv, StreamMoves
  <1>2. [c \in Clients |-> Interest(c)]' = [c \in Clients |-> Interest(c)]
    BY <1>1 DEF Interest
  <1>3. CASE log' = log /\ seen' = seen
    BY <1>2, <1>3
  <1>4. CASE LogGrows
    BY <1>2, <1>4 DEF LogGrows, Stream!Next, Stream!Grow
  <1>5. ASSUME NEW c \in Clients, NEW k \in Nat, Shows(c, k)
        PROVE  Stream!Next
    <2>1. ClientInv(c) /\ ClientInv(c)'
      BY DEF DeliveryInv
    <2>2. /\ pos[c] \in Nat /\ pos'[c] \in Nat /\ Len(log) \in Nat
          /\ pos[c] <= Len(log) /\ pos'[c] <= Len(log)
      BY <1>1, <1>5, <2>1, CapacitiesAssumption DEF Typed, ClientInv, Shows
    <2>3. PICK n \in Nat : n = Len(log)
      BY <2>2
    <2>4. PICK p \in 0 .. n : p = pos[c]
      BY <2>2, <2>3
    <2>5. PICK q \in 0 .. n : q = pos'[c]
      BY <2>2, <2>3
    <2>6. PICK s \in Seq(Nat) : s = seen[c]
      BY <1>1 DEF Typed
    <2>7. Orders(s, Wants(c, 0, p))
      BY <2>1, <2>4, <2>6 DEF ClientInv, Orders
    <2>8. Orders(Append(s, k), Wants(c, 0, q))
      <3>1. seen'[c] = Append(s, k)
        BY <1>1, <1>5, <2>6 DEF Shows, Typed
      <3>2. seen'[c] = InOrder(Wants(c, 0, pos[c]))'
        BY <2>1 DEF ClientInv
      <3>3. InOrder(Wants(c, 0, pos[c]))' = InOrder(Wants(c, 0, q))
        BY <1>1, <1>5, <2>5 DEF Shows, Wants, Wanted, Interest, InOrder, Ranked, Rank
      <3> QED BY <3>1, <3>2, <3>3 DEF Orders
    <2>9. PICK l : l = EndOf(s)
      OBVIOUS
    <2>10. k \in Wants(c, l, n) /\ \A j \in Wants(c, l, n) : k <= j
      BY <2>7, <2>8, <2>9, NextIsFirst
    <2>11. Stream!LastSeen(c) = l
      BY <2>6, <2>9 DEF Stream!LastSeen, EndOf
    <2>12. Stream!Missing(c) = Wants(c, l, n)
      BY <2>3, <2>11 DEF Stream!Missing, Wants, Wanted
    <2>13. Stream!Show(c, k)
      BY <1>2, <1>5, <2>10, <2>12 DEF Stream!Show, Shows
    <2> QED BY <2>10, <2>12, <2>13 DEF Stream!Next
  <1> QED BY <1>3, <1>4, <1>5 DEF StreamMoves

\* An item that is shown is an event, or only moves the cursor.
LEMMA ShowMoves ==
  ASSUME Typed, NEW c \in Clients, NEW item \in [marker : BOOLEAN, cursor : 0..MaxLog],
         Show(c, item), log' = log, front' = front
  PROVE  StreamMoves
  <1>1. item.cursor \in Nat
    BY CapacitiesAssumption
  <1>2. seen' = seen \/ seen' = [seen EXCEPT ![c] = Append(seen[c], item.cursor)]
    BY DEF Show
  <1> QED BY <1>1, <1>2 DEF StreamMoves, Shows

\* The first item of a queue is an item.
LEMMA HeadIsItem ==
  ASSUME NEW q \in SomeItems, q # <<>>
  PROVE  Head(q) \in [marker : BOOLEAN, cursor : 0..MaxLog]
  BY HeadTailProperties DEF SomeItems

\* Every step of EventDelivery
LEMMA NextMoves ==
  ASSUME DeliveryInv, Next
  PROVE  StreamMoves
  <1>1. Typed /\ front' = front
    BY FrontsStay DEF DeliveryInv
  <1>2. ASSUME NEW batch \in Batches, Commit(batch)
        PROVE  StreamMoves
    <2>1. batch \in Seq(Kinds) /\ Len(batch) > 0
      <3>1. PICK n \in 1 .. BatchSize : batch \in [1 .. n -> Produced]
        BY DEF Batches
      <3>2. n \in Nat /\ n > 0
        BY CapacitiesAssumption
      <3>3. batch \in [1 .. n -> Kinds]
        BY <3>1, InterestAssumption
      <3> QED BY <3>2, <3>3
    <2>2. log' = log \o batch /\ seen' = seen
      BY <1>2 DEF Commit, clientVars
    <2>3. log \in Seq(Kinds)
      BY <1>1 DEF Typed
    <2>4. LogGrows
      BY <2>1, <2>2, <2>3 DEF LogGrows
    <2> QED BY <1>1, <2>4 DEF StreamMoves
  <1>3. CASE FanOut \/ WorkerFails \/ ProcessEnds \/ HubStarts
    BY <1>1, <1>3 DEF FanOut, WorkerFails, ProcessEnds, HubStarts, clientVars, StreamMoves
  <1>4. ASSUME NEW c \in Clients, ServerStep(c) \/ Lost(c)
        PROVE  StreamMoves
    BY <1>1, <1>4 DEF ServerStep, LoadReplay, PumpReplays, PumpSends, PumpEnds, Lost, clientVars, StreamMoves
  <1>5. ASSUME NEW c \in Clients, ClientStep(c)
        PROVE  StreamMoves
    <2>1. CASE Connect(c) \/ Subscribe(c) \/ SubscribeRefused(c) \/ Relay(c) \/ SeesEof(c)
      BY <1>1, <2>1 DEF Connect, Subscribe, SubscribeRefused, Relay, SeesEof, clientVars, StreamMoves
    <2>2. CASE Receive(c)
      <3>1. wire[c] \in SomeItems /\ wire[c] # <<>> /\ log' = log
        BY <1>1, <2>2 DEF Receive, Typed
      <3>2. PICK item \in [marker : BOOLEAN, cursor : 0..MaxLog] : item = Head(wire[c])
        BY <3>1, HeadIsItem
      <3>3. Show(c, item) \/ seen' = seen
        BY <2>2, <3>2 DEF Receive, clientVars
      <3>4. CASE Show(c, item)
        BY <1>1, <3>1, <3>4, ShowMoves
      <3>5. CASE seen' = seen
        BY <1>1, <3>1, <3>5 DEF StreamMoves
      <3> QED BY <3>3, <3>4, <3>5
    <2> QED BY <1>5, <2>1, <2>2 DEF ClientStep
  <1>6. ASSUME NEW c \in Clients, BrowserStep(c)
        PROVE  StreamMoves
    <2>1. CASE BrowserAsks(c) \/ BrowserResyncs(c)
      BY <1>1, <2>1 DEF BrowserAsks, BrowserResyncs, clientVars, StreamMoves
    <2>2. CASE BrowserTakes(c)
      <3>1. inbox[c] \in SomeItems /\ inbox[c] # <<>> /\ log' = log
        BY <1>1, <2>2 DEF BrowserTakes, Typed
      <3>2. PICK item \in [marker : BOOLEAN, cursor : 0..MaxLog] : item = Head(inbox[c])
        BY <3>1, HeadIsItem
      <3>3. Show(c, item)
        BY <2>2, <3>2 DEF BrowserTakes
      <3> QED BY <1>1, <3>1, <3>2, <3>3, ShowMoves
    <2> QED BY <1>6, <2>1, <2>2 DEF BrowserStep
  <1> QED BY <1>2, <1>3, <1>4, <1>5, <1>6 DEF Next

\* A command line that gives up has shown what it has shown.
LEMMA EndMoves ==
  ASSUME NEW code, End(code)
  PROVE  StreamMoves
  BY DEF End, clientVars, countVars, StreamMoves

\* A step that leaves the stream alone
LEMMA VarsStay ==
  ASSUME UNCHANGED vars
  PROVE  StreamMoves
  BY DEF vars, clientVars, countVars, StreamMoves

\* A connection that is made shows nothing.
LEMMA ConnectMoves ==
  ASSUME Connect(Me)
  PROVE  StreamMoves
  BY DEF Connect, clientVars, countVars, StreamMoves

\* Every step of the client below
LEMMA ClientMoves ==
  ASSUME CommandInv, IsCommand, ClientActs
  PROVE  StreamMoves
  <1>1. CASE Finish
    BY <1>1, EndMoves, VarsStay DEF Finish
  <1>2. CASE ShowPrompt \/ Polls \/ Enters \/ Reconnected
    BY <1>2, VarsStay DEF ShowPrompt, Polls, Enters, Reconnected
  <1>3. CASE Starts
    BY <1>3, ConnectMoves, EndMoves DEF Starts
  <1>4. CASE CannotStart \/ Disconnected
    BY <1>4, EndMoves DEF CannotStart, Disconnected
  <1>5. CASE ClosesOld
    BY <1>5 DEF ClosesOld, clientVars, countVars, StreamMoves
  <1>6. CASE Reopens
    BY <1>6, ConnectMoves, VarsStay DEF Reopens
  <1>7. CASE Loop
    BY <1>7, EndMoves, VarsStay
       DEF Loop, LoopOnly, TakesSubmitted, TakesSnapshot, TakesCancelled, TakesApproved,
           TakesInterrupt, TakesEof, TakesLine, TakesReconnected
  <1>8. CASE TakesEvent
    <2>1. /\ Show(Me, Event(pos[Me] + 1)) /\ log' = log /\ front' = front
          /\ Behind > 0
      BY <1>8 DEF TakesEvent, countVars
    <2>2. /\ Me \in Clients /\ pos[Me] \in Nat /\ Len(log) \in Nat /\ Len(log) <= MaxLog
          /\ MaxLog \in Nat /\ pos[Me] + 1 <= Len(log)
      BY <2>1, BehindIs DEF Behind
    <2>3. PICK item \in [marker : BOOLEAN, cursor : 0..MaxLog] : item = Event(pos[Me] + 1)
      <3>1. pos[Me] + 1 \in 0 .. MaxLog
        BY <2>2
      <3> QED BY <3>1 DEF Event
    <2>4. Typed
      BY DEF CommandInv, DeliveryInv
    <2> QED BY <2>1, <2>2, <2>3, <2>4, ShowMoves
  <1>9. CASE TakesMarker
    BY <1>9 DEF TakesMarker, clientVars, StreamMoves
  <1> QED BY <1>1, <1>2, <1>3, <1>4, <1>5, <1>6, <1>7, <1>8, <1>9 DEF ClientActs, Connects

\* Every step of the daemon below
LEMMA DaemonMoves ==
  ASSUME CommandInv, IsCommand, DaemonActs
  PROVE  StreamMoves
  <1>1. CASE OwedCommitted
    <2>1. /\ owed \in Seq(RunKinds) /\ log \in Seq(Kinds) /\ RunKinds \subseteq Kinds
          /\ BatchSize \in Nat
      BY CommandAssumption, InterestAssumption, CapacitiesAssumption
         DEF CommandInv, CommandTyped, DaemonTyped, DeliveryInv, Typed
    <2>2. PICK n \in Nat : n = IF Len(owed) < BatchSize THEN Len(owed) ELSE BatchSize
      BY <2>1
    <2>3. /\ n > 0 /\ n <= Len(owed) /\ Len(owed) \in Nat
          /\ log' = log \o SubSeq(owed, 1, n) /\ seen' = seen /\ front' = front
      BY <1>1, <2>1, <2>2 DEF OwedCommitted, clientVars, countVars
    <2>4. PICK batch \in Seq(RunKinds) : batch = SubSeq(owed, 1, n) /\ Len(batch) = n
      <3>1. SubSeq(owed, 1, n) \in Seq(RunKinds) /\ Len(SubSeq(owed, 1, n)) = n
        BY <2>1, <2>3
      <3> QED BY <3>1
    <2>5. batch \in Seq(Kinds)
      BY <2>1, SeqMonotonic
    <2>6. LogGrows
      BY <2>1, <2>3, <2>4, <2>5 DEF LogGrows
    <2> QED BY <2>3, <2>6 DEF StreamMoves
  <1>2. CASE RunStep
    BY <1>2, VarsStay DEF RunStep, AskEnds, RunEnds
  <1>3. CASE CommandHandled
    BY <1>3, VarsStay DEF CommandHandled, Submitted, Cancelled, Approved, RunRead, SessionRead
  <1> QED BY <1>1, <1>2, <1>3 DEF DaemonActs

\* Every step of the composition
LEMMA CommandNextMoves ==
  ASSUME CommandInv, CommandNext
  PROVE  StreamMoves
  <1>1. CASE OtherFronts
    BY <1>1, NextMoves DEF OtherFronts, CommandInv
  <1>2. CASE ClientActs
    BY <1>2, ClientMoves DEF ClientActs
  <1>3. CASE DaemonActs
    <2>1. IsCommand
      BY <1>3 DEF DaemonActs, OwedCommitted, RunStep, AskEnds, RunEnds, CommandHandled, Submitted,
                  Cancelled, Approved, RunRead, SessionRead, Handles, Reaches, Serving
    <2> QED BY <1>3, <2>1, DaemonMoves
  <1>4. CASE Happens
    <2>1. CASE StreamStep
      BY <2>1 DEF StreamStep, WorkerFails, HubStarts, clientVars, countVars, StreamMoves
    <2>2. CASE DaemonEnds
      BY <2>2 DEF DaemonEnds, ProcessEnds, clientVars, StreamMoves
    <2>3. CASE Asks
      BY <2>3, VarsStay DEF Asks
    <2>4. CASE TakesMarker
      BY <2>4 DEF TakesMarker, clientVars, StreamMoves
    <2>5. ASSUME NEW act, UserActs(act) PROVE StreamMoves
      BY <2>5, VarsStay DEF UserActs
    <2> QED BY <1>4, <2>1, <2>2, <2>3, <2>4, <2>5 DEF Happens
  <1> QED BY <1>1, <1>2, <1>3, <1>4 DEF CommandNext

\* Nothing is logged or seen in the beginning, and every client has its interest.
LEMMA StreamBegins == Init => Stream!Init
  <1> SUFFICES ASSUME Init PROVE Stream!Init
    OBVIOUS
  <1>1. log = <<>> /\ seen = [c \in Clients |-> <<>>] /\ front \in Fronts
    BY DEF Init
  <1>2. \A c \in Clients : Interest(c) \in SUBSET Kinds
    BY InterestAssumption DEF Interest
  <1> QED BY <1>1, <1>2 DEF Stream!Init

(***************************************************************************)
(* EventDelivery implements EventStream: in every step the log grows at    *)
(* its end, a client shows the first event of its interest that it has not *)
(* shown, or neither changes.                                              *)
(***************************************************************************)
THEOREM DeliveryImplementsStream == Spec => StreamSpec
  <1>1. Init => DeliveryInv /\ Stream!Init
    BY DeliveryBegins, StreamBegins
  <1>2. DeliveryInv /\ [Next]_vars => DeliveryInv'
    BY NextKeeps
  <1>3. DeliveryInv /\ DeliveryInv' /\ [Next]_vars
          => [Stream!Next]_<<log, seen, [c \in Clients |-> Interest(c)]>>
    <2>1. UNCHANGED vars => StreamMoves
      BY VarsStay
    <2> QED BY <2>1, NextMoves, MovesImplement
  <1> QED BY <1>1, <1>2, <1>3, PTL DEF Spec, StreamSpec, Stream!Spec

(***************************************************************************)
(* The command line, composed with the other clients' EventDelivery,       *)
(* implements EventStream as well, while its input loop takes events,      *)
(* counts replays, reconnects and gives up.                                *)
(***************************************************************************)
THEOREM CommandImplementsStream == CommandSpec => StreamSpec
  <1>1. CommandInit => CommandInv /\ Stream!Init
    BY CommandBegins, StreamBegins DEF CommandInit
  <1>2. CommandInv /\ [CommandNext]_allVars => CommandInv'
    BY CommandNextKeeps
  <1>3. CommandInv /\ CommandInv' /\ [CommandNext]_allVars
          => [Stream!Next]_<<log, seen, [c \in Clients |-> Interest(c)]>>
    <2> SUFFICES ASSUME CommandInv, CommandInv', [CommandNext]_allVars
                 PROVE  [Stream!Next]_<<log, seen, [c \in Clients |-> Interest(c)]>>
      OBVIOUS
    <2>1. StreamMoves
      BY VarsStay, CommandNextMoves DEF allVars
    <2>2. DeliveryInv /\ DeliveryInv'
      BY DEF CommandInv
    <2> QED BY <2>1, <2>2, MovesImplement
  <1> QED BY <1>1, <1>2, <1>3, PTL DEF CommandSpec, StreamSpec, Stream!Spec
===============================================================================
