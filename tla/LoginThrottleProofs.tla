------------------------ MODULE LoginThrottleProofs ------------------------
(***************************************************************************)
(* What the login of paneld guarantees for any number of requests,         *)
(* sources and accounts, any limits and any window: the invariants         *)
(* TypeOK, Balanced, Throttled and RoomKept of LoginThrottle.              *)
(*                                                                         *)
(* Throttled is kept by what it leaves out: a request that has reserved a  *)
(* guess and is not answered yet may still become a failure.  So the       *)
(* failures of a window TOGETHER with the reservations outstanding are     *)
(* bounded by the limit (Capped), and a reservation is only made when the  *)
(* records of the table, which hold every failure that still counts        *)
(* (Kept), and the reservations (Balanced) leave room for one more.        *)
(***************************************************************************)
EXTENDS LoginThrottle, FiniteSetTheorems, TLAPS

Holding(k)   == {a \in Attempts : k \in held[a]}
Undecided(k) == {a \in Attempts : k \in held[a] /\ answer[a] = None}
Exposed(k)   == Guessed(k) \cup Undecided(k)

\* Where a request is says what it holds and whether it is answered.
Places ==
  \A a \in Attempts :
    /\ at[a] <= now
    /\ pc[a] \in {"new", "reserve"} => held[a] = {} /\ answer[a] = None
    /\ pc[a] \in {"slot", "lock"} => held[a] = Reserved(a) /\ answer[a] = None
    /\ pc[a] \in {"second", "record"} => Reserved(a) \subseteq held[a] /\ answer[a] = None
    /\ pc[a] \in {"leave", "done"} => answer[a] # None

\* The verdict that charges the second factor is reached holding its budget.
Verdicts ==
  \A a \in Attempts :
    /\ pc[a] \in {"new", "reserve", "slot", "lock"} => verdict[a] = None
    /\ pc[a] = "second" => verdict[a] = "second"
    /\ verdict[a] = "second" => kind[a] = "passkey"
    /\ verdict[a] = "second" /\ pc[a] \in {"second", "record"} => Second(a) \in held[a]
    /\ verdict[a] = "second" /\ pc[a] = "record" /\ at[a] + Window > now =>
         Failure(a, Second(a)) \in table

\* The table holds every failure that still counts, and no success that is not one.
Kept ==
  /\ \A k \in Keys : \A a \in Guesses(k) : at[a] + Window > now => Failure(a, k) \in table
  /\ \A r \in table : r.ok => r.by \in Wins(r.key)

Capped == \A k \in Keys : Cardinality(Exposed(k)) <= Limit(k)

IInv == TypeOK /\ Places /\ Verdicts /\ Kept /\ Balanced /\ Capped


\* The budgets of a request are budgets, and the second factor's is apart.
LEMMA BudgetsOf ==
  ASSUME NEW a \in Attempts
  PROVE  /\ Ip(a) \in Keys /\ Begin(a) \in Keys /\ User(a) \in Keys /\ Second(a) \in Keys
         /\ Reserved(a) \subseteq Keys /\ Charged(a) \subseteq Keys
         /\ Second(a) \notin Reserved(a)
         /\ kind[a] = "passkey" => Reserved(a) = {Ip(a)}
<1>1. Ip(a) \in Keys /\ Begin(a) \in Keys /\ User(a) \in Keys /\ Second(a) \in Keys
  BY DEF Keys
<1>2. Reserved(a) = {Ip(a), User(a)} \/ Reserved(a) = {Begin(a)} \/ Reserved(a) = {Ip(a)}
  BY DEF Reserved
<1>3. Second(a) # Ip(a) /\ Second(a) # User(a) /\ Second(a) # Begin(a)
  BY DEF Second, Ip, User, Begin
<1>4. Reserved(a) \subseteq Keys /\ Second(a) \notin Reserved(a)
  BY <1>1, <1>2, <1>3
<1>5. Charged(a) \subseteq Keys
  BY <1>1, <1>4 DEF Charged
<1>6. kind[a] = "passkey" => Reserved(a) = {Ip(a)}
  BY DEF Reserved
<1> QED BY <1>1, <1>4, <1>5, <1>6

\* A limit is a number of guesses.
LEMMA LimitIsNat == \A k \in Keys : Limit(k) \in Nat
<1> SUFFICES ASSUME NEW k \in Keys PROVE Limit(k) \in Nat
  OBVIOUS
<1>1. MaxFailures \in Nat /\ AccountFactor \in Nat /\ MaxFailures * AccountFactor \in Nat
  BY ConstantsAssumption
<1>2. Limit(k) = MaxFailures \/ Limit(k) = 2 * MaxFailures \/ Limit(k) = MaxFailures * AccountFactor
  BY DEF Limit
<1> QED BY <1>1, <1>2

\* Sets of requests are finite.
LEMMA Finite ==
  \A S \in SUBSET Attempts : IsFiniteSet(S) /\ Cardinality(S) \in Nat
BY ConstantsAssumption, FS_Subset, FS_CardinalityType

LEMMA Larger ==
  ASSUME NEW S \in SUBSET Attempts, NEW T \in SUBSET S
  PROVE  Cardinality(T) <= Cardinality(S)
BY Finite, FS_Subset

\* Every failure that still counts is among the records a request counts when it
\* reserves, however long ago it arrived.
LEMMA GuessedCounted ==
  ASSUME IInv, NEW k \in Keys, NEW a \in Attempts
  PROVE  /\ Cardinality(Failures(k, at[a])) \in Nat
         /\ Cardinality(Guessed(k)) <= Cardinality(Failures(k, at[a]))
<1> DEFINE F == Failures(k, at[a])
<1> DEFINE f == [r \in F |-> r.by]
<1> DEFINE g == [b \in Guessed(k) |-> Failure(b, k)]
<1>0. table \subseteq [by : Attempts, key : Keys, ok : BOOLEAN] /\ now \in Nat /\ at \in [Attempts -> Nat]
  BY DEF IInv, TypeOK
<1>1. \A r \in F : r.by \in Attempts /\ r = Failure(r.by, k)
  <2> SUFFICES ASSUME NEW r \in F PROVE r.by \in Attempts /\ r = Failure(r.by, k)
    OBVIOUS
  <2>1. r \in [by : Attempts, key : Keys, ok : BOOLEAN] /\ r.key = k /\ ~r.ok
    BY <1>0 DEF Failures
  <2> QED BY <2>1 DEF Failure
<1>2. f \in Injection(F, Attempts)
  <2>1. f \in [F -> Attempts]
    BY <1>1
  <2>2. \A x, y \in F : f[x] = f[y] => x = y
    BY <1>1
  <2> QED BY <2>1, <2>2 DEF Injection, IsInjective
<1>3. IsFiniteSet(F) /\ Cardinality(F) \in Nat
  BY <1>2, ConstantsAssumption, FS_Injection, FS_CardinalityType
<1>4. \A b \in Guessed(k) : Failure(b, k) \in F
  <2> SUFFICES ASSUME NEW b \in Guessed(k) PROVE Failure(b, k) \in F
    OBVIOUS
  <2>1. b \in Guesses(k) /\ b \in Attempts /\ at[b] + Window > now /\ \A w \in Wins(k) : at[w] < at[b]
    BY DEF Guessed, Guesses
  <2>2. Failure(b, k) \in table
    BY <2>1 DEF IInv, Kept
  <2>3. at[a] <= now
    BY DEF IInv, Places
  <2>4. Recent(Failure(b, k), at[a])
    BY <2>1, <2>3, <1>0, ConstantsAssumption DEF Recent, Failure
  <2>5. \A s \in table : s.key = k /\ s.ok => at[s.by] < at[b]
    BY <2>1 DEF IInv, Kept
  <2> QED BY <2>2, <2>4, <2>5 DEF Failures, Failure
<1>5. g \in Injection(Guessed(k), F)
  <2>1. g \in [Guessed(k) -> F]
    BY <1>4
  <2>2. \A x, y \in Guessed(k) : g[x] = g[y] => x = y
    BY DEF Failure
  <2> QED BY <2>1, <2>2 DEF Injection, IsInjective
<1> QED BY <1>3, <1>5, FS_Injection

\* While the records and the reservations of a budget are below its limit, there
\* is a guess left in it.
LEMMA GuessLeft ==
  ASSUME IInv, NEW k \in Keys, NEW a \in Attempts,
         Cardinality(Failures(k, at[a])) + pending[k] < Limit(k)
  PROVE  Cardinality(Exposed(k)) + 1 <= Limit(k)
<1>1. Guessed(k) \in SUBSET Attempts /\ Undecided(k) \in SUBSET Holding(k) /\ Holding(k) \in SUBSET Attempts
  BY DEF Guessed, Guesses, Undecided, Holding
<1>2. Cardinality(Exposed(k)) <= Cardinality(Guessed(k)) + Cardinality(Undecided(k))
  <2> DEFINE G == Guessed(k)
             U == Undecided(k)
  <2>1. G \in SUBSET Attempts /\ U \in SUBSET Attempts /\ G \cap U \in SUBSET Attempts
    BY <1>1
  <2>2. /\ IsFiniteSet(G) /\ IsFiniteSet(U)
        /\ Cardinality(G) \in Nat /\ Cardinality(U) \in Nat /\ Cardinality(G \cap U) \in Nat
    BY <2>1, Finite
  <2> HIDE DEF G, U
  <2>3. Cardinality(G \cup U) = Cardinality(G) + Cardinality(U) - Cardinality(G \cap U)
    BY <2>2, FS_Union
  <2>4. Cardinality(G \cup U) <= Cardinality(G) + Cardinality(U)
    BY <2>2, <2>3
  <2> QED BY <2>4 DEF Exposed, G, U
<1>3. Cardinality(Undecided(k)) <= pending[k]
  BY <1>1, Larger DEF IInv, Balanced, Holding
<1>4. Cardinality(Guessed(k)) <= Cardinality(Failures(k, at[a])) /\ Cardinality(Failures(k, at[a])) \in Nat
  BY GuessedCounted
<1>5. pending[k] \in Nat /\ Limit(k) \in Nat
  BY LimitIsNat DEF IInv, TypeOK
<1>6. Cardinality(Exposed(k)) \in Nat /\ Cardinality(Guessed(k)) \in Nat /\ Cardinality(Undecided(k)) \in Nat
  BY <1>1, Finite DEF Exposed
<1> QED BY <1>2, <1>3, <1>4, <1>5, <1>6

---------------------------------------------------------------------------
\* What every step leaves alone: an answer once given, what it was given for, and when.
Lasting ==
  /\ kind' = kind /\ now' \in Nat /\ now' >= now
  /\ \A b \in Attempts : answer[b] # None =>
       answer'[b] = answer[b] /\ verdict'[b] = verdict[b] /\ at'[b] = at[b]

\* A step that answers a failure held its budgets; the others exposed to budget k
\* after it were exposed before, or are in N.
LEMMA Exposure ==
  ASSUME TypeOK, Lasting, NEW k \in Keys, NEW N,
         \A b \in Attempts : answer[b] = None /\ b \in Guesses(k)' => k \in held[b],
         \A b \in Attempts : answer'[b] = None /\ k \in held'[b] => k \in held[b] \/ b \in N
  PROVE  Exposed(k)' \subseteq Exposed(k) \cup N
<1> SUFFICES ASSUME NEW b \in Exposed(k)' PROVE b \in Exposed(k) \cup N
  OBVIOUS
<1>1. CASE b \in Undecided(k)'
  <2>1. b \in Attempts /\ answer'[b] = None /\ k \in held'[b]
    BY <1>1 DEF Undecided
  <2>2. answer[b] = None
    BY <2>1 DEF Lasting
  <2> QED BY <2>1, <2>2 DEF Exposed, Undecided
<1>2. CASE b \in Guessed(k)'
  <2>1. b \in Attempts /\ b \in Guesses(k)' /\ at'[b] + Window > now' /\ \A w \in Wins(k)' : at'[w] < at'[b]
    BY <1>2 DEF Guessed, Guesses
  <2>2. CASE answer[b] = None
    BY <2>1, <2>2 DEF Exposed, Undecided
  <2>3. CASE answer[b] # None
    <3>1. answer'[b] = answer[b] /\ verdict'[b] = verdict[b] /\ at'[b] = at[b]
      BY <2>1, <2>3 DEF Lasting
    <3>2. Charged(b)' = Charged(b)
      BY <3>1 DEF Lasting, Charged, Reserved, Ip, Begin, User, Second
    <3>3. b \in Guesses(k)
      BY <2>1, <3>1, <3>2 DEF Guesses
    <3>4. \A w \in Wins(k) : at[w] < at[b]
      <4> SUFFICES ASSUME NEW w \in Wins(k) PROVE at[w] < at[b]
        OBVIOUS
      <4>1. w \in Attempts /\ answer[w] = "in" /\ k \in Cleared(w) /\ "in" # None
        BY ConstantsAssumption DEF Wins, Answers
      <4>2. answer'[w] = "in" /\ at'[w] = at[w]
        BY <4>1 DEF Lasting
      <4>3. w \in Wins(k)'
        BY <4>1, <4>2 DEF Wins, Cleared, Ip, User
      <4> QED BY <2>1, <3>1, <4>2, <4>3
    <3>5. at[b] + Window > now
      BY <2>1, <3>1, ConstantsAssumption DEF Lasting, TypeOK
    <3> QED BY <3>3, <3>4, <3>5 DEF Exposed, Guessed
  <2> QED BY <2>2, <2>3
<1> QED BY <1>1, <1>2 DEF Exposed

\* A step that exposes nothing new keeps the bound.
LEMMA CappedKept ==
  ASSUME IInv, Lasting,
         \A k \in Keys : \A b \in Attempts : answer[b] = None /\ b \in Guesses(k)' => k \in held[b],
         \A k \in Keys : \A b \in Attempts : answer'[b] = None /\ k \in held'[b] => k \in held[b]
  PROVE  Capped'
<1> SUFFICES ASSUME NEW k \in Keys PROVE Cardinality(Exposed(k)') <= Limit(k)
  BY DEF Capped
<1>1. Exposed(k)' \subseteq Exposed(k) \cup {}
  BY Exposure DEF IInv
<1>2. Exposed(k) \in SUBSET Attempts /\ Exposed(k)' \in SUBSET Exposed(k)
  BY <1>1 DEF Exposed, Guessed, Guesses, Undecided
<1>3. Cardinality(Exposed(k)') <= Cardinality(Exposed(k))
  BY <1>2, Larger
<1>4. Cardinality(Exposed(k)) \in Nat /\ Cardinality(Exposed(k)') \in Nat
  BY <1>2, Finite
<1>5. Cardinality(Exposed(k)) <= Limit(k) /\ Limit(k) \in Nat
  BY LimitIsNat DEF IInv, Capped
<1> QED BY <1>3, <1>4, <1>5

\* A reservation of budgets R by request a, each with a guess left, keeps the bound.
LEMMA CappedReserved ==
  ASSUME IInv, Lasting, NEW a \in Attempts, NEW R \in SUBSET Keys,
         \A k \in R : Cardinality(Failures(k, at[a])) + pending[k] < Limit(k),
         \A k \in Keys : \A b \in Attempts : answer[b] = None /\ b \in Guesses(k)' => k \in held[b],
         \A k \in Keys : \A b \in Attempts :
            answer'[b] = None /\ k \in held'[b] => k \in held[b] \/ (b = a /\ k \in R)
  PROVE  Capped'
<1> SUFFICES ASSUME NEW k \in Keys PROVE Cardinality(Exposed(k)') <= Limit(k)
  BY DEF Capped
<1> DEFINE E == Exposed(k)
           N == IF k \in R THEN {a} ELSE {}
<1>1. Exposed(k)' \subseteq E \cup N
  BY Exposure DEF IInv
<1>2. E \in SUBSET Attempts /\ Exposed(k)' \in SUBSET Attempts
  BY DEF Exposed, Guessed, Guesses, Undecided
<1>3. Cardinality(E) \in Nat /\ Cardinality(Exposed(k)') \in Nat /\ IsFiniteSet(E)
  BY <1>2, Finite
<1>4. Cardinality(E) <= Limit(k) /\ Limit(k) \in Nat
  BY LimitIsNat DEF IInv, Capped
<1> HIDE DEF E
<1>5. CASE k \in R
  <2>1. Cardinality(E) + 1 <= Limit(k)
    BY <1>5, GuessLeft DEF E
  <2>0. Cardinality(E \cup {a}) = IF a \in E THEN Cardinality(E) ELSE Cardinality(E) + 1
    BY <1>3, FS_AddElement
  <2>2. Cardinality(E \cup {a}) <= Cardinality(E) + 1
    BY <1>3, <2>0
  <2>3. E \cup {a} \in SUBSET Attempts /\ Exposed(k)' \in SUBSET (E \cup {a})
    BY <1>1, <1>2, <1>5
  <2>4. Cardinality(Exposed(k)') <= Cardinality(E \cup {a}) /\ Cardinality(E \cup {a}) \in Nat
    BY <2>3, Larger, Finite
  <2> QED BY <1>3, <1>4, <2>1, <2>2, <2>4
<1>6. CASE k \notin R
  <2>1. Exposed(k)' \in SUBSET E
    BY <1>1, <1>6
  <2> QED BY <1>2, <1>3, <1>4, <2>1, Larger
<1> QED BY <1>5, <1>6

\* The table of a step that drops nothing recent and records what it answers.
LEMMA KeptOn ==
  ASSUME IInv, Lasting,
         \A r \in table : at[r.by] + Window > now => r \in table',
         \A k \in Keys : \A b \in Attempts :
            answer[b] = None /\ b \in Guesses(k)' /\ at'[b] + Window > now' => Failure(b, k) \in table',
         \A r \in table' : r.ok /\ r \notin table => r.by \in Wins(r.key)'
  PROVE  Kept'
<1>1. ASSUME NEW k \in Keys, NEW b \in Guesses(k)', at'[b] + Window > now'
      PROVE  Failure(b, k) \in table'
  <2>1. b \in Attempts
    BY DEF Guesses
  <2>2. CASE answer[b] = None
    BY <1>1, <2>1, <2>2
  <2>3. CASE answer[b] # None
    <3>1. answer'[b] = answer[b] /\ verdict'[b] = verdict[b] /\ at'[b] = at[b]
      BY <2>1, <2>3 DEF Lasting
    <3>2. Charged(b)' = Charged(b)
      BY <3>1 DEF Lasting, Charged, Reserved, Ip, Begin, User, Second
    <3>3. b \in Guesses(k)
      BY <2>1, <3>1, <3>2 DEF Guesses
    <3>4. at[b] + Window > now
      BY <1>1, <2>1, <3>1, ConstantsAssumption DEF Lasting, IInv, TypeOK
    <3>5. Failure(b, k) \in table
      BY <3>3, <3>4 DEF IInv, Kept
    <3> QED BY <3>4, <3>5 DEF Failure
  <2> QED BY <2>2, <2>3
<1>2. ASSUME NEW r \in table', r.ok
      PROVE  r.by \in Wins(r.key)'
  <2>1. CASE r \notin table
    BY <1>2, <2>1
  <2>2. CASE r \in table
    <3>1. r.by \in Attempts /\ answer[r.by] = "in" /\ r.key \in Cleared(r.by) /\ "in" # None
      BY <1>2, <2>2, ConstantsAssumption DEF IInv, Kept, Wins, Answers
    <3>2. answer'[r.by] = "in"
      BY <3>1 DEF Lasting
    <3> QED BY <3>1, <3>2 DEF Wins, Cleared, Ip, User
  <2> QED BY <2>1, <2>2
<1> QED BY <1>1, <1>2 DEF Kept

---------------------------------------------------------------------------
\* The initial state satisfies the invariant.
LEMMA InitIInv == Init => IInv
<1> SUFFICES ASSUME Init PROVE IInv
  OBVIOUS
<1> USE ConstantsAssumption DEF Init
<1>1. TypeOK
  BY DEF TypeOK
<1>2. Places /\ Verdicts
  BY DEF Places, Verdicts
<1>3. \A k \in Keys : Guesses(k) = {} /\ Holding(k) = {} /\ Undecided(k) = {} /\ Guessed(k) = {}
  BY DEF Guesses, Holding, Undecided, Guessed, Answers
<1>4. Kept
  BY <1>3 DEF Kept
<1>5. Cardinality({}) = 0
  BY FS_EmptySet
<1>6. Balanced
  BY <1>3, <1>5 DEF Balanced, Holding
<1>7. Capped
  <2> SUFFICES ASSUME NEW k \in Keys PROVE Cardinality(Exposed(k)) <= Limit(k)
    BY DEF Capped
  <2>1. Exposed(k) = {}
    BY <1>3 DEF Exposed
  <2> QED BY <2>1, <1>5, LimitIsNat
<1> QED BY <1>1, <1>2, <1>4, <1>6, <1>7 DEF IInv

\* A reservation is one more holder of each of its budgets.
LEMMA HolderAdded ==
  ASSUME IInv, NEW a \in Attempts, NEW R \in SUBSET Keys, R \cap held[a] = {},
         held' = [held EXCEPT ![a] = @ \cup R],
         pending' = [k \in Keys |-> IF k \in R THEN pending[k] + 1 ELSE pending[k]]
  PROVE  Balanced'
<1> SUFFICES ASSUME NEW k \in Keys PROVE pending'[k] = Cardinality(Holding(k)')
  BY DEF Balanced, Holding
<1>1. held \in [Attempts -> SUBSET Keys] /\ pending[k] = Cardinality(Holding(k))
  BY DEF IInv, TypeOK, Balanced, Holding
<1>2. CASE k \in R
  <2>1. Holding(k)' = Holding(k) \cup {a} /\ a \notin Holding(k)
    BY <1>1, <1>2 DEF Holding
  <2>2. IsFiniteSet(Holding(k))
    BY Finite DEF Holding
  <2>3. Cardinality(Holding(k) \cup {a}) = Cardinality(Holding(k)) + 1
    BY <2>1, <2>2, FS_AddElement
  <2> QED BY <1>1, <1>2, <2>1, <2>3
<1>3. CASE k \notin R
  <2>1. Holding(k)' = Holding(k)
    BY <1>1, <1>3 DEF Holding
  <2> QED BY <1>1, <1>3, <2>1
<1> QED BY <1>2, <1>3

\* What a request gives back is one holder less of each of its budgets.
LEMMA HolderGone ==
  ASSUME IInv, NEW a \in Attempts,
         held' = [held EXCEPT ![a] = {}],
         pending' = [k \in Keys |-> IF k \in held[a] THEN GivenBack(pending[k]) ELSE pending[k]]
  PROVE  Balanced'
<1> SUFFICES ASSUME NEW k \in Keys PROVE pending'[k] = Cardinality(Holding(k)')
  BY DEF Balanced, Holding
<1>1. held \in [Attempts -> SUBSET Keys] /\ pending[k] = Cardinality(Holding(k))
  BY DEF IInv, TypeOK, Balanced, Holding
<1>2. CASE k \in held[a]
  <2>1. Holding(k)' = Holding(k) \ {a} /\ a \in Holding(k)
    BY <1>1, <1>2 DEF Holding
  <2>2. IsFiniteSet(Holding(k)) /\ Cardinality(Holding(k)) \in Nat
    BY Finite DEF Holding
  <2>3. Cardinality(Holding(k) \ {a}) = Cardinality(Holding(k)) - 1
    BY <2>1, <2>2, FS_RemoveElement
  <2>4. Cardinality(Holding(k) \ {a}) \in Nat
    BY Finite DEF Holding
  <2>5. pending'[k] = pending[k] - 1
    <3>1. pending'[k] = GivenBack(pending[k])
      BY <1>2
    <3> QED BY <3>1, <1>1, <2>2, <2>3, <2>4 DEF GivenBack
  <2> QED BY <1>1, <2>1, <2>3, <2>5
<1>3. CASE k \notin held[a]
  <2>1. Holding(k)' = Holding(k)
    BY <1>1, <1>3 DEF Holding
  <2> QED BY <1>1, <1>3, <2>1
<1> QED BY <1>2, <1>3

\* A step that leaves the reservations alone leaves their count alone.
LEMMA HoldersKept ==
  ASSUME IInv, held' = held, pending' = pending
  PROVE  Balanced'
BY DEF IInv, Balanced

\* The table a request writes has the type of the table, drops nothing recent and
\* holds what the request adds.
LEMMA WithKeeps ==
  ASSUME IInv, NEW a \in Attempts, NEW R \in SUBSET [by : Attempts, key : Keys, ok : BOOLEAN]
  PROVE  /\ With(R, a) \subseteq [by : Attempts, key : Keys, ok : BOOLEAN]
         /\ \A r \in table : at[r.by] + Window > now => r \in With(R, a)
         /\ R \subseteq With(R, a)
         /\ With(R, a) \subseteq table \cup R
<1>1. at[a] <= now /\ at[a] \in Nat /\ now \in Nat
  BY DEF IInv, Places, TypeOK
<1>2. \A r \in table : r.by \in Attempts /\ at[r.by] \in Nat
  BY DEF IInv, TypeOK
<1>3. \A r \in table : at[r.by] + Window > now => Recent(r, at[a])
  BY <1>1, <1>2, ConstantsAssumption DEF Recent
<1> QED BY <1>3 DEF With, IInv, TypeOK

---------------------------------------------------------------------------
\* Every step preserves the invariant: a request that arrives,
LEMMA ArriveKeeps ==
  ASSUME IInv, NEW a \in Attempts, Arrive(a)
  PROVE  IInv'
<1> USE ConstantsAssumption
<1>0. IInv /\ Arrive(a) /\ TypeOK
  BY DEF IInv
<1>1. TypeOK'
  BY <1>0 DEF TypeOK, Arrive, Goto
<1>2. answer[a] = None /\ verdict[a] = None /\ held[a] = {}
  BY <1>0 DEF IInv, Places, Verdicts, Arrive
<1>3. Lasting
  BY <1>0, <1>2 DEF Arrive, Lasting, TypeOK
<1>4. Places'
  BY <1>0, <1>2 DEF IInv, Places, TypeOK, Arrive, Goto, Reserved, Ip, Begin, User
<1>5. Verdicts'
  BY <1>0, <1>2 DEF IInv, Verdicts, TypeOK, Arrive, Goto, Second
<1>6. \A k \in Keys : \A b \in Attempts : answer[b] = None => b \notin Guesses(k)'
  BY <1>0 DEF Guesses, Arrive, Answers
<1>7. Kept'
  BY <1>0, <1>3, <1>6, KeptOn DEF Arrive
<1>8. Balanced'
  BY <1>0, HoldersKept DEF Arrive
<1>9. Capped'
  BY <1>0, <1>3, <1>6, CappedKept DEF Arrive
<1> QED BY <1>1, <1>4, <1>5, <1>7, <1>8, <1>9 DEF IInv

\* one that reserves,
LEMMA ReserveKeeps ==
  ASSUME IInv, NEW a \in Attempts, Reserve(a)
  PROVE  IInv'
<1> USE ConstantsAssumption
<1>0. IInv /\ Reserve(a) /\ TypeOK /\ pc[a] = "reserve"
  BY DEF IInv, Reserve
<1>2. answer[a] = None /\ verdict[a] = None /\ held[a] = {}
  BY <1>0 DEF IInv, Places, Verdicts
<1>3. \A b \in Attempts : Reserved(b)' = Reserved(b)
  BY <1>0 DEF Reserve, Reserved, Ip, Begin, User
<1>4. CASE HasBudget(a) /\ HasRoom(Cardinality(Reserved(a)), at[a])
  <2>1. /\ held' = [held EXCEPT ![a] = Reserved(a)]
        /\ pending' = [k \in Keys |-> IF k \in Reserved(a) THEN pending[k] + 1 ELSE pending[k]]
        /\ \/ kind[a] # "begin" /\ pc' = [pc EXCEPT ![a] = "slot"]
           \/ kind[a] # "begin" /\ pc' = [pc EXCEPT ![a] = "lock"]
           \/ pc' = [pc EXCEPT ![a] = "record"]
        /\ UNCHANGED <<kind, now, at, verdict, answer, table, compute>>
    BY <1>0, <1>4 DEF Reserve, Goto
  <2>2. Reserved(a) \subseteq Keys
    BY BudgetsOf
  <2>3. TypeOK'
    <3>1. pc' \in [Attempts -> {"new", "reserve", "slot", "lock", "second", "record", "leave", "done"}]
      BY <1>0, <2>1 DEF TypeOK
    <3>2. held' \in [Attempts -> SUBSET Keys]
      BY <1>0, <2>1, <2>2 DEF TypeOK
    <3>3. pending' \in [Keys -> Nat]
      BY <1>0, <2>1 DEF TypeOK
    <3> QED BY <1>0, <2>1, <3>1, <3>2, <3>3 DEF TypeOK
  <2>4. Lasting
    BY <1>0, <2>1 DEF Lasting, TypeOK
  <2>5. Places'
    BY <1>0, <1>2, <1>3, <2>1 DEF IInv, Places, TypeOK
  <2>6. Verdicts'
    BY <1>0, <1>2, <2>1 DEF IInv, Verdicts, TypeOK, Second
  <2>7. \A k \in Keys : \A b \in Attempts : answer[b] = None => b \notin Guesses(k)'
    BY <2>1 DEF Guesses, Answers
  <2>8. Kept'
    BY <1>0, <2>1, <2>4, <2>7, KeptOn
  <2>9. Balanced'
    <3>1. held' = [held EXCEPT ![a] = @ \cup Reserved(a)] /\ Reserved(a) \cap held[a] = {}
      BY <1>2, <2>1
    <3> QED BY <1>0, <2>1, <2>2, <3>1, HolderAdded
  <2>10. Capped'
    <3>1. \A k \in Reserved(a) : Cardinality(Failures(k, at[a])) + pending[k] < Limit(k)
      BY <1>4 DEF HasBudget
    <3>2. \A k \in Keys : \A b \in Attempts : k \in held'[b] => k \in held[b] \/ (b = a /\ k \in Reserved(a))
      BY <1>0, <2>1 DEF TypeOK
    <3> QED BY <1>0, <2>2, <2>4, <2>7, <3>1, <3>2, CappedReserved
  <2> QED BY <2>3, <2>5, <2>6, <2>8, <2>9, <2>10 DEF IInv
<1>5. CASE ~(HasBudget(a) /\ HasRoom(Cardinality(Reserved(a)), at[a]))
  <2>1. /\ pc' = [pc EXCEPT ![a] = "done"]
        /\ answer' = [answer EXCEPT ![a] = "limited"]
        /\ UNCHANGED <<kind, now, at, held, pending, verdict, table, compute>>
    BY <1>0, <1>5 DEF Reserve, Goto, Answer
  <2>2. "limited" \in Answers /\ "limited" # None
    BY DEF Answers
  <2>3. TypeOK'
    BY <1>0, <2>1, <2>2 DEF TypeOK
  <2>4. Lasting
    BY <1>0, <1>2, <2>1 DEF Lasting, TypeOK
  <2>5. Places'
    BY <1>0, <1>2, <1>3, <2>1, <2>2 DEF IInv, Places, TypeOK
  <2>6. Verdicts'
    BY <1>0, <1>2, <2>1 DEF IInv, Verdicts, TypeOK, Second
  <2>7. \A k \in Keys : \A b \in Attempts : answer[b] = None => b \notin Guesses(k)'
    BY <1>0, <2>1 DEF Guesses, Answers, TypeOK
  <2>8. Kept'
    BY <1>0, <2>1, <2>4, <2>7, KeptOn
  <2>9. Balanced'
    BY <1>0, <2>1, HoldersKept
  <2>10. Capped'
    BY <1>0, <2>1, <2>4, <2>7, CappedKept
  <2> QED BY <2>3, <2>5, <2>6, <2>8, <2>9, <2>10 DEF IInv
<1> QED BY <1>4, <1>5

\* A step of a request that only moves on, or is turned away unrecorded, whatever
\* password work it is charged for.
LEMMA MoveKeeps ==
  ASSUME IInv, NEW a \in Attempts, NEW l, NEW v, NEW w,
         pc' = [pc EXCEPT ![a] = l],
         answer' = [answer EXCEPT ![a] = v],
         verdict' = [verdict EXCEPT ![a] = w],
         compute' \in [Sources -> [start : Nat, used : Nat]],
         UNCHANGED <<kind, now, at, held, pending, table>>,
         pc[a] \in {"slot", "lock", "second"},
         \/ l = "lock" /\ pc[a] = "slot" /\ v = None /\ w = None
         \/ l = "record" /\ v = None /\ w \in {"wrong", "right"}
         \/ l = "leave" /\ v \in {"busy", "limited", "half", "error"} /\ w \in {verdict[a], "half"}
  PROVE  IInv'
<1> USE ConstantsAssumption
<1>0. TypeOK /\ answer[a] = None
  BY DEF IInv, Places
<1>1. v \in Answers \cup {None} /\ w \in {None, "wrong", "right", "half", "second"} /\ v \notin {"refused", "begun"}
  BY <1>0 DEF Answers, TypeOK
<1>2. TypeOK'
  BY <1>0, <1>1 DEF TypeOK
<1>3. \A b \in Attempts : Reserved(b)' = Reserved(b)
  BY DEF Reserved, Ip, Begin, User
<1>4. Lasting
  BY <1>0 DEF Lasting, TypeOK
<1>5. Places'
  <2>1. l = "leave" => v # None
    BY DEF Answers
  <2>2. Reserved(a) \subseteq held[a] /\ (pc[a] = "slot" => held[a] = Reserved(a))
    BY DEF IInv, Places
  <2>3. pc'[a] = l /\ answer'[a] = v /\ held'[a] = held[a] /\ at'[a] <= now'
    BY <1>0 DEF IInv, Places, TypeOK
  <2>4. \A b \in Attempts \ {a} : pc'[b] = pc[b] /\ answer'[b] = answer[b] /\ held'[b] = held[b] /\ at'[b] <= now'
    BY <1>0 DEF IInv, Places, TypeOK
  <2>5. /\ pc'[a] = "lock" => held'[a] = Reserved(a)' /\ answer'[a] = None
        /\ pc'[a] = "record" => Reserved(a)' \subseteq held'[a] /\ answer'[a] = None
        /\ pc'[a] = "leave" => answer'[a] # None
        /\ pc'[a] \in {"lock", "record", "leave"}
    <3>1. CASE l = "lock" /\ pc[a] = "slot" /\ v = None
      BY <3>1, <1>3, <2>2, <2>3
    <3>2. CASE l = "record" /\ v = None
      <4>1. Reserved(a)' = Reserved(a) /\ held'[a] = held[a]
        BY <1>3, <2>3
      <4>2. Reserved(a)' \subseteq held'[a]
        BY <2>2, <4>1
      <4> QED BY <3>2, <2>3, <4>2
    <3>3. CASE l = "leave"
      BY <3>3, <2>1, <2>3
    <3> QED BY <3>1, <3>2, <3>3
  <2> QED BY <1>3, <2>3, <2>4, <2>5 DEF IInv, Places
<1>6. Verdicts'
  <2>1. None \notin {"wrong", "right", "half", "second"}
    OBVIOUS
  <2> QED BY <1>0, <2>1 DEF IInv, Verdicts, TypeOK, Second
<1>7. \A k \in Keys : \A b \in Attempts : answer[b] = None => b \notin Guesses(k)'
  BY <1>0, <1>1 DEF Guesses, Answers, TypeOK
<1>8. Kept'
  BY <1>4, <1>7, KeptOn
<1>9. Balanced'
  BY HoldersKept
<1>10. Capped'
  BY <1>4, <1>7, CappedKept
<1> QED BY <1>2, <1>5, <1>6, <1>8, <1>9, <1>10 DEF IInv

\* one that takes a hash slot, or finds none,
LEMMA TakeSlotKeeps ==
  ASSUME IInv, NEW a \in Attempts, TakeSlot(a)
  PROVE  IInv'
<1>0. TypeOK /\ answer[a] = None /\ verdict[a] = None /\ pc[a] = "slot"
  BY DEF IInv, Places, Verdicts, TakeSlot
<1>1. /\ answer = [answer EXCEPT ![a] = None] /\ verdict' = [verdict EXCEPT ![a] = None]
      /\ compute' \in [Sources -> [start : Nat, used : Nat]]
      /\ UNCHANGED <<kind, now, at, held, pending, table>>
  BY <1>0 DEF TakeSlot, TypeOK
<1>2. CASE Goto(a, "lock") /\ UNCHANGED answer
  <2>1. pc' = [pc EXCEPT ![a] = "lock"] /\ answer' = [answer EXCEPT ![a] = None]
    BY <1>1, <1>2 DEF Goto
  <2> QED BY <1>0, <1>1, <2>1, MoveKeeps
<1>3. CASE Goto(a, "leave") /\ Answer(a, "busy")
  <2>1. pc' = [pc EXCEPT ![a] = "leave"] /\ answer' = [answer EXCEPT ![a] = "busy"]
    BY <1>3 DEF Goto, Answer
  <2> QED BY <1>0, <1>1, <2>1, MoveKeeps
<1> QED BY <1>2, <1>3 DEF TakeSlot

\* The work a source is charged with has the type of the budget.
LEMMA ChargeType ==
  ASSUME TypeOK, NEW s
  PROVE  Charge(s) \in [Sources -> [start : Nat, used : Nat]]
<1>1. \A x \in Sources : compute[x] \in [start : Nat, used : Nat] /\ now \in Nat
  BY DEF TypeOK
<1>2. \A x \in Sources : Charge(s)[x] \in [start : Nat, used : Nat]
  <2> SUFFICES ASSUME NEW x \in Sources PROVE Charge(s)[x] \in [start : Nat, used : Nat]
    OBVIOUS
  <2>1. compute[x].start \in Nat /\ compute[x].used + 1 \in Nat
    BY <1>1
  <2>2. CASE x # s
    BY <1>1, <2>2 DEF Charge
  <2>3. CASE x = s
    <3>1. Charge(s)[x] = [start |-> compute[x].start, used |-> compute[x].used + 1] \/ Charge(s)[x] = [start |-> now, used |-> 1]
      BY <2>3 DEF Charge
    <3> QED BY <1>1, <2>1, <3>1
  <2> QED BY <2>2, <2>3
<1> QED BY <1>2 DEF Charge

\* one whose password is compared,
LEMMA VerifyPasswordKeeps ==
  ASSUME IInv, NEW a \in Attempts, VerifyPassword(a)
  PROVE  IInv'
<1>0. TypeOK /\ answer[a] = None /\ verdict[a] = None /\ pc[a] = "lock"
  BY DEF IInv, Places, Verdicts, VerifyPassword
<1>1. /\ answer = [answer EXCEPT ![a] = None] /\ verdict = [verdict EXCEPT ![a] = None]
      /\ UNCHANGED <<kind, now, at, held, pending, table>>
  BY <1>0 DEF VerifyPassword, TypeOK
<1>2. CASE Goto(a, "leave") /\ Answer(a, "limited") /\ UNCHANGED <<verdict, compute>>
  <2>1. /\ pc' = [pc EXCEPT ![a] = "leave"] /\ answer' = [answer EXCEPT ![a] = "limited"]
        /\ verdict' = [verdict EXCEPT ![a] = None]
        /\ compute' \in [Sources -> [start : Nat, used : Nat]]
    BY <1>0, <1>1, <1>2 DEF Goto, Answer, TypeOK
  <2> QED BY <1>0, <1>1, <2>1, MoveKeeps
<1>3. ASSUME compute' = Charge(Source[a]), NEW w \in {"wrong", "right"},
             verdict' = [verdict EXCEPT ![a] = w], Goto(a, "record"), UNCHANGED answer
      PROVE  IInv'
  <2>1. /\ pc' = [pc EXCEPT ![a] = "record"] /\ answer' = [answer EXCEPT ![a] = None]
        /\ compute' \in [Sources -> [start : Nat, used : Nat]]
    BY <1>0, <1>1, <1>3, ChargeType DEF Goto
  <2> QED BY <1>0, <1>1, <1>3, <2>1, MoveKeeps
<1>4. CASE /\ compute' = Charge(Source[a]) /\ verdict' = [verdict EXCEPT ![a] = "half"]
           /\ Goto(a, "leave") /\ Answer(a, "half")
  <2>1. /\ pc' = [pc EXCEPT ![a] = "leave"] /\ answer' = [answer EXCEPT ![a] = "half"]
        /\ compute' \in [Sources -> [start : Nat, used : Nat]]
    BY <1>0, <1>4, ChargeType DEF Goto, Answer
  <2> QED BY <1>0, <1>1, <1>4, <2>1, MoveKeeps
<1> QED BY <1>2, <1>3, <1>4 DEF VerifyPassword

\* one whose passkey is verified,
LEMMA VerifyPasskeyKeeps ==
  ASSUME IInv, NEW a \in Attempts, VerifyPasskey(a)
  PROVE  IInv'
<1> USE ConstantsAssumption
<1>0. /\ TypeOK /\ answer[a] = None /\ verdict[a] = None /\ pc[a] = "lock"
      /\ kind[a] = "passkey" /\ held[a] = Reserved(a)
  BY DEF IInv, Places, Verdicts, VerifyPasskey
<1>1. /\ answer = [answer EXCEPT ![a] = None] /\ verdict = [verdict EXCEPT ![a] = None]
      /\ UNCHANGED <<kind, now, at, table, compute>>
      /\ compute' \in [Sources -> [start : Nat, used : Nat]]
  BY <1>0 DEF VerifyPasskey, TypeOK
<1>2. ASSUME NEW w \in {"wrong", "right"}, verdict' = [verdict EXCEPT ![a] = w],
             Goto(a, "record"), UNCHANGED <<held, pending, answer>>
      PROVE  IInv'
  <2>1. pc' = [pc EXCEPT ![a] = "record"] /\ answer' = [answer EXCEPT ![a] = None]
    BY <1>1, <1>2 DEF Goto
  <2> QED BY <1>0, <1>1, <1>2, <2>1, MoveKeeps
<1>3. CASE Goto(a, "leave") /\ Answer(a, "limited") /\ UNCHANGED <<held, pending, verdict>>
  <2>1. /\ pc' = [pc EXCEPT ![a] = "leave"] /\ answer' = [answer EXCEPT ![a] = "limited"]
        /\ verdict' = [verdict EXCEPT ![a] = None]
    BY <1>1, <1>3 DEF Goto, Answer
  <2> QED BY <1>0, <1>1, <1>3, <2>1, MoveKeeps
<1>4. ASSUME Cardinality(Failures(Second(a), at[a])) + pending[Second(a)] < Limit(Second(a)),
             held' = [held EXCEPT ![a] = @ \cup {Second(a)}],
             pending' = [pending EXCEPT ![Second(a)] = @ + 1],
             NEW w, NEW l, verdict' = [verdict EXCEPT ![a] = w], pc' = [pc EXCEPT ![a] = l],
             UNCHANGED answer,
             (w = "second" /\ l = "second") \/ (w \in {"wrong", "right"} /\ l = "record")
      PROVE  IInv'
  <2>0. Second(a) \in Keys /\ Second(a) \notin held[a] /\ held[a] \in SUBSET Keys
    BY <1>0, BudgetsOf DEF TypeOK
  <2>1. TypeOK'
    <3>1. held' \in [Attempts -> SUBSET Keys]
      BY <1>0, <1>4, <2>0 DEF TypeOK
    <3>2. pending' \in [Keys -> Nat]
      BY <1>0, <1>4, <2>0 DEF TypeOK
    <3>3. /\ pc' \in [Attempts -> {"new", "reserve", "slot", "lock", "second", "record", "leave", "done"}]
          /\ verdict' \in [Attempts -> {None, "wrong", "right", "half", "second"}]
      BY <1>0, <1>4 DEF TypeOK
    <3> QED BY <1>0, <1>1, <1>4, <3>1, <3>2, <3>3 DEF TypeOK
  <2>2. Lasting
    BY <1>0, <1>1, <1>4 DEF Lasting, TypeOK
  <2>3. \A b \in Attempts : Reserved(b)' = Reserved(b)
    BY <1>1 DEF Reserved, Ip, Begin, User
  <2>4. \A b \in Attempts : held[b] \subseteq held'[b] /\ (b # a => held'[b] = held[b])
    BY <1>0, <1>4 DEF TypeOK
  <2>5. Places'
    <3>1. Reserved(a)' \subseteq held'[a] /\ pc'[a] \in {"second", "record"} /\ answer'[a] = None /\ at'[a] <= now'
      BY <1>0, <1>1, <1>4, <2>3, <2>4 DEF TypeOK, IInv, Places
    <3>2. \A b \in Attempts \ {a} : /\ pc'[b] = pc[b] /\ answer'[b] = answer[b] /\ held'[b] = held[b]
                                    /\ at'[b] <= now'
      BY <1>0, <1>1, <1>4, <2>4 DEF TypeOK, IInv, Places
    <3> QED BY <2>3, <3>1, <3>2 DEF IInv, Places
  <2>6. Verdicts'
    <3>1. /\ pc'[a] = l /\ verdict'[a] = w /\ kind'[a] = "passkey" /\ Second(a) \in held'[a]
          /\ Second(a)' = Second(a)
      BY <1>0, <1>1, <1>4 DEF TypeOK, Second
    <3>2. \A b \in Attempts \ {a} : /\ pc'[b] = pc[b] /\ verdict'[b] = verdict[b] /\ held'[b] = held[b]
                                    /\ kind'[b] = kind[b] /\ at'[b] = at[b] /\ Second(b)' = Second(b)
                                    /\ Failure(b, Second(b))' = Failure(b, Second(b))
      BY <1>0, <1>1, <1>4, <2>4 DEF TypeOK, Second, Failure
    <3>3. w # "second" => ~(verdict'[a] = "second")
      BY <3>1
    <3> QED BY <1>1, <1>4, <3>1, <3>2, <3>3 DEF IInv, Verdicts
  <2>7. \A k \in Keys : \A b \in Attempts : answer[b] = None => b \notin Guesses(k)'
    BY <1>4 DEF Guesses, Answers
  <2>8. Kept'
    BY <1>1, <2>2, <2>7, KeptOn
  <2>9. Balanced'
    <3>1. pending' = [k \in Keys |-> IF k \in {Second(a)} THEN pending[k] + 1 ELSE pending[k]]
      BY <1>0, <1>4, <2>0 DEF TypeOK
    <3> DEFINE R == {Second(a)}
    <3>2. R \in SUBSET Keys /\ R \cap held[a] = {}
      BY <2>0
    <3>3. /\ held' = [held EXCEPT ![a] = @ \cup R]
          /\ pending' = [k \in Keys |-> IF k \in R THEN pending[k] + 1 ELSE pending[k]]
      BY <1>4, <3>1
    <3> HIDE DEF R
    <3> QED BY <3>2, <3>3, HolderAdded
  <2>10. Capped'
    <3> DEFINE R == {Second(a)}
    <3>1. R \in SUBSET Keys /\ \A k \in R : Cardinality(Failures(k, at[a])) + pending[k] < Limit(k)
      BY <1>4, <2>0
    <3>2. \A k \in Keys : \A b \in Attempts : k \in held'[b] => k \in held[b] \/ (b = a /\ k \in R)
      BY <1>0, <1>4 DEF TypeOK
    <3> HIDE DEF R
    <3> QED BY <2>2, <2>7, <3>1, <3>2, CappedReserved
  <2> QED BY <2>1, <2>5, <2>6, <2>8, <2>9, <2>10 DEF IInv
<1> QED BY <1>2, <1>3, <1>4 DEF VerifyPasskey, Goto

\* one whose wrong second factor is recorded,
LEMMA RecordSecondKeeps ==
  ASSUME IInv, NEW a \in Attempts, RecordSecond(a)
  PROVE  IInv'
<1> USE ConstantsAssumption
<1>0. /\ TypeOK /\ answer[a] = None /\ verdict[a] = "second" /\ pc[a] = "second"
      /\ Second(a) \in held[a] /\ Reserved(a) \subseteq held[a]
      /\ UNCHANGED <<kind, now, at, held, pending, verdict, compute>>
  BY DEF IInv, Places, Verdicts, RecordSecond
<1>1. CASE Goto(a, "leave") /\ Answer(a, "error") /\ UNCHANGED table
  <2>1. /\ pc' = [pc EXCEPT ![a] = "leave"] /\ answer' = [answer EXCEPT ![a] = "error"]
        /\ verdict' = [verdict EXCEPT ![a] = "second"]
        /\ compute' \in [Sources -> [start : Nat, used : Nat]]
    BY <1>0, <1>1 DEF Goto, Answer, TypeOK
  <2> QED BY <1>0, <1>1, <2>1, MoveKeeps
<1>2. CASE table' = With({Failure(a, Second(a))}, a) /\ Goto(a, "record") /\ UNCHANGED answer
  <2> DEFINE R == {Failure(a, Second(a))}
  <2>1. R \in SUBSET [by : Attempts, key : Keys, ok : BOOLEAN]
    BY BudgetsOf DEF Failure
  <2>2. /\ table' \subseteq [by : Attempts, key : Keys, ok : BOOLEAN]
        /\ \A r \in table : at[r.by] + Window > now => r \in table'
        /\ R \subseteq table'
        /\ table' \subseteq table \cup R
    <3> HIDE DEF R
    <3>1. table' = With(R, a)
      BY <1>2 DEF R
    <3> QED BY <2>1, <3>1, WithKeeps
  <2>3. pc' = [pc EXCEPT ![a] = "record"] /\ answer' = answer
    BY <1>2 DEF Goto
  <2>4. TypeOK'
    BY <1>0, <2>2, <2>3 DEF TypeOK
  <2>5. Lasting
    BY <1>0, <2>3 DEF Lasting, TypeOK
  <2>6. \A b \in Attempts : /\ Reserved(b)' = Reserved(b) /\ Second(b)' = Second(b)
                            /\ Failure(b, Second(b))' = Failure(b, Second(b))
    BY <1>0 DEF Reserved, Ip, Begin, User, Second, Failure
  <2>7. Places'
    BY <1>0, <2>3, <2>6 DEF IInv, Places, TypeOK
  <2>8. Verdicts'
    <3>1. pc'[a] = "record" /\ Failure(a, Second(a)) \in table' /\ verdict'[a] = "second" /\ kind'[a] = "passkey"
      BY <1>0, <2>2, <2>3 DEF IInv, Verdicts, TypeOK
    <3>2. \A b \in Attempts \ {a} : pc'[b] = pc[b]
      BY <1>0, <2>3 DEF TypeOK
    <3>3. \A b \in Attempts : /\ verdict'[b] = verdict[b] /\ held'[b] = held[b] /\ kind'[b] = kind[b]
                              /\ at'[b] = at[b] /\ now' = now
      BY <1>0
    <3>4. \A b \in Attempts : at[b] + Window > now /\ Failure(b, Second(b)) \in table =>
            Failure(b, Second(b)) \in table'
      BY <2>2 DEF Failure
    <3> QED BY <1>0, <2>6, <3>1, <3>2, <3>3, <3>4 DEF IInv, Verdicts
  <2>9. \A k \in Keys : \A b \in Attempts : answer[b] = None => b \notin Guesses(k)'
    BY <2>3 DEF Guesses, Answers
  <2>10. Kept'
    <3>1. \A r \in table' : r.ok => r \in table
      BY <2>2 DEF Failure
    <3> QED BY <2>2, <2>5, <2>9, <3>1, KeptOn
  <2>11. Balanced'
    BY <1>0, HoldersKept
  <2>12. Capped'
    BY <1>0, <2>5, <2>9, CappedKept
  <2> QED BY <2>4, <2>7, <2>8, <2>10, <2>11, <2>12 DEF IInv
<1> QED BY <1>0, <1>1, <1>2 DEF RecordSecond

\* one whose outcome is recorded, or cannot be,
LEMMA RecordKeeps ==
  ASSUME IInv, NEW a \in Attempts, Record(a)
  PROVE  IInv'
<1> USE ConstantsAssumption
<1>0. /\ TypeOK /\ answer[a] = None /\ pc[a] = "record" /\ Reserved(a) \subseteq held[a]
      /\ pc' = [pc EXCEPT ![a] = "leave"]
      /\ UNCHANGED <<kind, now, at, held, pending, verdict, compute>>
  BY DEF IInv, Places, Record, Goto
<1> DEFINE R == NewRecords(a)
<1>1. R \in SUBSET [by : Attempts, key : Keys, ok : BOOLEAN]
  <2>1. Cleared(a) \subseteq Keys /\ Ip(a) \in Keys /\ Reserved(a) \subseteq Keys
    BY BudgetsOf DEF Cleared
  <2>2. \/ R = {Success(a, k) : k \in Cleared(a)} \/ R = {Failure(a, Ip(a))}
        \/ R = {Failure(a, k) : k \in Reserved(a)}
    BY DEF NewRecords
  <2> DEFINE T == [by : Attempts, key : Keys, ok : BOOLEAN]
  <2>3. \A k \in Keys : Success(a, k) \in T /\ Failure(a, k) \in T
    BY DEF Success, Failure
  <2>4. \A r \in R : \E k \in Keys : r = Success(a, k) \/ r = Failure(a, k)
    <3> HIDE DEF R
    <3>1. CASE R = {Success(a, k) : k \in Cleared(a)}
      BY <2>1, <3>1
    <3>2. CASE R = {Failure(a, Ip(a))}
      BY <2>1, <3>2
    <3>3. CASE R = {Failure(a, k) : k \in Reserved(a)}
      BY <2>1, <3>3
    <3> QED BY <2>2, <3>1, <3>2, <3>3
  <2> HIDE DEF T, R
  <2>5. R \in SUBSET T
    BY <2>3, <2>4
  <2> QED BY <2>5 DEF T
<1>2. /\ With(R, a) \subseteq [by : Attempts, key : Keys, ok : BOOLEAN]
      /\ \A r \in table : at[r.by] + Window > now => r \in With(R, a)
      /\ R \subseteq With(R, a)
      /\ With(R, a) \subseteq table \cup R
  <2> HIDE DEF R
  <2> QED BY <1>1, WithKeeps
<1>3. PICK v \in {"in", "begun", "refused", "full", "error"} :
        /\ answer' = [answer EXCEPT ![a] = v]
        /\ \/ v = Outcome(a) /\ table' = With(R, a)
           \/ v \in {"full", "error"} /\ table' = table
  <2>1. Outcome(a) \in {"in", "begun", "refused"}
    BY DEF Outcome
  <2> QED BY <2>1 DEF Record, Answer
<1>4. v \in Answers /\ v # None /\ answer' \in [Attempts -> Answers \cup {None}]
      /\ answer'[a] = v /\ \A b \in Attempts \ {a} : answer'[b] = answer[b]
  BY <1>0, <1>3 DEF Answers, TypeOK
<1>5. /\ table' \subseteq [by : Attempts, key : Keys, ok : BOOLEAN]
      /\ \A r \in table : at[r.by] + Window > now => r \in table'
      /\ table' \subseteq table \cup R
  BY <1>0, <1>2, <1>3 DEF TypeOK
<1>6. TypeOK'
  BY <1>0, <1>4, <1>5 DEF TypeOK
<1>7. Lasting
  BY <1>0, <1>4 DEF Lasting, TypeOK
<1>8. \A b \in Attempts : /\ Reserved(b)' = Reserved(b) /\ Second(b)' = Second(b)
                          /\ Failure(b, Second(b))' = Failure(b, Second(b))
  BY <1>0 DEF Reserved, Ip, Begin, User, Second, Failure
<1>9. Places'
  BY <1>0, <1>4, <1>8 DEF IInv, Places, TypeOK
<1>10. Verdicts'
  <2>1. pc'[a] = "leave" /\ \A b \in Attempts \ {a} : pc'[b] = pc[b]
    BY <1>0 DEF TypeOK
  <2>2. \A b \in Attempts : /\ verdict'[b] = verdict[b] /\ held'[b] = held[b] /\ kind'[b] = kind[b]
                            /\ at'[b] = at[b] /\ now' = now
    BY <1>0
  <2>3. \A b \in Attempts : at[b] + Window > now /\ Failure(b, Second(b)) \in table =>
          Failure(b, Second(b)) \in table'
    BY <1>5 DEF Failure
  <2> QED BY <1>8, <2>1, <2>2, <2>3 DEF IInv, Verdicts
<1>11. \A k \in Keys : \A b \in Attempts : answer[b] = None /\ b \in Guesses(k)' =>
         b = a /\ v \in {"refused", "begun"} /\ k \in Charged(a)
  <2> SUFFICES ASSUME NEW k \in Keys, NEW b \in Attempts, answer[b] = None, b \in Guesses(k)'
               PROVE  b = a /\ v \in {"refused", "begun"} /\ k \in Charged(a)
    OBVIOUS
  <2>1. answer'[b] \in {"refused", "begun"} /\ k \in Charged(b)'
    BY DEF Guesses
  <2>2. b = a
    BY <1>4, <2>1 DEF Answers
  <2>3. Charged(b)' = Charged(b)
    BY <1>0 DEF Charged, Reserved, Ip, Begin, User, Second
  <2> QED BY <1>4, <2>1, <2>2, <2>3
<1>12. \A k \in Keys : \A b \in Attempts : answer[b] = None /\ b \in Guesses(k)' => k \in held[b]
  <2>1. Charged(a) \subseteq held[a]
    <3>1. CASE verdict[a] = "second"
      <4>1. Second(a) \in held[a] /\ kind[a] = "passkey"
        BY <1>0, <3>1 DEF IInv, Verdicts
      <4>2. Ip(a) \in held[a]
        BY <1>0, <4>1, BudgetsOf
      <4> QED BY <3>1, <4>1, <4>2 DEF Charged
    <3>2. CASE verdict[a] # "second"
      BY <1>0, <3>2 DEF Charged
    <3> QED BY <3>1, <3>2
  <2> QED BY <1>11, <2>1
<1>13. Kept'
  <2>1. \A k \in Keys : \A b \in Attempts :
          answer[b] = None /\ b \in Guesses(k)' /\ at'[b] + Window > now' => Failure(b, k) \in table'
    <3> SUFFICES ASSUME NEW k \in Keys, v \in {"refused", "begun"}, k \in Charged(a), at[a] + Window > now
                 PROVE  Failure(a, k) \in table'
      BY <1>0, <1>11
    <3>1. table' = With(R, a) /\ v = Outcome(a) /\ verdict[a] # "right"
      BY <1>3 DEF Outcome
    <3>2. CASE verdict[a] = "second"
      <4>1. Failure(a, Second(a)) \in table /\ Failure(a, Ip(a)) \in R
        BY <1>0, <3>2 DEF IInv, Verdicts, NewRecords
      <4>2. Failure(a, Second(a)) \in table'
        BY <1>5, <4>1 DEF Failure
      <4>3. k = Ip(a) \/ k = Second(a)
        BY <3>2 DEF Charged
      <4> QED BY <1>2, <3>1, <4>1, <4>2, <4>3
    <3>3. CASE verdict[a] # "second"
      <4>1. k \in Reserved(a) /\ R = {Failure(a, j) : j \in Reserved(a)}
        BY <3>1, <3>3 DEF Charged, NewRecords
      <4> QED BY <1>2, <3>1, <4>1
    <3> QED BY <3>2, <3>3
  <2>2. \A r \in table' : r.ok /\ r \notin table => r.by \in Wins(r.key)'
    <3> SUFFICES ASSUME NEW r \in table', r.ok, r \notin table PROVE r.by \in Wins(r.key)'
      OBVIOUS
    <3>1. r \in R /\ table' = With(R, a) /\ v = Outcome(a)
      BY <1>3, <1>5
    <3>2. verdict[a] = "right"
      BY <3>1 DEF NewRecords, Failure
    <3>3. v = "in" /\ R = {Success(a, k) : k \in Cleared(a)}
      BY <3>1, <3>2 DEF Outcome, NewRecords
    <3>4. r.by = a /\ r.key \in Cleared(a)
      BY <3>1, <3>3 DEF Success
    <3> QED BY <1>4, <3>3, <3>4 DEF Wins, Cleared, Ip, User
  <2> HIDE DEF R
  <2> QED BY <1>5, <1>7, <2>1, <2>2, KeptOn
<1>14. Balanced'
  BY <1>0, HoldersKept
<1>15. Capped'
  BY <1>0, <1>7, <1>12, CappedKept
<1> QED BY <1>6, <1>9, <1>10, <1>13, <1>14, <1>15 DEF IInv

\* one that leaves,
LEMMA LeaveKeeps ==
  ASSUME IInv, NEW a \in Attempts, Leave(a)
  PROVE  IInv'
<1> USE ConstantsAssumption
<1>0. /\ TypeOK /\ answer[a] # None /\ pc[a] = "leave"
      /\ pc' = [pc EXCEPT ![a] = "done"] /\ held' = [held EXCEPT ![a] = {}]
      /\ pending' = [k \in Keys |-> IF k \in held[a] THEN GivenBack(pending[k]) ELSE pending[k]]
      /\ UNCHANGED <<kind, now, at, verdict, answer, table, compute>>
  BY DEF IInv, Places, Leave, Goto, Returned
<1>1. TypeOK'
  <2>1. pending' \in [Keys -> Nat]
    <3>1. \A k \in Keys : pending[k] \in Nat /\ GivenBack(pending[k]) \in Nat
      BY <1>0 DEF TypeOK, GivenBack
    <3> QED BY <1>0, <3>1
  <2>2. held' \in [Attempts -> SUBSET Keys]
    BY <1>0 DEF TypeOK
  <2>3. pc' \in [Attempts -> {"new", "reserve", "slot", "lock", "second", "record", "leave", "done"}]
    BY <1>0 DEF TypeOK
  <2> QED BY <1>0, <2>1, <2>2, <2>3 DEF TypeOK
<1>2. Lasting
  BY <1>0 DEF Lasting, TypeOK
<1>3. pc'[a] = "done" /\ \A b \in Attempts \ {a} : pc'[b] = pc[b] /\ held'[b] = held[b]
  BY <1>0 DEF TypeOK
<1>4. \A b \in Attempts : /\ Reserved(b)' = Reserved(b) /\ Second(b)' = Second(b)
                          /\ Failure(b, Second(b))' = Failure(b, Second(b))
  BY <1>0 DEF Reserved, Ip, Begin, User, Second, Failure
<1>5. Places'
  BY <1>0, <1>3, <1>4 DEF IInv, Places
<1>6. Verdicts'
  BY <1>0, <1>3, <1>4 DEF IInv, Verdicts
<1>7. \A k \in Keys : \A b \in Attempts : answer[b] = None => b \notin Guesses(k)'
  BY <1>0 DEF Guesses, Answers
<1>8. Kept'
  BY <1>0, <1>2, <1>7, KeptOn
<1>9. Balanced'
  BY <1>0, HolderGone
<1>10. Capped'
  <2>1. \A k \in Keys : \A b \in Attempts : k \in held'[b] => k \in held[b]
    BY <1>0 DEF TypeOK
  <2> QED BY <1>2, <1>7, <2>1, CappedKept
<1> QED BY <1>1, <1>5, <1>6, <1>8, <1>9, <1>10 DEF IInv

\* the passing of time,
LEMMA TickKeeps ==
  ASSUME IInv, Tick
  PROVE  IInv'
<1> USE ConstantsAssumption
<1>0. /\ TypeOK /\ now' = now + 1 /\ now \in Nat /\ \A b \in Attempts : at[b] \in Nat
      /\ UNCHANGED <<kind, pc, at, held, pending, verdict, answer, table, compute>>
  BY DEF IInv, TypeOK, Tick
<1>1. TypeOK'
  BY <1>0 DEF TypeOK
<1>2. Lasting
  BY <1>0 DEF Lasting
<1>4. \A b \in Attempts : /\ Reserved(b)' = Reserved(b) /\ Second(b)' = Second(b)
                          /\ Failure(b, Second(b))' = Failure(b, Second(b))
  BY <1>0 DEF Reserved, Ip, Begin, User, Second, Failure
<1>5. Places'
  BY <1>0, <1>4 DEF IInv, Places
<1>6. Verdicts'
  <2>1. \A b \in Attempts : at[b] + Window > now' => at[b] + Window > now
    BY <1>0
  <2> QED BY <1>0, <1>4, <2>1 DEF IInv, Verdicts
<1>7. \A k \in Keys : \A b \in Attempts : answer[b] = None => b \notin Guesses(k)'
  BY <1>0 DEF Guesses, Answers
<1>8. Kept'
  BY <1>0, <1>2, <1>7, KeptOn
<1>9. Balanced'
  BY <1>0, HoldersKept
<1>10. Capped'
  BY <1>0, <1>2, <1>7, CappedKept
<1> QED BY <1>1, <1>5, <1>6, <1>8, <1>9, <1>10 DEF IInv

\* and a crash, after which nobody holds anything.
LEMMA CrashKeeps ==
  ASSUME IInv, Crash
  PROVE  IInv'
<1> USE ConstantsAssumption
<1>0. /\ TypeOK /\ pending' = [k \in Keys |-> 0] /\ held' = [b \in Attempts |-> {}]
      /\ compute' = [s \in Sources |-> [start |-> 0, used |-> 0]]
      /\ pc' = [b \in Attempts |-> IF pc[b] = "new" THEN "new" ELSE "done"]
      /\ answer' = [b \in Attempts |-> IF pc[b] # "new" /\ answer[b] = None THEN "error" ELSE answer[b]]
      /\ UNCHANGED <<kind, now, at, verdict, table>>
  BY DEF IInv, Crash
<1>1. TypeOK'
  <2>1. answer' \in [Attempts -> Answers \cup {None}]
    BY <1>0 DEF TypeOK, Answers
  <2>2. /\ pc' \in [Attempts -> {"new", "reserve", "slot", "lock", "second", "record", "leave", "done"}]
        /\ held' \in [Attempts -> SUBSET Keys] /\ pending' \in [Keys -> Nat]
        /\ compute' \in [Sources -> [start : Nat, used : Nat]]
    BY <1>0
  <2> QED BY <1>0, <2>1, <2>2 DEF TypeOK
<1>2. Lasting
  BY <1>0 DEF Lasting, TypeOK
<1>3. \A b \in Attempts : /\ pc'[b] \in {"new", "done"} /\ held'[b] = {}
                          /\ pc'[b] = "new" => pc[b] = "new" /\ answer'[b] = answer[b]
                          /\ pc'[b] = "done" => answer'[b] # None
  BY <1>0 DEF Answers
<1>5. Places'
  BY <1>0, <1>3 DEF IInv, Places
<1>6. Verdicts'
  BY <1>0, <1>3 DEF IInv, Verdicts
<1>7. \A k \in Keys : \A b \in Attempts : answer[b] = None => b \notin Guesses(k)'
  BY <1>0 DEF Guesses, Answers
<1>8. Kept'
  BY <1>0, <1>2, <1>7, KeptOn
<1>9. Balanced'
  <2> SUFFICES ASSUME NEW k \in Keys PROVE pending'[k] = Cardinality(Holding(k)')
    BY DEF Balanced, Holding
  <2>1. Holding(k)' = {} /\ pending'[k] = 0
    BY <1>0 DEF Holding
  <2> QED BY <2>1, FS_EmptySet
<1>10. Capped'
  BY <1>0, <1>2, <1>7, CappedKept
<1> QED BY <1>1, <1>5, <1>6, <1>8, <1>9, <1>10 DEF IInv

\* A step that changes nothing keeps the invariant.
LEMMA StutterKeeps ==
  ASSUME IInv, UNCHANGED vars
  PROVE  IInv'
BY DEF vars, IInv, TypeOK, Places, Verdicts, Kept, Balanced, Capped, Exposed, Guessed, Undecided,
       Guesses, Wins, Charged, Cleared, Reserved, Ip, Begin, User, Second, Failure, Limit

LEMMA StepKeepsIInv == IInv /\ [Next]_vars => IInv'
<1> SUFFICES ASSUME IInv, [Next]_vars PROVE IInv'
  OBVIOUS
<1>1. CASE \E a \in Attempts : Arrive(a) \/ Serve(a)
  <2>1. PICK a \in Attempts : Arrive(a) \/ Serve(a)
    BY <1>1
  <2> QED BY <2>1, ArriveKeeps, ReserveKeeps, TakeSlotKeeps, VerifyPasswordKeeps, VerifyPasskeyKeeps,
             RecordSecondKeeps, RecordKeeps, LeaveKeeps DEF Serve
<1>2. CASE Tick
  BY <1>2, TickKeeps
<1>3. CASE Crash
  BY <1>3, CrashKeeps
<1>4. CASE UNCHANGED vars
  BY <1>4, StutterKeeps
<1> QED BY <1>1, <1>2, <1>3, <1>4 DEF Next

---------------------------------------------------------------------------
LEMMA IInvHolds == Spec => []IInv
BY InitIInv, StepKeepsIInv, PTL DEF Spec

\* The state of the login service keeps its type.
THEOREM LoginTypeCorrect == Spec => []TypeOK
<1>1. IInv => TypeOK
  BY DEF IInv
<1> QED BY <1>1, IInvHolds, PTL

\* Reservations are returned on every path out of a login, and by a crash: the
\* counter of a budget is the number of requests that hold it.
THEOREM ReservationsReturned == Spec => []Balanced
<1>1. IInv => Balanced
  BY DEF IInv
<1> QED BY <1>1, IInvHolds, PTL

\* No budget ever answers more failures in a window than its limit.
THEOREM GuessesBounded == Spec => []Throttled
<1>1. IInv => Throttled
  <2> SUFFICES ASSUME IInv, NEW k \in Keys PROVE Cardinality(Guessed(k)) <= Limit(k)
    BY DEF Throttled
  <2>1. Exposed(k) \in SUBSET Attempts /\ Guessed(k) \in SUBSET Exposed(k)
    BY DEF Exposed, Guessed, Guesses, Undecided
  <2>2. Cardinality(Guessed(k)) <= Cardinality(Exposed(k))
    BY <2>1, Larger
  <2>3. Cardinality(Exposed(k)) <= Limit(k) /\ Limit(k) \in Nat
    BY LimitIsNat DEF IInv, Capped
  <2>4. Cardinality(Exposed(k)) \in Nat /\ Cardinality(Guessed(k)) \in Nat
    BY <2>1, Finite
  <2> QED BY <2>2, <2>3, <2>4
<1> QED BY <1>1, IInvHolds, PTL

---------------------------------------------------------------------------
(***************************************************************************)
(* Room in the table.  The records a request may still write are the       *)
(* shared budgets it holds while it is not answered: owed to the table at  *)
(* its date by every request that arrived no later.  A request that has    *)
(* reserved finds, at its own date, room for what the table holds and what *)
(* is owed.  A later request counts fewer records and more debts when it   *)
(* reserves, and prunes what it did not count when it writes.              *)
(***************************************************************************)

SharedKeys == {k \in Keys : Shared(k)}

\* The reservations of the budgets in s, one for each request that holds one.
Debts(s) == {x \in Attempts \X s : x[2] \in held[x[1]]}

\* Those that may still become a record dated no later than t.
Owed(t) == {x \in Debts(SharedKeys) : answer[x[1]] = None /\ at[x[1]] <= t}

\* The records of the table a request that arrived at t counts.
Counted(t) == {r \in SharedRecords(table) : Recent(r, t)}

PasskeyIn == \E b \in Attempts : kind[b] = "passkey" /\ verdict[b] = "right"

Roomy ==
  \A a \in Attempts :
    held[a] # {} /\ answer[a] = None =>
      Cardinality(Counted(at[a])) + Cardinality(Owed(at[a])) <= MaxRecords

\* Only a request that has arrived has written a record.
Arrived == \A r \in table : pc[r.by] # "new"

\* Induction over the size of a finite set, as the principle of the least number.
LEMMA LeastNumber ==
  ASSUME NEW T, T \subseteq Nat, T # {}
  PROVE  \E n \in T : \A m \in T : n <= m
<1>1. \E n \in T : \A m \in T : ~(<<m, n>> \in OpToRel(<, Nat))
  BY NatLessThanWellFounded, WFMin
<1>2. \A m, n \in Nat : m < n => <<m, n>> \in OpToRel(<, Nat)
  BY DEF OpToRel
<1>3. PICK n \in T : \A m \in T : ~(<<m, n>> \in OpToRel(<, Nat))
  BY <1>1
<1>4. \A m \in T : ~(m < n)
  BY <1>2, <1>3
<1>5. n \in T
  BY <1>3
<1>6. \A m \in T : n <= m
  <2> SUFFICES ASSUME NEW m \in T PROVE n <= m
    OBVIOUS
  <2>1. m \in Nat /\ n \in Nat /\ ~(m < n)
    BY <1>4, <1>5
  <2> QED BY <2>1
<1> QED BY <1>5, <1>6

LEMMA KeysAreFinite == IsFiniteSet(SharedKeys)
<1> DEFINE B(i) == CASE i[2] = 1 -> Ip(i[1]) [] i[2] = 2 -> Begin(i[1])
                     [] i[2] = 3 -> User(i[1]) [] OTHER -> Second(i[1])
           I == Attempts \X (1..4)
           g == [i \in I |-> B(i)]
<1>1. IsFiniteSet(I)
  <2>1. IsFiniteSet(1..4) BY FS_Interval, 1 \in Int, 4 \in Int
  <2> QED BY <2>1, ConstantsAssumption, FS_Product
<1>2. \A k \in Keys : \E i \in I : g[i] = k
  <2> SUFFICES ASSUME NEW k \in Keys PROVE \E i \in I : g[i] = k
    OBVIOUS
  <2>0. PICK a \in Attempts : k \in {Ip(a), Begin(a), User(a), Second(a)}
    BY DEF Keys
  <2>1. /\ <<a, 1>> \in I /\ <<a, 2>> \in I /\ <<a, 3>> \in I /\ <<a, 4>> \in I
    OBVIOUS
  <2>2. g[<<a, 1>>] = Ip(a) /\ g[<<a, 2>>] = Begin(a) /\ g[<<a, 3>>] = User(a) /\ g[<<a, 4>>] = Second(a)
    OBVIOUS
  <2> HIDE DEF g, I
  <2> QED BY <2>0, <2>1, <2>2
<1>3. \A i \in I : g[i] \in Keys
  BY DEF Keys
<1>4. g \in Surjection(I, Keys)
  <2>1. g \in [I -> Keys] BY <1>3
  <2> HIDE DEF g, I
  <2> QED BY <1>2, <2>1 DEF Surjection
<1>5. IsFiniteSet(Keys)
  <2> HIDE DEF g, I
  <2> QED BY <1>1, <1>4, FS_Surjection
<1> QED BY <1>5, FS_Subset DEF SharedKeys

LEMMA DebtsAreFinite ==
  \A s \in SUBSET SharedKeys : /\ IsFiniteSet(Debts(s)) /\ Cardinality(Debts(s)) \in Nat
                               /\ IsFiniteSet(s) /\ Cardinality(s) \in Nat
<1> SUFFICES ASSUME NEW s \in SUBSET SharedKeys
             PROVE  /\ IsFiniteSet(Debts(s)) /\ Cardinality(Debts(s)) \in Nat
                    /\ IsFiniteSet(s) /\ Cardinality(s) \in Nat
  OBVIOUS
<1>1. IsFiniteSet(s) BY KeysAreFinite, FS_Subset
<1>2. IsFiniteSet(Attempts \X s) BY <1>1, ConstantsAssumption, FS_Product
<1>3. Debts(s) \subseteq Attempts \X s BY DEF Debts
<1> QED BY <1>1, <1>2, <1>3, FS_Subset, FS_CardinalityType

\* One budget more is as many debts more as requests hold it.
LEMMA DebtsAddUp ==
  ASSUME Balanced, NEW s \in SUBSET SharedKeys, NEW k \in s
  PROVE  Cardinality(Debts(s)) = pending[k] + Cardinality(Debts(s \ {k}))
<1> DEFINE D == Debts(s)
           E == Debts(s \ {k})
           H == Holding(k) \X {k}
<1>1. D = E \cup H /\ E \cap H = {}
  BY DEF Debts, Holding, SharedKeys
<1>2. IsFiniteSet(E) /\ Cardinality(E) \in Nat BY DebtsAreFinite
<1>3. IsFiniteSet(H) /\ Cardinality(H) = pending[k]
  <2>1. IsFiniteSet(Holding(k)) BY Finite DEF Holding
  <2>2. IsFiniteSet(Holding(k)) /\ IsFiniteSet({k}) /\ Cardinality({k}) = 1
    BY <2>1, FS_Singleton
  <2>3. IsFiniteSet(H) /\ Cardinality(H) = Cardinality(Holding(k)) * 1
    BY <2>2, FS_Product
  <2>4. Cardinality(Holding(k)) \in Nat BY Finite DEF Holding
  <2>5. pending[k] = Cardinality(Holding(k)) BY DEF Balanced, Holding, SharedKeys
  <2> QED BY <2>3, <2>4, <2>5
<1> HIDE DEF D, E, H
<1>4. Cardinality(E \cup H) = Cardinality(E) + Cardinality(H) - Cardinality(E \cap H)
  BY <1>2, <1>3, FS_Union
<1>5. Cardinality(E \cap H) = 0 BY <1>1, FS_EmptySet
<1>6. Cardinality(H) \in Nat BY <1>3, FS_CardinalityType
<1>7. Cardinality(D) = pending[k] + Cardinality(E) BY <1>1, <1>2, <1>3, <1>4, <1>5, <1>6
<1> QED BY <1>7 DEF D, E

(***************************************************************************)
(* The sum hasAttemptRoomLocked adds up is the number of debts.            *)
(***************************************************************************)
Chosen(s) == CHOOSE k \in s : TRUE
Adding(f, p) == f = [s \in SUBSET SharedKeys |->
                       IF s = {} THEN 0 ELSE p[Chosen(s)] + f[s \ {Chosen(s)}]]

LEMMA InFlightIsDebts ==
  ASSUME Balanced
  PROVE  InFlight = Cardinality(Debts(SharedKeys))
<1> DEFINE h == [s \in SUBSET SharedKeys |-> Cardinality(Debts(s))]
           f == CHOOSE g : Adding(g, pending)
<1>1. InFlight = f[SharedKeys]
  BY DEF InFlight, MapThenSumSet, MapThenFoldSet, Adding, SharedKeys, Chosen
<1>2. Cardinality(Debts({})) = 0
  BY FS_EmptySet DEF Debts
<1>3. \A s \in SUBSET SharedKeys : s # {} =>
        Cardinality(Debts(s)) = pending[Chosen(s)] + Cardinality(Debts(s \ {Chosen(s)}))
  BY DebtsAddUp DEF Chosen
<1>4. Adding(h, pending)
  <2>1. \A s \in SUBSET SharedKeys : s \ {Chosen(s)} \in SUBSET SharedKeys
    OBVIOUS
  <2>2. \A s \in SUBSET SharedKeys : h[s] =
           IF s = {} THEN 0 ELSE pending[Chosen(s)] + h[s \ {Chosen(s)}]
    BY <1>2, <1>3, <2>1
  <2>3. h = [s \in SUBSET SharedKeys |-> h[s]] OBVIOUS
  <2> HIDE DEF h
  <2>4. h = [s \in SUBSET SharedKeys |->
               IF s = {} THEN 0 ELSE pending[Chosen(s)] + h[s \ {Chosen(s)}]]
    BY <2>2, <2>3
  <2> QED BY <2>4 DEF Adding
<1>5. Adding(f, pending)
  <2> HIDE DEF h
  <2> QED BY <1>4
<1> DEFINE Wrong == {n \in Nat : \E s \in SUBSET SharedKeys :
                                   Cardinality(s) = n /\ f[s] # Cardinality(Debts(s))}
<1>6. Wrong = {}
  <2> SUFFICES ASSUME Wrong # {} PROVE FALSE
    OBVIOUS
  <2> HIDE DEF f
  <2>1. PICK n \in Wrong : \A m \in Wrong : n <= m
    <3>1. Wrong \subseteq Nat OBVIOUS
    <3> HIDE DEF Wrong
    <3> QED BY <3>1, LeastNumber
  <2>2. PICK s \in SUBSET SharedKeys : Cardinality(s) = n /\ f[s] # Cardinality(Debts(s))
    BY <2>1
  <2>3. f[s] = IF s = {} THEN 0 ELSE pending[Chosen(s)] + f[s \ {Chosen(s)}]
    BY <1>5 DEF Adding
  <2>4. s # {} BY <1>2, <2>2, <2>3
  <2> DEFINE k == Chosen(s)
             r == s \ {k}
  <2>5. k \in s BY <2>4 DEF Chosen
  <2>6. r \in SUBSET SharedKeys OBVIOUS
  <2>7. IsFiniteSet(s) /\ Cardinality(s) \in Nat BY DebtsAreFinite
  <2>8. Cardinality(r) = Cardinality(s) - 1 /\ Cardinality(r) \in Nat
    BY <2>5, <2>6, <2>7, DebtsAreFinite, FS_RemoveElement
  <2>9. f[r] = Cardinality(Debts(r))
    <3>1. Cardinality(r) < n BY <2>2, <2>7, <2>8
    <3>2. n \in Nat BY <2>1
    <3>3. Cardinality(r) \notin Wrong
      <4> HIDE DEF Wrong, r
      <4> QED BY <2>1, <2>8, <3>1, <3>2
    <3> QED BY <2>6, <2>8, <3>3
  <2> QED BY <1>3, <2>2, <2>3, <2>4, <2>9
<1>7. \A s \in SUBSET SharedKeys : f[s] = Cardinality(Debts(s))
  BY <1>6, DebtsAreFinite
<1> QED BY <1>1, <1>7

---------------------------------------------------------------------------
\* Records and debts can be counted.
LEMMA TableIsFinite ==
  ASSUME TypeOK
  PROVE  \A S \in SUBSET SharedRecords(table) : IsFiniteSet(S) /\ Cardinality(S) \in Nat
<1> DEFINE C == (Attempts \X SharedKeys) \X BOOLEAN
           h == [r \in SharedRecords(table) |-> <<<<r.by, r.key>>, r.ok>>]
<1>1. IsFiniteSet(C)
  <2>1. IsFiniteSet(Attempts \X SharedKeys) BY KeysAreFinite, ConstantsAssumption, FS_Product
  <2>2. IsFiniteSet(BOOLEAN) BY FS_AddElement, FS_EmptySet, BOOLEAN = ({} \cup {TRUE}) \cup {FALSE}
  <2> QED BY <2>1, <2>2, FS_Product
<1>2. h \in Injection(SharedRecords(table), C)
  <2>1. \A r \in SharedRecords(table) : r \in [by : Attempts, key : Keys, ok : BOOLEAN] /\ r.key \in SharedKeys
    BY DEF TypeOK, SharedRecords, SharedKeys
  <2>2. h \in [SharedRecords(table) -> C] BY <2>1
  <2>3. \A x, y \in SharedRecords(table) : h[x] = h[y] => x = y
    <3> SUFFICES ASSUME NEW x \in SharedRecords(table), NEW y \in SharedRecords(table), h[x] = h[y]
                 PROVE  x = y
      OBVIOUS
    <3>1. x.by = y.by /\ x.key = y.key /\ x.ok = y.ok OBVIOUS
    <3> QED BY <2>1, <3>1
  <2> HIDE DEF h, C
  <2> QED BY <2>2, <2>3 DEF Injection, IsInjective
<1>3. IsFiniteSet(SharedRecords(table))
  <2> HIDE DEF h, C
  <2> QED BY <1>1, <1>2, FS_Injection
<1> QED BY <1>3, FS_Subset, FS_CardinalityType

\* Sizes of a union and of a part, for finite sets.
LEMMA UnionBound ==
  ASSUME NEW S, NEW T, IsFiniteSet(S), IsFiniteSet(T)
  PROVE  /\ IsFiniteSet(S \cup T)
         /\ Cardinality(S) \in Nat /\ Cardinality(T) \in Nat /\ Cardinality(S \cup T) \in Nat
         /\ Cardinality(S \cup T) <= Cardinality(S) + Cardinality(T)
         /\ S \cap T = {} => Cardinality(S \cup T) = Cardinality(S) + Cardinality(T)
<1>1. Cardinality(S \cup T) = Cardinality(S) + Cardinality(T) - Cardinality(S \cap T)
      /\ IsFiniteSet(S \cup T) /\ IsFiniteSet(S \cap T)
  BY FS_Union, FS_Intersection
<1>2. Cardinality(S) \in Nat /\ Cardinality(T) \in Nat /\ Cardinality(S \cap T) \in Nat
      /\ Cardinality(S \cup T) \in Nat
  BY <1>1, FS_CardinalityType
<1>3. S \cap T = {} => Cardinality(S \cap T) = 0
  BY FS_EmptySet
<1> QED BY <1>1, <1>2, <1>3

LEMMA OwedIsFinite ==
  \A t : /\ IsFiniteSet(Owed(t)) /\ Cardinality(Owed(t)) \in Nat
         /\ Cardinality(Owed(t)) <= Cardinality(Debts(SharedKeys))
<1> SUFFICES ASSUME NEW t
             PROVE  /\ IsFiniteSet(Owed(t)) /\ Cardinality(Owed(t)) \in Nat
                    /\ Cardinality(Owed(t)) <= Cardinality(Debts(SharedKeys))
  OBVIOUS
<1>1. IsFiniteSet(Debts(SharedKeys)) /\ Owed(t) \subseteq Debts(SharedKeys)
  BY DebtsAreFinite DEF Owed
<1> QED BY <1>1, FS_Subset, FS_CardinalityType

\* A step that writes nothing, lets nobody owe more and decides nothing anew keeps the room.
LEMMA RoomyKept ==
  ASSUME IInv, Roomy, IInv',
         \A a \in Attempts : held'[a] # {} /\ answer'[a] = None =>
            /\ held[a] # {} /\ answer[a] = None /\ at'[a] = at[a]
            /\ held'[a] \cap SharedKeys \subseteq held[a],
         \A r \in table' : Shared(r.key) => r \in table /\ at'[r.by] = at[r.by]
  PROVE  Roomy'
<1> SUFFICES ASSUME NEW a \in Attempts, held'[a] # {}, answer'[a] = None
             PROVE  Cardinality(Counted(at[a])') + Cardinality(Owed(at[a])') <= MaxRecords
  BY DEF Roomy
<1>1. held[a] # {} /\ answer[a] = None /\ at'[a] = at[a]
  OBVIOUS
<1>2. Cardinality(Counted(at[a])) + Cardinality(Owed(at[a])) <= MaxRecords
  BY <1>1 DEF Roomy
<1>3. Counted(at[a])' \subseteq Counted(at[a])
  BY <1>1 DEF Counted, SharedRecords, Recent
<1>4. Owed(at[a])' \subseteq Owed(at[a])
  <2> SUFFICES ASSUME NEW x \in Owed(at[a])' PROVE x \in Owed(at[a])
    OBVIOUS
  <2>1. /\ x \in Attempts \X SharedKeys /\ x[2] \in held'[x[1]] /\ answer'[x[1]] = None
        /\ at'[x[1]] <= at'[a]
    BY DEF Owed, Debts, SharedKeys
  <2>2. answer[x[1]] = None /\ at'[x[1]] = at[x[1]] /\ x[2] \in held[x[1]]
    BY <2>1
  <2> QED BY <1>1, <2>1, <2>2 DEF Owed, Debts
<1>5. Cardinality(Counted(at[a])') <= Cardinality(Counted(at[a]))
      /\ Cardinality(Counted(at[a])) \in Nat /\ Cardinality(Counted(at[a])') \in Nat
  <2>1. IsFiniteSet(Counted(at[a]))
    BY TableIsFinite DEF IInv, Counted
  <2> QED BY <1>3, <2>1, FS_Subset, FS_CardinalityType
<1>6. Cardinality(Owed(at[a])') <= Cardinality(Owed(at[a]))
      /\ Cardinality(Owed(at[a])) \in Nat /\ Cardinality(Owed(at[a])') \in Nat
  BY <1>4, OwedIsFinite, FS_Subset, FS_CardinalityType
<1>7. MaxRecords \in Nat BY ConstantsAssumption
<1> QED BY <1>1, <1>2, <1>5, <1>6, <1>7

\* The budgets a request reserves first are shared, and there is one at least.
LEMMA ReservedIsShared ==
  ASSUME NEW a \in Attempts
  PROVE  /\ Reserved(a) # {} /\ Reserved(a) \subseteq SharedKeys
         /\ ~Shared(Second(a))
         /\ IsFiniteSet({a} \X Reserved(a))
         /\ Cardinality({a} \X Reserved(a)) = Cardinality(Reserved(a))
         /\ Cardinality(Reserved(a)) \in Nat
<1>1. Reserved(a) # {}
  BY DEF Reserved
<1>2. Reserved(a) \subseteq SharedKeys
  <2>1. Shared(Ip(a)) /\ Shared(Begin(a)) /\ Shared(User(a))
    BY DEF Shared, Ip, Begin, User
  <2>2. Reserved(a) = {Ip(a), User(a)} \/ Reserved(a) = {Begin(a)} \/ Reserved(a) = {Ip(a)}
    BY DEF Reserved
  <2> QED BY <2>1, <2>2, BudgetsOf DEF SharedKeys
<1>3. IsFiniteSet(Reserved(a)) /\ Cardinality(Reserved(a)) \in Nat
  BY <1>2, KeysAreFinite, FS_Subset, FS_CardinalityType
<1>4. IsFiniteSet({a}) /\ Cardinality({a}) = 1
  BY FS_Singleton
<1>5. IsFiniteSet({a} \X Reserved(a)) /\ Cardinality({a} \X Reserved(a)) = 1 * Cardinality(Reserved(a))
  BY <1>3, <1>4, FS_Product
<1> QED BY <1>1, <1>2, <1>3, <1>5 DEF Shared, Second

\* A reservation that finds room leaves room for what the others still owe.
LEMMA RoomyReserved ==
  ASSUME IInv, Roomy, NEW a \in Attempts, HasRoom(Cardinality(Reserved(a)), at[a]), held[a] = {},
         held' = [held EXCEPT ![a] = Reserved(a)], UNCHANGED <<kind, answer, table, at>>
  PROVE  Roomy'
<1> SUFFICES ASSUME NEW b \in Attempts, held'[b] # {}, answer[b] = None
             PROVE  Cardinality(Counted(at[b])') + Cardinality(Owed(at[b])') <= MaxRecords
  BY DEF Roomy
<1>0. at \in [Attempts -> Nat] /\ held \in [Attempts -> SUBSET Keys]
      /\ table \subseteq [by : Attempts, key : Keys, ok : BOOLEAN]
  BY DEF IInv, TypeOK
<1>1. Counted(at[b])' = Counted(at[b])
  BY DEF Counted, SharedRecords, Recent
<1>2. CASE at[b] < at[a]
  <2>1. b # a BY <1>0, <1>2
  <2>2. held[b] # {} BY <1>0, <2>1
  <2>3. Owed(at[b])' = Owed(at[b])
    <3>1. ASSUME NEW x \in Attempts \X SharedKeys, at[x[1]] <= at[b]
          PROVE  held'[x[1]] = held[x[1]]
      BY <1>0, <1>2, <3>1
    <3> QED BY <3>1 DEF Owed, Debts, SharedKeys
  <2> QED BY <1>1, <2>2, <2>3 DEF Roomy
<1>3. CASE at[a] <= at[b]
  <2> DEFINE C == Counted(at[a])
             D == Debts(SharedKeys)
             N == {a} \X Reserved(a)
  <2>1. Cardinality(C) + Cardinality(D) + Cardinality(Reserved(a)) <= MaxRecords
    BY InFlightIsDebts DEF IInv, HasRoom, Counted
  <2>2. Counted(at[b]) \subseteq C
    BY <1>0, <1>3, ConstantsAssumption DEF Counted, Recent, SharedRecords
  <2>3. Owed(at[b])' \subseteq D \cup N
    BY <1>0 DEF Owed, Debts, SharedKeys
  <2>4. IsFiniteSet(C) /\ Cardinality(C) \in Nat
    BY TableIsFinite DEF IInv, Counted
  <2>5. IsFiniteSet(D) /\ Cardinality(D) \in Nat
    BY DebtsAreFinite
  <2>6. IsFiniteSet(N) /\ Cardinality(N) = Cardinality(Reserved(a)) /\ Cardinality(N) \in Nat
    BY ReservedIsShared
  <2> HIDE DEF C, D, N
  <2>7. IsFiniteSet(D \cup N) /\ Cardinality(D \cup N) <= Cardinality(D) + Cardinality(N)
        /\ Cardinality(D \cup N) \in Nat
    BY <2>5, <2>6, UnionBound
  <2>8. Cardinality(Owed(at[b])') <= Cardinality(D \cup N) /\ Cardinality(Owed(at[b])') \in Nat
    BY <2>3, <2>7, FS_Subset, FS_CardinalityType
  <2>9. Cardinality(Counted(at[b])) <= Cardinality(C) /\ Cardinality(Counted(at[b])) \in Nat
    BY <2>2, <2>4, FS_Subset, FS_CardinalityType
  <2>10. MaxRecords \in Nat BY ConstantsAssumption
  <2> QED BY <1>1, <2>1, <2>4, <2>5, <2>6, <2>7, <2>8, <2>9, <2>10
<1> QED BY <1>0, <1>2, <1>3

\* The records of an outcome are no more than the budgets reserved for them, but
\* for the success of a passkey login.
LEMMA NewRecordsOwed ==
  ASSUME NEW a \in Attempts, verdict[a] = "right" => kind[a] = "password",
         verdict[a] = "second" => kind[a] = "passkey"
  PROVE  /\ \A r \in NewRecords(a) : r.by = a
         /\ IsFiniteSet(NewRecords(a)) /\ Cardinality(NewRecords(a)) <= Cardinality(Reserved(a))
<1> DEFINE N == NewRecords(a)
           g == [r \in N |-> r.key]
<1>1. \A k : Success(a, k).by = a /\ Success(a, k).key = k /\ Failure(a, k).by = a /\ Failure(a, k).key = k
  BY DEF Success, Failure
<1>2. PICK K \in SUBSET Reserved(a) : N = {Success(a, k) : k \in K} \/ N = {Failure(a, k) : k \in K}
  <2>1. CASE verdict[a] = "right"
    <3>1. Cleared(a) = Reserved(a) BY <2>1 DEF Cleared, Reserved
    <3>2. N = {Success(a, k) : k \in Reserved(a)} BY <2>1, <3>1 DEF NewRecords
    <3> QED BY <3>2
  <2>2. CASE verdict[a] = "second"
    <3>1. {Ip(a)} \subseteq Reserved(a) BY <2>2 DEF Reserved
    <3>2. N = {Failure(a, k) : k \in {Ip(a)}} BY <2>2 DEF NewRecords
    <3> QED BY <3>1, <3>2
  <2>3. CASE verdict[a] # "right" /\ verdict[a] # "second"
    <3>1. N = {Failure(a, k) : k \in Reserved(a)} BY <2>3 DEF NewRecords
    <3> QED BY <3>1
  <2> QED BY <2>1, <2>2, <2>3
<1>3. IsFiniteSet(Reserved(a))
  BY ReservedIsShared, KeysAreFinite, FS_Subset
<1>4. (\A r \in N : r.by = a) /\ g \in Injection(N, Reserved(a))
  <2> HIDE DEF N
  <2>1. \A r \in N : r.by = a /\ r.key \in Reserved(a) BY <1>1, <1>2
  <2>2. \A r, s \in N : r.key = s.key => r = s BY <1>1, <1>2
  <2> QED BY <2>1, <2>2 DEF Injection, IsInjective
<1>5. IsFiniteSet(N) /\ Cardinality(N) <= Cardinality(Reserved(a))
  <2> HIDE DEF g, N
  <2> QED BY <1>3, <1>4, FS_Injection
<1> QED BY <1>4, <1>5

\* What a request that still owes records of its own leaves for its records.
LEMMA RoomForOwn ==
  ASSUME IInv, Roomy, NEW a \in Attempts, answer[a] = None, Reserved(a) \subseteq held[a],
         NEW c \in Attempts, held[c] # {}, answer[c] = None, at[a] <= at[c],
         NEW R, R \subseteq Owed(at[c]) \ ({a} \X Reserved(a))
  PROVE  /\ IsFiniteSet(R) /\ Cardinality(R) \in Nat
         /\ Cardinality(Counted(at[c])) + Cardinality(R) + Cardinality(Reserved(a)) <= MaxRecords
<1> DEFINE N == {a} \X Reserved(a)
           W == Owed(at[c])
           C == Counted(at[c])
<1>1. Cardinality(C) + Cardinality(W) <= MaxRecords
  BY DEF Roomy
<1>2. N \subseteq W
  BY ReservedIsShared DEF Owed, Debts
<1>3. IsFiniteSet(W) /\ Cardinality(W) \in Nat
  BY OwedIsFinite
<1>4. IsFiniteSet(N) /\ Cardinality(N) = Cardinality(Reserved(a)) /\ Cardinality(N) \in Nat
  BY ReservedIsShared
<1>5. IsFiniteSet(C) /\ Cardinality(C) \in Nat
  BY TableIsFinite DEF IInv, Counted
<1> HIDE DEF N, W, C
<1>6. R \cap N = {} /\ R \cup N \subseteq W
  BY <1>2 DEF N, W
<1>7. IsFiniteSet(R) /\ Cardinality(R) \in Nat
  BY <1>3, <1>6, FS_Subset, FS_CardinalityType
<1>8. Cardinality(R \cup N) = Cardinality(R) + Cardinality(N)
  BY <1>4, <1>6, <1>7, UnionBound
<1>9. Cardinality(R \cup N) <= Cardinality(W)
  BY <1>3, <1>6, FS_Subset
<1>10. MaxRecords \in Nat BY ConstantsAssumption
<1>11. Cardinality(C) + Cardinality(R) + Cardinality(Reserved(a)) <= MaxRecords
  BY <1>1, <1>3, <1>4, <1>5, <1>7, <1>8, <1>9, <1>10
<1> QED BY <1>7, <1>11 DEF C

\* The outcome of a request that has reserved fits, and leaves the others their room.
LEMMA RoomyRecorded ==
  ASSUME IInv, Roomy, NEW a \in Attempts, answer[a] = None, Reserved(a) \subseteq held[a],
         NEW R, \A r \in R : r.by = a, IsFiniteSet(R), Cardinality(R) <= Cardinality(Reserved(a))
  PROVE  /\ Fits(With(R, a))
         /\ table' = With(R, a) /\ answer'[a] # None /\ UNCHANGED <<at, held, kind>>
              /\ (\A b \in Attempts \ {a} : answer'[b] = answer[b])
            => Roomy'
<1>0. at \in [Attempts -> Nat] /\ held \in [Attempts -> SUBSET Keys]
      /\ table \subseteq [by : Attempts, key : Keys, ok : BOOLEAN]
  BY DEF IInv, TypeOK
<1>1. held[a] # {} BY ReservedIsShared
<1>2. Cardinality(R) \in Nat /\ Cardinality(Reserved(a)) \in Nat /\ MaxRecords \in Nat
  BY FS_CardinalityType, ReservedIsShared, ConstantsAssumption
<1>3. ASSUME NEW S, NEW C \in SUBSET SharedRecords(table), S \subseteq C \cup R
      PROVE  /\ Cardinality(S) \in Nat /\ Cardinality(C) \in Nat
             /\ Cardinality(S) <= Cardinality(C) + Cardinality(Reserved(a))
  <2>1. IsFiniteSet(C) /\ Cardinality(C) \in Nat
    BY TableIsFinite DEF IInv
  <2>2. IsFiniteSet(C \cup R) /\ Cardinality(C \cup R) <= Cardinality(C) + Cardinality(R)
        /\ Cardinality(C \cup R) \in Nat
    BY <2>1, UnionBound
  <2>3. Cardinality(S) <= Cardinality(C \cup R) /\ Cardinality(S) \in Nat
    BY <1>3, <2>2, FS_Subset, FS_CardinalityType
  <2> QED BY <1>2, <2>1, <2>2, <2>3
<1>4. Fits(With(R, a))
  <2>1. SharedRecords(With(R, a)) \subseteq Counted(at[a]) \cup R
    BY DEF SharedRecords, With, Counted
  <2>2. Counted(at[a]) \in SUBSET SharedRecords(table)
    BY DEF Counted
  <2>3. Cardinality(Counted(at[a])) + Cardinality({}) + Cardinality(Reserved(a)) <= MaxRecords
    BY <1>0, <1>1, RoomForOwn
  <2>4. Cardinality({}) = 0 BY FS_EmptySet
  <2>5. Cardinality(SharedRecords(With(R, a))) \in Nat /\ Cardinality(Counted(at[a])) \in Nat
        /\ Cardinality(SharedRecords(With(R, a))) <= Cardinality(Counted(at[a])) + Cardinality(Reserved(a))
    BY <1>3, <2>1, <2>2
  <2> QED BY <1>2, <2>3, <2>4, <2>5 DEF Fits
<1>5. ASSUME table' = With(R, a), answer'[a] # None, UNCHANGED <<at, held, kind>>,
             \A b \in Attempts \ {a} : answer'[b] = answer[b],
             NEW b \in Attempts, held[b] # {}, answer'[b] = None
      PROVE  Cardinality(Counted(at[b])') + Cardinality(Owed(at[b])') <= MaxRecords
  <2>1. b # a /\ answer[b] = None
    BY <1>5
  <2>2. PICK c \in {a, b} : at[a] <= at[c] /\ at[b] <= at[c]
    <3>1. at[a] <= at[b] \/ at[b] <= at[a] BY <1>0
    <3>2. at[a] <= at[a] /\ at[b] <= at[b] BY <1>0
    <3> QED BY <3>1, <3>2
  <2>3. c \in Attempts /\ held[c] # {} /\ answer[c] = None
    BY <1>1, <1>5, <2>1, <2>2
  <2>4. Owed(at[b])' \subseteq Owed(at[c]) \ ({a} \X Reserved(a))
    <3> SUFFICES ASSUME NEW x \in Owed(at[b])' PROVE x \in Owed(at[c]) \ ({a} \X Reserved(a))
      OBVIOUS
    <3>1. /\ x \in Attempts \X SharedKeys /\ x[2] \in held[x[1]] /\ answer'[x[1]] = None
          /\ at[x[1]] <= at[b]
      BY <1>5 DEF Owed, Debts, SharedKeys
    <3>2. x[1] \in Attempts /\ x[1] # a
      BY <1>5, <3>1
    <3>3. answer[x[1]] = None
      BY <1>5, <3>1, <3>2
    <3>4. at[x[1]] <= at[c]
      BY <1>0, <2>2, <2>3, <3>1, <3>2
    <3>5. x \in Owed(at[c])
      BY <3>1, <3>3, <3>4 DEF Owed, Debts
    <3> QED BY <3>2, <3>5
  <2>5. Counted(at[b])' \subseteq Counted(at[c]) \cup R
    <3> SUFFICES ASSUME NEW r \in Counted(at[b])', r \notin R PROVE r \in Counted(at[c])
      OBVIOUS
    <3>1. r \in table /\ Shared(r.key) /\ Recent(r, at[a]) /\ at[r.by] + Window > at[b]
      BY <1>5 DEF Counted, SharedRecords, Recent, With
    <3>2. Recent(r, at[c])
      BY <2>2, <3>1 DEF Recent
    <3> QED BY <3>1, <3>2 DEF Counted, SharedRecords
  <2>6. Counted(at[c]) \in SUBSET SharedRecords(table)
    BY DEF Counted
  <2>7. /\ Cardinality(Owed(at[b])') \in Nat
        /\ Cardinality(Counted(at[c])) + Cardinality(Owed(at[b])') + Cardinality(Reserved(a)) <= MaxRecords
    BY <2>2, <2>3, <2>4, RoomForOwn
  <2>8. /\ Cardinality(Counted(at[b])') \in Nat /\ Cardinality(Counted(at[c])) \in Nat
        /\ Cardinality(Counted(at[b])') <= Cardinality(Counted(at[c])) + Cardinality(Reserved(a))
    BY <1>3, <2>5, <2>6
  <2> QED BY <1>2, <2>7, <2>8
<1>6. table' = With(R, a) /\ answer'[a] # None /\ UNCHANGED <<at, held, kind>>
        /\ (\A b \in Attempts \ {a} : answer'[b] = answer[b]) => Roomy'
  BY <1>5 DEF Roomy
<1> QED BY <1>4, <1>6

\* Requests that begin a passkey login never reach its comparison; a verdict stands.
Begins == \A a \in Attempts : kind[a] = "begin" =>
            verdict[a] = None /\ pc[a] \notin {"slot", "lock", "second"}

LEMMA BeginsStep == IInv /\ Begins /\ [Next]_vars => Begins'
<1> SUFFICES ASSUME IInv, Begins, [Next]_vars PROVE Begins'
  OBVIOUS
<1> USE DEF IInv, TypeOK, Begins
<1>1. ASSUME NEW a \in Attempts, Reserve(a) PROVE Begins'
  BY <1>1 DEF Reserve, Goto
<1>2. ASSUME NEW a \in Attempts, Arrive(a) \/ TakeSlot(a) \/ Leave(a) PROVE Begins'
  BY <1>2 DEF Arrive, TakeSlot, Leave, Goto
<1>3. ASSUME NEW a \in Attempts, VerifyPassword(a) \/ VerifyPasskey(a) PROVE Begins'
  BY <1>3 DEF VerifyPassword, VerifyPasskey, Goto
<1>4. ASSUME NEW a \in Attempts, RecordSecond(a) \/ Record(a) PROVE Begins'
  BY <1>4 DEF RecordSecond, Record, Goto
<1>5. ASSUME Tick \/ Crash \/ UNCHANGED vars PROVE Begins'
  BY <1>5 DEF Tick, Crash, vars
<1> QED BY <1>1, <1>2, <1>3, <1>4, <1>5 DEF Next, Serve

LEMMA PasskeyInStays == IInv /\ [Next]_vars /\ PasskeyIn => PasskeyIn'
<1> SUFFICES ASSUME IInv, [Next]_vars PROVE PasskeyIn => PasskeyIn'
  OBVIOUS
<1> USE DEF IInv, TypeOK, PasskeyIn
<1>1. kind' = kind
  BY DEF Next, Serve, Arrive, Reserve, TakeSlot, VerifyPassword, VerifyPasskey, RecordSecond, Record,
         Leave, Tick, Crash, vars
<1>2. ASSUME NEW a \in Attempts, VerifyPassword(a) \/ VerifyPasskey(a) PROVE PasskeyIn => PasskeyIn'
  <2>1. verdict[a] = None /\ None # "right"
    BY <1>2, ConstantsAssumption DEF VerifyPassword, VerifyPasskey, Verdicts
  <2>2. \A b \in Attempts \ {a} : verdict'[b] = verdict[b]
    BY <1>2 DEF VerifyPassword, VerifyPasskey
  <2> QED BY <1>1, <2>1, <2>2
<1>3. ASSUME UNCHANGED verdict PROVE PasskeyIn => PasskeyIn'
  BY <1>1, <1>3
<1>4. ASSUME NEW a \in Attempts,
             Arrive(a) \/ Reserve(a) \/ TakeSlot(a) \/ RecordSecond(a) \/ Record(a) \/ Leave(a)
      PROVE  UNCHANGED verdict
  BY <1>4 DEF Arrive, Reserve, TakeSlot, RecordSecond, Record, Leave
<1>5. ASSUME Tick \/ Crash \/ UNCHANGED vars PROVE UNCHANGED verdict
  BY <1>5 DEF Tick, Crash, vars
<1> QED BY <1>2, <1>3, <1>4, <1>5 DEF Next, Serve

LEMMA ArrivedStep == IInv /\ Arrived /\ [Next]_vars => Arrived'
<1> SUFFICES ASSUME IInv, Arrived, [Next]_vars PROVE Arrived'
  OBVIOUS
<1> USE DEF IInv, TypeOK, Arrived
<1>1. ASSUME NEW a \in Attempts,
             Arrive(a) \/ Reserve(a) \/ TakeSlot(a) \/ VerifyPassword(a) \/ VerifyPasskey(a) \/ Leave(a)
      PROVE  Arrived'
  <2>1. table' = table /\ \A b \in Attempts : pc[b] # "new" => pc'[b] # "new"
    BY <1>1 DEF Arrive, Reserve, TakeSlot, VerifyPassword, VerifyPasskey, Leave, Goto
  <2> QED BY <2>1
<1>2. ASSUME NEW a \in Attempts, RecordSecond(a) \/ Record(a) PROVE Arrived'
  <2>1. \A r \in table' : r \in table \/ r.by = a
    BY <1>2 DEF RecordSecond, Record, With, NewRecords, Success, Failure
  <2>2. pc'[a] # "new" /\ \A b \in Attempts : pc[b] # "new" => pc'[b] # "new"
    BY <1>2 DEF RecordSecond, Record, Goto
  <2>3. \A r \in table : r.by \in Attempts
    OBVIOUS
  <2> QED BY <2>1, <2>2, <2>3
<1>3. ASSUME Tick \/ Crash \/ UNCHANGED vars PROVE Arrived'
  BY <1>3 DEF Tick, Crash, vars
<1> QED BY <1>1, <1>2, <1>3 DEF Next, Serve

NeverFull == \A a \in Attempts : answer[a] # "full"

LEMMA RoomyStep ==
  ASSUME IInv, Arrived, Begins, Roomy, NeverFull, ~PasskeyIn, [Next]_vars
  PROVE  Roomy' /\ NeverFull'
<1> USE ConstantsAssumption
<1>0. TypeOK /\ IInv' BY StepKeepsIInv DEF IInv
\* An answer other than full, and no new debts or records.
<1>k. ASSUME \A b \in Attempts : held'[b] # {} /\ answer'[b] = None =>
                /\ held[b] # {} /\ answer[b] = None /\ at'[b] = at[b]
                /\ held'[b] \cap SharedKeys \subseteq held[b],
             \A r \in table' : Shared(r.key) => r \in table /\ at'[r.by] = at[r.by],
             \A b \in Attempts : answer'[b] # "full"
      PROVE  Roomy' /\ NeverFull'
  BY <1>0, <1>k, RoomyKept DEF NeverFull
<1>1. ASSUME NEW a \in Attempts, Arrive(a) PROVE Roomy' /\ NeverFull'
  <2>1. held[a] = {} /\ \A b \in Attempts \ {a} : at'[b] = at[b]
    BY <1>0, <1>1 DEF Arrive, IInv, Places, TypeOK
  <2>2. \A r \in table : r.by \in Attempts /\ r.by # a
    BY <1>0, <1>1 DEF Arrive, Arrived, TypeOK
  <2> QED BY <1>1, <1>k, <2>1, <2>2 DEF Arrive, NeverFull
<1>2. ASSUME NEW a \in Attempts, Reserve(a) PROVE Roomy' /\ NeverFull'
  <2>1. CASE HasBudget(a) /\ HasRoom(Cardinality(Reserved(a)), at[a])
    <3>1. held[a] = {} BY <1>2 DEF Reserve, IInv, Places
    <3>2. held' = [held EXCEPT ![a] = Reserved(a)] /\ UNCHANGED <<kind, answer, table, at>>
      BY <1>2, <2>1 DEF Reserve
    <3> QED BY <2>1, <3>1, <3>2, RoomyReserved DEF NeverFull
  <2>2. CASE ~(HasBudget(a) /\ HasRoom(Cardinality(Reserved(a)), at[a]))
    <3>1. answer' = [answer EXCEPT ![a] = "limited"] /\ UNCHANGED <<held, at, table>>
      BY <1>2, <2>2 DEF Reserve, Answer
    <3>2. "limited" # None BY DEF Answers
    <3> QED BY <1>0, <1>k, <3>1, <3>2 DEF NeverFull, TypeOK
  <2> QED BY <2>1, <2>2
<1>3. ASSUME NEW a \in Attempts, TakeSlot(a) \/ VerifyPassword(a) PROVE Roomy' /\ NeverFull'
  <2>1. /\ UNCHANGED <<held, at, table>>
        /\ answer' = answer \/ answer' = [answer EXCEPT ![a] = "busy"]
             \/ answer' = [answer EXCEPT ![a] = "limited"] \/ answer' = [answer EXCEPT ![a] = "half"]
    BY <1>3 DEF TakeSlot, VerifyPassword, Answer
  <2>2. "limited" # None /\ "busy" # None /\ "half" # None BY DEF Answers
  <2> QED BY <1>0, <1>k, <2>1, <2>2 DEF NeverFull, TypeOK
<1>4. ASSUME NEW a \in Attempts, VerifyPasskey(a) PROVE Roomy' /\ NeverFull'
  <2>1. held[a] # {} /\ Second(a) \notin SharedKeys
    BY <1>4, ReservedIsShared DEF VerifyPasskey, IInv, Places, SharedKeys
  <2>2. /\ UNCHANGED <<at, table>>
        /\ held' = held \/ held' = [held EXCEPT ![a] = @ \cup {Second(a)}]
        /\ answer' = answer \/ answer' = [answer EXCEPT ![a] = "limited"]
    BY <1>4 DEF VerifyPasskey, Answer
  <2>3. "limited" # None BY DEF Answers
  <2>4. \A b \in Attempts : held'[b] # {} /\ answer'[b] = None =>
          held[b] # {} /\ answer[b] = None /\ held'[b] \cap SharedKeys \subseteq held[b]
    BY <1>0, <2>1, <2>2, <2>3 DEF TypeOK
  <2> QED BY <1>0, <1>k, <2>2, <2>4 DEF NeverFull, TypeOK
<1>5. ASSUME NEW a \in Attempts, RecordSecond(a) PROVE Roomy' /\ NeverFull'
  <2>1. ~Shared(Failure(a, Second(a)).key)
    BY ReservedIsShared DEF Failure
  <2>2. \A r \in table' : Shared(r.key) => r \in table
    BY <1>5, <2>1 DEF RecordSecond, With
  <2>3. UNCHANGED <<held, at>> /\ (answer' = answer \/ answer' = [answer EXCEPT ![a] = "error"])
    BY <1>5 DEF RecordSecond, Answer
  <2>4. "error" # None BY DEF Answers
  <2> QED BY <1>0, <1>k, <2>2, <2>3, <2>4 DEF NeverFull, TypeOK
<1>6. ASSUME NEW a \in Attempts, Record(a) PROVE Roomy' /\ NeverFull'
  <2>1. answer[a] = None /\ Reserved(a) \subseteq held[a]
    BY <1>6 DEF Record, IInv, Places
  <2>2. (verdict[a] = "right" => kind[a] = "password") /\ (verdict[a] = "second" => kind[a] = "passkey")
    <3>1. kind[a] \in Kinds BY <1>0 DEF TypeOK
    <3> QED BY <3>1 DEF PasskeyIn, Begins, IInv, Verdicts, Kinds
  <2>3. \A r \in NewRecords(a) : r.by = a
    BY <2>2, NewRecordsOwed
  <2>4. IsFiniteSet(NewRecords(a)) /\ Cardinality(NewRecords(a)) <= Cardinality(Reserved(a))
    BY <2>2, NewRecordsOwed
  <2> DEFINE N == NewRecords(a)
  <2> HIDE DEF N
  <2>5. /\ Fits(With(N, a))
        /\ table' = With(N, a) /\ answer'[a] # None /\ UNCHANGED <<at, held, kind>>
              /\ (\A b \in Attempts \ {a} : answer'[b] = answer[b])
            => Roomy'
    BY <2>1, <2>3, <2>4, RoomyRecorded DEF N
  <2>6. UNCHANGED <<at, held, kind>>
    BY <1>6 DEF Record
  <2>7. \/ table' = With(N, a) /\ answer' = [answer EXCEPT ![a] = Outcome(a)]
        \/ table' = table /\ answer' = [answer EXCEPT ![a] = "error"]
    BY <1>6, <2>5 DEF Record, Answer, N
  <2>8. Outcome(a) \in {"in", "begun", "refused"} /\ "error" # None /\ Outcome(a) # None
    BY DEF Outcome, Answers
  <2>9. CASE table' = With(N, a) /\ answer' = [answer EXCEPT ![a] = Outcome(a)]
    <3>1. answer'[a] = Outcome(a) /\ \A b \in Attempts \ {a} : answer'[b] = answer[b]
      BY <1>0, <2>9 DEF TypeOK
    <3> QED BY <2>5, <2>6, <2>8, <2>9, <3>1 DEF NeverFull
  <2>10. CASE table' = table /\ answer' = [answer EXCEPT ![a] = "error"]
    BY <1>0, <1>k, <2>6, <2>8, <2>10 DEF NeverFull, TypeOK
  <2> QED BY <2>7, <2>9, <2>10
<1>7. ASSUME NEW a \in Attempts, Leave(a) PROVE Roomy' /\ NeverFull'
  BY <1>0, <1>7, <1>k DEF Leave, NeverFull, TypeOK
<1>8. ASSUME Tick \/ UNCHANGED vars PROVE Roomy' /\ NeverFull'
  BY <1>8, <1>k DEF Tick, vars, NeverFull
<1>9. ASSUME Crash PROVE Roomy' /\ NeverFull'
  BY <1>0, <1>9, <1>k DEF Crash, NeverFull, TypeOK
<1> QED BY <1>1, <1>2, <1>3, <1>4, <1>5, <1>6, <1>7, <1>8, <1>9 DEF Next, Serve

(***************************************************************************)
(* A request whose credentials were compared finds room for its record:    *)
(* the table turns nobody away after the comparison until a passkey login  *)
(* has written the success record it had not reserved.                     *)
(***************************************************************************)
THEOREM RoomIsKept == Spec => []RoomKept
<1> DEFINE Inv == Arrived /\ Begins /\ (PasskeyIn \/ (Roomy /\ NeverFull))
<1>1. Init => Inv
  <2> SUFFICES ASSUME Init PROVE Inv
    OBVIOUS
  <2> USE ConstantsAssumption DEF Init
  <2>1. Arrived /\ Begins BY DEF Arrived, Begins
  <2>2. Roomy /\ NeverFull BY DEF Roomy, NeverFull, Answers
  <2> QED BY <2>1, <2>2
<1>2. IInv /\ Inv /\ [Next]_vars => Inv'
  BY ArrivedStep, BeginsStep, PasskeyInStays, RoomyStep
<1>3. Inv => RoomKept
  BY DEF RoomKept, PasskeyIn, NeverFull
<1> QED BY <1>1, <1>2, <1>3, IInvHolds, PTL DEF Spec
=============================================================================
