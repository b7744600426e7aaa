--------------------------- MODULE LoginThrottle ---------------------------
(***************************************************************************)
(* How paneld limits guessing at its login (auth/service.go,               *)
(* auth/passkey.go, auth/compute_budget.go and the login attempts kept by  *)
(* store/store.go).                                                        *)
(*                                                                         *)
(* A login request is served by a goroutine of its own.  Under loginMu it  *)
(* RESERVES one guess of each budget it could spend, counting what others  *)
(* have reserved and not settled; then it may be turned away (no hash      *)
(* slot, no password work left), or its credentials are compared and the   *)
(* outcome is RECORDED in the bounded table of the store, each record      *)
(* dated with the time the request ARRIVED; last, it gives back what it    *)
(* reserved.  The reservations, the hash slots and the work budget live in *)
(* memory and are lost in a crash; the table is on disk.                   *)
(***************************************************************************)
EXTENDS Integers, FiniteSets, FiniteSetsExt

CONSTANTS
  Attempts,      \* the login requests, each served once
  MayBe,         \* which kinds of request each may be
  Source,        \* loginSource: the address, or the IPv6 prefix, it came from
  Account,       \* the user name it is for
  MaxFailures,   \* config.MaxLoginFailures
  AccountFactor, \* accountFailureLimitMultiplier
  MaxRecords,    \* maxLoginAttempts: shared records the table holds
  MaxSources,    \* maxComputeSources
  HashSlots,     \* config.MaxConcurrentHashes
  Window,        \* config.LoginWindow
  MaxNow,        \* bound of the clock
  None

\* Login, BeginLogin and FinishLogin.
Kinds   == {"password", "begin", "passkey"}
Answers == {"limited", "busy", "refused", "half", "begun", "in", "full", "error"}

ASSUME ConstantsAssumption ==
  /\ IsFiniteSet(Attempts)
  /\ MayBe \in [Attempts -> SUBSET Kinds]
  /\ DOMAIN Source = Attempts /\ DOMAIN Account = Attempts
  /\ MaxFailures \in Nat \ {0} /\ AccountFactor \in Nat \ {0}
  /\ MaxRecords \in Nat /\ MaxSources \in Nat
  /\ HashSlots \in Nat \ {0} /\ Window \in Nat \ {0} /\ MaxNow \in Nat
  /\ None \notin Answers \cup {"wrong", "right", "half", "second"}

VARIABLES
  kind,     \* what each request is, which never changes
  now,      \* the clock
  pc,       \* where the goroutine of each request is
  at,       \* when each request arrived
  held,     \* the budgets it has reserved and not given back
  pending,  \* s.pending: reservations per budget
  verdict,  \* what the comparison of its credentials found
  answer,   \* what the request is answered
  table,    \* data.LoginAttempts, on disk
  compute   \* s.compute: password work admitted per source

vars == <<kind, now, pc, at, held, pending, verdict, answer, table, compute>>

---------------------------------------------------------------------------
\* The budgets.

Ip(a)     == <<"ip", Source[a]>>
Begin(a)  == <<"begin", Source[a]>>
User(a)   == <<"account", Account[a]>>
Second(a) == <<"second", Account[a]>>

Keys    == UNION {{Ip(a), Begin(a), User(a), Second(a)} : a \in Attempts}
Sources == {Source[a] : a \in Attempts}

\* UserScopedLoginAttempt: the second-factor budget has capacity of its own.
Shared(k) == k[1] # "second"

Limit(k) == CASE k[1] = "ip"    -> MaxFailures
              [] k[1] = "begin" -> 2 * MaxFailures
              [] OTHER          -> MaxFailures * AccountFactor

\* What a request reserves before any of its credentials is looked at.
Reserved(a) == CASE kind[a] = "password" -> {Ip(a), User(a)}
                 [] kind[a] = "begin"    -> {Begin(a)}
                 [] OTHER                -> {Ip(a)}

\* The budgets a failure is charged to, and those a success clears.
Charged(a) == IF verdict[a] = "second" THEN {Ip(a), Second(a)} ELSE Reserved(a)
Cleared(a) == {Ip(a), User(a)}

---------------------------------------------------------------------------
\* The table of login attempts.

Failure(a, k) == [by |-> a, key |-> k, ok |-> FALSE]
Success(a, k) == [by |-> a, key |-> k, ok |-> TRUE]

\* The record is dated after t - Window.
Recent(r, t) == at[r.by] + Window > t

\* FailedLoginCount: the failures of k since t - Window and its last success.
Failures(k, t) ==
  {r \in table : /\ r.key = k /\ ~r.ok /\ Recent(r, t)
                 /\ \A s \in table : s.key = k /\ s.ok /\ Recent(s, t) => at[s.by] < at[r.by]}

SharedRecords(R) == {r \in R : Shared(r.key)}

InFlight == MapThenSumSet(LAMBDA k : pending[k], {k \in Keys : Shared(k)})

\* Wrong: room is checked for the records there are, not for those still to come.
HasRoomNow(n, t) == Cardinality({r \in SharedRecords(table) : Recent(r, t)}) + n <= MaxRecords

\* hasAttemptRoomLocked: room for n records more, after those of the requests in flight.
HasRoom(n, t) ==
  Cardinality({r \in SharedRecords(table) : Recent(r, t)}) + InFlight + n <= MaxRecords

\* The table after request a has added the records R: what is too old for a is dropped.
With(R, a) == {r \in table : Recent(r, at[a])} \cup R
Fits(T)    == Cardinality(SharedRecords(T)) <= MaxRecords

---------------------------------------------------------------------------
\* The hash slots and credentialMu, which a request holds until it leaves.

Inside(a) == pc[a] \in {"second", "record"} \/ (pc[a] = "leave" /\ answer[a] # "busy")

HoldsSlot(a) == kind[a] = "password" /\ (pc[a] = "lock" \/ Inside(a))

\* A password login shares credentialMu, a passkey login excludes everyone.
Excludes(a, b) == kind[a] = "passkey" \/ kind[b] = "passkey"
MayLock(a) == \A b \in Attempts \ {a} : kind[b] # "begin" /\ Inside(b) => ~Excludes(a, b)

\* The password work a source has been admitted to in its present window.
Live(s) == compute[s].used > 0 /\ compute[s].start + Window > now

MayCompute(s) == IF Live(s) THEN compute[s].used < 2 * MaxFailures
                 ELSE Cardinality({x \in Sources : Live(x)}) < MaxSources

\* admitPasswordComputation, which forgets the windows that are over.
Charge(s) ==
  [x \in Sources |-> CASE x # s /\ Live(x)  -> compute[x]
                       [] x # s /\ ~Live(x) -> [start |-> 0, used |-> 0]
                       [] x = s /\ Live(s)  -> [start |-> compute[s].start, used |-> compute[s].used + 1]
                       [] OTHER             -> [start |-> now, used |-> 1]]

---------------------------------------------------------------------------
Init ==
  /\ kind \in {f \in [Attempts -> Kinds] : \A a \in Attempts : f[a] \in MayBe[a]}
  /\ now = 0
  /\ pc = [a \in Attempts |-> "new"]
  /\ at = [a \in Attempts |-> 0]
  /\ held = [a \in Attempts |-> {}]
  /\ pending = [k \in Keys |-> 0]
  /\ verdict = [a \in Attempts |-> None]
  /\ answer = [a \in Attempts |-> None]
  /\ table = {}
  /\ compute = [s \in Sources |-> [start |-> 0, used |-> 0]]

Goto(a, l) == pc' = [pc EXCEPT ![a] = l]
Answer(a, v) == answer' = [answer EXCEPT ![a] = v]

Arrive(a) ==
  /\ pc[a] = "new"
  /\ at' = [at EXCEPT ![a] = now]
  /\ Goto(a, "reserve")
  /\ UNCHANGED <<kind, now, held, pending, verdict, answer, table, compute>>

\* Wrong: the reservations of the requests in flight are not counted.
HasBudgetUnreserved(a) == \A k \in Reserved(a) : Cardinality(Failures(k, at[a])) < Limit(k)

\* Every budget the request could spend has a guess left.
HasBudget(a) == \A k \in Reserved(a) : Cardinality(Failures(k, at[a])) + pending[k] < Limit(k)

Reserve(a) ==
  /\ pc[a] = "reserve"
  /\ IF HasBudget(a) /\ HasRoom(Cardinality(Reserved(a)), at[a])
     THEN /\ held' = [held EXCEPT ![a] = Reserved(a)]
          /\ pending' = [k \in Keys |-> IF k \in Reserved(a) THEN pending[k] + 1 ELSE pending[k]]
          /\ Goto(a, CASE kind[a] = "password" -> "slot"
                       [] kind[a] = "begin"    -> "record"
                       [] OTHER                -> "lock")
          /\ UNCHANGED answer
     ELSE /\ Goto(a, "done")
          /\ Answer(a, "limited")
          /\ UNCHANGED <<held, pending>>
  /\ UNCHANGED <<kind, now, at, verdict, table, compute>>

\* A password login does not queue for a hash slot.  Password work of the
\* service that is not a login takes slots too, so that it may find none.
TakeSlot(a) ==
  /\ pc[a] = "slot"
  /\ \/ /\ Cardinality({b \in Attempts : HoldsSlot(b)}) < HashSlots
        /\ Goto(a, "lock")
        /\ UNCHANGED answer
     \/ /\ Goto(a, "leave")
        /\ Answer(a, "busy")
  /\ UNCHANGED <<kind, now, at, held, pending, verdict, table, compute>>

\* Under credentialMu a password is compared.  A right one without its second factor, or with a
\* TOTP key that cannot be opened, is answered and not recorded.  Re-authentication
\* spends the password work of a source as well, so that none may be left.
VerifyPassword(a) ==
  /\ pc[a] = "lock" /\ kind[a] = "password" /\ MayLock(a)
  /\ \/ /\ Goto(a, "leave")
        /\ Answer(a, "limited")
        /\ UNCHANGED <<verdict, compute>>
     \/ /\ MayCompute(Source[a])
        /\ compute' = Charge(Source[a])
        /\ \/ \E v \in {"wrong", "right"} : /\ verdict' = [verdict EXCEPT ![a] = v]
                                            /\ Goto(a, "record")
                                            /\ UNCHANGED answer
           \/ /\ verdict' = [verdict EXCEPT ![a] = "half"]
              /\ Goto(a, "leave")
              /\ Answer(a, "half")
  /\ UNCHANGED <<kind, now, at, held, pending, table>>

\* Alone under credentialMu a passkey assertion is verified.  If it holds and the account has TOTP, the
\* second factor has a budget of its own, reserved now.
VerifyPasskey(a) ==
  /\ pc[a] = "lock" /\ kind[a] = "passkey" /\ MayLock(a)
  /\ \/ /\ \E v \in {"wrong", "right"} : verdict' = [verdict EXCEPT ![a] = v]
        /\ Goto(a, "record")
        /\ UNCHANGED <<held, pending, answer>>
     \/ /\ Cardinality(Failures(Second(a), at[a])) + pending[Second(a)] < Limit(Second(a))
        /\ held' = [held EXCEPT ![a] = @ \cup {Second(a)}]
        /\ pending' = [pending EXCEPT ![Second(a)] = @ + 1]
        /\ \/ /\ verdict' = [verdict EXCEPT ![a] = "second"]
              /\ Goto(a, "second")
           \/ \E v \in {"wrong", "right"} : /\ verdict' = [verdict EXCEPT ![a] = v]
                                            /\ Goto(a, "record")
        /\ UNCHANGED answer
     \/ /\ Cardinality(Failures(Second(a), at[a])) + pending[Second(a)] >= Limit(Second(a))
        /\ Goto(a, "leave")
        /\ Answer(a, "limited")
        /\ UNCHANGED <<held, pending, verdict>>
  /\ UNCHANGED <<kind, now, at, table, compute>>

\* RecordLoginAttempt of a wrong second factor.  The write can fail, and so can
\* the capacity this budget shares with re-authentications.
RecordSecond(a) ==
  /\ pc[a] = "second"
  /\ \/ /\ table' = With({Failure(a, Second(a))}, a)
        /\ Fits(table')
        /\ Goto(a, "record")
        /\ UNCHANGED answer
     \/ /\ Goto(a, "leave")
        /\ Answer(a, "error")
        /\ UNCHANGED table
  /\ UNCHANGED <<kind, now, at, held, pending, verdict, compute>>

\* What the outcome of request a adds to the table.  A wrong second factor has
\* been charged to its own budget already.
NewRecords(a) ==
  CASE verdict[a] = "right"  -> {Success(a, k) : k \in Cleared(a)}
    [] verdict[a] = "second" -> {Failure(a, Ip(a))}
    [] OTHER                 -> {Failure(a, k) : k \in Reserved(a)}

Outcome(a) == CASE verdict[a] = "right"                        -> "in"
                [] verdict[a] # "right" /\ kind[a] = "begin" -> "begun"
                [] OTHER                                     -> "refused"

\* The outcome is recorded, a success together with its session; or the table
\* is full (ErrLimitReached); or the write fails, or finds the credentials changed.
Record(a) ==
  /\ pc[a] = "record"
  /\ Goto(a, "leave")
  /\ LET T == With(NewRecords(a), a) IN
       \/ Fits(T) /\ table' = T /\ Answer(a, Outcome(a))
       \/ ~Fits(T) /\ Answer(a, "full") /\ UNCHANGED table
       \/ Answer(a, "error") /\ UNCHANGED table
  /\ UNCHANGED <<kind, now, at, held, pending, verdict, compute>>

\* Wrong: the second-factor budget of a passkey login is not given back.
ReturnedFirst(a) == Reserved(a)

\* The deferred releases run: credentialMu, the hash slot, the reservations.
Returned(a)   == held[a]
GivenBack(n)  == IF n <= 1 THEN 0 ELSE n - 1

Leave(a) ==
  /\ pc[a] = "leave"
  /\ pending' = [k \in Keys |-> IF k \in Returned(a) THEN GivenBack(pending[k]) ELSE pending[k]]
  /\ held' = [held EXCEPT ![a] = {}]
  /\ Goto(a, "done")
  /\ UNCHANGED <<kind, now, at, verdict, answer, table, compute>>

Tick ==
  /\ now < MaxNow
  /\ now' = now + 1
  /\ UNCHANGED <<kind, pc, at, held, pending, verdict, answer, table, compute>>

\* paneld ends and starts again: its memory is lost, the table is not.
Crash ==
  /\ pending' = [k \in Keys |-> 0]
  /\ held' = [a \in Attempts |-> {}]
  /\ compute' = [s \in Sources |-> [start |-> 0, used |-> 0]]
  /\ pc' = [a \in Attempts |-> IF pc[a] = "new" THEN "new" ELSE "done"]
  /\ answer' = [a \in Attempts |-> IF pc[a] # "new" /\ answer[a] = None THEN "error" ELSE answer[a]]
  /\ UNCHANGED <<kind, now, at, verdict, table>>

Serve(a) == \/ Reserve(a) \/ TakeSlot(a) \/ VerifyPassword(a) \/ VerifyPasskey(a)
            \/ RecordSecond(a) \/ Record(a) \/ Leave(a)

Next == (\E a \in Attempts : Arrive(a) \/ Serve(a)) \/ Tick \/ Crash

Spec == Init /\ [][Next]_vars

---------------------------------------------------------------------------
\* Properties.

\* Types of the state of the login service and its table.
TypeOK ==
  /\ kind \in [Attempts -> Kinds]
  /\ now \in Nat
  /\ pc \in [Attempts -> {"new", "reserve", "slot", "lock", "second", "record", "leave", "done"}]
  /\ at \in [Attempts -> Nat]
  /\ held \in [Attempts -> SUBSET Keys]
  /\ pending \in [Keys -> Nat]
  /\ verdict \in [Attempts -> {None, "wrong", "right", "half", "second"}]
  /\ answer \in [Attempts -> Answers \cup {None}]
  /\ table \subseteq [by : Attempts, key : Keys, ok : BOOLEAN]
  /\ compute \in [Sources -> [start : Nat, used : Nat]]

\* The requests answered as failures of budget k, and those that logged in on it.
Guesses(k) == {a \in Attempts : answer[a] \in {"refused", "begun"} /\ k \in Charged(a)}
Wins(k)    == {a \in Attempts : answer[a] = "in" /\ k \in Cleared(a)}

\* The failures that arrived in the window that ends now, after the last success.
Guessed(k) == {a \in Guesses(k) : /\ at[a] + Window > now
                                  /\ \A w \in Wins(k) : at[w] < at[a]}

\* Whatever requests run at the same time, wait, fail half-way or are lost in a
\* crash, no budget answers more failures in a window than its limit.
\* (reserveLogin counts the reservations of others before it decides.)
Throttled == \A k \in Keys : Cardinality(Guessed(k)) <= Limit(k)

\* Every path out of a login gives back what it reserved, and nothing else, so
\* that no reservation locks an account for ever.  (releaseLogin,
\* releaseAuthenticationAttempt.)
Balanced == \A k \in Keys : pending[k] = Cardinality({a \in Attempts : k \in held[a]})

\* A request whose credentials were compared finds room for its record, unless
\* a passkey login has written the success record it had not reserved.
\* (hasAttemptRoomLocked counts the records still to be written.)
RoomKept ==
  \A a \in Attempts : answer[a] = "full" =>
    \E b \in Attempts : kind[b] = "passkey" /\ verdict[b] = "right"

\* An attempt whose failure could not be recorded is not evaluated at all
\* (auth/service.go:571-573).
RecordedIfEvaluated == \A a \in Attempts : ~(answer[a] = "full" /\ verdict[a] = "wrong")
=============================================================================
