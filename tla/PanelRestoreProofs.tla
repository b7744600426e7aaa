------------------------- MODULE PanelRestoreProofs -------------------------
(***************************************************************************)
(* Proofs about PanelRestore and the credentials in it, for any requests,  *)
(* origins, time steps, failures and stops.  The argument: what a request, *)
(* a ceremony or an enrollment still holds of the account is either what   *)
(* the store has, or can never match it again (Fresh); while the identity  *)
(* is replaced or put back no request, ceremony or enrollment is left that *)
(* could remember the account it replaces (Quiet); and what the journal    *)
(* keeps of the account before is sound (JournalOK), of a known phase      *)
(* (SwitchInv), and knows of every second factor that was spent            *)
(* (SpentInv).                                                             *)
(***************************************************************************)
EXTENDS PanelRestore, TLAPS

Names    == Requests \cup {Old, Other, None}
Sessions == [id : Requests \cup {Old}, at : Nat]
PassKeys == [id : Requests \cup {Old}, rp : Origins \cup {None}]
Accounts == [epoch : Nat, version : 1..MaxVersion, at : Nat, line : Nat,
             secret : Names, sealed : Names, step : Nat,
             codes : SUBSET Names, keys : SUBSET PassKeys,
             origin : Origins \cup {None}, sessions : SUBSET Sessions]
Views    == [epoch : Nat, version : Nat, at : Nat,
             secret : Names, sealed : Names]
Pcs      == {"idle", "open", "checked", "wait", "queue", "begun", "again",
             "entered", "verified", "saved", "done"}
Kinds    == {"login", "keyLogin"} \cup Managed
Progress == [pc : Pcs, kind : Kinds,
             as : Requests \cup {Old, None}, seen : Views]
Ceremonies  == [id : Requests, purpose : {"register", "login"},
                binding : Requests \cup {Old, None},
                epoch : Nat, version : Nat, at : Nat]
Services    == [origin : Origins \cup {None}, pending : SUBSET Ceremonies]
Enrollments == [id : Requests, epoch : Nat, version : Nat, at : Nat]

\* An account whose sessions are those of its present credentials, of the n
\* changes so far.
Sound(st, n) ==
    /\ st \in Accounts /\ st.at <= n /\ st.epoch <= n
    /\ \A s \in st.sessions : s.at = st.at

\* What v remembers is what st has, or will never be.
Fresh(v, st, n) ==
    /\ v.epoch <= n
    /\ v.epoch = st.epoch => v.version <= st.version
    /\ v.epoch = st.epoch /\ v.version = st.version => v.at = st.at

\* What a request may make of the account.
Follows(st) ==
    /\ st \in Accounts /\ \A s \in st.sessions : s.at = st.at
    /\ \/ /\ st.epoch = store.epoch /\ st.version = store.version
          /\ st.at = store.at
       \/ /\ st.at = changes + 1
          /\ \/ st.epoch = store.epoch /\ st.version = store.version + 1
             \/ st.epoch = changes + 1 /\ st.version = 1

Settled(rec) == rec.pc \in {"idle", "done"} => rec.seen = NoView

CredentialTypes ==
    /\ changes \in Nat /\ Sound(store, changes)
    /\ keyFile \in Names /\ up \in BOOLEAN
    /\ service \in Services
    /\ enrollment \in Enrollments \cup {None}
    /\ req \in [Requests -> Progress]
    /\ \A r \in Requests : Settled(req[r])

AllFresh ==
    /\ \A r \in Requests : Fresh(req[r].seen, store, changes)
    /\ \A c \in service.pending : Fresh(c, store, changes)
    /\ enrollment # None => Fresh(enrollment, store, changes)

CredentialInv == CredentialTypes /\ AllFresh

-----------------------------------------------------------------------------
(***************************************************************************)
(* The effect of a request on the store and on what others hold.           *)
(***************************************************************************)
StoreEffect ==
    /\ changes' \in Nat /\ changes <= changes' /\ Sound(store', changes')
    /\ \A v : /\ v.epoch \in Nat /\ v.version \in Nat /\ v.at \in Nat
              /\ Fresh(v, store, changes)
              => Fresh(v, store', changes')

ReqEffect(r, rec) ==
    /\ req' = [req EXCEPT ![r] = rec]
    /\ rec \in Progress /\ Settled(rec)
    /\ Fresh(rec.seen, store', changes')

Effect(r) ==
    /\ StoreEffect
    /\ \E rec : ReqEffect(r, rec)
    /\ keyFile' \in Names /\ up' = up
    /\ service' \in Services
    /\ \A c \in service'.pending :
         c \in service.pending \/ Fresh(c, store', changes')
    /\ enrollment' \in Enrollments \cup {None}
    /\ enrollment' \in {enrollment, None} \/ Fresh(enrollment', store', changes')

LEMMA NoViewFresh ==
    ASSUME NEW st, NEW n \in Nat, Sound(st, n)
    PROVE  Fresh(NoView, st, n) /\ NoView \in Views
BY NameAssumption, BoundAssumption
   DEF Sound, Fresh, NoView, Accounts, Views, Names

LEMMA OverEffect ==
    ASSUME CredentialInv, StoreEffect, NEW r \in Requests, Ends(r)
    PROVE  ReqEffect(r, Over)
<1>1. Fresh(NoView, store', changes') /\ NoView \in Views
  BY NoViewFresh DEF StoreEffect
<1>2. Over = [pc |-> "done", kind |-> "login", as |-> None, seen |-> NoView]
  BY DEF Over, Idle
<1> QED BY <1>1, <1>2 DEF ReqEffect, Ends, Becomes, Progress, Pcs, Kinds, Settled

LEMMA KeptEffect ==
    ASSUME CredentialInv, Kept
    PROVE  StoreEffect
BY DEF CredentialInv, CredentialTypes, Kept, StoreEffect

LEMMA NotSavedEffect ==
    ASSUME CredentialInv, NotSaved
    PROVE  StoreEffect
BY DEF CredentialInv, CredentialTypes, NotSaved, StoreEffect

LEMMA SavedEffect ==
    ASSUME CredentialInv, NEW st, Follows(st), Saved(st)
    PROVE  StoreEffect
<1>1. changes \in Nat /\ Sound(store, changes) /\ store' = st
  BY DEF CredentialInv, CredentialTypes, Saved
<1>2. /\ store.epoch \in Nat /\ store.version \in Nat /\ store.at \in Nat
      /\ st.epoch \in Nat /\ st.version \in Nat /\ st.at \in Nat
      /\ store.at <= changes /\ store.epoch <= changes
  BY <1>1, BoundAssumption DEF Sound, Follows, Accounts
<1>3. CASE st.at = store.at
  <2>1. changes' = changes
    BY <1>3 DEF Saved
  <2>2. st.epoch = store.epoch /\ st.version = store.version
    BY <1>2, <1>3, <1>1 DEF Follows
  <2> QED BY <1>1, <1>2, <1>3, <2>1, <2>2
          DEF StoreEffect, Sound, Fresh, Follows
<1>4. CASE st.at # store.at
  <2>1. changes' = changes + 1 /\ st.at = changes + 1
    BY <1>4 DEF Saved, Follows
  <2>2. \/ st.epoch = store.epoch /\ st.version = store.version + 1
        \/ st.epoch = changes + 1 /\ st.version = 1
    BY <1>4 DEF Follows
  <2>3. changes' \in Nat /\ Sound(store', changes')
    BY <1>1, <1>2, <2>1, <2>2 DEF Sound, Follows
  <2>4. ASSUME NEW v, v.epoch \in Nat, v.version \in Nat, v.at \in Nat,
               Fresh(v, store, changes)
        PROVE  Fresh(v, store', changes')
    BY <1>1, <1>2, <2>1, <2>2, <2>4 DEF Fresh
  <2> QED BY <1>1, <2>1, <2>3, <2>4 DEF StoreEffect
<1> QED BY <1>3, <1>4

\* Nothing but the store and the request changes.
LEMMA RestEffect ==
    ASSUME CredentialInv, StoreEffect, Rest,
           NEW r \in Requests, NEW rec, ReqEffect(r, rec)
    PROVE  Effect(r)
BY DEF Effect, CredentialInv, CredentialTypes, Rest, Elsewhere

LEMMA FailsEffect ==
    ASSUME CredentialInv, NEW r \in Requests, Fails(r)
    PROVE  StoreEffect /\ ReqEffect(r, Over)
BY KeptEffect, OverEffect DEF Fails

LEMMA PersistEnds ==
    ASSUME CredentialInv, NEW r \in Requests, NEW st, Follows(st),
           Persist(r, st, Over)
    PROVE  StoreEffect /\ ReqEffect(r, Over)
<1>1. Ends(r) /\ StoreEffect
  BY SavedEffect, NotSavedEffect DEF Persist, Ends
<1> QED BY <1>1, OverEffect

\* The request goes on with what it holds.
LEMMA GoesEffect ==
    ASSUME CredentialInv, StoreEffect, NEW r \in Requests, NEW p \in Pcs \ {"idle", "done"},
           req' = [req EXCEPT ![r] = [req[r] EXCEPT !.pc = p]]
    PROVE  ReqEffect(r, [req[r] EXCEPT !.pc = p])
<1> DEFINE rec == [req[r] EXCEPT !.pc = p]
<1>1. /\ req[r] \in Progress /\ Fresh(req[r].seen, store, changes)
  BY DEF CredentialInv, CredentialTypes, AllFresh
<1>2. rec \in Progress /\ rec.pc = p /\ rec.seen = req[r].seen
  BY <1>1 DEF Progress
<1>3. Fresh(req[r].seen, store', changes')
  BY <1>1 DEF StoreEffect, Progress, Views
<1> QED BY <1>2, <1>3 DEF ReqEffect, Settled

LEMMA PersistGoes ==
    ASSUME CredentialInv, NEW r \in Requests, NEW st, Follows(st),
           NEW p \in Pcs \ {"idle", "done"},
           Persist(r, st, [req[r] EXCEPT !.pc = p])
    PROVE  StoreEffect /\ \E rec : ReqEffect(r, rec)
<1>1. StoreEffect
  BY SavedEffect, NotSavedEffect DEF Persist
<1>2. CASE Ends(r)
  BY <1>1, <1>2, OverEffect
<1>3. CASE Becomes(r, [req[r] EXCEPT !.pc = p])
  BY <1>1, <1>3, GoesEffect DEF Becomes
<1> QED BY <1>1, <1>2, <1>3 DEF Persist

-----------------------------------------------------------------------------
(***************************************************************************)
(* What requests write.                                                    *)
(***************************************************************************)
LEMMA StoreTyped ==
    ASSUME CredentialInv
    PROVE  /\ store \in Accounts /\ changes \in Nat
           /\ store.at <= changes /\ store.epoch <= changes
           /\ \A s \in store.sessions : s.at = store.at
BY DEF CredentialInv, CredentialTypes, Sound

LEMMA ChangedAccount ==
    ASSUME CredentialInv
    PROVE  /\ Changed(store) \in Accounts /\ Follows(Changed(store))
           /\ Changed(store).sessions = {}
<1>1. MaxVersion \in Nat /\ 1 \in 1..MaxVersion
  BY BoundAssumption
<1>2. store \in Accounts /\ changes \in Nat
  BY StoreTyped
<1> DEFINE st == Changed(store)
<1>3. CASE store.version = MaxVersion
  <2>1. st = [[store EXCEPT !.epoch = changes + 1, !.version = 1,
                            !.at = changes + 1] EXCEPT !.sessions = {}]
    BY <1>3 DEF Changed, Revoke, Advance
  <2>2. changes + 1 \in Nat
    BY <1>2
  <2> HIDE DEF st
  <2>3. st \in Accounts
    BY <1>1, <1>2, <2>1, <2>2 DEF Accounts
  <2>4. st.epoch = changes + 1 /\ st.version = 1 /\ st.at = changes + 1
        /\ st.sessions = {}
    BY <1>2, <2>1 DEF Accounts
  <2>5. Follows(st)
    BY <2>3, <2>4 DEF Follows
  <2> QED BY <2>3, <2>4, <2>5 DEF st
<1>4. CASE store.version # MaxVersion
  <2>1. st = [[store EXCEPT !.version = @ + 1, !.at = changes + 1]
                  EXCEPT !.sessions = {}]
    BY <1>4 DEF Changed, Revoke, Advance
  <2>2. changes + 1 \in Nat /\ store.version + 1 \in 1..MaxVersion
    BY <1>1, <1>2, <1>4 DEF Accounts
  <2> HIDE DEF st
  <2>3. st \in Accounts
    BY <1>2, <2>1, <2>2 DEF Accounts
  <2>4. st.epoch = store.epoch /\ st.version = store.version + 1
        /\ st.at = changes + 1 /\ st.sessions = {}
    BY <1>2, <2>1 DEF Accounts
  <2>5. Follows(st)
    BY <2>3, <2>4 DEF Follows
  <2> QED BY <2>3, <2>4, <2>5 DEF st
<1> QED BY <1>3, <1>4

\* What a change does besides is the same for the sessions and the version.
LEMMA AlsoFollows ==
    ASSUME NEW st, Follows(st), NEW t \in Accounts,
           t.epoch = st.epoch, t.version = st.version, t.at = st.at,
           t.sessions \subseteq st.sessions
    PROVE  Follows(t)
BY DEF Follows

LEMMA StoreFollows ==
    ASSUME CredentialInv
    PROVE  Follows(store)
BY StoreTyped DEF Follows

LEMMA PutFollows ==
    ASSUME CredentialInv, NEW r \in Requests, NEW v \in Views,
           Fresh(v, store, changes), Same(v)
    PROVE  Follows(Put(store, r, v.at))
<1>1. v.at = store.at /\ store \in Accounts
  BY StoreTyped DEF Fresh, Same
<1>2. [id |-> r, at |-> v.at] \in Sessions
  BY DEF Sessions, Views
<1>3. Put(store, r, v.at) \in Accounts
  BY <1>1, <1>2 DEF Put, Accounts
<1> QED BY <1>1, <1>3, StoreTyped DEF Put, Follows, Accounts

LEMMA SeenFresh ==
    ASSUME CredentialInv, NEW r \in Requests
    PROVE  /\ req[r] \in Progress /\ req[r].seen \in Views
           /\ Fresh(req[r].seen, store, changes)
BY DEF CredentialInv, CredentialTypes, AllFresh, Progress

LEMMA ViewFresh ==
    ASSUME CredentialInv
    PROVE  View(store) \in Views /\ Fresh(View(store), store, changes)
BY StoreTyped, BoundAssumption DEF View, Views, Fresh, Accounts

-----------------------------------------------------------------------------
(***************************************************************************)
(* The second factor: only the last step or the codes change.              *)
(***************************************************************************)
LEMMA FactorEffect ==
    ASSUME CredentialInv, NEW r \in Requests, NEW v \in Views, NEW rec \in Progress,
           rec.pc \notin {"idle", "done"}, Fresh(rec.seen, store, changes),
           SecondFactor(r, v, rec)
    PROVE  StoreEffect /\ \E new : ReqEffect(r, new)
<1>1. CASE StoreEffect /\ Becomes(r, rec)
  <2>1. Fresh(rec.seen, store', changes')
    BY <1>1 DEF StoreEffect, Progress, Views
  <2> QED BY <1>1, <2>1 DEF ReqEffect, Becomes, Settled
<1>2. CASE StoreEffect /\ Ends(r)
  BY <1>2, OverEffect
<1>3. CASE Becomes(r, rec) /\ Kept
  BY <1>3, <1>1, KeptEffect
<1>4. CASE ConsumeStep(r, v, rec)
  <2> PICK s \in Steps :
        \/ Saved([store EXCEPT !.step = s]) /\ Becomes(r, rec)
        \/ NotSaved /\ Ends(r)
    BY <1>4 DEF ConsumeStep
  <2>1. [store EXCEPT !.step = s] \in Accounts
    BY StoreTyped, BoundAssumption DEF Accounts
  <2>2. Follows([store EXCEPT !.step = s])
    BY <2>1, StoreTyped DEF Accounts, Follows
  <2> QED BY <1>1, <1>2, <2>2, SavedEffect, NotSavedEffect
<1>5. CASE ConsumeCode(r, rec)
  <2> PICK c \in store.codes :
        \/ Saved([store EXCEPT !.codes = @ \ {c}]) /\ Becomes(r, rec)
        \/ NotSaved /\ Ends(r)
    BY <1>5 DEF ConsumeCode
  <2>1. [store EXCEPT !.codes = @ \ {c}] \in Accounts
    BY StoreTyped DEF Accounts
  <2>2. Follows([store EXCEPT !.codes = @ \ {c}])
    BY <2>1, StoreTyped DEF Accounts, Follows
  <2> QED BY <1>1, <1>2, <2>2, SavedEffect, NotSavedEffect
<1>6. CASE Fails(r)
  BY <1>6, FailsEffect
<1> QED BY <1>3, <1>4, <1>5, <1>6 DEF SecondFactor

-----------------------------------------------------------------------------
(***************************************************************************)
(* Each step of a request.                                                 *)
(***************************************************************************)
LEMMA LoginReadEffect ==
    ASSUME CredentialInv, NEW r \in Requests, LoginRead(r)
    PROVE  Effect(r)
<1> DEFINE rec == [pc |-> "open", kind |-> "login", as |-> None, seen |-> View(store)]
<1>1. StoreEffect /\ Rest /\ req' = [req EXCEPT ![r] = rec]
  BY KeptEffect DEF LoginRead, Becomes
<1>2. rec \in Progress /\ rec.pc = "open" /\ rec.seen = View(store)
  BY ViewFresh DEF Progress, Pcs, Kinds
<1>3. Fresh(View(store), store', changes')
  BY <1>1, ViewFresh DEF StoreEffect, Views
<1>4. ReqEffect(r, rec)
  BY <1>1, <1>2, <1>3 DEF ReqEffect, Settled
<1> QED BY <1>1, <1>4, RestEffect

LEMMA LoginEffect ==
    ASSUME CredentialInv, NEW r \in Requests, Login(r)
    PROVE  Effect(r)
<1>1. CASE LoginFactor(r)
  <2> DEFINE rec == [req[r] EXCEPT !.pc = "checked"]
  <2>1. rec \in Progress /\ rec.pc = "checked" /\ rec.seen = req[r].seen
    BY SeenFresh DEF Progress, Pcs
  <2>2. StoreEffect /\ \E new : ReqEffect(r, new)
    BY <1>1, <2>1, SeenFresh, FactorEffect DEF LoginFactor
  <2> QED BY <1>1, <2>2 DEF LoginFactor, Effect, Elsewhere, CredentialInv, CredentialTypes
<1>2. CASE LoginCommit(r)
  <2>1. CASE Same(req[r].seen)
    BY <1>2, <2>1, SeenFresh, PutFollows, PersistEnds, RestEffect DEF LoginCommit
  <2>2. CASE ~ Same(req[r].seen)
    BY <1>2, <2>2, FailsEffect, RestEffect DEF LoginCommit
  <2> QED BY <2>1, <2>2
<1> QED BY <1>1, <1>2 DEF Login

LEMMA LogoutEffect ==
    ASSUME CredentialInv, NEW r \in Requests, Logout(r)
    PROVE  Effect(r)
<1> PICK s \in store.sessions :
      Persist(r, [store EXCEPT !.sessions = @ \ {s}], Over)
  BY DEF Logout
<1>1. [store EXCEPT !.sessions = @ \ {s}] \in Accounts
  BY StoreTyped DEF Accounts
<1>2. Follows([store EXCEPT !.sessions = @ \ {s}])
  BY <1>1, StoreTyped DEF Accounts, Follows
<1> QED BY <1>2, PersistEnds, RestEffect DEF Logout

LEMMA ArriveEffect ==
    ASSUME CredentialInv, NEW r \in Requests, Arrive(r)
    PROVE  Effect(r)
<1> PICK s \in store.sessions, k \in Managed :
      Becomes(r, [pc |-> IF k \in OfOrigin THEN "queue" ELSE "wait",
                  kind |-> k, as |-> s.id, seen |-> NoView])
  BY DEF Arrive
<1> DEFINE rec == [pc |-> IF k \in OfOrigin THEN "queue" ELSE "wait",
                   kind |-> k, as |-> s.id, seen |-> NoView]
<1>1. StoreEffect /\ Rest /\ s.id \in Requests \cup {Old}
  BY StoreTyped, KeptEffect DEF Arrive, Accounts, Sessions
<1>2. Fresh(NoView, store', changes') /\ NoView \in Views
  BY <1>1, NoViewFresh DEF StoreEffect
<1>3. rec \in Progress /\ rec.pc \in {"queue", "wait"} /\ rec.seen = NoView
  BY <1>1, <1>2 DEF Progress, Pcs, Kinds
<1>4. ReqEffect(r, rec)
  BY <1>2, <1>3 DEF ReqEffect, Settled, Becomes
<1> QED BY <1>1, <1>4, RestEffect

LEMMA VerifyEffect ==
    ASSUME CredentialInv, NEW r \in Requests,
           SecondFactor(r, View(store), [req[r] EXCEPT !.pc = "checked", !.seen = View(store)])
    PROVE  StoreEffect /\ \E new : ReqEffect(r, new)
<1> DEFINE rec == [req[r] EXCEPT !.pc = "checked", !.seen = View(store)]
<1>1. rec \in Progress /\ rec.pc = "checked" /\ rec.seen = View(store)
  BY SeenFresh, ViewFresh DEF Progress, Pcs
<1> QED BY <1>1, ViewFresh, FactorEffect

\* A step that changes nothing but the store, the request and what was spent.
LEMMA SpendEffect ==
    ASSUME CredentialInv, StoreEffect, NEW r \in Requests,
           \E rec : ReqEffect(r, rec), Elsewhere,
           UNCHANGED <<service, enrollment>>
    PROVE  Effect(r)
BY DEF Effect, Elsewhere, CredentialInv, CredentialTypes

LEMMA RefuseEffect ==
    ASSUME CredentialInv, NEW r \in Requests, Refuse(r)
    PROVE  Effect(r)
BY FailsEffect, RestEffect DEF Refuse

LEMMA ChangeEffect ==
    ASSUME CredentialInv, NEW r \in Requests, Change(r)
    PROVE  Effect(r)
BY ChangedAccount, PersistEnds, RestEffect DEF Change

LEMMA BoundaryEffect ==
    ASSUME CredentialInv, NEW r \in Requests, Boundary(r)
    PROVE  Effect(r)
<1>1. Revoke(store) \in Accounts
  BY StoreTyped DEF Accounts, Revoke
<1>2. Follows(Revoke(store))
  BY <1>1, StoreTyped DEF Accounts, Revoke, Follows
<1> QED BY <1>2, PersistEnds, RestEffect DEF Boundary

LEMMA CommitCodesEffect ==
    ASSUME CredentialInv, NEW r \in Requests, CommitCodes(r)
    PROVE  Effect(r)
<1> DEFINE st == [Changed(store) EXCEPT !.codes = {r}]
<1>1. st \in Accounts
  BY ChangedAccount DEF Accounts, Names
<1>2. Follows(st)
  BY <1>1, ChangedAccount, AlsoFollows DEF Accounts
<1>3. CASE store.secret # None
  BY <1>2, <1>3, PersistEnds, RestEffect DEF CommitCodes
<1>4. CASE store.secret = None
  BY <1>4, FailsEffect, RestEffect DEF CommitCodes
<1> QED BY <1>3, <1>4

LEMMA WithoutTotpFollows ==
    ASSUME NEW st, Follows(st)
    PROVE  Follows(WithoutTotp(st))
<1>1. WithoutTotp(st) \in Accounts
  BY DEF WithoutTotp, Follows, Accounts, Names
<1> QED BY <1>1, AlsoFollows DEF WithoutTotp, Follows, Accounts

LEMMA CommitOffEffect ==
    ASSUME CredentialInv, NEW r \in Requests, CommitOff(r)
    PROVE  Effect(r)
<1>1. CASE store.secret # None
  BY <1>1, ChangedAccount, WithoutTotpFollows, PersistEnds, RestEffect
     DEF CommitOff
<1>2. CASE store.secret = None
  BY <1>2, FailsEffect, RestEffect DEF CommitOff
<1> QED BY <1>1, <1>2

LEMMA EnrolEffect ==
    ASSUME CredentialInv, NEW r \in Requests, Enrol(r)
    PROVE  Effect(r)
<1> DEFINE e == [id |-> r, epoch |-> store.epoch, version |-> store.version,
                 at |-> store.at]
<1>1. StoreEffect /\ store' = store /\ changes' = changes
  BY KeptEffect DEF Enrol, Kept
<1>2. Elsewhere /\ service' = service
  BY DEF Enrol
<1>3. CASE store.secret = None
  <2>1. enrollment' = e /\ \E rec : ReqEffect(r, rec)
    BY <1>1, <1>3, GoesEffect DEF Enrol, Goes, Becomes, Pcs
  <2>2. e \in Enrollments /\ Fresh(e, store, changes)
    BY StoreTyped, BoundAssumption DEF Enrollments, Accounts, Fresh
  <2> QED BY <1>1, <1>2, <2>1, <2>2
          DEF Effect, Elsewhere, CredentialInv, CredentialTypes
<1>4. CASE store.secret # None
  BY <1>1, <1>2, <1>4, OverEffect, SpendEffect DEF Enrol
<1> QED BY <1>3, <1>4

LEMMA ReturnEnrolEffect ==
    ASSUME CredentialInv, NEW r \in Requests, ReturnEnrol(r)
    PROVE  Effect(r)
<1>1. StoreEffect /\ Rest
  BY KeptEffect DEF ReturnEnrol
<1>2. CASE Goes(r, "again")
  BY <1>1, <1>2, GoesEffect, RestEffect DEF Goes, Becomes, Pcs
<1>3. CASE Ends(r)
  BY <1>1, <1>3, OverEffect, RestEffect
<1> QED BY <1>2, <1>3 DEF ReturnEnrol

LEMMA ConfirmEffect ==
    ASSUME CredentialInv, NEW r \in Requests, Confirm(r)
    PROVE  Effect(r)
<1>1. enrollment' = None /\ service' = service /\ up' = up
  BY DEF Confirm
<1>2. CASE Fails(r) /\ keyFile' \in {keyFile, r}
  BY <1>1, <1>2, FailsEffect
     DEF Effect, CredentialInv, CredentialTypes, Names
<1>3. ASSUME NEW s \in Steps, NEW key \in {keyFile, r}, keyFile' = key, Ends(r),
             \/ Saved([Changed(store) EXCEPT !.secret = r, !.sealed = key,
                                             !.step = s, !.codes = {r}])
             \/ NotSaved
      PROVE  Effect(r)
  <2> DEFINE st == [Changed(store) EXCEPT !.secret = r, !.sealed = key,
                                          !.step = s, !.codes = {r}]
  <2>1. key \in Names
    BY DEF CredentialInv, CredentialTypes, Names
  <2>2. st \in Accounts
    BY <2>1, ChangedAccount, BoundAssumption DEF Accounts, Names
  <2>3. Follows(st)
    BY <2>2, ChangedAccount, AlsoFollows DEF Accounts
  <2>4. StoreEffect /\ ReqEffect(r, Over)
    BY <1>3, <2>3, SavedEffect, NotSavedEffect, OverEffect
  <2> QED BY <1>1, <1>3, <2>1, <2>4 DEF Effect, CredentialInv, CredentialTypes
<1> QED BY <1>2, <1>3 DEF Confirm

\* A request begins a ceremony under the credentials of the moment.
LEMMA BeginsEffect ==
    ASSUME CredentialInv, Kept, Elsewhere, UNCHANGED enrollment,
           NEW r \in Requests, \E rec : ReqEffect(r, rec),
           NEW purpose \in {"register", "login"},
           NEW binding \in Requests \cup {Old, None},
           Begins(Ceremony(r, purpose, binding, store))
    PROVE  Effect(r)
<1> DEFINE c == Ceremony(r, purpose, binding, store)
<1>1. c \in Ceremonies /\ Fresh(c, store, changes)
  BY StoreTyped, BoundAssumption DEF Ceremony, Ceremonies, Accounts, Fresh
<1>2. store' = store /\ changes' = changes /\ StoreEffect
  BY KeptEffect DEF Kept
<1> HIDE DEF c
<1>3. /\ service' = [service EXCEPT !.pending =
             {o \in @ : o.purpose # c.purpose \/ o.binding # c.binding} \cup {c}]
      /\ service \in Services
  BY DEF Begins, c, CredentialInv, CredentialTypes
<1>4. /\ service' \in Services
      /\ \A o \in service'.pending : o \in service.pending \/ o = c
  BY <1>1, <1>3 DEF Services
<1> QED BY <1>1, <1>2, <1>4
        DEF Effect, Elsewhere, CredentialInv, CredentialTypes

LEMMA CommitRegisterEffect ==
    ASSUME CredentialInv, NEW r \in Requests, CommitRegister(r)
    PROVE  Effect(r)
<1>1. Kept /\ StoreEffect /\ Elsewhere /\ enrollment' = enrollment
  BY KeptEffect DEF CommitRegister
<1>2. CASE Begins(Ceremony(r, "register", req[r].as, store)) /\ Goes(r, "begun")
  <2>1. \E rec : ReqEffect(r, rec)
    BY <1>1, <1>2, GoesEffect DEF Goes, Becomes, Pcs
  <2>2. req[r].as \in Requests \cup {Old, None}
    BY SeenFresh DEF Progress
  <2> QED BY <1>1, <1>2, <2>1, <2>2, BeginsEffect
<1>3. CASE Ends(r) /\ UNCHANGED service
  BY <1>1, <1>3, OverEffect, SpendEffect
<1> QED BY <1>2, <1>3 DEF CommitRegister

LEMMA BeginKeyLoginEffect ==
    ASSUME CredentialInv, NEW r \in Requests, BeginKeyLogin(r)
    PROVE  Effect(r)
<1> DEFINE rec == [Idle EXCEPT !.pc = "begun", !.kind = "keyLogin"]
<1>1. Kept /\ StoreEffect /\ Elsewhere /\ enrollment' = enrollment
      /\ req' = [req EXCEPT ![r] = rec]
  BY KeptEffect DEF BeginKeyLogin, Becomes
<1>2. Fresh(NoView, store', changes') /\ NoView \in Views
  BY <1>1, NoViewFresh DEF StoreEffect
<1>3. Idle \in Progress /\ Idle.seen = NoView
  BY <1>2 DEF Idle, Progress, Pcs, Kinds
<1>4. rec \in Progress /\ rec.pc = "begun" /\ rec.seen = NoView
  BY <1>3 DEF Progress, Pcs, Kinds
<1> HIDE DEF rec
<1>5. ReqEffect(r, rec)
  BY <1>1, <1>2, <1>4 DEF ReqEffect, Settled
<1> QED BY <1>1, <1>5, BeginsEffect DEF BeginKeyLogin, rec

LEMMA ReturnKeysEffect ==
    ASSUME CredentialInv, NEW r \in Requests, ReturnKeys(r)
    PROVE  Effect(r)
<1>1. Kept /\ StoreEffect /\ Elsewhere /\ enrollment' = enrollment
      /\ store' = store /\ changes' = changes
  BY KeptEffect DEF ReturnKeys, Kept
<1>2. CASE Ends(r) /\ UNCHANGED service
  BY <1>1, <1>2, OverEffect, SpendEffect
<1>3. CASE \E c \in {c \in service.pending : c.id = r} :
           /\ service' = [service EXCEPT !.pending = @ \ {c}]
           /\ Becomes(r, [req[r] EXCEPT !.pc = "again",
                !.seen = [NoView EXCEPT !.epoch = c.epoch,
                          !.version = c.version, !.at = c.at]])
  <2> PICK c \in service.pending :
           /\ service' = [service EXCEPT !.pending = @ \ {c}]
           /\ Becomes(r, [req[r] EXCEPT !.pc = "again",
                !.seen = [NoView EXCEPT !.epoch = c.epoch,
                          !.version = c.version, !.at = c.at]])
    BY <1>3
  <2> DEFINE v == [NoView EXCEPT !.epoch = c.epoch, !.version = c.version,
                                 !.at = c.at]
             rec == [req[r] EXCEPT !.pc = "again", !.seen = v]
  <2>1. service \in Services /\ c \in Ceremonies /\ Fresh(c, store, changes)
    BY DEF CredentialInv, CredentialTypes, AllFresh, Services
  <2>2. v \in Views /\ v.epoch = c.epoch /\ v.version = c.version /\ v.at = c.at
    BY <2>1 DEF NoView, Views, Ceremonies, Names
  <2>3. Fresh(v, store', changes')
    BY <1>1, <2>1, <2>2 DEF Fresh
  <2> HIDE DEF v
  <2>4. rec \in Progress /\ rec.pc = "again" /\ rec.seen = v
    BY <2>2, SeenFresh DEF Progress, Pcs
  <2>5. ReqEffect(r, rec)
    BY <2>3, <2>4 DEF ReqEffect, Becomes, Settled, v
  <2>6. service' \in Services /\ service'.pending \subseteq service.pending
    BY <2>1 DEF Services
  <2> QED BY <1>1, <2>5, <2>6
          DEF Effect, Elsewhere, CredentialInv, CredentialTypes
<1> QED BY <1>2, <1>3 DEF ReturnKeys

LEMMA FinishRegisterEffect ==
    ASSUME CredentialInv, NEW r \in Requests, FinishRegister(r)
    PROVE  Effect(r)
<1> DEFINE st == [Changed(store) EXCEPT
                    !.keys = @ \cup {[id |-> r, rp |-> service.origin]}]
<1>1. service.origin \in Origins \cup {None}
  BY DEF CredentialInv, CredentialTypes, Services
<1>2. st \in Accounts
  BY <1>1, ChangedAccount DEF Accounts, PassKeys
<1>3. Follows(st)
  BY <1>2, ChangedAccount, AlsoFollows DEF Accounts
<1>4. CASE Persist(r, st, Over)
  BY <1>3, <1>4, PersistEnds, RestEffect DEF FinishRegister
<1>5. CASE Fails(r)
  BY <1>5, FailsEffect, RestEffect DEF FinishRegister
<1> QED BY <1>4, <1>5 DEF FinishRegister

LEMMA CommitDeleteEffect ==
    ASSUME CredentialInv, NEW r \in Requests, CommitDelete(r)
    PROVE  Effect(r)
<1>1. Rest
  BY DEF CommitDelete
<1>2. ASSUME NEW k, Persist(r, [Changed(store) EXCEPT !.keys = @ \ {k}], Over)
      PROVE  Effect(r)
  <2> DEFINE st == [Changed(store) EXCEPT !.keys = @ \ {k}]
  <2>1. st \in Accounts
    BY ChangedAccount DEF Accounts
  <2>2. Follows(st)
    BY <2>1, ChangedAccount, AlsoFollows DEF Accounts
  <2> QED BY <1>1, <1>2, <2>2, PersistEnds, RestEffect
<1>3. CASE Fails(r)
  BY <1>1, <1>3, FailsEffect, RestEffect
<1> QED BY <1>2, <1>3 DEF CommitDelete

LEMMA VerifyKeyEffect ==
    ASSUME CredentialInv, NEW r \in Requests, VerifyKey(r)
    PROVE  Effect(r)
<1>1. Elsewhere /\ UNCHANGED <<service, enrollment>>
  BY DEF VerifyKey
<1>2. CASE Fails(r)
  BY <1>1, <1>2, FailsEffect, SpendEffect
<1>3. CASE SecondFactor(r, View(store),
                [req[r] EXCEPT !.pc = "checked", !.seen = View(store)])
  BY <1>1, <1>3, VerifyEffect, SpendEffect
<1> QED BY <1>2, <1>3 DEF VerifyKey

LEMMA CommitKeyLoginEffect ==
    ASSUME CredentialInv, NEW r \in Requests, CommitKeyLogin(r)
    PROVE  Effect(r)
<1>1. CASE Same(req[r].seen) /\ Usable # {}
  BY <1>1, SeenFresh, PutFollows, PersistGoes, RestEffect DEF CommitKeyLogin, Pcs
<1>2. CASE ~ (Same(req[r].seen) /\ Usable # {})
  BY <1>2, FailsEffect, RestEffect DEF CommitKeyLogin
<1> QED BY <1>1, <1>2

LEMMA RecordKeyLoginEffect ==
    ASSUME CredentialInv, NEW r \in Requests, RecordKeyLogin(r)
    PROVE  Effect(r)
<1> DEFINE st == [store EXCEPT !.sessions = {s \in @ : s.id # r}]
<1>1. st \in Accounts
  BY StoreTyped DEF Accounts
<1>2. Follows(st) /\ st.at = store.at
  BY <1>1, StoreTyped DEF Accounts, Follows
<1>3. CASE Kept
  BY <1>3, KeptEffect, OverEffect, RestEffect DEF RecordKeyLogin
<1> HIDE DEF st
<1>4. CASE store' \in {store, st} /\ UNCHANGED changes
  <2>1. /\ store'.epoch = store.epoch /\ store'.version = store.version
        /\ store'.at = store.at
        /\ store' \in Accounts /\ \A s \in store'.sessions : s.at = store'.at
    BY <1>2, <1>4, StoreTyped, BoundAssumption DEF Follows, Accounts, st
  <2>2. StoreEffect
    BY <1>4, <2>1, StoreTyped DEF StoreEffect, Sound, Fresh
  <2> QED BY <2>2, OverEffect, RestEffect DEF RecordKeyLogin
<1> QED BY <1>3, <1>4 DEF RecordKeyLogin, st

LEMMA OriginEffect ==
    ASSUME CredentialInv, NEW r \in Requests, Origin(r)
    PROVE  Effect(r)
<1>1. CASE EnterOrigin(r)
  <2>1. StoreEffect /\ Rest
    BY <1>1, KeptEffect DEF EnterOrigin
  <2>2. Goes(r, "wait") \/ Ends(r)
    BY <1>1 DEF EnterOrigin
  <2> QED BY <2>1, <2>2, GoesEffect, OverEffect, RestEffect DEF Goes, Becomes, Pcs
<1>2. CASE ReleaseBind(r)
  BY <1>2, KeptEffect, GoesEffect, RestEffect DEF ReleaseBind, Goes, Becomes, Pcs
<1>3. CASE SaveBind(r)
  <2>1. ASSUME NEW o \in Origins,
               Persist(r, [store EXCEPT !.origin = o], [req[r] EXCEPT !.pc = "saved"])
        PROVE  Effect(r)
    <3>1. [store EXCEPT !.origin = o] \in Accounts
      BY StoreTyped DEF Accounts
    <3>2. Follows([store EXCEPT !.origin = o])
      BY <3>1, StoreTyped DEF Accounts, Follows
    <3> QED BY <1>3, <2>1, <3>2, PersistGoes, RestEffect DEF SaveBind, Pcs
  <2>2. CASE Fails(r)
    BY <1>3, <2>2, FailsEffect, RestEffect DEF SaveBind
  <2> QED BY <1>3, <2>1, <2>2 DEF SaveBind
<1>4. CASE CommitDisable(r)
  <2> DEFINE st == [Changed(store) EXCEPT !.keys = {}, !.origin = None]
  <2>1. st \in Accounts
    BY ChangedAccount DEF Accounts
  <2>2. Follows(st)
    BY <2>1, ChangedAccount, AlsoFollows DEF Accounts
  <2>3. CASE Persist(r, st, [req[r] EXCEPT !.pc = "saved"])
    BY <1>4, <2>2, <2>3, PersistGoes, RestEffect DEF CommitDisable, Pcs
  <2>4. CASE Fails(r)
    BY <1>4, <2>4, FailsEffect, RestEffect DEF CommitDisable
  <2> QED BY <1>4, <2>3, <2>4 DEF CommitDisable
<1>5. CASE SwapService(r)
  <2>1. StoreEffect /\ ReqEffect(r, Over) /\ Elsewhere /\ enrollment' = enrollment
    BY <1>5, KeptEffect, OverEffect DEF SwapService
  <2>2. service' = [origin |-> store.origin, pending |-> {}]
    BY <1>5 DEF SwapService
  <2>3. service' \in Services /\ service'.pending = {}
    BY <2>2, StoreTyped DEF Services, Accounts
  <2> QED BY <2>1, <2>3 DEF Effect, Elsewhere, CredentialInv, CredentialTypes
<1> QED BY <1>1, <1>2, <1>3, <1>4, <1>5 DEF Origin

LEMMA RecoverEffect ==
    ASSUME CredentialInv, NEW r \in Requests, Recover(r)
    PROVE  Effect(r)
<1> DEFINE st == [Changed(store) EXCEPT !.keys = {}]
<1>1. st \in Accounts
  BY ChangedAccount DEF Accounts
<1>2. Follows(st)
  BY <1>1, ChangedAccount, AlsoFollows DEF Accounts
<1> HIDE DEF st
<1>3. Follows(WithoutTotp(st))
  BY <1>2, WithoutTotpFollows
<1>4. Persist(r, st, Over) \/ Persist(r, WithoutTotp(st), Over)
  BY DEF Recover, st
<1> QED BY <1>2, <1>3, <1>4, PersistEnds, RestEffect DEF Recover

LEMMA ClientEffect ==
    ASSUME CredentialInv, NEW r \in Requests,
           Handles(r) \/ Asks(r) \/ Recover(r)
    PROVE  Effect(r)
<1>1. CASE Manage(r)
  <2>1. CASE Verify(r)
    BY <2>1, VerifyEffect, SpendEffect DEF Verify
  <2> QED BY <1>1, <2>1, RefuseEffect, ChangeEffect, BoundaryEffect,
             CommitCodesEffect, CommitOffEffect, EnrolEffect, ConfirmEffect
          DEF Manage
<1>2. CASE Keys(r)
  BY <1>2, CommitRegisterEffect, FinishRegisterEffect, CommitDeleteEffect,
     VerifyKeyEffect, CommitKeyLoginEffect, RecordKeyLoginEffect DEF Keys
<1>3. CASE Handles(r)
  BY <1>1, <1>2, <1>3, LoginEffect, OriginEffect DEF Handles
<1>4. CASE Asks(r)
  BY <1>4, LoginReadEffect, LogoutEffect, ArriveEffect, BeginKeyLoginEffect,
     ReturnEnrolEffect, ReturnKeysEffect DEF Asks
<1> QED BY <1>3, <1>4, RecoverEffect

LEMMA EffectKeeps ==
    ASSUME CredentialInv, NEW r \in Requests, Effect(r)
    PROVE  CredentialInv'
<1> PICK rec : ReqEffect(r, rec)
  BY DEF Effect
<1>1. req \in [Requests -> Progress] /\ req' = [req EXCEPT ![r] = rec]
      /\ rec \in Progress
  BY DEF ReqEffect, CredentialInv, CredentialTypes
<1>2. req' \in [Requests -> Progress]
  BY <1>1
<1>3. ASSUME NEW q \in Requests
      PROVE  Settled(req'[q]) /\ Fresh(req'[q].seen, store', changes')
  <2>1. CASE q = r
    BY <1>1, <2>1 DEF ReqEffect
  <2>2. CASE q # r
    <3>1. req'[q] = req[q] /\ Settled(req[q])
      BY <1>1, <2>2 DEF CredentialInv, CredentialTypes
    <3>2. req[q].seen \in Views /\ Fresh(req[q].seen, store, changes)
      BY SeenFresh
    <3> QED BY <3>1, <3>2 DEF Effect, StoreEffect, Views
  <2> QED BY <2>1, <2>2
<1>4. ASSUME NEW c \in service'.pending
      PROVE  Fresh(c, store', changes')
  <2>1. CASE c \in service.pending
    <3>1. c \in Ceremonies /\ Fresh(c, store, changes)
      BY <2>1 DEF CredentialInv, CredentialTypes, AllFresh, Services
    <3> QED BY <3>1 DEF Ceremonies, Effect, StoreEffect
  <2> QED BY <1>4, <2>1 DEF Effect
<1>5. enrollment' # None => Fresh(enrollment', store', changes')
  <2>1. CASE enrollment' = enrollment /\ enrollment # None
    <3>1. enrollment \in Enrollments /\ Fresh(enrollment, store, changes)
      BY <2>1 DEF CredentialInv, CredentialTypes, AllFresh
    <3> QED BY <2>1, <3>1 DEF Enrollments, Effect, StoreEffect
  <2> QED BY <2>1 DEF Effect
<1>6. /\ changes' \in Nat /\ Sound(store', changes') /\ keyFile' \in Names
      /\ up' \in BOOLEAN /\ service' \in Services
      /\ enrollment' \in Enrollments \cup {None}
  BY DEF Effect, StoreEffect, CredentialInv, CredentialTypes
<1> QED BY <1>2, <1>3, <1>4, <1>5, <1>6
        DEF CredentialInv, CredentialTypes, AllFresh

-----------------------------------------------------------------------------
(***************************************************************************)
(* What a request takes into the account: a secret, passkeys, sessions.    *)
(***************************************************************************)
\* Nothing is taken in.
Shrinks(st) ==
    /\ \/ st.secret = None
       \/ st.secret = store.secret /\ st.sealed = store.sealed
    /\ st.line = store.line /\ st.origin = store.origin
    /\ st.keys \subseteq store.keys /\ st.sessions \subseteq store.sessions

\* What is taken in, is by who knows the account as it is; a secret is sealed
\* with the key file.
Takes(r) ==
    /\ \/ store'.secret = None
       \/ store'.secret = store.secret /\ store'.sealed = store.sealed
       \/ /\ enrollment.at = store.at
          /\ store'.sealed = keyFile' /\ keyFile' # None
    /\ store'.line = store.line
    /\ store'.origin = store.origin \/ SaveBind(r) \/ CommitDisable(r)
    /\ store'.keys \subseteq store.keys \/ FinishRegister(r)
    /\ \A x \in (store'.keys \ store.keys)
                 \cup (store'.sessions \ store.sessions) :
         x.id = r /\ req[r].seen.at = store.at

LEMMA PersistShrinks ==
    ASSUME NEW st, Shrinks(st), NEW r, NEW rec, Persist(r, st, rec)
    PROVE  Shrinks(store')
BY DEF Persist, Saved, NotSaved, Shrinks

LEMMA ChangedShrinks ==
    ASSUME CredentialInv
    PROVE  /\ Changed(store) \in Accounts /\ Changed(store).sessions = {}
           /\ Changed(store).secret = store.secret
           /\ Changed(store).sealed = store.sealed
           /\ Changed(store).line = store.line
           /\ Changed(store).origin = store.origin
           /\ Changed(store).keys = store.keys
BY ChangedAccount, StoreTyped DEF Changed, Revoke, Advance, Accounts

LEMMA FactorShrinks ==
    ASSUME CredentialInv, NEW r, NEW v, NEW rec, SecondFactor(r, v, rec)
    PROVE  Shrinks(store')
<1>1. CASE UNCHANGED store
  BY <1>1 DEF Shrinks
<1>2. CASE ConsumeStep(r, v, rec)
  <2> PICK s \in Steps : Saved([store EXCEPT !.step = s]) \/ NotSaved
    BY <1>2 DEF ConsumeStep
  <2> QED BY StoreTyped DEF Saved, NotSaved, Shrinks, Accounts
<1>3. CASE ConsumeCode(r, rec)
  <2> PICK c \in store.codes : Saved([store EXCEPT !.codes = @ \ {c}]) \/ NotSaved
    BY <1>3 DEF ConsumeCode
  <2> QED BY StoreTyped DEF Saved, NotSaved, Shrinks, Accounts
<1> QED BY <1>1, <1>2, <1>3 DEF SecondFactor, Kept, Fails

LEMMA WithoutTotpShrinks ==
    ASSUME NEW st \in Accounts, st.keys \subseteq store.keys,
           st.line = store.line, st.origin = store.origin,
           st.sessions \subseteq store.sessions
    PROVE  Shrinks(WithoutTotp(st))
BY DEF WithoutTotp, Shrinks, Accounts

LEMMA ShrinksTakes ==
    ASSUME NEW r, Shrinks(store')
    PROVE  Takes(r)
BY DEF Shrinks, Takes

LEMMA LoginTakes ==
    ASSUME CredentialInv, NEW r \in Requests, NEW rec,
           Same(req[r].seen), Persist(r, Put(store, r, req[r].seen.at), rec)
    PROVE  Takes(r)
<1>1. req[r].seen.at = store.at
  BY SeenFresh DEF Fresh, Same
<1> DEFINE st == Put(store, r, req[r].seen.at)
<1>2. /\ st.secret = store.secret /\ st.sealed = store.sealed
      /\ st.line = store.line /\ st.origin = store.origin
      /\ st.keys = store.keys
      /\ \A s \in st.sessions : s \in store.sessions \/ s.id = r
  BY StoreTyped DEF Put, Accounts
<1>3. store' \in {st, store}
  BY DEF Persist, Saved, NotSaved
<1> QED BY <1>1, <1>2, <1>3 DEF Takes

LEMMA ConfirmTakes ==
    ASSUME CredentialInv, NEW r \in Requests, Confirm(r)
    PROVE  Takes(r)
<1>1. CASE UNCHANGED store
  BY <1>1 DEF Takes
<1>2. ASSUME NEW s \in Steps, NEW key, keyFile' = key, key # None,
             Enabled(enrollment), enrollment # None,
             Saved([Changed(store) EXCEPT !.secret = r, !.sealed = key,
                                          !.step = s, !.codes = {r}])
      PROVE  Takes(r)
  <2>1. Fresh(enrollment, store, changes)
    BY <1>2 DEF CredentialInv, AllFresh
  <2>2. enrollment.at = store.at
    BY <1>2, <2>1 DEF Enabled, Same, Fresh
  <2>3. /\ store'.keys = store.keys /\ store'.sessions = {}
        /\ store'.line = store.line /\ store'.origin = store.origin
        /\ store'.sealed = key
    BY <1>2, ChangedShrinks DEF Saved, Accounts
  <2> QED BY <1>2, <2>2, <2>3 DEF Takes
<1> QED BY <1>1, <1>2, NameAssumption DEF Confirm, Fails, Kept, NotSaved

LEMMA RegisterTakes ==
    ASSUME CredentialInv, NEW r \in Requests, FinishRegister(r)
    PROVE  Takes(r)
<1>1. CASE UNCHANGED store
  BY <1>1 DEF Takes
<1>2. CASE /\ Same(req[r].seen)
           /\ store' = [Changed(store) EXCEPT
                          !.keys = @ \cup {[id |-> r, rp |-> service.origin]}]
  <2>1. req[r].seen.at = store.at
    BY <1>2, SeenFresh DEF Fresh, Same
  <2>2. /\ store'.secret = store.secret /\ store'.sealed = store.sealed
        /\ store'.line = store.line /\ store'.origin = store.origin
        /\ store'.sessions = {}
        /\ \A k \in store'.keys : k \in store.keys \/ k.id = r
    BY <1>2, ChangedShrinks DEF Accounts
  <2> QED BY <2>1, <2>2 DEF Takes
<1> QED BY <1>1, <1>2 DEF FinishRegister, Persist, Saved, NotSaved, Fails, Kept

LEMMA ManageTakes ==
    ASSUME CredentialInv, NEW r \in Requests, Manage(r)
    PROVE  Takes(r)
<1>1. CASE Kept
  BY <1>1 DEF Kept, Takes
<1>2. CASE Change(r)
  <2>1. Shrinks(Changed(store))
    BY ChangedShrinks DEF Shrinks
  <2> QED BY <1>2, <2>1, PersistShrinks, ShrinksTakes DEF Change
<1>3. CASE Boundary(r)
  <2>1. Shrinks(Revoke(store))
    BY StoreTyped DEF Shrinks, Revoke, Accounts
  <2> QED BY <1>3, <2>1, PersistShrinks, ShrinksTakes DEF Boundary
<1>4. CASE Verify(r)
  BY <1>4, FactorShrinks, ShrinksTakes DEF Verify
<1>5. CASE CommitCodes(r)
  <2>1. Shrinks([Changed(store) EXCEPT !.codes = {r}])
    BY ChangedShrinks DEF Shrinks, Accounts
  <2> QED BY <1>1, <1>5, <2>1, PersistShrinks, ShrinksTakes
          DEF CommitCodes, Fails
<1>6. CASE CommitOff(r)
  <2>1. Shrinks(WithoutTotp(Changed(store)))
    BY ChangedShrinks, WithoutTotpShrinks
  <2> QED BY <1>1, <1>6, <2>1, PersistShrinks, ShrinksTakes
          DEF CommitOff, Fails
<1> QED BY <1>1, <1>2, <1>3, <1>4, <1>5, <1>6, ConfirmTakes
        DEF Manage, Refuse, Fails, Enrol

LEMMA KeysTakes ==
    ASSUME CredentialInv, NEW r \in Requests, Keys(r)
    PROVE  Takes(r)
<1>1. CASE Kept
  BY <1>1 DEF Kept, Takes
<1>2. CASE CommitDelete(r)
  <2>1. ASSUME NEW k
        PROVE  Shrinks([Changed(store) EXCEPT !.keys = @ \ {k}])
    BY ChangedShrinks DEF Shrinks, Accounts
  <2> QED BY <1>1, <1>2, <2>1, PersistShrinks, ShrinksTakes
          DEF CommitDelete, Fails
<1>3. CASE VerifyKey(r)
  BY <1>1, <1>3, FactorShrinks, ShrinksTakes DEF VerifyKey, Fails
<1>4. CASE CommitKeyLogin(r)
  BY <1>1, <1>4, LoginTakes DEF CommitKeyLogin, Fails
<1>5. CASE RecordKeyLogin(r)
  <2>1. Shrinks([store EXCEPT !.sessions = {s \in @ : s.id # r}])
    BY StoreTyped DEF Shrinks, Accounts
  <2>2. Shrinks(store)
    BY DEF Shrinks
  <2>3. \/ store' = store
        \/ store' = [store EXCEPT !.sessions = {s \in @ : s.id # r}]
    BY <1>5 DEF RecordKeyLogin, Kept
  <2> QED BY <2>1, <2>2, <2>3, ShrinksTakes
<1> QED BY <1>1, <1>2, <1>3, <1>4, <1>5, RegisterTakes
        DEF Keys, CommitRegister

LEMMA TakesIn ==
    ASSUME CredentialInv, NEW r \in Requests,
           Handles(r) \/ Asks(r) \/ Recover(r)
    PROVE  Takes(r)
<1>1. CASE Kept
  BY <1>1 DEF Kept, Takes
<1>2. CASE Login(r)
  BY <1>1, <1>2, FactorShrinks, ShrinksTakes, LoginTakes
     DEF Login, LoginFactor, LoginCommit, Fails
<1>3. CASE Origin(r)
  <2>1. CASE SaveBind(r)
    <3>1. ASSUME NEW o, store' = [store EXCEPT !.origin = o]
          PROVE  Takes(r)
      BY <2>1, <3>1, StoreTyped DEF Takes, Accounts
    <3> QED BY <1>1, <2>1, <3>1 DEF SaveBind, Persist, Saved, NotSaved, Fails, Kept, Takes
  <2>2. CASE CommitDisable(r)
    <3>1. CASE store' = [Changed(store) EXCEPT !.keys = {}, !.origin = None]
      <4>1. /\ store'.secret = store.secret /\ store'.sealed = store.sealed
            /\ store'.line = store.line /\ store'.keys = {} /\ store'.sessions = {}
        BY <3>1, ChangedShrinks DEF Accounts
      <4> QED BY <2>2, <4>1 DEF Takes
    <3>2. CASE UNCHANGED store
      BY <3>2 DEF Takes
    <3> QED BY <2>2, <3>1, <3>2
            DEF CommitDisable, Persist, Saved, NotSaved, Fails, Kept
  <2> QED BY <1>1, <1>3, <2>1, <2>2
          DEF Origin, EnterOrigin, ReleaseBind, SwapService
<1>4. CASE Asks(r)
  <2>1. ASSUME NEW s
        PROVE  Shrinks([store EXCEPT !.sessions = @ \ {s}])
    BY StoreTyped DEF Shrinks, Accounts
  <2> QED BY <1>1, <1>4, <2>1, PersistShrinks, ShrinksTakes
          DEF Asks, LoginRead, Logout, Arrive, BeginKeyLogin, ReturnEnrol,
              ReturnKeys
<1>5. CASE Recover(r)
  <2> DEFINE st == [Changed(store) EXCEPT !.keys = {}]
  <2>1. st \in Accounts /\ Shrinks(st)
    BY ChangedShrinks DEF Shrinks, Accounts
  <2>2. Shrinks(WithoutTotp(st))
    BY <2>1, WithoutTotpShrinks DEF Shrinks
  <2> HIDE DEF st
  <2>3. Persist(r, st, Over) \/ Persist(r, WithoutTotp(st), Over)
    BY <1>5 DEF Recover, st
  <2> QED BY <2>1, <2>2, <2>3, PersistShrinks, ShrinksTakes
<1> QED BY <1>2, <1>3, <1>4, <1>5, ManageTakes, KeysTakes DEF Handles

\* The key file is made once, by the first authenticator.
LEMMA KeyFileMade ==
    ASSUME NEW r \in Requests, Handles(r) \/ Asks(r) \/ Recover(r)
    PROVE  keyFile' # keyFile => keyFile = None
<1>1. CASE Confirm(r)
  BY <1>1 DEF Confirm
<1>2. CASE Elsewhere
  BY <1>2 DEF Elsewhere
<1> QED BY <1>1, <1>2
        DEF Handles, Login, LoginFactor, LoginCommit, Manage, Refuse,
            Change, Boundary, Verify, CommitCodes, CommitOff, Enrol, Keys,
            CommitRegister, FinishRegister, CommitDelete, VerifyKey,
            CommitKeyLogin, RecordKeyLogin, Origin, EnterOrigin, ReleaseBind,
            SaveBind, CommitDisable, SwapService, Asks, LoginRead, Logout,
            Arrive, BeginKeyLogin, ReturnEnrol, ReturnKeys, Recover, Rest

-----------------------------------------------------------------------------
(***************************************************************************)
(* The lock of the passkeys: whoever moves the origin is alone, and a bind *)
(* finds no passkey and meets none.                                        *)
(***************************************************************************)
LEMMA ServiceOrigin ==
    ASSUME CredentialInv, NEW r \in Requests,
           Handles(r) \/ Asks(r) \/ Recover(r)
    PROVE  service'.origin = service.origin \/ SwapService(r)
<1>1. CASE UNCHANGED service
  BY <1>1
<1>2. ASSUME NEW set, service' = [service EXCEPT !.pending = set]
      PROVE  service'.origin = service.origin
  BY <1>2 DEF CredentialInv, CredentialTypes, Services
<1>3. CASE CommitRegister(r) \/ BeginKeyLogin(r) \/ ReturnKeys(r)
  BY <1>1, <1>2, <1>3 DEF CommitRegister, BeginKeyLogin, ReturnKeys, Begins
<1> QED BY <1>1, <1>3
        DEF Handles, Login, LoginFactor, LoginCommit, Manage, Refuse,
            Change, Boundary, Verify, CommitCodes, CommitOff, Enrol, Confirm,
            Keys, FinishRegister, CommitDelete, VerifyKey,
            CommitKeyLogin, RecordKeyLogin, Origin, EnterOrigin, ReleaseBind,
            SaveBind, CommitDisable, Asks, LoginRead, Logout, Arrive,
            ReturnEnrol, Recover, Rest

\* What a request may come to hold of the lock.
Holding(r, rec) ==
    \/ /\ rec.pc \in {"idle", "done", "open", "begun", "queue"}
       /\ req[r].pc # "saved" \/ SwapService(r)
    \/ /\ rec.kind \notin OfKeys \cup OfOrigin
       /\ req[r].pc # "saved"
    \/ /\ rec.kind \in OfKeys /\ (UsesKeys(r) \/ KeysShared)
       /\ req[r].pc # "saved"
    \/ /\ rec.kind \in OfOrigin /\ rec.kind = req[r].kind /\ req[r].pc # "saved"
       /\ \/ MovesOrigin(r) /\ rec.pc \in {"checked", "verified"}
          \/ MovesOrigin(r) /\ rec.pc = "saved"
             /\ (SaveBind(r) \/ (CommitDisable(r) /\ store'.keys = {}))
          \/ /\ KeysAlone /\ rec.pc = "wait"
             /\ rec.kind = "bind" => store.keys = {}

Holds(r) == \E rec : req' = [req EXCEPT ![r] = rec] /\ Holding(r, rec)

LEMMA EndsHolds ==
    ASSUME NEW r, Ends(r), req[r].pc # "saved" \/ SwapService(r)
    PROVE  Holds(r)
<1>1. Over.pc = "done"
  BY DEF Over, Idle
<1> QED BY <1>1 DEF Ends, Becomes, Holds, Holding

LEMMA FactorHolds ==
    ASSUME NEW r, NEW v, NEW rec, SecondFactor(r, v, rec),
           Holding(r, rec), req[r].pc # "saved"
    PROVE  Holds(r)
<1>1. Becomes(r, rec) \/ Ends(r)
  BY DEF SecondFactor, ConsumeStep, ConsumeCode, Fails
<1> QED BY <1>1, EndsHolds DEF Becomes, Holds

LEMMA GoesHolds ==
    ASSUME CredentialInv, NEW r \in Requests, NEW p, Goes(r, p),
           Holding(r, [req[r] EXCEPT !.pc = p])
    PROVE  Holds(r)
BY DEF Goes, Becomes, Holds

\* The request as it goes on keeps its kind.
LEMMA GoesOn ==
    ASSUME CredentialInv, NEW r \in Requests, NEW p
    PROVE  /\ [req[r] EXCEPT !.pc = p].pc = p
           /\ [req[r] EXCEPT !.pc = p].kind = req[r].kind
           /\ \A v : /\ [req[r] EXCEPT !.pc = p, !.seen = v].pc = p
                     /\ [req[r] EXCEPT !.pc = p, !.seen = v].kind = req[r].kind
BY SeenFresh DEF Progress

LEMMA LoginHolds ==
    ASSUME CredentialInv, NEW r \in Requests, Login(r)
    PROVE  Holds(r)
<1>1. CASE LoginFactor(r)
  <2> DEFINE rec == [req[r] EXCEPT !.pc = "checked"]
  <2>1. req[r].kind = "login" /\ req[r].pc = "open"
    BY <1>1 DEF LoginFactor
  <2>2. Holding(r, rec)
    BY <2>1, GoesOn DEF Holding, OfKeys, OfOrigin
  <2> QED BY <1>1, <2>1, <2>2, FactorHolds DEF LoginFactor
<1>2. CASE LoginCommit(r)
  BY <1>2, EndsHolds DEF LoginCommit, Persist, Becomes, Ends, Fails
<1> QED BY <1>1, <1>2 DEF Login

LEMMA ManageHolds ==
    ASSUME CredentialInv, NEW r \in Requests, Manage(r)
    PROVE  Holds(r)
<1>1. CASE Verify(r)
  <2> DEFINE rec == [req[r] EXCEPT !.pc = "checked", !.seen = View(store)]
  <2>1. req[r].kind \in Factored /\ req[r].pc = "wait"
    BY <1>1 DEF Verify
  <2>2. rec.pc = "checked" /\ rec.kind = req[r].kind
    BY GoesOn
  <2> HIDE DEF rec
  <2>3. Holding(r, rec)
    BY <2>1, <2>2 DEF Holding, UsesKeys, MovesOrigin, Factored, OfKeys, OfOrigin
  <2> QED BY <1>1, <2>1, <2>3, FactorHolds DEF Verify, rec
<1>2. CASE Enrol(r)
  <2>1. req[r].kind = "enrol" /\ req[r].pc = "wait" /\ (Goes(r, "begun") \/ Ends(r))
    BY <1>2 DEF Enrol
  <2>2. Holding(r, [req[r] EXCEPT !.pc = "begun"])
    BY <2>1, GoesOn DEF Holding
  <2> QED BY <2>1, <2>2, GoesHolds, EndsHolds
<1>3. CASE Ends(r) /\ req[r].pc # "saved"
  BY <1>3, EndsHolds
<1> QED BY <1>1, <1>2, <1>3
        DEF Manage, Refuse, Change, Boundary, CommitCodes, CommitOff, Confirm,
            Persist, Becomes, Ends, Fails

LEMMA KeysHolds ==
    ASSUME CredentialInv, NEW r \in Requests, Keys(r)
    PROVE  Holds(r)
<1>1. CASE CommitRegister(r)
  <2>1. req[r].pc = "checked" /\ (Goes(r, "begun") \/ Ends(r))
    BY <1>1 DEF CommitRegister
  <2>2. Holding(r, [req[r] EXCEPT !.pc = "begun"])
    BY <2>1, GoesOn DEF Holding
  <2> QED BY <2>1, <2>2, GoesHolds, EndsHolds
<1>2. CASE VerifyKey(r)
  <2> DEFINE rec == [req[r] EXCEPT !.pc = "checked", !.seen = View(store)]
  <2>1. req[r].kind = "keyLogin" /\ req[r].pc = "again"
    BY <1>2 DEF VerifyKey
  <2>2. rec.pc = "checked" /\ rec.kind = req[r].kind
    BY GoesOn
  <2> HIDE DEF rec
  <2>3. Holding(r, rec)
    BY <2>1, <2>2 DEF Holding, UsesKeys, OfKeys, OfOrigin
  <2>4. SecondFactor(r, View(store), rec) \/ Ends(r)
    BY <1>2 DEF VerifyKey, Fails, rec
  <2> QED BY <2>1, <2>3, <2>4, FactorHolds, EndsHolds
<1>3. CASE CommitKeyLogin(r)
  <2>1. req[r].kind = "keyLogin" /\ req[r].pc = "checked"
        /\ (Goes(r, "entered") \/ Ends(r))
    BY <1>3 DEF CommitKeyLogin, Persist, Goes, Fails
  <2>2. Holding(r, [req[r] EXCEPT !.pc = "entered"])
    BY <2>1, GoesOn DEF Holding, UsesKeys, OfKeys, OfOrigin
  <2> QED BY <2>1, <2>2, GoesHolds, EndsHolds
<1>4. CASE Ends(r) /\ req[r].pc # "saved"
  BY <1>4, EndsHolds
<1> QED BY <1>1, <1>2, <1>3, <1>4
        DEF Keys, FinishRegister, CommitDelete, RecordKeyLogin, Persist,
            Becomes, Ends, Fails

LEMMA OriginHolds ==
    ASSUME CredentialInv, NEW r \in Requests, Origin(r)
    PROVE  Holds(r)
<1>1. CASE EnterOrigin(r)
  <2>1. /\ req[r].kind \in OfOrigin /\ req[r].pc = "queue" /\ KeysAlone
        /\ \/ Goes(r, "wait") /\ (req[r].kind = "bind" => store.keys = {})
           \/ Ends(r)
    BY <1>1 DEF EnterOrigin, HasKeys
  <2>2. CASE Goes(r, "wait") /\ (req[r].kind = "bind" => store.keys = {})
    <3>1. Holding(r, [req[r] EXCEPT !.pc = "wait"])
      BY <2>1, <2>2, GoesOn DEF Holding
    <3> QED BY <2>2, <3>1, GoesHolds
  <2> QED BY <2>1, <2>2, EndsHolds
<1>2. CASE ReleaseBind(r)
  <2>1. req[r].kind = "bind" /\ req[r].pc = "checked" /\ Goes(r, "verified")
    BY <1>2 DEF ReleaseBind
  <2>2. Holding(r, [req[r] EXCEPT !.pc = "verified"])
    BY <2>1, GoesOn DEF Holding, MovesOrigin, OfOrigin
  <2> QED BY <2>1, <2>2, GoesHolds
<1>3. CASE SaveBind(r)
  <2>1. req[r].kind = "bind" /\ req[r].pc = "verified"
        /\ (Goes(r, "saved") \/ Ends(r))
    BY <1>3 DEF SaveBind, Persist, Goes, Fails
  <2> DEFINE rec == [req[r] EXCEPT !.pc = "saved"]
  <2>2. rec.pc = "saved" /\ rec.kind = req[r].kind
    BY GoesOn
  <2> HIDE DEF rec
  <2>3. MovesOrigin(r)
    BY <2>1 DEF MovesOrigin, OfOrigin
  <2>4. Holding(r, rec)
    <3>1. SaveBind(r) \/ (CommitDisable(r) /\ store'.keys = {})
      BY <1>3
    <3>2. /\ rec.kind \in OfOrigin /\ rec.kind = req[r].kind
          /\ req[r].pc # "saved"
      BY <2>1, <2>2 DEF OfOrigin
    <3> QED BY <2>2, <2>3, <3>1, <3>2 DEF Holding
  <2> QED BY <2>1, <2>4, GoesHolds, EndsHolds DEF rec
<1>4. CASE CommitDisable(r)
  <2> DEFINE st == [Changed(store) EXCEPT !.keys = {}, !.origin = None]
  <2>1. st.keys = {}
    BY ChangedShrinks DEF Accounts
  <2> HIDE DEF st
  <2>2. /\ req[r].kind = "disable" /\ req[r].pc = "checked"
        /\ \/ Goes(r, "saved") /\ store' = st
           \/ Ends(r)
    BY <1>4 DEF CommitDisable, Persist, Saved, Goes, Fails, st
  <2>3. CASE Goes(r, "saved") /\ store' = st
    <3>1. Holding(r, [req[r] EXCEPT !.pc = "saved"])
      BY <1>4, <2>1, <2>2, <2>3, GoesOn DEF Holding, MovesOrigin, OfOrigin
    <3> QED BY <2>3, <3>1, GoesHolds
  <2> QED BY <2>2, <2>3, EndsHolds
<1>5. CASE SwapService(r)
  BY <1>5, EndsHolds DEF SwapService
<1> QED BY <1>1, <1>2, <1>3, <1>4, <1>5 DEF Origin

LEMMA AsksHolds ==
    ASSUME CredentialInv, NEW r \in Requests, Asks(r)
    PROVE  Holds(r)
<1>1. CASE LoginRead(r)
  <2> DEFINE rec == [pc |-> "open", kind |-> "login", as |-> None,
                     seen |-> View(store)]
  <2>1. req' = [req EXCEPT ![r] = rec] /\ req[r].pc = "idle"
    BY <1>1 DEF LoginRead, Becomes
  <2>2. rec.pc = "open"
    OBVIOUS
  <2> HIDE DEF rec
  <2> QED BY <2>1, <2>2 DEF Holds, Holding
<1>2. CASE Logout(r)
  BY <1>2, EndsHolds DEF Logout, Persist, Becomes, Ends
<1>3. CASE Arrive(r)
  <2> PICK s \in store.sessions, k \in Managed :
        /\ k \in OfKeys => KeysShared
        /\ Becomes(r, [pc |-> IF k \in OfOrigin THEN "queue" ELSE "wait",
                       kind |-> k, as |-> s.id, seen |-> NoView])
    BY <1>3 DEF Arrive
  <2> DEFINE rec == [pc |-> IF k \in OfOrigin THEN "queue" ELSE "wait",
                     kind |-> k, as |-> s.id, seen |-> NoView]
  <2>1. req[r].pc = "idle"
    BY <1>3 DEF Arrive
  <2>2. rec.kind = k /\ rec.pc = (IF k \in OfOrigin THEN "queue" ELSE "wait")
    OBVIOUS
  <2> HIDE DEF rec
  <2>3. Holding(r, rec)
    BY <2>1, <2>2 DEF Holding
  <2> QED BY <2>3 DEF Holds, Becomes, rec
<1>4. CASE BeginKeyLogin(r)
  <2> DEFINE rec == [Idle EXCEPT !.pc = "begun", !.kind = "keyLogin"]
  <2>1. rec.pc = "begun" /\ req[r].pc = "idle" /\ req' = [req EXCEPT ![r] = rec]
    BY <1>4 DEF BeginKeyLogin, Becomes, Idle
  <2> HIDE DEF rec
  <2> QED BY <2>1 DEF Holds, Holding
<1>5. CASE ReturnEnrol(r)
  <2>1. req[r].kind = "enrol" /\ req[r].pc = "begun"
        /\ (Goes(r, "again") \/ Ends(r))
    BY <1>5 DEF ReturnEnrol
  <2>2. Holding(r, [req[r] EXCEPT !.pc = "again"])
    BY <2>1, GoesOn DEF Holding, OfKeys, OfOrigin
  <2> QED BY <2>1, <2>2, GoesHolds, EndsHolds
<1>6. CASE ReturnKeys(r)
  <2>1. /\ req[r].kind \in {"register", "keyLogin"} /\ req[r].pc = "begun"
        /\ KeysShared
        /\ \/ Ends(r)
           \/ \E v : Becomes(r, [req[r] EXCEPT !.pc = "again", !.seen = v])
    BY <1>6 DEF ReturnKeys
  <2>2. ASSUME NEW v, Becomes(r, [req[r] EXCEPT !.pc = "again", !.seen = v])
        PROVE  Holds(r)
    <3> DEFINE rec == [req[r] EXCEPT !.pc = "again", !.seen = v]
    <3>1. rec.pc = "again" /\ rec.kind = req[r].kind
      BY GoesOn
    <3> HIDE DEF rec
    <3>2. Holding(r, rec)
      BY <2>1, <3>1 DEF Holding, OfKeys
    <3> QED BY <2>2, <3>2 DEF Holds, Becomes, rec
  <2> QED BY <2>1, <2>2, EndsHolds
<1> QED BY <1>1, <1>2, <1>3, <1>4, <1>5, <1>6 DEF Asks

LEMMA LockStep ==
    ASSUME CredentialInv, NEW r \in Requests,
           Handles(r) \/ Asks(r) \/ Recover(r)
    PROVE  Holds(r)
<1>1. CASE Recover(r)
  BY <1>1, EndsHolds DEF Recover, Persist, Becomes, Ends
<1> QED BY <1>1, LoginHolds, ManageHolds, KeysHolds, OriginHolds, AsksHolds
        DEF Handles

\* A passkey is registered for the origin of the service.
LEMMA RegisterKey ==
    ASSUME CredentialInv, NEW r \in Requests, FinishRegister(r)
    PROVE  \A k \in store'.keys : k \in store.keys \/ k.rp = service.origin
<1>1. CASE UNCHANGED store
  BY <1>1
<1>2. CASE store' = [Changed(store) EXCEPT
                       !.keys = @ \cup {[id |-> r, rp |-> service.origin]}]
  BY <1>2, ChangedShrinks DEF Accounts
<1> QED BY <1>1, <1>2
        DEF FinishRegister, Persist, Saved, NotSaved, Fails, Kept

\* Whoever has moved the origin holds the lock until the service follows.
LEMMA OriginMoved ==
    ASSUME CredentialInv, NEW r \in Requests, SaveBind(r) \/ CommitDisable(r),
           store'.origin # store.origin
    PROVE  /\ req[r].kind \in OfOrigin
           /\ req'[r].pc = "saved" /\ req'[r].kind = req[r].kind
<1> DEFINE rec == [req[r] EXCEPT !.pc = "saved"]
<1>1. rec.pc = "saved" /\ rec.kind = req[r].kind
  BY GoesOn
<1> HIDE DEF rec
<1>2. req[r].kind \in OfOrigin
  BY DEF SaveBind, CommitDisable, OfOrigin
<1>3. req' = [req EXCEPT ![r] = rec]
  <2>1. CASE SaveBind(r)
    BY <2>1 DEF SaveBind, Persist, Becomes, NotSaved, Fails, Kept, rec
  <2>2. CASE CommitDisable(r)
    BY <2>2 DEF CommitDisable, Persist, Becomes, NotSaved, Fails, Kept, rec
  <2> QED BY <2>1, <2>2
<1>4. req'[r] = rec
  BY <1>3 DEF CredentialInv, CredentialTypes
<1> QED BY <1>1, <1>2, <1>4

-----------------------------------------------------------------------------
(***************************************************************************)
(* Second factors: what a request spends, and what it makes anew.          *)
(***************************************************************************)
Factor(r, f) == [by |-> r, factor |-> f, line |-> store.line]

\* Nothing is spent, and nothing spent becomes good again.
Plain(st) ==
    /\ st.line = store.line /\ st.codes \subseteq store.codes
    /\ \/ st.secret = None
       \/ st.secret = store.secret /\ st.step = store.step

Spends(r) ==
    \/ spent' = spent /\ Plain(store')
    \/ /\ spent' = spent /\ req'[r].pc = "done"
       /\ store'.line = store.line /\ store'.secret = store.secret
       /\ store'.step = store.step /\ store'.codes = {r}
    \/ \E s \in Steps :
         /\ s > store.step /\ store.secret # None
         /\ store' = [store EXCEPT !.step = s]
         /\ spent' = spent \cup {Factor(r, <<store.secret, s>>)}
    \/ \E c \in store.codes :
         /\ store' = [store EXCEPT !.codes = @ \ {c}]
         /\ spent' = spent \cup {Factor(r, <<c>>)}
    \/ \E s \in Steps :
         /\ req'[r].pc = "done"
         /\ store'.line = store.line /\ store'.secret = r
         /\ store'.step = s /\ store'.codes = {r}
         /\ spent' = spent \cup {Factor(r, <<r, s>>)}

LEMMA KeptSpends ==
    ASSUME NEW r, UNCHANGED <<store, spent>>
    PROVE  Spends(r)
BY DEF Spends, Plain

LEMMA PersistSpends ==
    ASSUME NEW r, NEW st, NEW rec, Plain(st), Persist(r, st, rec),
           UNCHANGED spent
    PROVE  Spends(r)
BY DEF Persist, Saved, NotSaved, Spends, Plain

LEMMA ChangedPlain ==
    ASSUME CredentialInv
    PROVE  /\ Plain(Changed(store)) /\ Changed(store) \in Accounts
           /\ Changed(store).secret = store.secret
           /\ Changed(store).step = store.step
           /\ Changed(store).line = store.line
           /\ Changed(store).codes = store.codes
BY ChangedAccount, StoreTyped DEF Plain, Changed, Revoke, Advance, Accounts

LEMMA WithoutTotpPlain ==
    ASSUME NEW st \in Accounts, st.line = store.line
    PROVE  Plain(WithoutTotp(st))
BY DEF Plain, WithoutTotp, Accounts

LEMMA FactorSpends ==
    ASSUME CredentialInv, NEW r \in Requests, NEW v, NEW rec,
           SecondFactor(r, v, rec)
    PROVE  Spends(r)
<1>1. CASE ConsumeStep(r, v, rec) /\ v.secret # None
  <2> PICK s \in Steps :
        /\ store.secret = v.secret /\ Unused(s)
        /\ \/ /\ store' = [store EXCEPT !.step = s]
              /\ spent' = spent \cup {Factor(r, <<v.secret, s>>)}
           \/ UNCHANGED <<store, spent>>
    BY <1>1 DEF ConsumeStep, Saved, NotSaved, Accepts, Factor
  <2>1. CASE UNCHANGED <<store, spent>>
    BY <2>1, KeptSpends
  <2>2. CASE /\ store' = [store EXCEPT !.step = s]
             /\ spent' = spent \cup {Factor(r, <<store.secret, s>>)}
    BY <1>1, <2>2 DEF Spends, Unused
  <2> QED BY <2>1, <2>2
<1>2. CASE ConsumeCode(r, rec)
  <2> PICK c \in store.codes :
        \/ /\ store' = [store EXCEPT !.codes = @ \ {c}]
           /\ spent' = spent \cup {Factor(r, <<c>>)}
        \/ UNCHANGED <<store, spent>>
    BY <1>2 DEF ConsumeCode, Saved, NotSaved, Accepts, Factor
  <2>1. CASE UNCHANGED <<store, spent>>
    BY <2>1, KeptSpends
  <2>2. CASE /\ store' = [store EXCEPT !.codes = @ \ {c}]
             /\ spent' = spent \cup {Factor(r, <<c>>)}
    BY <2>2 DEF Spends
  <2> QED BY <2>1, <2>2
<1>3. CASE UNCHANGED <<store, spent>>
  BY <1>3, KeptSpends
<1> QED BY <1>1, <1>2, <1>3 DEF SecondFactor, Kept, Fails

LEMMA LoginSpends ==
    ASSUME CredentialInv, NEW r \in Requests, Login(r)
    PROVE  Spends(r)
<1>1. CASE LoginFactor(r)
  BY <1>1, FactorSpends DEF LoginFactor
<1>2. CASE LoginCommit(r)
  <2>1. Plain(Put(store, r, req[r].seen.at))
    BY StoreTyped DEF Plain, Put, Accounts
  <2> QED BY <1>2, <2>1, PersistSpends, KeptSpends
          DEF LoginCommit, Rest, Fails, Kept
<1> QED BY <1>1, <1>2 DEF Login

LEMMA ConfirmSpends ==
    ASSUME CredentialInv, NEW r \in Requests, Confirm(r)
    PROVE  Spends(r)
<1>1. CASE UNCHANGED <<store, spent>>
  BY <1>1, KeptSpends
<1>2. ASSUME NEW s \in Steps, NEW key,
             Saved([Changed(store) EXCEPT !.secret = r, !.sealed = key,
                                          !.step = s, !.codes = {r}]),
             Ends(r), Accepts(r, <<r, s>>)
      PROVE  Spends(r)
  <2>1. /\ store'.line = store.line /\ store'.secret = r
        /\ store'.step = s /\ store'.codes = {r}
    BY <1>2, ChangedPlain DEF Saved, Accounts
  <2>2. req' = [req EXCEPT ![r] = Over] /\ Over.pc = "done"
    BY <1>2 DEF Ends, Becomes, Over, Idle
  <2>3. req'[r].pc = "done"
    BY <2>2 DEF CredentialInv, CredentialTypes
  <2>4. spent' = spent \cup {Factor(r, <<r, s>>)}
    BY <1>2 DEF Accepts, Factor
  <2> QED BY <2>1, <2>3, <2>4 DEF Spends
<1> QED BY <1>1, <1>2 DEF Confirm, Fails, Kept, NotSaved

LEMMA CodesSpends ==
    ASSUME CredentialInv, NEW r \in Requests, CommitCodes(r)
    PROVE  Spends(r)
<1>1. CASE UNCHANGED <<store, spent>>
  BY <1>1, KeptSpends
<1>2. CASE /\ store' = [Changed(store) EXCEPT !.codes = {r}]
           /\ spent' = spent /\ Ends(r)
  <2>1. /\ store'.line = store.line /\ store'.secret = store.secret
        /\ store'.step = store.step /\ store'.codes = {r}
    BY <1>2, ChangedPlain DEF Accounts
  <2>2. req' = [req EXCEPT ![r] = Over] /\ Over.pc = "done"
    BY <1>2 DEF Ends, Becomes, Over, Idle
  <2>3. req'[r].pc = "done"
    BY <2>2 DEF CredentialInv, CredentialTypes
  <2> QED BY <1>2, <2>1, <2>3 DEF Spends
<1> QED BY <1>1, <1>2
        DEF CommitCodes, Persist, Saved, NotSaved, Becomes, Ends, Fails, Kept, Rest

LEMMA ManageSpends ==
    ASSUME CredentialInv, NEW r \in Requests, Manage(r)
    PROVE  Spends(r)
<1>1. CASE UNCHANGED <<store, spent>>
  BY <1>1, KeptSpends
<1>2. CASE Change(r)
  BY <1>2, ChangedPlain, PersistSpends DEF Change, Rest
<1>3. CASE Boundary(r)
  <2>1. Plain(Revoke(store))
    BY StoreTyped DEF Plain, Revoke, Accounts
  <2> QED BY <1>3, <2>1, PersistSpends DEF Boundary, Rest
<1>4. CASE CommitOff(r)
  <2>1. Plain(WithoutTotp(Changed(store)))
    BY ChangedPlain, WithoutTotpPlain
  <2> QED BY <1>1, <1>4, <2>1, PersistSpends DEF CommitOff, Rest, Fails, Kept
<1>5. CASE Verify(r)
  BY <1>5, FactorSpends DEF Verify
<1> QED BY <1>1, <1>2, <1>3, <1>4, <1>5, CodesSpends, ConfirmSpends
        DEF Manage, Refuse, Enrol, Fails, Kept, Rest

LEMMA KeysSpends ==
    ASSUME CredentialInv, NEW r \in Requests, Keys(r)
    PROVE  Spends(r)
<1>1. CASE UNCHANGED <<store, spent>>
  BY <1>1, KeptSpends
<1>2. ASSUME NEW ks, NEW rec, UNCHANGED spent,
             Persist(r, [Changed(store) EXCEPT !.keys = ks], rec)
      PROVE  Spends(r)
  <2>1. Plain([Changed(store) EXCEPT !.keys = ks])
    BY ChangedPlain DEF Plain, Accounts
  <2> QED BY <1>2, <2>1, PersistSpends
<1>3. CASE FinishRegister(r) \/ CommitDelete(r)
  BY <1>1, <1>2, <1>3 DEF FinishRegister, CommitDelete, Fails, Kept, Rest
<1>4. CASE VerifyKey(r)
  BY <1>1, <1>4, FactorSpends DEF VerifyKey, Fails, Kept
<1>5. CASE CommitKeyLogin(r)
  <2>1. Plain(Put(store, r, req[r].seen.at))
    BY StoreTyped DEF Plain, Put, Accounts
  <2> QED BY <1>1, <1>5, <2>1, PersistSpends DEF CommitKeyLogin, Rest, Fails, Kept
<1>6. CASE RecordKeyLogin(r)
  <2> DEFINE st == [store EXCEPT !.sessions = {s \in @ : s.id # r}]
  <2>1. Plain(st)
    BY StoreTyped DEF Plain, Accounts
  <2> HIDE DEF st
  <2>2. store' \in {store, st} /\ spent' = spent
    BY <1>6 DEF RecordKeyLogin, Kept, Rest, st
  <2> QED BY <1>1, <2>1, <2>2 DEF Spends
<1> QED BY <1>1, <1>3, <1>4, <1>5, <1>6 DEF Keys, CommitRegister, Kept

LEMMA OriginSpends ==
    ASSUME CredentialInv, NEW r \in Requests, Origin(r)
    PROVE  Spends(r)
<1>1. CASE UNCHANGED <<store, spent>>
  BY <1>1, KeptSpends
<1>2. CASE SaveBind(r)
  <2>1. ASSUME NEW o
        PROVE  Plain([store EXCEPT !.origin = o])
    BY StoreTyped DEF Plain, Accounts
  <2> QED BY <1>1, <1>2, <2>1, PersistSpends DEF SaveBind, Rest, Fails, Kept
<1>3. CASE CommitDisable(r)
  <2>1. Plain([Changed(store) EXCEPT !.keys = {}, !.origin = None])
    BY ChangedPlain DEF Plain, Accounts
  <2> QED BY <1>1, <1>3, <2>1, PersistSpends DEF CommitDisable, Rest, Fails, Kept
<1> QED BY <1>1, <1>2, <1>3
        DEF Origin, EnterOrigin, ReleaseBind, SwapService, Kept, Rest

LEMMA ClientSpends ==
    ASSUME CredentialInv, NEW r \in Requests,
           Handles(r) \/ Asks(r) \/ Recover(r)
    PROVE  Spends(r)
<1>1. CASE UNCHANGED <<store, spent>>
  BY <1>1, KeptSpends
<1>2. CASE Logout(r)
  <2>1. ASSUME NEW s
        PROVE  Plain([store EXCEPT !.sessions = @ \ {s}])
    BY StoreTyped DEF Plain, Accounts
  <2> QED BY <1>2, <2>1, PersistSpends DEF Logout, Rest
<1>3. CASE Asks(r)
  BY <1>1, <1>2, <1>3 DEF Asks, LoginRead, Arrive, BeginKeyLogin, ReturnEnrol,
     ReturnKeys, Kept, Rest
<1>4. CASE Recover(r)
  <2> DEFINE st == [Changed(store) EXCEPT !.keys = {}]
  <2>1. Plain(st) /\ st \in Accounts /\ st.line = store.line
    BY ChangedPlain DEF Plain, Accounts
  <2> HIDE DEF st
  <2>2. Persist(r, st, Over) \/ Persist(r, WithoutTotp(st), Over)
    BY <1>4 DEF Recover, st
  <2>3. Plain(WithoutTotp(st))
    BY <2>1, WithoutTotpPlain
  <2> QED BY <1>4, <2>1, <2>2, <2>3, PersistSpends DEF Recover, Rest
<1> QED BY <1>3, <1>4, LoginSpends, ManageSpends, KeysSpends, OriginSpends
        DEF Handles

\* A request that is done does nothing more.
LEMMA DoneStays ==
    ASSUME CredentialInv, NEW r \in Requests,
           Handles(r) \/ Asks(r) \/ Recover(r)
    PROVE  /\ req[r].pc # "done"
           /\ \A q \in Requests \ {r} : req'[q] = req[q]
<1>1. req[r].pc # "done"
  BY DEF Handles, Login, LoginFactor, LoginCommit, Manage, Refuse,
     Change, Boundary, Verify, CommitCodes, CommitOff, Enrol, Confirm, Keys,
     CommitRegister, FinishRegister, CommitDelete, VerifyKey,
     CommitKeyLogin, RecordKeyLogin, Origin, EnterOrigin, ReleaseBind,
     SaveBind, CommitDisable, SwapService, Asks, LoginRead, Logout, Arrive,
     BeginKeyLogin, ReturnEnrol, ReturnKeys, Recover
<1>2. \E rec : req' = [req EXCEPT ![r] = rec]
  BY LockStep DEF Holds
<1> QED BY <1>1, <1>2 DEF CredentialInv, CredentialTypes

(***************************************************************************)
(* The switch to the identity of the backup, and back.                     *)
(***************************************************************************)
Stages == {"serve", "marked", "staged", "drain", "start", "check",
           "reset", "cancel", "cancelled", "save", "files", "mixed",
           "key", "identity", "applied", "undo", "undoStore",
           "undoKey", "undoRecord", "undone", "boot", "listening",
           "committed", "completed", "finish", "finished"}
Serving   == {"serve", "marked", "staged"}
Switching == {"files", "mixed", "key", "identity", "applied",
              "undo", "undoStore", "undoKey", "undoRecord", "undone"}
Intended  == {"staged", "drain", "check", "reset", "save"}
Trees     == {"own", "mixed", "backup"}
Snapshots == [secret : Names, sealed : Names, step : Nat, key : Names]

\* Nobody holds anything of the account.
Quiet ==
    /\ \A r \in Requests : req[r].pc \in {"idle", "done"}
    /\ service.pending = {} /\ enrollment = None

\* The journal, whose entry of what was before is sound.
JournalOK ==
    \/ journal \in {NoJournal, Pending}
    \/ /\ journal \in [phase : {"applying", "applied", "committed"},
                       previous : [tree : Trees, store : Accounts,
                                   keyFile : Names]]
       /\ Sound(journal.previous.store, changes)

StageOK ==
    /\ stage \in Stages /\ (up <=> stage \in Serving)
    /\ stage \notin Serving \cup {"drain"} => Quiet
    /\ stage \in Switching => journal.phase \in {"applying", "applied"}
    /\ stage \in Intended => journal.phase # "none"
    /\ backup \in Snapshots \cup {None}
    /\ stage = "marked" \/ journal.phase # "none" => backup \in Snapshots

FilesOK ==
    /\ record \in {"none", "restarting", "failed", "completed"}
    /\ tree \in Trees /\ grants \in BOOLEAN

PanelInv == CredentialInv /\ JournalOK /\ StageOK /\ FilesOK

-----------------------------------------------------------------------------
LEMMA InitPanel == RestoreInit => PanelInv
<1> SUFFICES ASSUME RestoreInit PROVE PanelInv
  OBVIOUS
<1> PICK totp \in BOOLEAN, ks \in SUBSET {Old}, origin \in Origins \cup {None} :
      /\ store = [epoch |-> 0, version |-> 1, at |-> 0, line |-> 0,
                  secret |-> IF totp THEN Old ELSE None,
                  sealed |-> IF totp THEN Old ELSE None,
                  step |-> 0,
                  codes |-> IF totp THEN {Old} ELSE {},
                  keys |-> {[id |-> k, rp |-> origin] : k \in ks},
                  origin |-> origin,
                  sessions |-> {[id |-> Old, at |-> 0]}]
      /\ keyFile = store.sealed
      /\ service = [origin |-> origin, pending |-> {}]
  BY DEF RestoreInit, Init
<1>1. {[id |-> k, rp |-> origin] : k \in ks} \in SUBSET PassKeys
  BY DEF PassKeys
<1>2. {[id |-> Old, at |-> 0]} \in SUBSET Sessions
  BY DEF Sessions
<1>3. store \in Accounts
  BY <1>1, <1>2, BoundAssumption DEF Accounts, Names
<1>4. changes = 0 /\ Sound(store, 0) /\ keyFile \in Names /\ up = TRUE
      /\ enrollment = None /\ service \in Services /\ service.pending = {}
  BY <1>3 DEF RestoreInit, Init, Sound, Accounts, Services
<1>5. NoView \in Views /\ Fresh(NoView, store, changes)
  BY <1>4, NoViewFresh
<1>6. Idle \in Progress /\ Idle.pc = "idle" /\ Idle.seen = NoView
  BY <1>5 DEF Idle, Progress, Pcs, Kinds
<1>7. req = [r \in Requests |-> Idle]
  BY DEF RestoreInit, Init
<1>8. CredentialInv
  BY <1>4, <1>5, <1>6, <1>7 DEF CredentialInv, CredentialTypes, AllFresh, Settled
<1>9. Quiet
  BY <1>4, <1>6, <1>7 DEF Quiet
<1>10. JournalOK /\ StageOK /\ FilesOK
  BY <1>4 DEF RestoreInit, JournalOK, StageOK, FilesOK, NoJournal, Stages,
     Serving, Switching, Intended, Trees
<1> QED BY <1>8, <1>10 DEF PanelInv

\* Who holds nothing has nothing to compare with the account.
LEMMA QuietFresh ==
    ASSUME CredentialTypes, Quiet
    PROVE  CredentialInv
<1>1. ASSUME NEW r \in Requests
      PROVE  Fresh(req[r].seen, store, changes)
  <2>1. req[r].seen = NoView
    BY DEF CredentialTypes, Quiet, Settled
  <2> QED BY <2>1, NoViewFresh DEF CredentialTypes
<1> QED BY <1>1 DEF CredentialInv, AllFresh, Quiet

\* While a switch is under way only an offline recovery can act, and only at
\* the start of the process.
LEMMA ClientWhen ==
    ASSUME PanelInv, Quiet, ~ up, NEW r \in Requests, Handles(r) \/ Asks(r)
    PROVE  FALSE
<1>1. req[r].pc \in {"idle", "done"}
  BY DEF Quiet
<1>2. ~ Asks(r)
  BY DEF Asks, LoginRead, Logout, Arrive, BeginKeyLogin, ReturnEnrol,
     ReturnKeys
<1>3. ~ Handles(r)
  BY <1>1 DEF Handles, Login, LoginFactor, LoginCommit, Manage, Refuse,
     Change, Boundary, Verify, CommitCodes, CommitOff, Enrol, Confirm, Keys,
     CommitRegister, FinishRegister, CommitDelete, VerifyKey,
     CommitKeyLogin, RecordKeyLogin, Origin, EnterOrigin, ReleaseBind,
     SaveBind, CommitDisable, SwapService
<1> QED BY <1>2, <1>3

LEMMA ClientPanel ==
    ASSUME PanelInv, Client
    PROVE  PanelInv'
<1> PICK r \in Requests : Handles(r) \/ Asks(r) \/ (stage = "start" /\ Recover(r))
  BY DEF Client
<1>1. CredentialInv /\ UNCHANGED <<stage, files>>
  BY DEF PanelInv, Client
<1>2. Effect(r) /\ CredentialInv'
  BY <1>1, ClientEffect, EffectKeeps
<1>3. JournalOK'
  BY <1>1, <1>2 DEF PanelInv, JournalOK, files, Effect, StoreEffect, Sound,
     CredentialInv, CredentialTypes, Accounts
<1>4. ASSUME Quiet, ~ up
      PROVE  Quiet'
  <2>1. req \in [Requests -> Progress]
    BY <1>1 DEF CredentialInv, CredentialTypes
  <2>4. Recover(r)
    BY <1>4, ClientWhen
  <2>5. Over.pc = "done"
    BY DEF Over, Idle
  <2>6. req' = [req EXCEPT ![r] = Over] /\ UNCHANGED <<service, enrollment>>
    BY <2>4 DEF Recover, Persist, Becomes, Ends, Rest
  <2> QED BY <1>4, <2>1, <2>5, <2>6 DEF Quiet
<1>5. StageOK'
  BY <1>1, <1>2, <1>4 DEF PanelInv, StageOK, files, Effect, Serving
<1> QED BY <1>1, <1>2, <1>3, <1>5 DEF PanelInv, FilesOK, files

-----------------------------------------------------------------------------
(***************************************************************************)
(* The steps of the restore.                                               *)
(***************************************************************************)
LEMMA SameCredentials ==
    ASSUME PanelInv,
           UNCHANGED <<store, keyFile, up, service, enrollment, req, changes>>
    PROVE  CredentialInv' /\ (Quiet => Quiet')
BY DEF PanelInv, CredentialInv, CredentialTypes, AllFresh, Sound, Fresh,
   Settled, Quiet

\* A step that is not one of the credentials, and does not touch the journal.
LEMMA SameJournal ==
    ASSUME PanelInv, UNCHANGED <<journal, changes>>
    PROVE  JournalOK'
BY DEF PanelInv, JournalOK, Sound

LEMMA JournalTyped ==
    ASSUME PanelInv
    PROVE  /\ journal.phase \in {"none", "pending", "applying", "applied", "committed"}
           /\ journal.phase \in {"applying", "applied", "committed"} =>
                /\ journal \in [phase : {"applying", "applied", "committed"},
                                previous : [tree : Trees, store : Accounts,
                                            keyFile : Names]]
                /\ Sound(journal.previous.store, changes)
BY DEF PanelInv, JournalOK, NoJournal, Pending

LEMMA ExportPanel == PanelInv /\ Export => PanelInv'
<1> SUFFICES ASSUME PanelInv, Export PROVE PanelInv'
  OBVIOUS
<1>1. backup' \in Snapshots
  BY StoreTyped DEF Export, Snapshot, Snapshots, Accounts, PanelInv,
     CredentialInv, CredentialTypes
<1>2. CredentialInv' /\ JournalOK' /\ (Quiet => Quiet')
  BY SameCredentials, SameJournal DEF Export, vars
<1>3. StageOK' /\ FilesOK'
  BY <1>1, <1>2 DEF PanelInv, StageOK, FilesOK, Export, vars
<1> QED BY <1>2, <1>3 DEF PanelInv

LEMMA MarkPanel == PanelInv /\ Mark => PanelInv'
<1> SUFFICES ASSUME PanelInv, Mark PROVE PanelInv'
  OBVIOUS
<1>1. backup' \in Snapshots
  BY DEF Mark, Foreign, Snapshots, Names, PanelInv, StageOK
<1>2. CredentialInv' /\ JournalOK' /\ (Quiet => Quiet')
  BY SameCredentials, SameJournal DEF Mark, Rested, Memory
<1>3. StageOK' /\ FilesOK'
  BY <1>1, <1>2 DEF PanelInv, StageOK, FilesOK, Mark, Rested, Memory, Done,
     Breaks, Stages, Serving, Switching, Intended
<1> QED BY <1>2, <1>3 DEF PanelInv

\* Steps that leave the credentials alone: what remains is where they lead.
LEMMA RestedPanel ==
    ASSUME PanelInv, Rested, JournalOK', FilesOK',
           stage \in Stages, stage' \in Stages,
           stage \in Serving <=> stage' \in Serving,
           stage' \in Serving \cup {"drain"} \/ stage \notin Serving \cup {"drain"},
           stage' \in Switching => journal'.phase \in {"applying", "applied"},
           stage' \in Intended => journal'.phase # "none",
           backup' = backup,
           stage' = "marked" \/ journal'.phase # "none" =>
              stage = "marked" \/ journal.phase # "none"
    PROVE  PanelInv'
<1>1. CredentialInv' /\ (Quiet => Quiet')
  BY SameCredentials DEF Rested, Memory
<1>2. StageOK'
  BY <1>1 DEF PanelInv, StageOK, Rested, Memory
<1> QED BY <1>1, <1>2 DEF PanelInv

LEMMA PreparePanel ==
    ASSUME PanelInv,
           \/ StageJournal \/ Preflight \/ ResetAccess
           \/ CancelRecord \/ CancelJournal \/ SaveOld
    PROVE  PanelInv'
<1>1. CASE StageJournal
  <2>1. JournalOK' /\ FilesOK'
    BY <1>1 DEF PanelInv, JournalOK, Sound, FilesOK, StageJournal, Rested
  <2>2. Pending.phase = "pending"
    BY DEF Pending
  <2> QED BY <1>1, <2>1, <2>2, RestedPanel
          DEF StageJournal, Done, Breaks, Stages, Serving, Switching, Intended
<1>2. CASE Preflight \/ ResetAccess \/ CancelRecord
  <2>1. JournalOK' /\ journal' = journal
    BY <1>2, SameJournal
       DEF Preflight, ResetAccess, CancelRecord, WritesRecord, files, Rested
  <2>2. FilesOK'
    BY <1>2 DEF PanelInv, FilesOK, Preflight, ResetAccess, CancelRecord,
       WritesRecord, files
  <2> QED BY <1>2, <2>1, <2>2, RestedPanel
          DEF Preflight, ResetAccess, CancelRecord, WritesRecord, files, Done,
              Breaks, Withdraws, Stages, Serving, Switching, Intended,
              PanelInv, StageOK
<1>3. CASE CancelJournal
  <2>1. JournalOK' /\ FilesOK'
    BY <1>3 DEF PanelInv, JournalOK, Sound, FilesOK, CancelJournal,
       RemovesJournal, Rested
  <2>2. NoJournal.phase = "none"
    BY DEF NoJournal
  <2> QED BY <1>3, <2>1, <2>2, RestedPanel
          DEF CancelJournal, RemovesJournal, Done, Breaks, Stages, Serving,
              Switching, Intended
<1>4. CASE SaveOld
  <2> DEFINE j == [phase |-> "applying",
                   previous |-> [tree |-> tree, store |-> store,
                                 keyFile |-> keyFile]]
  <2>1. /\ j \in [phase : {"applying", "applied", "committed"},
                  previous : [tree : Trees, store : Accounts, keyFile : Names]]
        /\ j.phase = "applying" /\ Sound(j.previous.store, changes)
    BY DEF PanelInv, FilesOK, CredentialInv, CredentialTypes, Sound
  <2> HIDE DEF j
  <2>2. WritesJournal(j, "files", "start") /\ Rested
    BY <1>4 DEF SaveOld, j
  <2>3. JournalOK' /\ FilesOK'
    BY <2>1, <2>2 DEF PanelInv, JournalOK, Sound, FilesOK, WritesJournal, Rested
  <2>4. stage = "save" /\ journal.phase # "none"
    BY <1>4 DEF SaveOld, PanelInv, StageOK, Intended
  <2> QED BY <2>1, <2>2, <2>3, <2>4, RestedPanel
          DEF WritesJournal, Done, Breaks, Stages, Serving, Switching, Intended
<1> QED BY <1>1, <1>2, <1>3, <1>4

LEMMA UndoPanel ==
    ASSUME PanelInv,
           \/ MoveFiles \/ Applied \/ UndoFiles \/ UndoRecord \/ UndoJournal
    PROVE  PanelInv'
<1>1. CASE MoveFiles \/ UndoFiles \/ UndoRecord
  <2>1. JournalOK' /\ journal' = journal
    BY <1>1, SameJournal DEF MoveFiles, UndoFiles, UndoRecord, WritesRecord, Rested
  <2>2. stage \in Switching /\ journal.phase \in {"applying", "applied"}
    BY <1>1 DEF MoveFiles, UndoFiles, UndoRecord, PanelInv, StageOK, Switching
  <2>3. FilesOK'
    BY <1>1, <2>2, JournalTyped
       DEF PanelInv, FilesOK, MoveFiles, UndoFiles, UndoRecord, WritesRecord, Trees
  <2> QED BY <1>1, <2>1, <2>2, <2>3, RestedPanel
          DEF MoveFiles, UndoFiles, UndoRecord, WritesRecord, Done, Breaks,
              Stages, Serving, Switching, Intended
<1>2. CASE Applied
  <2> DEFINE j == [journal EXCEPT !.phase = "applied"]
  <2>1. stage = "applied" /\ journal.phase \in {"applying", "applied"}
    BY <1>2 DEF Applied, PanelInv, StageOK, Switching
  <2>2. /\ j \in [phase : {"applying", "applied", "committed"},
                  previous : [tree : Trees, store : Accounts, keyFile : Names]]
        /\ j.phase = "applied" /\ Sound(j.previous.store, changes)
    BY <2>1, JournalTyped
  <2> HIDE DEF j
  <2>3. WritesJournal(j, "boot", "undo") /\ Rested
    BY <1>2 DEF Applied, j
  <2>4. JournalOK' /\ FilesOK'
    BY <2>2, <2>3 DEF PanelInv, JournalOK, Sound, FilesOK, WritesJournal, Rested
  <2> QED BY <2>1, <2>2, <2>3, <2>4, RestedPanel
          DEF WritesJournal, Done, Breaks, Stages, Serving, Switching, Intended
<1>3. CASE UndoJournal
  <2>1. JournalOK' /\ FilesOK'
    BY <1>3 DEF PanelInv, JournalOK, Sound, FilesOK, UndoJournal,
       RemovesJournal, Rested
  <2>2. NoJournal.phase = "none"
    BY DEF NoJournal
  <2> QED BY <1>3, <2>1, <2>2, RestedPanel
          DEF UndoJournal, RemovesJournal, Done, Breaks, Stages, Serving,
              Switching, Intended
<1> QED BY <1>1, <1>2, <1>3

\* The account and its key file are replaced while nobody holds anything.
LEMMA MovePanel ==
    ASSUME PanelInv, MoveKey \/ MoveIdentity \/ UndoStore \/ UndoKey
    PROVE  PanelInv'
<1>1. /\ stage \in {"key", "identity", "undoStore", "undoKey"}
      /\ stage' \in {"identity", "applied", "undo", "undoKey", "undoRecord", "start"}
      /\ stage' # "start" => stage' \in Switching
      /\ UNCHANGED <<files, Memory>>
  BY DEF MoveKey, MoveIdentity, UndoStore, UndoKey, Done, Breaks, Switching
<1>2. Quiet /\ ~ up /\ journal.phase \in {"applying", "applied"}
      /\ backup \in Snapshots
  BY <1>1 DEF PanelInv, StageOK, Switching, Serving
<1>3. /\ journal.previous.store \in Accounts /\ journal.previous.keyFile \in Names
      /\ Sound(journal.previous.store, changes)
  BY <1>2, JournalTyped
<1>4. keyFile' \in Names
  BY <1>2, <1>3 DEF PanelInv, CredentialInv, CredentialTypes, MoveKey,
     MoveIdentity, UndoStore, UndoKey, Snapshots
<1>5. changes' \in Nat /\ changes <= changes' /\ Sound(store', changes')
  <2>1. changes \in Nat /\ store \in Accounts /\ Sound(store, changes)
    BY DEF PanelInv, CredentialInv, CredentialTypes, Sound
  <2>2. CASE store' = Restored(store, backup) /\ changes' = changes + 1
    <3>1. 1 \in 1..MaxVersion /\ changes + 1 \in Nat /\ store.line + 1 \in Nat
      BY <2>1, BoundAssumption DEF Accounts
    <3>2. store' \in Accounts
      BY <1>2, <2>1, <2>2, <3>1 DEF Restored, Accounts, Snapshots
    <3>3. store'.at = changes + 1 /\ store'.epoch = changes + 1 /\ store'.sessions = {}
      BY <2>1, <2>2 DEF Restored, Accounts
    <3> QED BY <2>1, <2>2, <3>1, <3>2, <3>3 DEF Sound
  <2>3. CASE UNCHANGED <<store, changes>>
    BY <2>1, <2>3
  <2>4. CASE store' = journal.previous.store /\ UNCHANGED changes
    BY <1>3, <2>1, <2>4
  <2> QED BY <2>2, <2>3, <2>4 DEF MoveKey, MoveIdentity, UndoStore, UndoKey
<1>6. CredentialTypes' /\ Quiet'
  BY <1>1, <1>2, <1>4, <1>5 DEF PanelInv, CredentialInv, CredentialTypes,
     Memory, Settled, Quiet
<1>7. CredentialInv'
  <2>1. ASSUME NEW r \in Requests
        PROVE  Fresh(req'[r].seen, store', changes')
    <3>1. req'[r].seen = NoView
      BY <1>6 DEF CredentialTypes, Quiet, Settled
    <3> QED BY <1>5, <3>1, NoViewFresh
  <2> QED BY <1>6, <2>1 DEF CredentialInv, AllFresh, Quiet
<1>8. JournalOK'
  BY <1>1, <1>5 DEF PanelInv, JournalOK, files, Sound, Accounts,
     CredentialInv, CredentialTypes
<1>9. StageOK' /\ FilesOK'
  BY <1>1, <1>2, <1>6 DEF PanelInv, StageOK, FilesOK, files, Memory, Stages,
     Serving, Switching, Intended
<1> QED BY <1>7, <1>8, <1>9 DEF PanelInv

LEMMA StartPanel ==
    ASSUME PanelInv,
           Start \/ Boot \/ Commit \/ FinishRecord \/ FinishJournal
    PROVE  PanelInv'
<1>1. CASE Start
  <2>1. Rested /\ JournalOK' /\ FilesOK' /\ UNCHANGED files
    BY <1>1, SameJournal DEF Start, vars, files, Rested, Memory, PanelInv, FilesOK
  <2>2. /\ stage = "start" /\ stage' \in {"boot", "check", "undo", "finish"}
        /\ stage' = "check" => journal.phase = "pending"
        /\ stage' = "undo" => journal.phase \in {"applying", "applied"}
    BY <1>1, JournalTyped DEF Start, Resumes
  <2> QED BY <2>1, <2>2, RestedPanel DEF files, Stages, Serving, Switching, Intended
<1>2. CASE Boot \/ FinishRecord
  <2>1. JournalOK' /\ journal' = journal /\ Rested /\ backup' = backup
    BY <1>2, SameJournal DEF Boot, FinishRecord, WritesRecord, files, Rested
  <2>2. FilesOK'
    BY <1>2 DEF PanelInv, FilesOK, Boot, FinishRecord, WritesRecord, files
  <2> QED BY <1>2, <2>1, <2>2, RestedPanel
          DEF Boot, FinishRecord, WritesRecord, Done, Breaks, Stages, Serving,
              Switching, Intended
<1>3. CASE Commit
  <2> DEFINE j == [journal EXCEPT !.phase = "committed"]
  <2>1. stage = "listening" /\ journal.phase = "applied"
    BY <1>3 DEF Commit
  <2>2. /\ j \in [phase : {"applying", "applied", "committed"},
                  previous : [tree : Trees, store : Accounts, keyFile : Names]]
        /\ j.phase = "committed" /\ Sound(j.previous.store, changes)
    BY <2>1, JournalTyped
  <2> HIDE DEF j
  <2>3. WritesJournal(j, "committed", "start") /\ Rested
    BY <1>3 DEF Commit, j
  <2>4. JournalOK' /\ FilesOK'
    BY <2>2, <2>3 DEF PanelInv, JournalOK, Sound, FilesOK, WritesJournal, Rested
  <2> QED BY <2>1, <2>2, <2>3, <2>4, RestedPanel
          DEF WritesJournal, Done, Breaks, Stages, Serving, Switching, Intended
<1>4. CASE FinishJournal
  <2>1. JournalOK' /\ FilesOK'
    BY <1>4 DEF PanelInv, JournalOK, Sound, FilesOK, FinishJournal,
       RemovesJournal, Rested
  <2>2. NoJournal.phase = "none"
    BY DEF NoJournal
  <2> QED BY <1>4, <2>1, <2>2, RestedPanel
          DEF FinishJournal, RemovesJournal, Done, Breaks, Stages, Serving,
              Switching, Intended
<1> QED BY <1>1, <1>2, <1>3, <1>4

LEMMA ServePanel ==
    ASSUME PanelInv, Serve
    PROVE  PanelInv'
<1>1. Quiet
  BY DEF Serve, PanelInv, StageOK, Serving
<1>2. service' = [origin |-> store.origin, pending |-> {}]
  BY DEF Serve, Serves
<1>3. service' \in Services /\ service'.pending = {}
  BY <1>2, StoreTyped DEF PanelInv, Services, Accounts
<1>4. CredentialInv'
  BY <1>3 DEF Serve, Serves, PanelInv, CredentialInv, CredentialTypes,
     AllFresh, Sound, Fresh, Settled
<1>5. JournalOK' /\ FilesOK'
  BY SameJournal DEF Serve, files, PanelInv, FilesOK
<1>6. StageOK'
  BY DEF Serve, Serves, files, PanelInv, StageOK, Stages, Serving, Switching,
     Intended
<1> QED BY <1>4, <1>5, <1>6 DEF PanelInv

\* The process goes down, or only stops serving.
LEMMA DownPanel ==
    ASSUME PanelInv, Shutdown \/ Drain \/ Stop
    PROVE  PanelInv'
<1>1. CASE Shutdown
  <2>1. CredentialInv'
    BY <1>1 DEF Shutdown, PanelInv, CredentialInv, CredentialTypes, AllFresh,
       Sound, Fresh, Settled
  <2>2. JournalOK' /\ FilesOK'
    BY <1>1, SameJournal DEF Shutdown, files, PanelInv, FilesOK
  <2>3. StageOK'
    <3>1. /\ stage = "staged" /\ stage' = "drain" /\ up' = FALSE
          /\ UNCHANGED <<journal, backup>>
      BY <1>1 DEF Shutdown, files
    <3>2. StageOK
      BY DEF PanelInv
    <3> QED BY <3>1, <3>2 DEF StageOK, Stages, Serving, Switching, Intended
  <2> QED BY <2>1, <2>2, <2>3 DEF PanelInv
<1>2. CASE Drain \/ Stop
  <2>1. Down /\ UNCHANGED <<store, keyFile, changes, files>>
    BY <1>2 DEF Drain, Stop
  <2>2. /\ service' = [origin |-> None, pending |-> {}] /\ up' = FALSE
        /\ enrollment' = None
        /\ req' = [r \in Requests |-> IF req[r].pc = "idle" THEN req[r] ELSE Over]
    BY <2>1 DEF Down
  <2>3. service' \in Services /\ service'.pending = {}
    BY <2>2 DEF Services
  <2>4. NoView \in Views
    BY NoViewFresh DEF PanelInv, CredentialInv, CredentialTypes
  <2>5. Over \in Progress /\ Over.pc = "done" /\ Over.seen = NoView
    BY <2>4 DEF Over, Idle, Progress, Pcs, Kinds
  <2>6. /\ req' \in [Requests -> Progress]
        /\ \A r \in Requests : Settled(req'[r]) /\ req'[r].pc \in {"idle", "done"}
    BY <2>2, <2>5 DEF PanelInv, CredentialInv, CredentialTypes, Settled
  <2>7. CredentialTypes' /\ Quiet'
    BY <2>1, <2>2, <2>3, <2>6 DEF PanelInv, CredentialInv, CredentialTypes,
       Sound, Quiet
  <2>8. CredentialInv'
    <3>1. ASSUME NEW r \in Requests
          PROVE  Fresh(req'[r].seen, store', changes')
      <4>1. req'[r].seen = NoView
        BY <2>7 DEF CredentialTypes, Quiet, Settled
      <4> QED BY <2>1, <4>1, NoViewFresh DEF PanelInv, CredentialInv, CredentialTypes
    <3> QED BY <2>7, <3>1 DEF CredentialInv, AllFresh, Quiet
  <2>9. JournalOK' /\ FilesOK'
    BY <2>1, SameJournal DEF files, PanelInv, FilesOK
  <2>10. stage' \in {"check", "start"} /\ (stage' = "check" => stage = "drain")
    BY <1>2 DEF Drain, Stop
  <2>11. StageOK'
    <3>1. UNCHANGED <<journal, backup>> /\ StageOK
      BY <2>1 DEF files, PanelInv
    <3> QED BY <2>2, <2>7, <2>10, <3>1
            DEF StageOK, Stages, Serving, Switching, Intended
  <2> QED BY <2>8, <2>9, <2>11 DEF PanelInv
<1> QED BY <1>1, <1>2

LEMMA NextPanel ==
    ASSUME PanelInv, [RestoreNext]_all
    PROVE  PanelInv'
<1>1. CASE UNCHANGED all
  <2>1. UNCHANGED <<vars, stage, files>>
    BY <1>1 DEF all
  <2>2. CredentialInv' /\ JournalOK' /\ (Quiet => Quiet')
    BY <2>1, SameCredentials, SameJournal DEF vars, files
  <2> QED BY <2>1, <2>2 DEF PanelInv, StageOK, FilesOK, vars, files
<1>2. CASE Restoring
  BY <1>2, PreparePanel, UndoPanel, MovePanel, StartPanel, ServePanel,
     DownPanel DEF Restoring
<1> QED BY <1>1, <1>2, ClientPanel, ExportPanel, MarkPanel, DownPanel
        DEF RestoreNext

\* TypeOK for any number of requests, origins, time steps, failures and stops.
THEOREM PanelTypes == RestoreSpec => []TypeOK
<1>1. PanelInv => TypeOK
  <2> SUFFICES ASSUME PanelInv PROVE TypeOK
    OBVIOUS
  <2>1. /\ store \in Accounts /\ store.at <= changes /\ changes \in Nat
        /\ up \in BOOLEAN
    BY DEF PanelInv, CredentialInv, CredentialTypes, Sound
  <2>2. store.epoch \in Nat /\ store.version \in 1..MaxVersion
        /\ store.at \in 0..changes
        /\ \A s \in store.sessions : s.id \in Requests \cup {Old}
    BY <2>1 DEF Accounts, Sessions
  <2>3. up = (stage \in {"serve", "marked", "staged"})
    BY <2>1 DEF PanelInv, StageOK, Serving
  <2> QED BY <2>2, <2>3 DEF TypeOK, PanelInv, StageOK, FilesOK, Stages, Trees
<1> QED BY <1>1, InitPanel, NextPanel, PTL DEF RestoreSpec

\* SessionsCurrent: every session was issued for the credentials in force,
\* through changes, ceremonies, restores and rollbacks.
THEOREM NoOldSession == RestoreSpec => []SessionsCurrent
<1>1. PanelInv => SessionsCurrent
  BY DEF PanelInv, CredentialInv, CredentialTypes, Sound, SessionsCurrent
<1> QED BY <1>1, InitPanel, NextPanel, PTL DEF RestoreSpec

-----------------------------------------------------------------------------
(***************************************************************************)
(* What a step takes into the account.                                     *)
(***************************************************************************)
LEMMA StaleStep ==
    ASSUME PanelInv, [RestoreNext]_all, up, up'
    PROVE  /\ store'.secret \in Requests \ {store.secret} =>
                 enrollment.at = store.at
           /\ \A x \in (store'.keys \ store.keys)
                        \cup (store'.sessions \ store.sessions) :
                 req[x.id].seen.at = store.at
<1>1. CASE UNCHANGED store
  BY <1>1
<1>2. CASE Client
  <2> PICK r \in Requests : Handles(r) \/ Asks(r) \/ Recover(r)
    BY <1>2 DEF Client
  <2>1. CredentialInv
    BY DEF PanelInv
  <2>2. /\ store'.secret \in Requests \ {store.secret} =>
             enrollment.at = store.at
        /\ \A x \in (store'.keys \ store.keys)
                        \cup (store'.sessions \ store.sessions) :
             x.id = r /\ req[r].seen.at = store.at
    BY <2>1, TakesIn, NameAssumption DEF Takes
  <2> QED BY <2>2
<1>3. CASE Export \/ Mark \/ UNCHANGED all
  BY <1>1, <1>3 DEF Export, Mark, Rested, vars, all
<1>4. CASE Restoring
  <2>1. stage \in Serving
    BY DEF PanelInv, StageOK
  <2>2. StageJournal \/ Shutdown
    BY <1>4, <2>1
          DEF Restoring, StageJournal, Shutdown, Drain, Preflight, ResetAccess,
              CancelRecord, CancelJournal, SaveOld, MoveFiles, MoveKey,
              MoveIdentity, Applied, UndoFiles, UndoStore, UndoKey, UndoRecord,
              UndoJournal, Start, Boot, Commit, FinishRecord, FinishJournal,
              Serve, Serving
  <2> QED BY <1>1, <2>2 DEF StageJournal, Shutdown, Rested
<1>5. CASE Stop
  BY <1>1, <1>5 DEF Stop
<1> QED BY <1>2, <1>3, <1>4, <1>5 DEF RestoreNext

\* StaleNeverCommits: a secret, a passkey or a session comes from a ceremony
\* that began under the credentials in force.
THEOREM OnlyPresentCommits == RestoreSpec => StaleNeverCommits
<1>1. PanelInv /\ [RestoreNext]_all =>
        [up /\ up' =>
          /\ store'.secret \in Requests \ {store.secret} =>
                enrollment.at = store.at
          /\ \A x \in (store'.keys \ store.keys)
                       \cup (store'.sessions \ store.sessions) :
                req[x.id].seen.at = store.at]_all
  BY StaleStep
<1> QED BY <1>1, InitPanel, NextPanel, PTL DEF RestoreSpec, StaleNeverCommits

-----------------------------------------------------------------------------
(***************************************************************************)
(* The switch is whole: what each phase of the journal, and each stage in  *)
(* it, says of the settings files, the account and the key file.           *)
(***************************************************************************)
Fits(st, k) == st.secret # None => k = st.sealed /\ st.sealed # None

BackupFits ==
    backup # None \/ stage = "marked" \/ journal.phase # "none" =>
        Fits(backup, backup.key)

BeforeSwitch ==
    journal.phase \in {"none", "pending"} =>
        /\ Fits(store, keyFile)
        /\ record = "completed" => tree = "backup" /\ store.line = 1 /\ ~ grants
        /\ record # "completed" => tree = "own" /\ store.line = 0
        /\ journal.phase = "pending" => record \in {"restarting", "failed"}

DuringSwitch ==
    journal.phase \in {"applying", "applied"} =>
        /\ record \in {"restarting", "failed"} /\ ~ grants
        /\ journal.previous.tree = "own" /\ journal.previous.store.line = 0
        /\ Fits(journal.previous.store, journal.previous.keyFile)
        /\ stage \in {"files", "mixed", "key", "identity"} => store.line = 0
        /\ stage \in {"key", "identity", "applied"} => tree = "backup"
        /\ stage = "identity" => keyFile = backup.key
        /\ stage \in {"applied", "boot", "listening"} =>
             tree = "backup" /\ store.line = 1 /\ Fits(store, keyFile)
        /\ stage \in {"undoStore", "undoKey", "undoRecord", "undone"} =>
             tree = "own"
        /\ stage \in {"undoKey", "undoRecord", "undone"} =>
             store = journal.previous.store
        /\ stage \in {"undoRecord", "undone"} => Fits(store, keyFile)
        /\ stage = "undone" => record = "failed"

AfterSwitch ==
    journal.phase = "committed" =>
        /\ tree = "backup" /\ store.line = 1 /\ ~ grants /\ Fits(store, keyFile)
        /\ stage \in {"finished", "completed"} => record = "completed"

StagePhase ==
    /\ stage \in Serving => journal.phase \in {"none", "pending"}
    /\ stage \in Intended \cup {"cancel", "cancelled"} => journal.phase = "pending"
    /\ stage \in {"boot", "listening"} => journal.phase \in {"none", "applied"}
    /\ stage \in {"finish", "finished", "committed", "completed"} =>
         journal.phase = "committed"
    /\ stage = "marked" => record = "restarting"
    /\ stage = "save" => ~ grants

SwitchInv ==
    /\ BackupFits /\ BeforeSwitch /\ DuringSwitch /\ AfterSwitch /\ StagePhase

LEMMA InitSwitch == RestoreInit => SwitchInv
<1> SUFFICES ASSUME RestoreInit PROVE SwitchInv
  OBVIOUS
<1>1. store.line = 0 /\ Fits(store, keyFile)
  BY NameAssumption DEF RestoreInit, Init, Fits
<1>2. PanelInv
  BY InitPanel
<1> QED BY <1>1 DEF RestoreInit, SwitchInv, BackupFits, BeforeSwitch,
        DuringSwitch, AfterSwitch, StagePhase, NoJournal, Serving, Intended

\* Clients keep the line of the account and what its secret is sealed with,
\* and act only where nothing depends on the rest.
LEMMA ClientSwitch ==
    ASSUME PanelInv, SwitchInv, Client
    PROVE  SwitchInv'
<1> PICK r \in Requests : Handles(r) \/ Asks(r) \/ (stage = "start" /\ Recover(r))
  BY DEF Client
<1>1. UNCHANGED <<stage, record, journal, tree, grants, backup>>
  BY DEF Client, files
<1>2. store'.line = store.line
  BY TakesIn DEF PanelInv, Takes
<1>3. Fits(store, keyFile) => Fits(store', keyFile')
  <2>1. keyFile' # keyFile => keyFile = None
    BY KeyFileMade
  <2>2. \/ store'.secret = None
        \/ store'.secret = store.secret /\ store'.sealed = store.sealed
        \/ store'.sealed = keyFile' /\ keyFile' # None
    BY TakesIn DEF PanelInv, Takes
  <2> QED BY <2>1, <2>2 DEF Fits
<1>4. stage \in Serving \cup {"drain", "start"}
  BY ClientWhen DEF PanelInv, StageOK
<1>5. StagePhase' /\ BackupFits' /\ BeforeSwitch' /\ AfterSwitch'
  BY <1>1, <1>2, <1>3 DEF SwitchInv, StagePhase, BackupFits, BeforeSwitch,
     AfterSwitch, Fits
<1>6. DuringSwitch'
  BY <1>1, <1>4 DEF SwitchInv, DuringSwitch, Serving, Fits
<1> QED BY <1>5, <1>6 DEF SwitchInv

LEMMA ServingSwitch ==
    ASSUME PanelInv, SwitchInv, Export \/ Mark \/ StageJournal \/ Shutdown
    PROVE  SwitchInv'
<1>1. CASE Export
  <2>1. journal.phase \in {"none", "pending"} /\ Fits(store, keyFile)
    BY <1>1 DEF Export, SwitchInv, StagePhase, BeforeSwitch, Serving
  <2>2. Fits(backup', backup'.key)
    BY <1>1, <2>1 DEF Export, Snapshot, Fits
  <2> QED BY <1>1, <2>2 DEF Export, vars, SwitchInv, BackupFits, BeforeSwitch,
             DuringSwitch, AfterSwitch, StagePhase, Fits
<1>2. CASE Mark
  <2>1. Fits(backup', backup'.key)
    BY <1>2, NameAssumption, OtherAssumption
       DEF Mark, Foreign, SwitchInv, BackupFits, Fits
  <2>2. journal.phase = "none"
    BY <1>2, JournalTyped
       DEF Mark, SwitchInv, BeforeSwitch, StagePhase, Serving
  <2>3. /\ stage' \in {"marked", "serve"} /\ record' \in {"restarting", "failed"}
        /\ stage' = "marked" => record' = "restarting"
        /\ UNCHANGED <<journal, tree, grants, store, keyFile>> /\ record = "none"
    BY <1>2 DEF Mark, Done, Breaks, Rested
  <2> QED BY <2>1, <2>2, <2>3 DEF SwitchInv, BackupFits, BeforeSwitch,
             DuringSwitch, AfterSwitch, StagePhase, Serving, Intended, Fits
<1>3. CASE StageJournal
  <2>1. /\ record = "restarting" /\ journal.phase \in {"none", "pending"}
        /\ stage = "marked" /\ stage' \in {"staged", "serve"}
        /\ record' \in {"restarting", "failed"}
        /\ journal' \in {journal, Pending}
        /\ stage' = "staged" => journal' = Pending
        /\ journal'.phase = "pending" => record' \in {"restarting", "failed"}
        /\ UNCHANGED <<tree, grants, backup, store, keyFile>>
    BY <1>3 DEF StageJournal, Done, Breaks, Rested, SwitchInv, StagePhase, Serving
  <2>2. Pending.phase = "pending"
    BY DEF Pending
  <2>3. journal'.phase \in {"none", "pending"}
    BY <2>1, <2>2
  <2> QED BY <2>1, <2>2, <2>3 DEF SwitchInv, BackupFits, BeforeSwitch,
             DuringSwitch, AfterSwitch, StagePhase, Serving, Intended, Fits
<1>4. CASE Shutdown
  <2>1. /\ stage = "staged" /\ stage' = "drain"
        /\ UNCHANGED <<record, journal, tree, grants, backup, store, keyFile>>
    BY <1>4 DEF Shutdown, files
  <2> QED BY <2>1 DEF SwitchInv, BackupFits, BeforeSwitch,
             DuringSwitch, AfterSwitch, StagePhase, Serving, Intended, Fits
<1> QED BY <1>1, <1>2, <1>3, <1>4

\* Before anything is replaced.
LEMMA PrepareSwitch ==
    ASSUME PanelInv, SwitchInv,
           \/ Preflight \/ ResetAccess \/ CancelRecord \/ CancelJournal
           \/ SaveOld \/ Drain \/ Stop
    PROVE  SwitchInv'
<1>1. CASE Preflight \/ Drain \/ Stop
  <2>1. /\ UNCHANGED <<record, journal, tree, grants, backup, store, keyFile>>
        /\ \/ stage = "check" /\ stage' \in {"reset", "cancel"}
           \/ stage = "drain" /\ stage' = "check"
           \/ stage' = "start"
    BY <1>1 DEF Preflight, Drain, Stop, Done, Breaks, Withdraws, files, Rested
  <2> QED BY <2>1 DEF SwitchInv, BackupFits, BeforeSwitch,
             DuringSwitch, AfterSwitch, StagePhase, Serving, Intended, Fits
<1>2. CASE ResetAccess
  <2>1. /\ UNCHANGED <<record, journal, tree, backup, store, keyFile>>
        /\ stage = "reset" /\ stage' \in {"save", "cancel"}
        /\ stage' = "save" => ~ grants'
        /\ grants' = grants \/ ~ grants'
    BY <1>2 DEF ResetAccess, Done, Breaks, Withdraws, Rested
  <2> QED BY <2>1 DEF SwitchInv, BackupFits, BeforeSwitch,
             DuringSwitch, AfterSwitch, StagePhase, Serving, Intended, Fits
<1>3. CASE CancelRecord
  <2>1. /\ UNCHANGED <<journal, tree, grants, backup, store, keyFile>>
        /\ stage = "cancel" /\ stage' \in {"cancelled", "start"}
        /\ record' \in {record, "failed"}
    BY <1>3 DEF CancelRecord, WritesRecord, Done, Breaks, Rested
  <2> QED BY <2>1 DEF SwitchInv, BackupFits, BeforeSwitch,
             DuringSwitch, AfterSwitch, StagePhase, Serving, Intended, Fits
<1>4. CASE CancelJournal
  <2>1. /\ UNCHANGED <<record, tree, grants, backup, store, keyFile>>
        /\ stage = "cancelled" /\ stage' \in {"boot", "start"}
        /\ \/ journal' = NoJournal
           \/ journal' = journal /\ stage' = "start"
    BY <1>4 DEF CancelJournal, RemovesJournal, Done, Breaks, Rested
  <2>2. NoJournal.phase = "none" /\ journal.phase = "pending"
    BY <2>1 DEF NoJournal, SwitchInv, StagePhase
  <2> QED BY <2>1, <2>2 DEF SwitchInv, BackupFits, BeforeSwitch,
             DuringSwitch, AfterSwitch, StagePhase, Serving, Intended, Fits
<1>5. CASE SaveOld
  <2> DEFINE j == [phase |-> "applying",
                   previous |-> [tree |-> tree, store |-> store,
                                 keyFile |-> keyFile]]
  <2>1. /\ j.phase = "applying" /\ j.previous.tree = tree
        /\ j.previous.store = store /\ j.previous.keyFile = keyFile
    OBVIOUS
  <2> HIDE DEF j
  <2>2. /\ UNCHANGED <<record, tree, grants, backup, store, keyFile>>
        /\ stage = "save" /\ stage' \in {"files", "start"}
        /\ \/ journal' = j
           \/ journal' = journal /\ stage' = "start"
    BY <1>5 DEF SaveOld, WritesJournal, Done, Breaks, Rested, j
  <2>3. /\ journal.phase = "pending" /\ ~ grants
        /\ record \in {"restarting", "failed"} /\ tree = "own"
        /\ store.line = 0 /\ Fits(store, keyFile) /\ Fits(backup, backup.key)
    BY <2>2 DEF SwitchInv, StagePhase, BeforeSwitch, BackupFits, Intended
  <2>4. CASE journal' = j
    BY <2>1, <2>2, <2>3, <2>4 DEF SwitchInv, BackupFits, BeforeSwitch,
       DuringSwitch, AfterSwitch, StagePhase, Serving, Intended, Fits
  <2>5. CASE journal' = journal /\ stage' = "start"
    BY <2>2, <2>5 DEF SwitchInv, BackupFits, BeforeSwitch,
       DuringSwitch, AfterSwitch, StagePhase, Serving, Intended, Fits
  <2> QED BY <2>2, <2>4, <2>5
<1> QED BY <1>1, <1>2, <1>3, <1>4, <1>5

\* Files, key file and account are replaced, in this order.
LEMMA MoveSwitch ==
    ASSUME PanelInv, SwitchInv, MoveFiles \/ MoveKey \/ MoveIdentity \/ Applied
    PROVE  SwitchInv'
<1>1. /\ stage \in {"files", "mixed", "key", "identity", "applied"}
      /\ journal.phase \in {"applying", "applied"}
  BY DEF MoveFiles, MoveKey, MoveIdentity, Applied, PanelInv, StageOK, Switching
<1>2. CASE MoveFiles
  <2>1. /\ UNCHANGED <<record, journal, grants, backup, store, keyFile>>
        /\ stage \in {"files", "mixed"}
        /\ \/ stage' \in {"mixed", "undo"}
           \/ stage' = "key" /\ tree' = "backup"
    BY <1>2 DEF MoveFiles, Done, Breaks, Rested
  <2> QED BY <1>1, <2>1 DEF SwitchInv, BackupFits, BeforeSwitch,
             DuringSwitch, AfterSwitch, StagePhase, Serving, Intended
<1>3. CASE MoveKey
  <2>1. /\ UNCHANGED <<record, journal, tree, grants, backup, store>>
        /\ stage = "key"
        /\ \/ stage' = "identity" /\ keyFile' = backup.key
           \/ stage' = "undo"
    BY <1>3 DEF MoveKey, Done, Breaks, files
  <2> QED BY <1>1, <2>1 DEF SwitchInv, BackupFits, BeforeSwitch,
             DuringSwitch, AfterSwitch, StagePhase, Serving, Intended
<1>4. CASE MoveIdentity
  <2>1. /\ UNCHANGED <<record, journal, tree, grants, backup, keyFile>>
        /\ stage = "identity"
        /\ \/ stage' = "applied" /\ store' = Restored(store, backup)
           \/ stage' = "undo"
    BY <1>4 DEF MoveIdentity, Done, Breaks, files
  <2>2. store.line = 0 /\ keyFile = backup.key /\ tree = "backup"
        /\ Fits(backup, backup.key)
    BY <1>1, <2>1 DEF SwitchInv, DuringSwitch, BackupFits
  <2>3. CASE stage' = "applied"
    <3>1. store \in Accounts /\ store' = Restored(store, backup)
      BY <2>1, <2>3, StoreTyped DEF PanelInv
    <3>2. /\ store'.line = store.line + 1 /\ store'.secret = backup.secret
          /\ store'.sealed = backup.sealed
      BY <3>1 DEF Restored, Accounts
    <3> QED BY <1>1, <2>1, <2>2, <2>3, <3>2 DEF SwitchInv, BackupFits,
               BeforeSwitch, DuringSwitch, AfterSwitch, StagePhase, Serving,
               Intended, Fits
  <2>4. CASE stage' = "undo"
    BY <1>1, <2>1, <2>4 DEF SwitchInv, BackupFits, BeforeSwitch,
       DuringSwitch, AfterSwitch, StagePhase, Serving, Intended
  <2> QED BY <2>1, <2>3, <2>4
<1>5. CASE Applied
  <2> DEFINE j == [journal EXCEPT !.phase = "applied"]
  <2>1. j.phase = "applied" /\ j.previous = journal.previous
    BY <1>1, JournalTyped
  <2> HIDE DEF j
  <2>2. /\ UNCHANGED <<record, tree, grants, backup, store, keyFile>>
        /\ stage = "applied" /\ stage' \in {"boot", "undo"}
        /\ \/ journal' = j
           \/ journal' = journal /\ stage' = "undo"
    BY <1>5 DEF Applied, WritesJournal, Done, Breaks, Rested, j
  <2>3. /\ journal'.phase \in {"applying", "applied"}
        /\ journal'.previous = journal.previous
        /\ stage' = "boot" => journal'.phase = "applied"
    BY <1>1, <2>1, <2>2
  <2>4. tree = "backup" /\ store.line = 1 /\ Fits(store, keyFile)
    BY <1>1, <2>2 DEF SwitchInv, DuringSwitch
  <2> QED BY <1>1, <2>2, <2>3, <2>4 DEF SwitchInv, BackupFits, BeforeSwitch,
             DuringSwitch, AfterSwitch, StagePhase, Serving, Intended, Fits
<1> QED BY <1>2, <1>3, <1>4, <1>5

\* An interrupted switch is put back, in the same order.
LEMMA UndoSwitch ==
    ASSUME PanelInv, SwitchInv,
           UndoFiles \/ UndoStore \/ UndoKey \/ UndoRecord \/ UndoJournal
    PROVE  SwitchInv'
<1>1. /\ stage \in {"undo", "undoStore", "undoKey", "undoRecord", "undone"}
      /\ journal.phase \in {"applying", "applied"}
  BY DEF UndoFiles, UndoStore, UndoKey, UndoRecord, UndoJournal, PanelInv,
     StageOK, Switching
<1>2. CASE UndoFiles
  <2>1. /\ UNCHANGED <<record, journal, grants, backup, store, keyFile>>
        /\ stage = "undo"
        /\ \/ stage' = "undoStore" /\ tree' = journal.previous.tree
           \/ stage' = "start"
    BY <1>2 DEF UndoFiles, Done, Breaks, Rested
  <2> QED BY <1>1, <2>1 DEF SwitchInv, BackupFits, BeforeSwitch,
             DuringSwitch, AfterSwitch, StagePhase, Serving, Intended
<1>3. CASE UndoStore
  <2>1. /\ UNCHANGED <<record, journal, tree, grants, backup, keyFile>>
        /\ stage = "undoStore"
        /\ \/ stage' = "undoKey" /\ store' = journal.previous.store
           \/ stage' = "start"
    BY <1>3 DEF UndoStore, Done, Breaks, files
  <2> QED BY <1>1, <2>1 DEF SwitchInv, BackupFits, BeforeSwitch,
             DuringSwitch, AfterSwitch, StagePhase, Serving, Intended
<1>4. CASE UndoKey
  <2>1. /\ UNCHANGED <<record, journal, tree, grants, backup, store>>
        /\ stage = "undoKey"
        /\ \/ stage' = "undoRecord" /\ keyFile' = journal.previous.keyFile
           \/ stage' = "start"
    BY <1>4 DEF UndoKey, Done, Breaks, files
  <2> QED BY <1>1, <2>1 DEF SwitchInv, BackupFits, BeforeSwitch,
             DuringSwitch, AfterSwitch, StagePhase, Serving, Intended, Fits
<1>5. CASE UndoRecord
  <2>1. /\ UNCHANGED <<journal, tree, grants, backup, store, keyFile>>
        /\ stage = "undoRecord" /\ stage' \in {"undone", "start"}
        /\ record' \in {record, "failed"}
        /\ stage' = "undone" => record' = "failed"
    BY <1>5 DEF UndoRecord, WritesRecord, Done, Breaks, Rested
  <2> QED BY <1>1, <2>1 DEF SwitchInv, BackupFits, BeforeSwitch,
             DuringSwitch, AfterSwitch, StagePhase, Serving, Intended, Fits
<1>6. CASE UndoJournal
  <2>1. /\ UNCHANGED <<record, tree, grants, backup, store, keyFile>>
        /\ stage = "undone" /\ stage' \in {"boot", "start"}
        /\ \/ journal' = NoJournal
           \/ journal' = journal /\ stage' = "start"
    BY <1>6 DEF UndoJournal, RemovesJournal, Done, Breaks, Rested
  <2>2. NoJournal.phase = "none"
    BY DEF NoJournal
  <2>3. /\ record = "failed" /\ tree = "own" /\ Fits(store, keyFile)
        /\ store = journal.previous.store /\ journal.previous.store.line = 0
    BY <1>1, <2>1 DEF SwitchInv, DuringSwitch
  <2> QED BY <1>1, <2>1, <2>2, <2>3 DEF SwitchInv, BackupFits, BeforeSwitch,
             DuringSwitch, AfterSwitch, StagePhase, Serving, Intended, Fits
<1> QED BY <1>2, <1>3, <1>4, <1>5, <1>6

\* The start of the process, and the end of a switch that is committed.
LEMMA StartSwitch ==
    ASSUME PanelInv, SwitchInv,
           \/ Start \/ Boot \/ Commit \/ FinishRecord \/ FinishJournal \/ Serve
    PROVE  SwitchInv'
<1>1. CASE Start
  <2>1. /\ UNCHANGED <<record, journal, tree, grants, backup, store, keyFile>>
        /\ \/ stage' = "boot" /\ journal.phase = "none"
           \/ stage' = "check" /\ journal.phase = "pending"
           \/ stage' = "undo" /\ journal.phase \in {"applying", "applied"}
           \/ stage' = "finish" /\ journal.phase = "committed"
    BY <1>1, JournalTyped DEF Start, Resumes, vars, files
  <2> QED BY <2>1 DEF SwitchInv, BackupFits, BeforeSwitch,
             DuringSwitch, AfterSwitch, StagePhase, Serving, Intended
<1>2. CASE Boot \/ Serve
  <2>1. /\ UNCHANGED <<record, journal, tree, grants, backup, store, keyFile>>
        /\ \/ stage = "boot" /\ stage' \in {"listening", "start"}
           \/ stage' = "serve" /\ journal.phase = "none"
    BY <1>2 DEF Boot, Serve, Done, Breaks, Rested, files
  <2> QED BY <2>1 DEF SwitchInv, BackupFits, BeforeSwitch,
             DuringSwitch, AfterSwitch, StagePhase, Serving, Intended
<1>3. CASE Commit
  <2> DEFINE j == [journal EXCEPT !.phase = "committed"]
  <2>1. stage = "listening" /\ journal.phase = "applied"
    BY <1>3 DEF Commit
  <2>2. j.phase = "committed"
    BY <2>1, JournalTyped
  <2> HIDE DEF j
  <2>3. /\ UNCHANGED <<record, tree, grants, backup, store, keyFile>>
        /\ stage' \in {"committed", "start"}
        /\ \/ journal' = j
           \/ journal' = journal /\ stage' = "start"
    BY <1>3 DEF Commit, WritesJournal, Done, Breaks, Rested, j
  <2>4. /\ tree = "backup" /\ store.line = 1 /\ Fits(store, keyFile)
        /\ ~ grants /\ Fits(backup, backup.key)
    BY <2>1 DEF SwitchInv, DuringSwitch, BackupFits
  <2> QED BY <2>1, <2>2, <2>3, <2>4 DEF SwitchInv, BackupFits, BeforeSwitch,
             DuringSwitch, AfterSwitch, StagePhase, Serving, Intended, Fits
<1>4. CASE FinishRecord
  <2>1. /\ UNCHANGED <<journal, tree, grants, backup, store, keyFile>>
        /\ stage \in {"finish", "committed"}
        /\ stage' \in {"finished", "completed", "start"}
        /\ record' \in {record, "completed"}
        /\ stage' # "start" => record' = "completed"
    BY <1>4 DEF FinishRecord, WritesRecord, Done, Breaks, Rested
  <2>2. journal.phase = "committed"
    BY <2>1 DEF SwitchInv, StagePhase
  <2> QED BY <2>1, <2>2 DEF SwitchInv, BackupFits, BeforeSwitch,
             DuringSwitch, AfterSwitch, StagePhase, Serving, Intended, Fits
<1>5. CASE FinishJournal
  <2>1. /\ UNCHANGED <<record, tree, grants, backup, store, keyFile>>
        /\ stage \in {"finished", "completed"}
        /\ stage' \in {"boot", "listening", "start"}
        /\ \/ journal' = NoJournal
           \/ journal' = journal /\ stage' = "start"
    BY <1>5 DEF FinishJournal, RemovesJournal, Done, Breaks, Rested
  <2>2. NoJournal.phase = "none"
    BY DEF NoJournal
  <2>3. /\ journal.phase = "committed" /\ record = "completed"
        /\ tree = "backup" /\ store.line = 1 /\ Fits(store, keyFile)
        /\ ~ grants /\ Fits(backup, backup.key)
    BY <2>1 DEF SwitchInv, AfterSwitch, StagePhase, BackupFits
  <2> QED BY <2>1, <2>2, <2>3 DEF SwitchInv, BackupFits, BeforeSwitch,
             DuringSwitch, AfterSwitch, StagePhase, Serving, Intended, Fits
<1> QED BY <1>1, <1>2, <1>3, <1>4, <1>5

LEMMA NextSwitch ==
    ASSUME PanelInv, SwitchInv, [RestoreNext]_all
    PROVE  SwitchInv'
<1>1. CASE UNCHANGED all
  BY <1>1 DEF all, vars, files, SwitchInv, BackupFits, BeforeSwitch,
     DuringSwitch, AfterSwitch, StagePhase, Fits
<1>2. CASE Restoring
  BY <1>2, ServingSwitch, PrepareSwitch, MoveSwitch, UndoSwitch, StartSwitch
     DEF Restoring
<1> QED BY <1>1, <1>2, ClientSwitch, ServingSwitch, PrepareSwitch DEF RestoreNext

\* SwitchIsWhole: a Panel that serves has all of the backup or nothing of it,
\* as its record says.
THEOREM AllOfBackupOrNothing == RestoreSpec => []SwitchIsWhole
<1>1. PanelInv /\ SwitchInv => SwitchIsWhole
  BY DEF PanelInv, StageOK, SwitchInv, StagePhase, BeforeSwitch, SwitchIsWhole
<1>2. PanelInv /\ SwitchInv /\ [RestoreNext]_all => (PanelInv /\ SwitchInv)'
  BY NextPanel, NextSwitch
<1> QED BY <1>1, <1>2, InitPanel, InitSwitch, PTL DEF RestoreSpec

-----------------------------------------------------------------------------
(***************************************************************************)
(* The passkeys and their origin.                                          *)
(***************************************************************************)
OneMoves ==
    \A r, q \in Requests :
        MovesOrigin(r) /\ (MovesOrigin(q) \/ UsesKeys(q)) => r = q

MovesWithoutKeys ==
    \A r \in Requests :
        MovesOrigin(r) /\ (req[r].kind = "bind" \/ req[r].pc = "saved") =>
            store.keys = {}

KeysOfOrigin ==
    /\ \A k \in store.keys : k.rp = store.origin
    /\ journal.phase \in {"applying", "applied"} =>
         \A k \in journal.previous.store.keys :
             k.rp = journal.previous.store.origin

ServiceFollows ==
    stage \in Serving \cup {"drain"} =>
        \/ service.origin = store.origin
        \/ \E r \in Requests : MovesOrigin(r) /\ req[r].pc = "saved"

OriginInv == OneMoves /\ MovesWithoutKeys /\ KeysOfOrigin /\ ServiceFollows

LEMMA InitOrigin == RestoreInit => OriginInv
<1> SUFFICES ASSUME RestoreInit PROVE OriginInv
  OBVIOUS
<1>1. \A r \in Requests : ~ MovesOrigin(r) /\ ~ UsesKeys(r)
  BY DEF RestoreInit, Init, Idle, MovesOrigin, UsesKeys
<1>2. (\A k \in store.keys : k.rp = store.origin) /\ service.origin = store.origin
  BY DEF RestoreInit, Init
<1> QED BY <1>1, <1>2 DEF RestoreInit, NoJournal, OriginInv, OneMoves,
        MovesWithoutKeys, KeysOfOrigin, ServiceFollows

LEMMA ClientOrigin ==
    ASSUME PanelInv, OriginInv, Client
    PROVE  OriginInv'
<1> PICK r \in Requests : Handles(r) \/ Asks(r) \/ (stage = "start" /\ Recover(r))
  BY DEF Client
<1>1. CredentialInv /\ UNCHANGED <<stage, journal>>
  BY DEF Client, files, PanelInv
<1> PICK rec : req' = [req EXCEPT ![r] = rec] /\ Holding(r, rec)
  BY <1>1, LockStep DEF Holds
<1>2. req \in [Requests -> Progress] /\ req'[r] = rec
      /\ \A q \in Requests \ {r} : req'[q] = req[q]
  BY <1>1 DEF CredentialInv, CredentialTypes
<1>3. /\ store'.keys \subseteq store.keys \/ FinishRegister(r)
      /\ store'.origin = store.origin \/ SaveBind(r) \/ CommitDisable(r)
      /\ service'.origin = service.origin \/ SwapService(r)
  BY <1>1, TakesIn, ServiceOrigin DEF Takes
<1>4. ASSUME NEW q \in Requests \ {r}
      PROVE  /\ MovesOrigin(q)' <=> MovesOrigin(q)
             /\ UsesKeys(q)' <=> UsesKeys(q)
  BY <1>2 DEF MovesOrigin, UsesKeys
<1>5. MovesOrigin(r)' =>
        /\ rec.kind \in OfOrigin /\ rec.kind = req[r].kind
        /\ MovesOrigin(r) \/ KeysAlone
  BY <1>2 DEF Holding, MovesOrigin, OfKeys, OfOrigin
<1>6. UsesKeys(r)' => UsesKeys(r) \/ KeysShared
  BY <1>2 DEF Holding, UsesKeys, OfKeys, OfOrigin
<1>7. OneMoves'
  <2> SUFFICES ASSUME NEW a \in Requests, NEW b \in Requests, MovesOrigin(a)',
                      (MovesOrigin(b) \/ UsesKeys(b))', a # b
               PROVE  FALSE
    BY DEF OneMoves
  <2>1. CASE a # r /\ b # r
    BY <1>4, <2>1 DEF OriginInv, OneMoves
  <2>2. CASE a = r
    BY <1>4, <1>5, <2>2 DEF OriginInv, OneMoves, KeysAlone
  <2>3. CASE b = r
    BY <1>4, <1>5, <1>6, <2>3 DEF OriginInv, OneMoves, KeysAlone, KeysShared
  <2> QED BY <2>1, <2>2, <2>3
<1>8. FinishRegister(r) =>
        /\ UsesKeys(r) /\ ~ MovesOrigin(r)
        /\ \A q \in Requests : ~ MovesOrigin(q)
  <2>1. FinishRegister(r) => UsesKeys(r) /\ ~ MovesOrigin(r)
    BY DEF FinishRegister, UsesKeys, MovesOrigin, OfKeys, OfOrigin
  <2> QED BY <2>1 DEF OriginInv, OneMoves
<1>9. MovesWithoutKeys'
  <2> SUFFICES ASSUME NEW q \in Requests, MovesOrigin(q)',
                      (req[q].kind = "bind" \/ req[q].pc = "saved")'
               PROVE  store'.keys = {}
    BY DEF MovesWithoutKeys
  <2>1. CASE q # r
    BY <1>2, <1>3, <1>4, <1>8, <2>1 DEF OriginInv, MovesWithoutKeys
  <2>2. CASE q = r
    <3>1. ~ FinishRegister(r)
      BY <1>5, <2>2 DEF FinishRegister, OfOrigin
    <3>2. \/ store.keys = {}
          \/ store'.keys = {}
      <4>1. CASE rec.pc = "saved" /\ (CommitDisable(r) => store'.keys # {})
        <5>1. SaveBind(r) /\ MovesOrigin(r)
          BY <1>5, <2>2, <4>1 DEF Holding, OfKeys, OfOrigin
        <5>2. req[r].kind = "bind"
          BY <5>1 DEF SaveBind
        <5> QED BY <5>1, <5>2 DEF OriginInv, MovesWithoutKeys
      <4>2. CASE rec.pc # "saved"
        <5>1. rec.kind = "bind" /\ req[r].kind = "bind" /\ rec.pc # "saved"
          BY <1>2, <1>5, <2>2, <4>2
        <5>2. MovesOrigin(r) \/ store.keys = {}
          BY <1>2, <2>2, <5>1 DEF Holding, MovesOrigin, OfKeys, OfOrigin
        <5> QED BY <5>1, <5>2 DEF OriginInv, MovesWithoutKeys
      <4> QED BY <4>1, <4>2
    <3> QED BY <1>3, <3>1, <3>2
  <2> QED BY <2>1, <2>2
<1>10. stage \in Serving \cup {"drain", "start"} /\ (Recover(r) \/ stage # "start")
  BY ClientWhen DEF PanelInv, StageOK, Serving
<1>11. KeysOfOrigin'
  <2>1. ASSUME NEW k \in store'.keys
        PROVE  k.rp = store'.origin
    <3>1. CASE FinishRegister(r)
      <4>1. stage \in Serving \cup {"drain"}
        BY <1>10, <3>1, ClientWhen DEF FinishRegister, Recover, PanelInv,
           StageOK, Serving, Quiet
      <4>2. service.origin = store.origin
        BY <1>8, <3>1, <4>1 DEF OriginInv, ServiceFollows
      <4>3. store'.origin = store.origin
        BY <1>3, <3>1 DEF FinishRegister, SaveBind, CommitDisable
      <4> QED BY <1>1, <2>1, <3>1, <4>2, <4>3, RegisterKey
              DEF OriginInv, KeysOfOrigin
    <3>2. CASE ~ FinishRegister(r) /\ store'.origin # store.origin
      <4>1. req[r].kind \in OfOrigin /\ req'[r].pc = "saved"
            /\ req'[r].kind = req[r].kind
        BY <1>1, <1>3, <3>2, OriginMoved
      <4>2. MovesOrigin(r)'
        BY <4>1 DEF MovesOrigin
      <4> QED BY <1>9, <2>1, <4>1, <4>2 DEF MovesWithoutKeys
    <3>3. CASE ~ FinishRegister(r) /\ store'.origin = store.origin
      BY <1>3, <2>1, <3>3 DEF OriginInv, KeysOfOrigin
    <3> QED BY <3>1, <3>2, <3>3
  <2> QED BY <1>1, <2>1 DEF OriginInv, KeysOfOrigin
<1>12. ServiceFollows'
  <2> SUFFICES ASSUME stage \in Serving \cup {"drain"}
               PROVE  \/ service'.origin = store'.origin
                      \/ \E q \in Requests : MovesOrigin(q)' /\ req'[q].pc = "saved"
    BY <1>1 DEF ServiceFollows
  <2>1. CASE SwapService(r)
    BY <2>1 DEF SwapService, Kept
  <2>2. CASE store'.origin # store.origin
    <3>1. req[r].kind \in OfOrigin /\ req'[r].pc = "saved"
          /\ req'[r].kind = req[r].kind
      BY <1>1, <1>3, <2>2, OriginMoved
    <3> QED BY <3>1 DEF MovesOrigin
  <2>3. CASE ~ SwapService(r) /\ store'.origin = store.origin
    <3>1. CASE \E q \in Requests : MovesOrigin(q) /\ req[q].pc = "saved"
      <4> PICK q \in Requests : MovesOrigin(q) /\ req[q].pc = "saved"
        BY <3>1
      <4>1. q # r
        BY <2>3 DEF Holding
      <4> QED BY <1>2, <1>4, <4>1
    <3>2. CASE service.origin = store.origin
      BY <1>3, <2>3, <3>2
    <3> QED BY <3>1, <3>2 DEF OriginInv, ServiceFollows
  <2> QED BY <2>1, <2>2, <2>3
<1> QED BY <1>7, <1>9, <1>11, <1>12 DEF OriginInv

LEMMA QuietMoves ==
    ASSUME Quiet, NEW r \in Requests
    PROVE  ~ MovesOrigin(r) /\ ~ UsesKeys(r)
BY DEF Quiet, MovesOrigin, UsesKeys

\* Steps that leave the requests and the account alone.
LEMMA RestedOrigin ==
    ASSUME PanelInv, OriginInv, UNCHANGED <<store, service, req>>,
           stage' \in Serving \cup {"drain"} => stage \in Serving \cup {"drain"},
           \/ journal' = journal
           \/ journal'.phase \notin {"applying", "applied"}
           \/ journal'.previous.store = store
           \/ journal.phase \in {"applying", "applied"}
              /\ journal'.previous = journal.previous
    PROVE  OriginInv'
<1>1. OneMoves' /\ MovesWithoutKeys'
  BY DEF OriginInv, OneMoves, MovesWithoutKeys, MovesOrigin, UsesKeys
<1>2. KeysOfOrigin'
  BY DEF OriginInv, KeysOfOrigin
<1>3. ServiceFollows'
  BY DEF OriginInv, ServiceFollows, MovesOrigin
<1> QED BY <1>1, <1>2, <1>3 DEF OriginInv

LEMMA JournalOrigin ==
    ASSUME PanelInv, OriginInv,
           \/ StageJournal \/ CancelJournal \/ SaveOld \/ Applied
           \/ UndoJournal \/ Commit \/ FinishJournal
    PROVE  OriginInv'
<1>1. UNCHANGED <<store, service, req>>
  BY DEF StageJournal, CancelJournal, SaveOld, Applied, UndoJournal, Commit,
     FinishJournal, Rested, Memory
<1>2. stage' \in Serving \cup {"drain"} => stage \in Serving \cup {"drain"}
  BY DEF StageJournal, CancelJournal, SaveOld, Applied, UndoJournal, Commit,
     FinishJournal, WritesJournal, RemovesJournal, Done, Breaks, Serving
<1>3. CASE \/ StageJournal \/ CancelJournal \/ UndoJournal \/ FinishJournal
  <2>1. NoJournal.phase = "none" /\ Pending.phase = "pending"
    BY DEF NoJournal, Pending
  <2>2. journal' \in {journal, NoJournal, Pending}
    BY <1>3 DEF StageJournal, CancelJournal, UndoJournal, FinishJournal,
       RemovesJournal
  <2> QED BY <1>1, <1>2, <2>1, <2>2, RestedOrigin
<1>4. CASE SaveOld
  <2> DEFINE j == [phase |-> "applying",
                   previous |-> [tree |-> tree, store |-> store,
                                 keyFile |-> keyFile]]
  <2>1. j.previous.store = store
    OBVIOUS
  <2> HIDE DEF j
  <2>2. journal' \in {journal, j}
    BY <1>4 DEF SaveOld, WritesJournal, j
  <2> QED BY <1>1, <1>2, <2>1, <2>2, RestedOrigin
<1>5. CASE Applied \/ Commit
  <2>1. journal.phase \in {"applying", "applied"}
    BY <1>5 DEF Applied, Commit, PanelInv, StageOK, Switching
  <2>2. ASSUME NEW p, journal' = [journal EXCEPT !.phase = p]
        PROVE  journal'.previous = journal.previous
    BY <2>1, <2>2, JournalTyped
  <2>3. journal' = journal \/ journal'.previous = journal.previous
    BY <1>5, <2>2 DEF Applied, Commit, WritesJournal
  <2> QED BY <1>1, <1>2, <2>1, <2>3, RestedOrigin
<1> QED BY <1>3, <1>4, <1>5

LEMMA NextOrigin ==
    ASSUME PanelInv, PanelInv', OriginInv, [RestoreNext]_all
    PROVE  OriginInv'
<1>1. CASE UNCHANGED <<store, service, req, journal>>
           /\ (stage' \in Serving \cup {"drain"} => stage \in Serving \cup {"drain"})
  BY <1>1, RestedOrigin
<1>2. ASSUME Quiet', MoveIdentity \/ UndoStore \/ Drain \/ Stop \/ Serve
      PROVE  OriginInv'
  <2>1. OneMoves' /\ MovesWithoutKeys'
    BY <1>2 DEF Quiet, MovesOrigin, UsesKeys, OneMoves, MovesWithoutKeys
  <2>2. CASE MoveIdentity
    <3>1. store'.keys = {} \/ store' = store
      BY <2>2, StoreTyped DEF MoveIdentity, Restored, Accounts, PanelInv
    <3>2. journal' = journal /\ stage' \notin Serving \cup {"drain"}
      BY <2>2 DEF MoveIdentity, files, Done, Breaks, Serving
    <3> QED BY <2>1, <3>1, <3>2 DEF OriginInv, KeysOfOrigin, ServiceFollows
  <2>3. CASE UndoStore
    <3>1. /\ journal.phase \in {"applying", "applied"} /\ journal' = journal
          /\ store' \in {store, journal.previous.store}
          /\ stage' \notin Serving \cup {"drain"}
      BY <2>3 DEF UndoStore, files, Done, Breaks, Serving, PanelInv, StageOK,
         Switching
    <3> QED BY <2>1, <3>1 DEF OriginInv, KeysOfOrigin, ServiceFollows
  <2>4. CASE Drain \/ Stop
    <3>1. store' = store /\ journal' = journal /\ stage' \notin Serving \cup {"drain"}
      BY <2>4 DEF Drain, Stop, files, Serving
    <3> QED BY <2>1, <3>1 DEF OriginInv, KeysOfOrigin, ServiceFollows
  <2>5. CASE Serve
    <3>1. /\ store' = store /\ journal' = journal
          /\ service' = [origin |-> store.origin, pending |-> {}]
      BY <2>5 DEF Serve, Serves, files
    <3> QED BY <2>1, <3>1 DEF OriginInv, KeysOfOrigin, ServiceFollows
  <2> QED BY <1>2, <2>2, <2>3, <2>4, <2>5
<1>3. CASE MoveIdentity \/ UndoStore \/ Drain \/ Stop \/ Serve
  <2>1. Quiet'
    <3>1. CASE MoveIdentity \/ UndoStore
      BY <3>1 DEF MoveIdentity, UndoStore, Memory, PanelInv, StageOK, Quiet,
         Serving
    <3>2. CASE Drain \/ Stop
      BY <3>2 DEF Drain, Stop, PanelInv, StageOK, Serving
    <3>3. CASE Serve
      BY <3>3 DEF Serve, Serves, PanelInv, StageOK, Quiet, Serving
    <3> QED BY <1>3, <3>1, <3>2, <3>3
  <2> QED BY <1>2, <1>3, <2>1
<1>4. CASE Export \/ Mark \/ UNCHANGED all
  BY <1>1, <1>4 DEF Export, Mark, Rested, Memory, vars, all, files, Done,
     Breaks, Serving
<1>5. CASE Restoring
  <2>1. CASE \/ Shutdown \/ Preflight \/ ResetAccess \/ CancelRecord
             \/ MoveFiles \/ MoveKey \/ UndoFiles \/ UndoKey \/ UndoRecord
             \/ Start \/ Boot \/ FinishRecord
    <3>1. UNCHANGED <<store, service, req, journal>>
      BY <2>1 DEF Shutdown, Preflight, ResetAccess, CancelRecord, MoveFiles,
         MoveKey, UndoFiles, UndoKey, UndoRecord, Start, Boot, FinishRecord,
         WritesRecord, Rested, Memory, files, vars
    <3>2. stage' \in Serving \cup {"drain"} => stage \in Serving \cup {"drain"}
      BY <2>1, JournalTyped
         DEF Shutdown, Preflight, ResetAccess, CancelRecord, MoveFiles,
         MoveKey, UndoFiles, UndoKey, UndoRecord, Start, Boot, FinishRecord,
         WritesRecord, Done, Breaks, Withdraws, Resumes, Serving
    <3> QED BY <1>1, <3>1, <3>2
  <2> QED BY <1>3, <1>5, <2>1, JournalOrigin DEF Restoring
<1> QED BY <1>3, <1>4, <1>5, ClientOrigin DEF RestoreNext

\* FactorsUsable: while the Panel serves, the passkeys belong to the origin it
\* verifies for, and the key file opens the secret.
THEOREM FactorsStayUsable == RestoreSpec => []FactorsUsable
<1>1. PanelInv /\ SwitchInv /\ OriginInv => FactorsUsable
  <2> SUFFICES ASSUME PanelInv, SwitchInv, OriginInv, up PROVE FactorsUsable
    BY DEF FactorsUsable
  <2>1. stage \in Serving /\ journal.phase \in {"none", "pending"}
    BY DEF PanelInv, StageOK, SwitchInv, StagePhase
  <2>2. store.secret # None => keyFile = store.sealed
    BY <2>1 DEF SwitchInv, BeforeSwitch, Fits
  <2>3. \A k \in store.keys : k.rp = service.origin
    BY <2>1 DEF OriginInv, KeysOfOrigin, ServiceFollows, MovesWithoutKeys
  <2> QED BY <2>2, <2>3 DEF FactorsUsable
<1>2. PanelInv /\ SwitchInv /\ OriginInv /\ [RestoreNext]_all
         => (PanelInv /\ SwitchInv /\ OriginInv)'
  BY NextPanel, NextSwitch, NextOrigin
<1> QED BY <1>1, <1>2, InitPanel, InitSwitch, InitOrigin, PTL DEF RestoreSpec
-----------------------------------------------------------------------------
(***************************************************************************)
(* Second factors are accepted once.  A name, of a secret or of a recovery *)
(* code, that was ever in force belongs to a request that is done, so that *)
(* nobody makes it again; and what was spent is not good any more, neither *)
(* in the account nor in the one that a rollback may put back.             *)
(***************************************************************************)
Past(n) == n \in Requests => req[n].pc = "done"

PastAccount(st) == Past(st.secret) /\ \A c \in st.codes : Past(c)

PastFactor(f) ==
    \E n : Past(n) /\ (f = <<n>> \/ \E s \in Nat : f = <<n, s>>)

\* The second factor of a is not good for the account st.
UsedUp(a, st) ==
    /\ a.line <= st.line
    /\ a.line = st.line =>
         /\ st.secret # None =>
              \A s \in Nat : a.factor = <<st.secret, s>> => s <= st.step
         /\ \A c \in st.codes : a.factor # <<c>>

Unspent(st) == \A a \in spent : UsedUp(a, st)

BackupPast ==
    backup # None \/ stage = "marked" \/ journal.phase # "none" =>
        Past(backup.secret)

SpentInv ==
    /\ \A a \in spent : a.line \in Nat /\ PastFactor(a.factor)
    /\ PastAccount(store) /\ Unspent(store)
    /\ journal.phase \in {"applying", "applied"} =>
         PastAccount(journal.previous.store) /\ Unspent(journal.previous.store)
    /\ BackupPast
    /\ FactorOnce

LEMMA InitSpent == RestoreInit => SpentInv
<1> SUFFICES ASSUME RestoreInit PROVE SpentInv
  OBVIOUS
<1>1. /\ spent = {} /\ store.secret \in {Old, None} /\ store.codes \subseteq {Old}
      /\ journal.phase = "none" /\ backup = None /\ stage = "serve"
  BY DEF RestoreInit, Init, NoJournal
<1> QED BY <1>1, NameAssumption
        DEF SpentInv, BackupPast, PastAccount, Past, Unspent, FactorOnce

LEMMA PastStays ==
    ASSUME PanelInv, [RestoreNext]_all, NEW n, Past(n)
    PROVE  Past(n)'
<1>1. CASE UNCHANGED req
  BY <1>1 DEF Past
<1>2. CASE Client
  <2> PICK r \in Requests : Handles(r) \/ Asks(r) \/ Recover(r)
    BY <1>2 DEF Client
  <2> QED BY DoneStays DEF PanelInv, Past
<1>3. CASE Drain \/ Stop
  <2>1. req' = [r \in Requests |-> IF req[r].pc = "idle" THEN req[r] ELSE Over]
        /\ Over.pc = "done"
    BY <1>3 DEF Drain, Stop, Down, Over, Idle
  <2> QED BY <2>1 DEF Past
<1> QED BY <1>1, <1>2, <1>3
        DEF RestoreNext, all, vars, Export, Mark, Restoring, Rested, Memory,
            StageJournal, Shutdown, Preflight, ResetAccess, CancelRecord,
            CancelJournal, SaveOld, MoveFiles, MoveKey, MoveIdentity, Applied,
            UndoFiles, UndoStore, UndoKey, UndoRecord, UndoJournal, Start,
            Boot, Commit, FinishRecord, FinishJournal, Serve

\* Tuples of names: a step of a secret is no recovery code.
LEMMA FactorsDiffer ==
    /\ \A x, y, z : <<x, y>> # <<z>>
    /\ \A x, y, z, w : <<x, y>> = <<z, w>> => x = z /\ y = w
    /\ \A x, z : <<x>> = <<z>> => x = z
<1>1. \A x, y, z : <<x, y>> # <<z>>
  OBVIOUS
<1>2. \A x, y, z, w : <<x, y>> = <<z, w>> => x = z /\ y = w
  OBVIOUS
<1>3. \A x, z : <<x>> = <<z>> => x = z
  OBVIOUS
<1> QED BY <1>1, <1>2, <1>3

LEMMA FactorStays ==
    ASSUME NEW f, PastFactor(f), \A n : Past(n) => Past(n)'
    PROVE  PastFactor(f)'
BY DEF PastFactor

\* What a request makes new was never spent.
LEMMA NewUnspent ==
    ASSUME SpentInv, NEW r \in Requests, req[r].pc # "done", NEW a \in spent
    PROVE  a.factor # <<r>> /\ \A s \in Nat : a.factor # <<r, s>>
<1>1. PICK n : Past(n) /\ (a.factor = <<n>> \/ \E s \in Nat : a.factor = <<n, s>>)
  BY DEF SpentInv, PastFactor
<1>2. n # r
  BY <1>1 DEF Past
<1> QED BY <1>1, <1>2, FactorsDiffer

\* A step of a client, for the account it works on.
LEMMA SpendsOnce ==
    ASSUME PanelInv, SpentInv, NEW r \in Requests, Spends(r),
           req[r].pc # "done", \A n : Past(n) => Past(n)'
    PROVE  /\ \A a \in spent' : a.line \in Nat /\ PastFactor(a.factor)'
           /\ PastAccount(store)' /\ Unspent(store)' /\ FactorOnce'
<1>1. /\ store \in Accounts /\ store.line \in Nat /\ store.step \in Nat
      /\ PastAccount(store) /\ Unspent(store) /\ Steps \subseteq Nat
  BY StoreTyped, BoundAssumption DEF PanelInv, SpentInv, Accounts
<1>2. ASSUME NEW a \in spent
      PROVE  a.line \in Nat /\ PastFactor(a.factor)'
  BY <1>2, FactorStays DEF SpentInv
<1>3. CASE spent' = spent /\ Plain(store')
  <2>1. Past(None)'
    BY NameAssumption DEF Past
  <2>2. PastAccount(store)'
    BY <1>1, <1>3, <2>1 DEF PastAccount, Plain, Past
  <2>3. Unspent(store)'
    BY <1>1, <1>3 DEF Unspent, UsedUp, Plain
  <2> QED BY <1>2, <1>3, <2>2, <2>3 DEF FactorOnce, SpentInv
<1>4. CASE /\ spent' = spent /\ req'[r].pc = "done"
           /\ store'.line = store.line /\ store'.secret = store.secret
           /\ store'.step = store.step /\ store'.codes = {r}
  <2>1. PastAccount(store)'
    BY <1>1, <1>4 DEF PastAccount, Past
  <2>2. Unspent(store)'
    BY <1>1, <1>4, NewUnspent DEF Unspent, UsedUp
  <2> QED BY <1>2, <1>4, <2>1, <2>2 DEF FactorOnce, SpentInv
<1>5. CASE \E s \in Steps :
             /\ s > store.step /\ store.secret # None
             /\ store' = [store EXCEPT !.step = s]
             /\ spent' = spent \cup {Factor(r, <<store.secret, s>>)}
  <2> PICK s \in Steps :
        /\ s > store.step /\ store.secret # None
        /\ store' = [store EXCEPT !.step = s]
        /\ spent' = spent \cup {Factor(r, <<store.secret, s>>)}
    BY <1>5
  <2> DEFINE f == <<store.secret, s>>
  <2>1. s \in Nat /\ store'.step = s /\ store'.line = store.line
        /\ store'.secret = store.secret /\ store'.codes = store.codes
    BY <1>1 DEF Accounts
  <2>2. PastAccount(store)' /\ Past(store.secret)'
    BY <1>1, <2>1 DEF PastAccount, Past
  <2>3. PastFactor(f)'
    BY <2>1, <2>2 DEF PastFactor
  <2>4. \A a \in spent : a.factor = f => a.line # store.line
    BY <1>1, <2>1 DEF Unspent, UsedUp
  <2>5. \A a \in spent : UsedUp(a, store')
    BY <1>1, <2>1 DEF Unspent, UsedUp
  <2>6. UsedUp(Factor(r, f), store')
    BY <1>1, <2>1, FactorsDiffer DEF UsedUp, Factor
  <2> HIDE DEF f
  <2>7. FactorOnce'
    BY <2>4 DEF FactorOnce, SpentInv, Factor, f
  <2> QED BY <1>1, <1>2, <2>2, <2>3, <2>5, <2>6, <2>7 DEF Unspent, Factor, f
<1>6. CASE \E c \in store.codes :
             /\ store' = [store EXCEPT !.codes = @ \ {c}]
             /\ spent' = spent \cup {Factor(r, <<c>>)}
  <2> PICK c \in store.codes :
        /\ store' = [store EXCEPT !.codes = @ \ {c}]
        /\ spent' = spent \cup {Factor(r, <<c>>)}
    BY <1>6
  <2> DEFINE f == <<c>>
  <2>1. store'.step = store.step /\ store'.line = store.line
        /\ store'.secret = store.secret /\ store'.codes = store.codes \ {c}
    BY <1>1 DEF Accounts
  <2>2. PastAccount(store)' /\ Past(c)'
    BY <1>1, <2>1 DEF PastAccount, Past
  <2>3. PastFactor(f)'
    BY <2>2 DEF PastFactor
  <2>4. \A a \in spent : a.factor = f => a.line # store.line
    BY <1>1 DEF Unspent, UsedUp
  <2>5. \A a \in spent : UsedUp(a, store')
    BY <1>1, <2>1 DEF Unspent, UsedUp
  <2>6. UsedUp(Factor(r, f), store')
    BY <1>1, <2>1, FactorsDiffer DEF UsedUp, Factor
  <2> HIDE DEF f
  <2>7. FactorOnce'
    BY <2>4 DEF FactorOnce, SpentInv, Factor, f
  <2> QED BY <1>1, <1>2, <2>2, <2>3, <2>5, <2>6, <2>7 DEF Unspent, Factor, f
<1>7. CASE \E s \in Steps :
             /\ req'[r].pc = "done"
             /\ store'.line = store.line /\ store'.secret = r
             /\ store'.step = s /\ store'.codes = {r}
             /\ spent' = spent \cup {Factor(r, <<r, s>>)}
  <2> PICK s \in Steps :
        /\ req'[r].pc = "done"
        /\ store'.line = store.line /\ store'.secret = r
        /\ store'.step = s /\ store'.codes = {r}
        /\ spent' = spent \cup {Factor(r, <<r, s>>)}
    BY <1>7
  <2> DEFINE f == <<r, s>>
  <2>1. s \in Nat /\ Past(r)'
    BY <1>1 DEF Past
  <2>2. PastAccount(store)'
    BY <2>1 DEF PastAccount, Past
  <2>3. PastFactor(f)'
    BY <2>1 DEF PastFactor
  <2>4. \A a \in spent : a.factor # f
    BY <2>1, NewUnspent
  <2>5. \A a \in spent : UsedUp(a, store')
    BY <1>1, NewUnspent DEF Unspent, UsedUp
  <2>6. UsedUp(Factor(r, f), store')
    BY <1>1, <2>1, FactorsDiffer DEF UsedUp, Factor
  <2> HIDE DEF f
  <2>7. FactorOnce'
    BY <2>4 DEF FactorOnce, SpentInv, Factor, f
  <2> QED BY <1>1, <1>2, <2>2, <2>3, <2>5, <2>6, <2>7 DEF Unspent, Factor, f
<1> QED BY <1>3, <1>4, <1>5, <1>6, <1>7 DEF Spends

LEMMA ClientSpent ==
    ASSUME PanelInv, SwitchInv, SpentInv, Client
    PROVE  SpentInv'
<1> PICK r \in Requests : Handles(r) \/ Asks(r) \/ (stage = "start" /\ Recover(r))
  BY DEF Client
<1>1. UNCHANGED <<stage, journal, backup>>
  BY DEF Client, files
<1>2. \A n : Past(n) => Past(n)'
  BY PastStays DEF RestoreNext
<1>3. Spends(r) /\ req[r].pc # "done"
  BY ClientSpends, DoneStays DEF PanelInv
<1>4. BackupPast'
  BY <1>1, <1>2 DEF SpentInv, BackupPast, Past
<1>5. journal'.phase \in {"applying", "applied"} =>
        PastAccount(journal.previous.store)' /\ Unspent(journal.previous.store)'
  <2> SUFFICES ASSUME journal.phase \in {"applying", "applied"}
               PROVE  PastAccount(journal.previous.store)'
                      /\ Unspent(journal.previous.store)'
    BY <1>1
  <2>1. stage \notin Serving \cup {"drain"}
    BY DEF SwitchInv, StagePhase, Intended
  <2>2. Recover(r)
    BY <2>1, ClientWhen DEF PanelInv, StageOK
  <2>3. spent' = spent
    BY <2>2 DEF Recover, Rest
  <2> QED BY <1>1, <1>2, <2>3 DEF SpentInv, PastAccount, Past, Unspent
<1> QED BY <1>2, <1>3, <1>4, <1>5, SpendsOnce DEF SpentInv

\* Steps that spend nothing: the account stays, or an earlier one is put
\* back, or one of the backup, in a line of its own.
LEMMA OthersSpent ==
    ASSUME PanelInv, SpentInv, spent' = spent, \A n : Past(n) => Past(n)',
           \/ store' = store
           \/ /\ journal.phase \in {"applying", "applied"}
              /\ \/ store' = journal.previous.store
                 \/ /\ store'.line = store.line + 1 /\ store'.codes = {}
                    /\ store'.secret = backup.secret,
           journal'.phase \in {"applying", "applied"} =>
              \/ store' = store /\ journal'.previous.store = store
              \/ /\ journal.phase \in {"applying", "applied"}
                 /\ journal'.previous = journal.previous,
           BackupPast'
    PROVE  SpentInv'
<1>1. \A a \in spent' : a.line \in Nat /\ PastFactor(a.factor)'
  BY FactorStays DEF SpentInv
<1>2. PastAccount(store)' /\ Unspent(store)'
  <2>1. CASE store' = store
    BY <2>1 DEF SpentInv, PastAccount, Past, Unspent
  <2>2. CASE /\ journal.phase \in {"applying", "applied"}
             /\ store' = journal.previous.store
    BY <2>2 DEF SpentInv, PastAccount, Past, Unspent
  <2>3. CASE /\ journal.phase \in {"applying", "applied"}
             /\ store'.line = store.line + 1 /\ store'.codes = {}
             /\ store'.secret = backup.secret
    <3>1. Past(backup.secret)
      BY <2>3 DEF SpentInv, BackupPast
    <3>2. PastAccount(store)'
      BY <2>3, <3>1 DEF PastAccount, Past
    <3>3. store.line \in Nat
      BY StoreTyped DEF PanelInv, Accounts
    <3>4. \A a \in spent : a.line < store'.line
      BY <2>3, <3>3 DEF SpentInv, Unspent, UsedUp
    <3>5. Unspent(store)'
      BY <2>3, <3>3, <3>4 DEF SpentInv, Unspent, UsedUp
    <3> QED BY <3>2, <3>5
  <2> QED BY <2>1, <2>2, <2>3
<1>3. journal'.phase \in {"applying", "applied"} =>
        PastAccount(journal.previous.store)' /\ Unspent(journal.previous.store)'
  <2>1. CASE store' = store /\ journal'.previous.store = store
    BY <1>2, <2>1 DEF PastAccount, Past, Unspent
  <2>2. CASE /\ journal.phase \in {"applying", "applied"}
             /\ journal'.previous = journal.previous
    BY <2>2 DEF SpentInv, PastAccount, Past, Unspent
  <2> QED BY <2>1, <2>2
<1> QED BY <1>1, <1>2, <1>3 DEF SpentInv, FactorOnce

LEMMA OthersSpendNothing ==
    ASSUME Export \/ Mark \/ Restoring \/ Stop
    PROVE  spent' = spent
BY DEF vars, Export, Mark, Stop, Restoring, Rested, Memory,
   StageJournal, Shutdown, Drain, Preflight, ResetAccess, CancelRecord,
   CancelJournal, SaveOld, MoveFiles, MoveKey, MoveIdentity, Applied,
   UndoFiles, UndoStore, UndoKey, UndoRecord, UndoJournal, Start,
   Boot, Commit, FinishRecord, FinishJournal, Serve

\* What a step makes of the backup and of the journal.
LEMMA BackupStays ==
    ASSUME PanelInv, SpentInv, \A n : Past(n) => Past(n)',
           Export \/ Mark \/ Restoring \/ Stop
    PROVE  BackupPast'
<1>1. CASE Export
  BY <1>1 DEF Export, Snapshot, SpentInv, PastAccount, BackupPast, Past
<1>2. CASE Mark
  <2>1. ASSUME NEW b \in Foreign
        PROVE  Past(b.secret)
    BY <2>1, NameAssumption, OtherAssumption DEF Foreign, Past
  <2>2. backup' \in Foreign \/ (backup' = backup /\ backup # None)
    BY <1>2 DEF Mark
  <2> QED BY <2>1, <2>2 DEF SpentInv, BackupPast, Past
<1>3. CASE Restoring \/ Stop
  <2>1. backup' = backup /\ stage' # "marked"
    BY <1>3, JournalTyped
       DEF Stop, Restoring, files, WritesJournal, RemovesJournal,
           WritesRecord, StageJournal, Shutdown, Drain, Preflight,
           ResetAccess, CancelRecord, CancelJournal, SaveOld, MoveFiles,
           MoveKey, MoveIdentity, Applied, UndoFiles, UndoStore, UndoKey,
           UndoRecord, UndoJournal, Start, Boot, Commit, FinishRecord,
           FinishJournal, Serve, Done, Breaks, Withdraws, Resumes
  <2>2. journal' = journal \/ stage = "marked" \/ journal.phase # "none"
        \/ journal'.phase = "none"
    <3>1. stage \in {"save", "applied"} => journal.phase # "none"
      BY DEF PanelInv, StageOK, Switching, Intended
    <3>2. NoJournal.phase = "none"
      BY DEF NoJournal
    <3> QED BY <1>3, <3>1, <3>2
        DEF Stop, Restoring, files, WritesJournal, RemovesJournal,
           WritesRecord, StageJournal, Shutdown, Drain, Preflight,
           ResetAccess, CancelRecord, CancelJournal, SaveOld, MoveFiles,
           MoveKey, MoveIdentity, Applied, UndoFiles, UndoStore, UndoKey,
           UndoRecord, UndoJournal, Start, Boot, Commit, FinishRecord,
           FinishJournal, Serve
  <2> QED BY <2>1, <2>2 DEF SpentInv, BackupPast, Past
<1> QED BY <1>1, <1>2, <1>3

LEMMA JournalSpent ==
    ASSUME PanelInv, Export \/ Mark \/ Restoring \/ Stop
    PROVE  journal'.phase \in {"applying", "applied"} =>
              \/ store' = store /\ journal'.previous.store = store
              \/ /\ journal.phase \in {"applying", "applied"}
                 /\ journal'.previous = journal.previous
<1>1. CASE journal' \in {journal, NoJournal, Pending}
  BY <1>1 DEF NoJournal, Pending
<1>2. CASE SaveOld
  <2> DEFINE j == [phase |-> "applying",
                   previous |-> [tree |-> tree, store |-> store,
                                 keyFile |-> keyFile]]
  <2>1. j.previous.store = store
    OBVIOUS
  <2> HIDE DEF j
  <2>2. journal' \in {journal, j} /\ store' = store
    BY <1>2 DEF SaveOld, WritesJournal, Rested, j
  <2> QED BY <1>1, <2>1, <2>2
<1>3. CASE Applied \/ Commit
  <2>1. journal.phase \in {"applying", "applied"}
    BY <1>3 DEF Applied, Commit, PanelInv, StageOK, Switching
  <2>2. ASSUME NEW p, journal' = [journal EXCEPT !.phase = p]
        PROVE  journal'.previous = journal.previous
    BY <2>1, <2>2, JournalTyped
  <2>3. journal' = journal \/ journal'.previous = journal.previous
    BY <1>3, <2>2 DEF Applied, Commit, WritesJournal
  <2> QED BY <2>1, <2>3
<1> QED BY <1>1, <1>2, <1>3
    DEF Export, Mark, Stop, Restoring, files, WritesJournal, RemovesJournal,
        WritesRecord, StageJournal, Shutdown, Drain, Preflight,
        ResetAccess, CancelRecord, CancelJournal, MoveFiles,
        MoveKey, MoveIdentity, UndoFiles, UndoStore, UndoKey,
        UndoRecord, UndoJournal, Start, Boot, FinishRecord,
        FinishJournal, Serve

LEMMA AccountSpent ==
    ASSUME PanelInv, Export \/ Mark \/ Restoring \/ Stop
    PROVE  \/ store' = store
           \/ /\ journal.phase \in {"applying", "applied"}
              /\ \/ store' = journal.previous.store
                 \/ /\ store'.line = store.line + 1 /\ store'.codes = {}
                    /\ store'.secret = backup.secret
<1>1. CASE MoveIdentity
  BY <1>1, StoreTyped
     DEF MoveIdentity, Restored, Accounts, PanelInv, StageOK, Switching
<1>2. CASE UndoStore
  BY <1>2 DEF UndoStore, PanelInv, StageOK, Switching
<1> QED BY <1>1, <1>2
    DEF Export, Mark, Stop, Restoring, vars, Rested,
        StageJournal, Shutdown, Drain, Preflight, SaveOld, Applied, Commit,
        ResetAccess, CancelRecord, CancelJournal, MoveFiles,
        MoveKey, UndoFiles, UndoKey,
        UndoRecord, UndoJournal, Start, Boot, FinishRecord,
        FinishJournal, Serve

LEMMA NextSpent ==
    ASSUME PanelInv, SwitchInv, SpentInv, [RestoreNext]_all
    PROVE  SpentInv'
<1>1. CASE UNCHANGED all
  <2>1. UNCHANGED <<store, req, spent, stage, journal, backup>>
    BY <1>1 DEF all, vars, files
  <2> QED BY <2>1 DEF SpentInv, BackupPast, PastAccount, Past, PastFactor,
          Unspent, FactorOnce
<1>2. CASE Export \/ Mark \/ Restoring \/ Stop
  <2>1. \A n : Past(n) => Past(n)'
    BY PastStays
  <2> QED BY <1>2, <2>1, OthersSpent, OthersSpendNothing, BackupStays,
             JournalSpent, AccountSpent
<1> QED BY <1>1, <1>2, ClientSpent DEF RestoreNext

\* FactorOnce: a code of an authenticator or a recovery code is accepted once
\* in every history of the account.
THEOREM CodesAcceptedOnce == RestoreSpec => []FactorOnce
<1>1. PanelInv /\ SwitchInv /\ SpentInv /\ [RestoreNext]_all
         => (PanelInv /\ SwitchInv /\ SpentInv)'
  BY NextPanel, NextSwitch, NextSpent
<1>2. SpentInv => FactorOnce
  BY DEF SpentInv
<1> QED BY <1>1, <1>2, InitPanel, InitSwitch, InitSpent, PTL DEF RestoreSpec
=============================================================================
