----------------------------- MODULE Credentials -----------------------------
(***************************************************************************)
(* The administrator's credentials and the sessions issued under them:     *)
(* password logins, TOTP and recovery codes, passkeys and their origin,    *)
(* the changes of all these, and the offline password recovery             *)
(* (auth/service.go, auth/passkey.go, store/store.go, store/passkeys.go,   *)
(* panel/passkey.go).                                                      *)
(*                                                                         *)
(* One element of Requests is one thing a client does: a login, a change,  *)
(* or a ceremony of two HTTP requests (a TOTP enrollment, the registration *)
(* of a passkey, a passkey login).  What it creates - a secret, a key, a   *)
(* session, new recovery codes - carries its name.                         *)
(*                                                                         *)
(* store is the memory of the Panel and its file at once: every change is  *)
(* written before it is answered, and undone in memory if the write fails. *)
(* The locks are read off the requests: a login holds credentialMu shared  *)
(* from the read of the user to the write of the session, a change holds   *)
(* it alone, and a handler of passkeys holds passkeyMu.                    *)
(*                                                                         *)
(* The password is not in the model: its hash changes only together with   *)
(* the credential version.  Budgets of attempts are in LoginThrottle.      *)
(***************************************************************************)
EXTENDS Naturals, FiniteSets

CONSTANTS
    Requests,    \* what clients do while the model runs
    Origins,     \* HTTPS origins the Panel can be reached at
    Steps,       \* TOTP time steps a code of the present window can have
    Old,         \* names what the account had before
    None,
    MaxVersion,  \* the largest credential version (2^64 - 1 in the code)
    MaxFaults,   \* bound: writes of the store that fail
    MaxCrashes   \* bound: stops of the Panel

ASSUME NameAssumption ==
    /\ None \notin Requests \cup Origins
    /\ Old \notin Requests \cup {None}
ASSUME BoundAssumption ==
    /\ Steps \subseteq Nat \ {0} /\ MaxVersion \in Nat \ {0}
    /\ MaxFaults \in Nat /\ MaxCrashes \in Nat

VARIABLES
    store,       \* the user, the passkey origin and the sessions
    keyFile,     \* the key file that TOTP secrets are sealed with
    up,          \* the Panel serves requests
    service,     \* the passkey service in use: its origin and ceremonies
    enrollment,  \* the pending TOTP enrollment
    req,         \* per request: its step, kind, session, and the user it saw
    changes,     \* history: numbers the states of the credentials
    spent,       \* history: the second factors accepted, and by whom
    faults, crashes

vars == <<store, keyFile, up, service, enrollment, req, changes, spent,
          faults, crashes>>

\* Kinds of requests, by the locks and the checks they need.
Simple   == {"change", "boundary", "enrol"}
Factored == {"codes", "off", "register", "delete", "bind", "disable"}
OfKeys   == {"keyLogin", "register", "delete"}
OfOrigin == {"bind", "disable"}
Managed  == Simple \cup Factored

NoView == [epoch |-> 0, version |-> 0, at |-> 0, secret |-> None,
           sealed |-> None]
Idle == [pc |-> "idle", kind |-> "login", as |-> None, seen |-> NoView]

View(st) == [epoch |-> st.epoch, version |-> st.version, at |-> st.at,
             secret |-> st.secret, sealed |-> st.sealed]

\* The snapshot is still what the store holds (PutLoginSession,
\* ReplaceUserPasskeys, UpdateUserPasskey, EnableUserTOTP and others).
Same(v) == v.epoch = store.epoch /\ v.version = store.version

Ids(S) == {x.id : x \in S}

Init ==
    /\ \E totp \in BOOLEAN, keys \in SUBSET {Old},
          origin \in Origins \cup {None} :
         /\ keys # {} => origin # None
         /\ store = [epoch |-> 0, version |-> 1, at |-> 0, line |-> 0,
                     secret |-> IF totp THEN Old ELSE None,
                     sealed |-> IF totp THEN Old ELSE None,
                     step |-> 0,
                     codes |-> IF totp THEN {Old} ELSE {},
                     keys |-> {[id |-> k, rp |-> origin] : k \in keys},
                     origin |-> origin,
                     sessions |-> {[id |-> Old, at |-> 0]}]
         /\ keyFile = store.sealed
         /\ service = [origin |-> origin, pending |-> {}]
    /\ up = TRUE
    /\ enrollment = None
    /\ req = [r \in Requests |-> Idle]
    /\ changes = 0 /\ spent = {} /\ faults = 0 /\ crashes = 0

(***************************************************************************)
(* The locks.                                                              *)
(***************************************************************************)
Reading(r) == req[r].kind = "login" /\ req[r].pc \in {"open", "checked"}
Writing(r) == req[r].kind # "login" /\ req[r].pc \in {"checked", "entered"}

\* passkeyMu, shared: from the start of the handler to its end.
UsesKeys(r) == /\ req[r].kind \in OfKeys
               /\ req[r].pc \in {"wait", "again", "checked", "entered"}
\* passkeyMu, alone.
MovesOrigin(r) == /\ req[r].kind \in OfOrigin
                  /\ req[r].pc \in {"wait", "checked", "verified", "saved"}

CredentialsShared == \A q \in Requests : ~ Writing(q)
CredentialsAlone  == \A q \in Requests : ~ Writing(q) /\ ~ Reading(q)
KeysShared        == \A q \in Requests : ~ MovesOrigin(q)
KeysAlone         == \A q \in Requests : ~ MovesOrigin(q) /\ ~ UsesKeys(q)

InProgress(r) == req[r].pc \notin {"idle", "begun", "done"}

(***************************************************************************)
(* Steps of a request and of the store.                                    *)
(***************************************************************************)
Becomes(r, rec) == req' = [req EXCEPT ![r] = rec]
Goes(r, pc) == Becomes(r, [req[r] EXCEPT !.pc = pc])
Over == [Idle EXCEPT !.pc = "done"]
Ends(r) == Becomes(r, Over)

\* persistLocked: the new state is on disk, or memory is as before and the
\* request fails.
Saved(st) ==
    /\ store' = st
    /\ changes' = IF st.at = store.at THEN changes ELSE changes + 1
    /\ UNCHANGED faults
NotSaved ==
    /\ faults < MaxFaults /\ faults' = faults + 1
    /\ UNCHANGED <<store, changes>>
Persist(r, st, rec) == \/ Saved(st) /\ Becomes(r, rec)
                       \/ NotSaved /\ Ends(r)
Kept == UNCHANGED <<store, changes, faults>>
Fails(r) == Ends(r) /\ Kept

\* Mutant: a change leaves the version as it was.
AdvanceSameVersion(st) == [st EXCEPT !.at = changes + 1]

\* advanceCredentialVersion: an exhausted counter starts again at 1, under a
\* fresh epoch.
Advance(st) ==
    IF st.version = MaxVersion
    THEN [st EXCEPT !.epoch = changes + 1, !.version = 1, !.at = changes + 1]
    ELSE [st EXCEPT !.version = @ + 1, !.at = changes + 1]

\* revokeUserSessionsLocked; the Panel has one user.
Revoke(st) == [st EXCEPT !.sessions = {}]

\* Mutant: sessions survive a change.
ChangedKeepsSessions(st) == Advance(st)

Changed(st) == Revoke(Advance(st))

Put(st, r, at) == [st EXCEPT !.sessions = @ \cup {[id |-> r, at |-> at]}]

HasSession(r) == req[r].as \in Ids(store.sessions)

WithoutTotp(st) == [st EXCEPT !.secret = None, !.sealed = None, !.step = 0,
                              !.codes = {}]

(***************************************************************************)
(* verifyAndConsumeSecondFactor for the user v as the request saw it: a    *)
(* code of a later step than the last one, under the same secret, or a     *)
(* recovery code that is still there.                                      *)
(***************************************************************************)
\* Mutant: the code of the last step is good once more.
UnusedOrLast(s) == s >= store.step

Unused(s) == s > store.step

Accepts(r, factor) ==
    spent' = spent \cup {[by |-> r, factor |-> factor, line |-> store.line]}

ConsumeStep(r, v, rec) ==
    \E s \in Steps :
      /\ keyFile = v.sealed
      /\ store.secret = v.secret /\ Unused(s)
      /\ \/ /\ Saved([store EXCEPT !.step = s]) /\ Becomes(r, rec)
            /\ Accepts(r, <<v.secret, s>>)
         \/ NotSaved /\ Ends(r) /\ UNCHANGED spent

ConsumeCode(r, rec) ==
    \E c \in store.codes :
      \/ /\ Saved([store EXCEPT !.codes = @ \ {c}]) /\ Becomes(r, rec)
         /\ Accepts(r, <<c>>)
      \/ NotSaved /\ Ends(r) /\ UNCHANGED spent

SecondFactor(r, v, rec) ==
    \/ v.secret = None /\ Becomes(r, rec) /\ Kept /\ UNCHANGED spent
    \/ v.secret # None /\ ConsumeStep(r, v, rec)
    \/ v.secret # None /\ ConsumeCode(r, rec)
    \/ v.secret # None /\ Fails(r) /\ UNCHANGED spent

Elsewhere == UNCHANGED <<keyFile, up, crashes>>
Rest == Elsewhere /\ UNCHANGED <<service, enrollment, spent>>

(***************************************************************************)
(* Password login.                                                         *)
(***************************************************************************)
\* The user is read under credentialMu.RLock, and the password is right.
LoginRead(r) ==
    /\ up /\ req[r].pc = "idle" /\ CredentialsShared
    /\ Becomes(r, [pc |-> "open", kind |-> "login", as |-> None,
                   seen |-> View(store)])
    /\ Kept /\ Rest

LoginFactor(r) ==
    /\ req[r].kind = "login" /\ req[r].pc = "open"
    /\ SecondFactor(r, req[r].seen, [req[r] EXCEPT !.pc = "checked"])
    /\ Elsewhere /\ UNCHANGED <<service, enrollment>>

\* PutLoginSession.
LoginCommit(r) ==
    /\ req[r].kind = "login" /\ req[r].pc = "checked"
    /\ IF Same(req[r].seen)
       THEN Persist(r, Put(store, r, req[r].seen.at),
                    Over)
       ELSE Fails(r)
    /\ Rest

\* Logout looks for no lock.
Logout(r) ==
    /\ up /\ req[r].pc = "idle"
    /\ \E s \in store.sessions :
         Persist(r, [store EXCEPT !.sessions = @ \ {s}],
                 Over)
    /\ Rest

(***************************************************************************)
(* Requests of a session.                                                  *)
(***************************************************************************)
\* requireSession, before any lock but passkeyMu.
Arrive(r) ==
    /\ up /\ req[r].pc = "idle"
    /\ \E s \in store.sessions, k \in Managed :
         /\ k \in OfKeys => KeysShared
         /\ k = "register" => service.origin # None
         /\ Becomes(r, [pc |-> IF k \in OfOrigin THEN "queue" ELSE "wait",
                        kind |-> k, as |-> s.id, seen |-> NoView])
    /\ Kept /\ Rest

\* The password is wrong, a budget is spent, or the audit cannot be written.
Refuse(r) ==
    /\ req[r].pc \in {"wait", "again"}
    /\ Fails(r) /\ Rest

\* ChangePassword, ChangeUsername.
Change(r) ==
    /\ req[r].kind = "change" /\ req[r].pc = "wait" /\ CredentialsAlone
    /\ Persist(r, Changed(store), Over)
    /\ Rest

\* ChangeTransportBoundary.
Boundary(r) ==
    /\ req[r].kind = "boundary" /\ req[r].pc = "wait" /\ CredentialsAlone
    /\ Persist(r, Revoke(store), Over)
    /\ Rest

\* verifyManagementFactors under credentialMu.Lock.
Verify(r) ==
    /\ req[r].kind \in Factored /\ req[r].pc = "wait" /\ CredentialsAlone
    /\ SecondFactor(r, View(store),
                    [req[r] EXCEPT !.pc = "checked", !.seen = View(store)])
    /\ Elsewhere /\ UNCHANGED <<service, enrollment>>

\* RegenerateRecoveryCodes and DisableTOTP.
CommitCodes(r) ==
    /\ req[r].kind = "codes" /\ req[r].pc = "checked"
    /\ IF store.secret # None
       THEN Persist(r, [Changed(store) EXCEPT !.codes = {r}],
                    Over)
       ELSE Fails(r)
    /\ Rest

CommitOff(r) ==
    /\ req[r].kind = "off" /\ req[r].pc = "checked"
    /\ IF store.secret # None
       THEN Persist(r, WithoutTotp(Changed(store)),
                    Over)
       ELSE Fails(r)
    /\ Rest

(***************************************************************************)
(* Enrollment of an authenticator: StartTOTPEnrollment, and after the      *)
(* administrator has entered a code of it, ConfirmTOTPEnrollment.          *)
(***************************************************************************)
Enrol(r) ==
    /\ req[r].kind = "enrol" /\ req[r].pc = "wait" /\ CredentialsAlone
    /\ IF store.secret = None
       THEN /\ enrollment' = [id |-> r, epoch |-> store.epoch,
                              version |-> store.version, at |-> store.at]
            /\ Goes(r, "begun")
       ELSE Ends(r) /\ UNCHANGED enrollment
    /\ Kept /\ Elsewhere /\ UNCHANGED <<service, spent>>

ReturnEnrol(r) ==
    /\ up /\ req[r].kind = "enrol" /\ req[r].pc = "begun"
    /\ IF HasSession(r) THEN Goes(r, "again") ELSE Ends(r)
    /\ Kept /\ Rest

\* EnableUserTOTP compares the enrollment with the store.
Enabled(e) == store.secret = None /\ Same(e)

Confirm(r) ==
    /\ req[r].kind = "enrol" /\ req[r].pc = "again" /\ CredentialsAlone
    /\ enrollment' = None
    /\ IF enrollment = None \/ enrollment.id # r
       THEN Fails(r) /\ UNCHANGED <<keyFile, spent>>
       ELSE \E s \in Steps, key \in {IF keyFile = None THEN r ELSE keyFile} :
         /\ keyFile' = key
         /\ IF ~ Enabled(enrollment)
            THEN Fails(r) /\ UNCHANGED spent
            ELSE \/ /\ Saved([Changed(store) EXCEPT
                         !.secret = r, !.sealed = key, !.step = s,
                         !.codes = {r}])
                    /\ Ends(r) /\ Accepts(r, <<r, s>>)
                 \/ NotSaved /\ Ends(r) /\ UNCHANGED spent
    /\ UNCHANGED <<up, service, crashes>>

(***************************************************************************)
(* Passkeys.  PasskeyService.save keeps one ceremony per binding and       *)
(* purpose; consume takes it out, also if the rest then fails.             *)
(***************************************************************************)
Ceremony(r, purpose, binding, st) ==
    [id |-> r, purpose |-> purpose, binding |-> binding,
     epoch |-> st.epoch, version |-> st.version, at |-> st.at]

Begins(c) ==
    service' = [service EXCEPT !.pending =
        {o \in @ : o.purpose # c.purpose \/ o.binding # c.binding} \cup {c}]

CommitRegister(r) ==
    /\ req[r].kind = "register" /\ req[r].pc = "checked"
    /\ \/ /\ Begins(Ceremony(r, "register", req[r].as, store))
          /\ Goes(r, "begun")
       \/ Ends(r) /\ UNCHANGED service  \* too many keys or ceremonies
    /\ Kept /\ Elsewhere /\ UNCHANGED <<enrollment, spent>>

\* BeginLogin takes no lock of the credentials; the binding is a new cookie.
BeginKeyLogin(r) ==
    /\ up /\ req[r].pc = "idle" /\ KeysShared /\ service.origin # None
    /\ Begins(Ceremony(r, "login", r, store))
    /\ Becomes(r, [Idle EXCEPT !.pc = "begun", !.kind = "keyLogin"])
    /\ Kept /\ Elsewhere /\ UNCHANGED <<enrollment, spent>>

ReturnKeys(r) ==
    /\ up /\ req[r].kind \in {"register", "keyLogin"} /\ req[r].pc = "begun"
    /\ KeysShared
    /\ LET mine == {c \in service.pending : c.id = r} IN
         IF mine = {} \/ (req[r].kind = "register" /\ ~ HasSession(r))
         THEN Ends(r) /\ UNCHANGED service
         ELSE \E c \in mine :
           /\ service' = [service EXCEPT !.pending = @ \ {c}]
           /\ Becomes(r, [req[r] EXCEPT !.pc = "again",
                !.seen = [NoView EXCEPT !.epoch = c.epoch,
                          !.version = c.version, !.at = c.at]])
    /\ Kept /\ Elsewhere /\ UNCHANGED <<enrollment, spent>>

\* FinishRegistration and ReplaceUserPasskeys.
FinishRegister(r) ==
    /\ req[r].kind = "register" /\ req[r].pc = "again" /\ CredentialsAlone
    /\ IF Same(req[r].seen) /\ HasSession(r)
       THEN Persist(r, [Changed(store) EXCEPT
                          !.keys = @ \cup {[id |-> r, rp |-> service.origin]}],
                    Over)
       ELSE Fails(r)
    /\ Rest

CommitDelete(r) ==
    /\ req[r].kind = "delete" /\ req[r].pc = "checked"
    /\ \/ \E k \in store.keys :
            /\ Same(req[r].seen) /\ HasSession(r)
            /\ Persist(r, [Changed(store) EXCEPT !.keys = @ \ {k}],
                       Over)
       \/ Fails(r)
    /\ Rest

\* The keys of the relying party in use (PasskeyService.user).
Usable == {k \in store.keys : k.rp = service.origin}

\* FinishLogin, as far as the second factor.
VerifyKey(r) ==
    /\ req[r].kind = "keyLogin" /\ req[r].pc = "again" /\ CredentialsAlone
    /\ IF Same(req[r].seen) /\ Usable # {}
       THEN SecondFactor(r, View(store),
                [req[r] EXCEPT !.pc = "checked", !.seen = View(store)])
       ELSE Fails(r) /\ UNCHANGED spent
    /\ Elsewhere /\ UNCHANGED <<service, enrollment>>

\* UpdateUserPasskey puts the session; the attempt is recorded after it.
CommitKeyLogin(r) ==
    /\ req[r].kind = "keyLogin" /\ req[r].pc = "checked"
    /\ IF Same(req[r].seen) /\ Usable # {}
       THEN Persist(r, Put(store, r, req[r].seen.at),
                    [req[r] EXCEPT !.pc = "entered"])
       ELSE Fails(r)
    /\ Rest

\* A login that cannot be recorded is taken back, if that can be written.
RecordKeyLogin(r) ==
    /\ req[r].kind = "keyLogin" /\ req[r].pc = "entered"
    /\ Ends(r)
    /\ \/ Kept
       \/ /\ faults < MaxFaults /\ faults' = faults + 1
          /\ store' \in {store, [store EXCEPT !.sessions =
                                      {s \in @ : s.id # r}]}
          /\ UNCHANGED changes
    /\ Rest

(***************************************************************************)
(* The passkey origin: bound to the origin the browser uses, or disabled.  *)
(***************************************************************************)
\* Mutant: keys do not stop a change of the origin.
HasKeysNever == FALSE

HasKeys == store.keys # {}

EnterOrigin(r) ==
    /\ req[r].kind \in OfOrigin /\ req[r].pc = "queue" /\ KeysAlone
    /\ \/ /\ req[r].kind = "bind" /\ ~ HasKeys
          /\ Goes(r, "wait")
       \/ /\ req[r].kind = "disable" /\ service.origin # None
          /\ store.origin = service.origin
          /\ Goes(r, "wait")
       \/ Ends(r)
    /\ Kept /\ Rest

\* VerifyManagementFactors releases the credentials before the origin is saved.
ReleaseBind(r) ==
    /\ req[r].kind = "bind" /\ req[r].pc = "checked"
    /\ Goes(r, "verified") /\ Kept /\ Rest

SaveBind(r) ==
    /\ req[r].kind = "bind" /\ req[r].pc = "verified"
    /\ IF store.origin = service.origin
       THEN \E o \in Origins \ {service.origin} :
              Persist(r, [store EXCEPT !.origin = o],
                      [req[r] EXCEPT !.pc = "saved"])
       ELSE Fails(r)
    /\ Rest

\* DisablePasskeys: keys, origin and sessions in one transition.
CommitDisable(r) ==
    /\ req[r].kind = "disable" /\ req[r].pc = "checked"
    /\ IF Same(req[r].seen) /\ HasSession(r)
       THEN Persist(r, [Changed(store) EXCEPT !.keys = {}, !.origin = None],
                    [req[r] EXCEPT !.pc = "saved"])
       ELSE Fails(r)
    /\ Rest

\* The handler puts the new service in place.
SwapService(r) ==
    /\ req[r].kind \in OfOrigin /\ req[r].pc = "saved"
    /\ service' = [origin |-> store.origin, pending |-> {}]
    /\ Ends(r)
    /\ Kept /\ Elsewhere /\ UNCHANGED <<enrollment, spent>>

(***************************************************************************)
(* The process.                                                            *)
(***************************************************************************)
\* What a stop of the Panel loses: its memory and the requests in it.
Down ==
    /\ up' = FALSE
    /\ service' = [origin |-> None, pending |-> {}]
    /\ enrollment' = None
    /\ req' = [r \in Requests |->
                 IF req[r].pc = "idle" THEN req[r]
                 ELSE Over]

Serves ==
    /\ up' = TRUE
    /\ service' = [origin |-> store.origin, pending |-> {}]
    /\ UNCHANGED enrollment

\* paneld reset-password, while the Panel is stopped (RecoverUserPassword).
Recover(r) ==
    /\ ~ up /\ req[r].pc = "idle"
    /\ \E off \in BOOLEAN :
         LET st == [Changed(store) EXCEPT !.keys = {}] IN
         Persist(r, IF off THEN WithoutTotp(st) ELSE st,
                 Over)
    /\ Rest

(***************************************************************************)
(* The specification.                                                      *)
(***************************************************************************)
Login(r) == LoginFactor(r) \/ LoginCommit(r)
Manage(r) ==
    \/ Refuse(r) \/ Change(r) \/ Boundary(r) \/ Verify(r)
    \/ CommitCodes(r) \/ CommitOff(r) \/ Enrol(r) \/ Confirm(r)
Keys(r) ==
    \/ CommitRegister(r) \/ FinishRegister(r) \/ CommitDelete(r)
    \/ VerifyKey(r) \/ CommitKeyLogin(r) \/ RecordKeyLogin(r)
Origin(r) ==
    \/ EnterOrigin(r) \/ ReleaseBind(r) \/ SaveBind(r) \/ CommitDisable(r)
    \/ SwapService(r)

\* What a handler does once it runs, and what clients may do.
Handles(r) == Login(r) \/ Manage(r) \/ Keys(r) \/ Origin(r)
Asks(r) ==
    \/ LoginRead(r) \/ Logout(r) \/ Arrive(r) \/ BeginKeyLogin(r)
    \/ ReturnEnrol(r) \/ ReturnKeys(r)

=============================================================================
