----------------------- MODULE TerminalSessionsProofs -----------------------
(***************************************************************************)
(* The session manager keeps its counters exact and its quota, for any     *)
(* number of calls and owners and any limits, and implements SlotPool.     *)
(***************************************************************************)
EXTENDS TerminalSessions, FiniteSetTheorems, TLAPS

\* Calls whose session has been registered, possibly trimmed since.
Registered == sessions \cup closed

(***************************************************************************)
(* Where a process can be, and what a session in the hands of a Close, a   *)
(* capture goroutine or the reaper looks like.  This is what makes the     *)
(* accounting inductive: a slot in use is a call in flight or an active    *)
(* session, never both, and only a confirmed cleanup takes it away.        *)
(***************************************************************************)
Lifecycle ==
    /\ \A c \in Registered : pc[c] \in {"cleaning", "opened", "failed"}
    /\ \A c \in Calls : pc[c] = "cleaning" => c \in Registered
    /\ requests \subseteq Registered
    /\ terminated \subseteq Registered
    /\ closeFailed \subseteq Active
    /\ \A c \in Calls : /\ capture[c] = "reading" => c \in Registered
                        /\ closer[c] # "none" => c \in Active
    /\ scope \cap terminated = {}
    /\ \A c \in scope \cup pty : pc[c] = "started" \/ c \in Active
    /\ \A c \in scope \cup pty : c \notin closed
    /\ scope \subseteq pty

IInv == TypeOK /\ Lifecycle /\ AccountingExact /\ Quota

-----------------------------------------------------------------------------
\* trimFinishedLocked drops nothing but what it is told is done.
LEMMA TrimKeeps ==
    ASSUME NEW done, NEW at
    PROVE  /\ sessions \ done \subseteq Trimmed(done, at)
           /\ Trimmed(done, at) \subseteq sessions
BY DEF Trimmed, Survivors

\* Trimming the finished cache leaves the active sessions alone.
LEMMA TrimActive ==
    ASSUME TypeOK, NEW at, sessions' = Trimmed(Finished, at), closed' = closed
    PROVE  Active' = Active /\ sessions' \subseteq sessions
BY TrimKeeps DEF Active, Finished

-----------------------------------------------------------------------------
(* What a step can do to the quota: grant a slot, end a reservation, or    *)
(* leave the reservations alone and at most close a session.               *)

Grants(c) ==
    /\ c \notin Held /\ HasRoom(OwnerOf[c])
    /\ Reserved' = Reserved \cup {c} /\ Active' = Active
    /\ opening' = opening + 1
    /\ pending' = [pending EXCEPT ![OwnerOf[c]] = @ + 1]
    /\ UNCHANGED epoch

Ends(c) ==
    /\ c \in Reserved
    /\ Reserved' = Reserved \ {c} /\ Active' \subseteq Active \cup {c}
    /\ Release(c)

Keeps ==
    /\ Reserved' = Reserved /\ Active' \subseteq Active
    /\ UNCHANGED <<opening, pending>>
    /\ \A o \in Owners : pending[o] = 0 => epoch'[o] = epoch[o]

LEMMA QuotaEffect ==
    ASSUME IInv, [Next]_vars
    PROVE  Keeps \/ \E c \in Calls : Grants(c) \/ Ends(c)
<1> USE DEF IInv, TypeOK
<1>1. ASSUME NEW c \in Calls, Reserve(c) PROVE Keeps \/ Grants(c)
  <2>1. Active' = Active
    BY <1>1, TrimActive DEF Reserve, Active, flagVars
  <2>2. CASE ~managerClosed /\ HasRoom(OwnerOf[c])
    <3>1. Reserved' = Reserved \cup {c}
      BY <1>1, <2>2 DEF Reserve, Reserved
    <3>2. c \notin Held
      BY <1>1 DEF Reserve, Held, Reserved, Lifecycle, Registered, Active
    <3> QED BY <1>1, <2>1, <2>2, <3>1, <3>2 DEF Reserve, Grants
  <2>3. CASE ~(~managerClosed /\ HasRoom(OwnerOf[c]))
    <3>1. Reserved' = Reserved
      BY <1>1, <2>3 DEF Reserve, Reserved
    <3> QED BY <1>1, <2>1, <2>3, <3>1 DEF Reserve, Keeps
  <2> QED BY <2>2, <2>3
<1>2. ASSUME NEW c \in Calls, Cancel(c) PROVE Keeps
  BY <1>2 DEF Cancel, Keeps, Reserved, Active, admissionVars, flagVars
<1>3. ASSUME NEW c \in Calls, Enter(c) PROVE Keeps
  <2>1. Reserved' = Reserved
    BY <1>3 DEF Enter, Reserved
  <2> QED BY <1>3, <2>1 DEF Enter, Keeps, Active, admissionVars, flagVars
<1>4. ASSUME NEW c \in Calls, Refuse(c) PROVE Ends(c)
  <2>1. Reserved' = Reserved \ {c} /\ c \in Reserved
    BY <1>4 DEF Refuse, Reserved
  <2> QED BY <1>4, <2>1 DEF Refuse, Ends, Active, flagVars
<1>5. ASSUME NEW c \in Calls, Start(c) PROVE Keeps
  <2>1. Reserved' = Reserved
    BY <1>5 DEF Start, Reserved
  <2> QED BY <1>5, <2>1 DEF Start, Keeps, Active, admissionVars, flagVars
<1>6. ASSUME NEW c \in Calls, Register(c) PROVE Ends(c)
  <2>1. Reserved' = Reserved \ {c} /\ c \in Reserved
    BY <1>6 DEF Register, Reserved
  <2>2. Active' \subseteq Active \cup {c}
    BY <1>6 DEF Register, Active, flagVars
  <2> QED BY <1>6, <2>1, <2>2 DEF Register, Ends
<1>7. ASSUME NEW c \in Calls, SessionStep(c) PROVE Keeps
  BY <1>7 DEF SessionStep, ClientClose, Use, Append, CaptureExit, CapturePending,
              Keeps, Reserved, Active, admissionVars, callVars, flagVars
<1>8. ASSUME NEW c \in Calls, CloseStep(c) PROVE Keeps
  <2>1. ASSUME NEW who \in {"call", "open"}, CloseBegin(c, who) PROVE Keeps
    <3>1. Reserved' = Reserved
      BY <2>1 DEF CloseBegin, Reserved
    <3> QED BY <2>1, <3>1 DEF CloseBegin, Keeps, Active, admissionVars
  <2>2. (closer[c] # "none" /\ CloseReturns(c)) => Reserved' = Reserved
    BY DEF CloseReturns, Reserved, Lifecycle, Registered, Active
  <2>3. ASSUME NEW ok \in BOOLEAN, Kill(c, ok) PROVE Keeps
    <3>1. Reserved' = Reserved
      BY <2>2, <2>3 DEF Kill, Reserved
    <3> QED BY <2>3, <3>1 DEF Kill, Keeps, Active, admissionVars
  <2>4. ASSUME NEW ok \in BOOLEAN, ClosePty(c, ok) PROVE Keeps
    <3>1. Reserved' = Reserved
      BY <2>2, <2>4 DEF ClosePty, Reserved
    <3> QED BY <2>4, <3>1 DEF ClosePty, Keeps, Active, admissionVars, flagVars
  <2>5. ASSUME CloseFinish(c) PROVE Keeps
    <3>1. Reserved' = Reserved
      BY <2>2, <2>5 DEF CloseFinish
    <3>2. sessions' \subseteq sessions
      BY <2>5, TrimKeeps DEF CloseFinish
    <3> QED BY <2>5, <3>1, <3>2 DEF CloseFinish, Keeps, Active, admissionVars
  <2> QED BY <1>8, <2>1, <2>3, <2>4, <2>5 DEF CloseStep
<1>9. ASSUME NEW o \in Owners, CloseOwner(o) PROVE Keeps
  BY <1>9 DEF CloseOwner, Keeps, Reserved, Active, callVars, flagVars
<1>10. ASSUME CloseAll \/ ReapExit \/ Tick PROVE Keeps
  BY <1>10 DEF CloseAll, ReapExit, Tick, Keeps, Reserved, Active, admissionVars,
               callVars, flagVars
<1>11. ASSUME Reap PROVE Keeps
  <2>1. Active' = Active
    BY <1>11, TrimActive DEF Reap, flagVars
  <2> QED BY <1>11, <2>1 DEF Reap, Keeps, Reserved, admissionVars, callVars
<1>12. ASSUME UNCHANGED vars PROVE Keeps
  BY <1>12 DEF vars, Keeps, Reserved, Active, admissionVars, callVars, flagVars
<1> QED
  BY <1>1, <1>2, <1>3, <1>4, <1>5, <1>6, <1>7, <1>8, <1>9, <1>10, <1>11, <1>12
  DEF Next, OpenStep

-----------------------------------------------------------------------------
(* Counting.                                                               *)

LEMMA FiniteHeld ==
    ASSUME TypeOK
    PROVE  /\ IsFiniteSet(Held) /\ IsFiniteSet(Reserved) /\ IsFiniteSet(Active)
           /\ Cardinality(Held) \in Nat
           /\ \A S \in {Held, Reserved, Active} : S \subseteq Calls
           /\ \A S \in SUBSET Calls : IsFiniteSet(S) /\ Cardinality(S) \in Nat
<1>1. \A S \in SUBSET Calls : IsFiniteSet(S) /\ Cardinality(S) \in Nat
  BY CallsAssumption, FS_Subset, FS_CardinalityType
<1>2. Held \subseteq Calls /\ Reserved \subseteq Calls /\ Active \subseteq Calls
  BY DEF Held, Reserved, Active, TypeOK
<1> QED BY <1>1, <1>2

\* Calls in flight and active sessions are disjoint, so they add up.
LEMMA HeldAddsUp ==
    ASSUME IInv
    PROVE  /\ Cardinality(Held) = opening + Cardinality(Active)
           /\ \A o \in Owners : Cardinality(Held \cap OwnedBy(o))
                                  = pending[o] + Cardinality(Active \cap OwnedBy(o))
<1>1. Reserved \cap Active = {}
  BY DEF IInv, TypeOK, Lifecycle, Registered, Reserved, Active
<1>2. ASSUME NEW R \in SUBSET Calls, NEW A \in SUBSET Calls, R \cap A = {}
      PROVE  Cardinality(R \cup A) = Cardinality(R) + Cardinality(A)
  <2>1. IsFiniteSet(R) /\ IsFiniteSet(A) /\ Cardinality(R) \in Nat /\ Cardinality(A) \in Nat
    BY FiniteHeld DEF IInv
  <2>2. Cardinality(R \cup A) = Cardinality(R) + Cardinality(A) - Cardinality(R \cap A)
    BY <2>1, FS_Union
  <2>3. Cardinality(R \cap A) = 0 BY <1>2, FS_EmptySet
  <2> QED BY <2>1, <2>2, <2>3
<1>3. Reserved \subseteq Calls /\ Active \subseteq Calls
  BY FiniteHeld DEF IInv
<1>4. ASSUME NEW o \in Owners
      PROVE  Held \cap OwnedBy(o) = (Reserved \cap OwnedBy(o)) \cup (Active \cap OwnedBy(o))
  BY DEF Held
<1>5. Cardinality(Held) = opening + Cardinality(Active)
  BY <1>1, <1>2, <1>3 DEF Held, IInv, AccountingExact
<1>6. ASSUME NEW o \in Owners
      PROVE  Cardinality(Held \cap OwnedBy(o)) = pending[o] + Cardinality(Active \cap OwnedBy(o))
  <2>1. (Reserved \cap OwnedBy(o)) \cap (Active \cap OwnedBy(o)) = {} BY <1>1
  <2> DEFINE R == Reserved \cap OwnedBy(o)
             A == Active \cap OwnedBy(o)
  <2>2. R \in SUBSET Calls /\ A \in SUBSET Calls /\ R \cap A = {} BY <1>3, <2>1
  <2>3. Cardinality(R \cup A) = Cardinality(R) + Cardinality(A)
    <3> HIDE DEF R, A
    <3> QED BY <1>2, <2>2
  <2> QED BY <1>4, <2>3 DEF IInv, AccountingExact
<1> QED BY <1>5, <1>6

LEMMA AccountingStep ==
    ASSUME IInv, [Next]_vars
    PROVE  AccountingExact'
<1> USE DEF IInv
<1>1. ASSUME Keeps PROVE AccountingExact'
  BY <1>1 DEF Keeps, AccountingExact, OwnedBy
<1>2. ASSUME NEW c \in Calls, Grants(c) PROVE AccountingExact'
  <2>1. c \notin Reserved /\ Reserved \subseteq Calls /\ OwnerOf[c] \in Owners
    BY <1>2, FiniteHeld, OwnersAssumption DEF Grants, Held
  <2>2. Cardinality(Reserved') = Cardinality(Reserved) + 1
    BY <1>2, <2>1, FiniteHeld, FS_AddElement DEF Grants
  <2>3. ASSUME NEW o \in Owners
        PROVE  pending'[o] = Cardinality(Reserved' \cap OwnedBy(o))
    <3>1. CASE o = OwnerOf[c]
      <4>1. Reserved' \cap OwnedBy(o) = (Reserved \cap OwnedBy(o)) \cup {c}
        BY <1>2, <3>1 DEF Grants, OwnedBy
      <4>2. IsFiniteSet(Reserved \cap OwnedBy(o)) /\ c \notin Reserved \cap OwnedBy(o)
        BY <2>1, FiniteHeld
      <4>3. pending'[o] = pending[o] + 1
        BY <1>2, <3>1 DEF Grants, TypeOK
      <4> QED BY <4>1, <4>2, <4>3, FS_AddElement DEF AccountingExact
    <3>2. CASE o # OwnerOf[c]
      <4>1. Reserved' \cap OwnedBy(o) = Reserved \cap OwnedBy(o)
        BY <1>2, <3>2 DEF Grants, OwnedBy
      <4> QED BY <1>2, <3>2, <4>1 DEF Grants, TypeOK, AccountingExact
    <3> QED BY <3>1, <3>2
  <2>4. ASSUME NEW o \in Owners, pending'[o] = 0 PROVE epoch'[o] = 0
    <3>1. CASE o = OwnerOf[c]
      BY <1>2, <2>4, <3>1 DEF Grants, TypeOK
    <3>2. CASE o # OwnerOf[c]
      BY <1>2, <2>4, <3>2 DEF Grants, TypeOK, AccountingExact
    <3> QED BY <3>1, <3>2
  <2> QED BY <1>2, <2>2, <2>3, <2>4 DEF AccountingExact, Grants, OwnedBy
<1>3. ASSUME NEW c \in Calls, Ends(c) PROVE AccountingExact'
  <2>1. c \in Reserved /\ Reserved \subseteq Calls /\ OwnerOf[c] \in Owners
    BY <1>3, FiniteHeld, OwnersAssumption DEF Ends
  <2>2. Cardinality(Reserved') = Cardinality(Reserved) - 1
    BY <1>3, <2>1, FiniteHeld, FS_RemoveElement DEF Ends
  <2>3. ASSUME NEW o \in Owners
        PROVE  pending'[o] = Cardinality(Reserved' \cap OwnedBy(o))
    <3>1. CASE o = OwnerOf[c]
      <4>1. Reserved' \cap OwnedBy(o) = (Reserved \cap OwnedBy(o)) \ {c}
        BY <1>3, <3>1 DEF Ends, OwnedBy
      <4>2. IsFiniteSet(Reserved \cap OwnedBy(o)) /\ c \in Reserved \cap OwnedBy(o)
        BY <2>1, <3>1, FiniteHeld DEF OwnedBy
      <4>3. pending'[o] = pending[o] - 1
        BY <1>3, <3>1 DEF Ends, Release, TypeOK
      <4> QED BY <4>1, <4>2, <4>3, FS_RemoveElement DEF AccountingExact
    <3>2. CASE o # OwnerOf[c]
      <4>1. Reserved' \cap OwnedBy(o) = Reserved \cap OwnedBy(o)
        BY <1>3, <3>2 DEF Ends, OwnedBy
      <4> QED BY <1>3, <3>2, <4>1 DEF Ends, Release, TypeOK, AccountingExact
    <3> QED BY <3>1, <3>2
  <2>4. ASSUME NEW o \in Owners, pending'[o] = 0 PROVE epoch'[o] = 0
    <3>1. CASE o = OwnerOf[c]
      BY <1>3, <2>4, <3>1 DEF Ends, Release, TypeOK
    <3>2. CASE o # OwnerOf[c]
      BY <1>3, <2>4, <3>2 DEF Ends, Release, TypeOK, AccountingExact
    <3> QED BY <3>1, <3>2
  <2> QED BY <1>3, <2>2, <2>3, <2>4 DEF AccountingExact, Ends, Release, OwnedBy
<1> QED BY <1>1, <1>2, <1>3, QuotaEffect

LEMMA QuotaStep ==
    ASSUME IInv, [Next]_vars
    PROVE  Quota'
<1> USE DEF IInv
<1>1. ASSUME Held' \subseteq Held PROVE Quota'
  <2>1. Held \subseteq Calls BY FiniteHeld
  <2>2. Cardinality(Held') <= Cardinality(Held) /\ Cardinality(Held') \in Nat
    BY <1>1, <2>1, FiniteHeld, FS_Subset, FS_CardinalityType
  <2>3. ASSUME NEW o \in Owners
        PROVE  /\ Cardinality(Held' \cap OwnedBy(o)) <= Cardinality(Held \cap OwnedBy(o))
               /\ Cardinality(Held' \cap OwnedBy(o)) \in Nat
               /\ Cardinality(Held \cap OwnedBy(o)) \in Nat
    <3> DEFINE S == Held \cap OwnedBy(o)
               T == Held' \cap OwnedBy(o)
    <3>1. S \in SUBSET Calls /\ T \in SUBSET S BY <1>1, <2>1
    <3> QED BY <3>1, FiniteHeld, FS_Subset, FS_CardinalityType
  <2>4. Cardinality(Held') <= MaxSessions
    BY <2>2, FiniteHeld, LimitsAssumption DEF Quota
  <2>5. ASSUME NEW o \in Owners
        PROVE  Cardinality(Held' \cap OwnedBy(o)) <= MaxOwnerSessions
    <3>1. Cardinality(Held \cap OwnedBy(o)) <= MaxOwnerSessions BY DEF Quota
    <3> QED BY <2>3, <3>1, LimitsAssumption
  <2> QED BY <2>4, <2>5 DEF Quota, OwnedBy
<1>2. ASSUME NEW c \in Calls, Grants(c) PROVE Quota'
  <2>1. Held' = Held \cup {c} /\ c \notin Held BY <1>2 DEF Grants, Held
  <2>2. Cardinality(Held') = Cardinality(Held) + 1 BY <2>1, FiniteHeld, FS_AddElement
  <2>3. ASSUME NEW o \in Owners
        PROVE  Cardinality(Held' \cap OwnedBy(o)) <= MaxOwnerSessions
    <3>1. CASE o = OwnerOf[c]
      <4>1. Held' \cap OwnedBy(o) = (Held \cap OwnedBy(o)) \cup {c}
        BY <2>1, <3>1 DEF OwnedBy
      <4>2. Held \cap OwnedBy(o) \in SUBSET Calls BY FiniteHeld
      <4>3. Cardinality(Held' \cap OwnedBy(o)) = Cardinality(Held \cap OwnedBy(o)) + 1
        BY <2>1, <4>1, <4>2, FiniteHeld, FS_AddElement
      <4>4. Cardinality(Active \cap OwnedBy(o)) + pending[o] < MaxOwnerSessions
        BY <1>2, <3>1 DEF Grants, HasRoom
      <4>5. Cardinality(Active \cap OwnedBy(o)) \in Nat /\ pending[o] \in Nat
        BY FiniteHeld DEF TypeOK
      <4>6. Cardinality(Held \cap OwnedBy(o)) = pending[o] + Cardinality(Active \cap OwnedBy(o))
        BY HeldAddsUp
      <4>7. Cardinality(Held \cap OwnedBy(o)) < MaxOwnerSessions
        BY <4>4, <4>5, <4>6
      <4> QED BY <4>2, <4>3, <4>7, FiniteHeld, LimitsAssumption
    <3>2. CASE o # OwnerOf[c]
      <4>1. Held' \cap OwnedBy(o) = Held \cap OwnedBy(o)
        BY <2>1, <3>2 DEF OwnedBy
      <4> QED BY <4>1 DEF Quota
    <3> QED BY <3>1, <3>2
  <2>4. Cardinality(Held) < MaxSessions
    BY <1>2, HeldAddsUp, FiniteHeld DEF Grants, HasRoom, TypeOK
  <2> QED BY <2>2, <2>3, <2>4, FiniteHeld, LimitsAssumption DEF Quota, OwnedBy
<1>3. Keeps => Held' \subseteq Held
  BY DEF Keeps, Held
<1>4. ASSUME NEW c \in Calls, Ends(c) PROVE Held' \subseteq Held
  BY <1>4 DEF Ends, Held
<1> QED BY <1>1, <1>2, <1>3, <1>4, QuotaEffect

-----------------------------------------------------------------------------
(* Types and life cycle, one step per action.                              *)

LEMMA TypeStep ==
    ASSUME IInv, [Next]_vars
    PROVE  TypeOK'
<1> USE OwnersAssumption, TimesAssumption DEF IInv, TypeOK, CallStates, Unset
<1>1. ASSUME NEW c \in Calls, Reserve(c) PROVE TypeOK'
  <2>1. sessions' \subseteq sessions BY <1>1, TrimKeeps DEF Reserve
  <2> QED BY <1>1, <2>1 DEF Reserve, managerVars, revokeVars, flagVars, timeVars,
                            closeVars, processVars
<1>2. ASSUME NEW c \in Calls, Cancel(c) PROVE TypeOK'
  BY <1>2 DEF Cancel, managerVars, admissionVars, revokeVars, flagVars, timeVars,
              closeVars, processVars
<1>3. ASSUME NEW c \in Calls, Enter(c) PROVE TypeOK'
  BY <1>3 DEF Enter, managerVars, admissionVars, revokeVars, flagVars, timeVars,
              closeVars, processVars
\* A release never makes a counter negative: the call is among those counted.
<1>4. ASSUME NEW c \in Calls, c \in Reserved, Release(c)
      PROVE  opening' \in Nat /\ pending' \in [Owners -> Nat] /\ epoch' \in [Owners -> Nat]
  <2>1. opening # 0 /\ pending[OwnerOf[c]] # 0
    <3>1. IsFiniteSet(Reserved) /\ Reserved # {} BY <1>4, FiniteHeld
    <3>2. Reserved \cap OwnedBy(OwnerOf[c]) # {}
      BY <1>4 DEF OwnedBy
    <3>3. Reserved \cap OwnedBy(OwnerOf[c]) \in SUBSET Calls BY FiniteHeld
    <3> QED BY <3>1, <3>2, <3>3, FiniteHeld, FS_EmptySet DEF AccountingExact
  <2> QED BY <1>4, <2>1 DEF Release
<1>5. ASSUME NEW c \in Calls, Refuse(c) PROVE TypeOK'
  <2>1. c \in Reserved BY <1>5 DEF Refuse, Reserved
  <2> QED BY <1>4, <1>5, <2>1 DEF Refuse, Forget, managerVars, revokeVars, flagVars,
                                  timeVars, closeVars, processVars
<1>6. ASSUME NEW c \in Calls, Start(c) PROVE TypeOK'
  BY <1>6 DEF Start, managerVars, admissionVars, revokeVars, flagVars, timeVars, closeVars
<1>7. ASSUME NEW c \in Calls, Register(c) PROVE TypeOK'
  <2>1. c \in Reserved BY <1>7 DEF Register, Reserved
  <2> QED BY <1>4, <1>7, <2>1 DEF Register, Forget, managerVars, revokeVars, flagVars,
                                  closeVars, processVars
<1>8. ASSUME NEW c \in Calls, SessionStep(c) PROVE TypeOK'
  <2>1. CASE ClientClose(c) \/ Use(c)
    BY <2>1 DEF ClientClose, Use, AskClose, Active, managerVars, admissionVars, callVars,
                revokeVars, flagVars, timeVars, closeVars, processVars
  <2>2. CASE Append(c)
    BY <2>2 DEF Append, managerVars, admissionVars, callVars, revokeVars, flagVars,
                closeVars, processVars
  <2>3. CASE CaptureExit(c)
    BY <2>3 DEF CaptureExit, AskClose, Active, managerVars, admissionVars, callVars,
                revokeVars, processVars
  <2>4. CASE CapturePending(c)
    BY <2>4 DEF CapturePending, managerVars, admissionVars, callVars, revokeVars,
                closeVars, processVars
  <2> QED BY <1>8, <2>1, <2>2, <2>3, <2>4 DEF SessionStep
<1>9. ASSUME NEW c \in Calls, CloseStep(c) PROVE TypeOK'
  <2>1. CASE \E who \in {"call", "open"} : CloseBegin(c, who)
    BY <2>1 DEF CloseBegin, managerVars, admissionVars, revokeVars, timeVars, processVars
  <2>2. CASE \E ok \in BOOLEAN : Kill(c, ok)
    BY <2>2 DEF Kill, CloseReturns, managerVars, admissionVars, revokeVars, timeVars
  <2>3. CASE \E ok \in BOOLEAN : ClosePty(c, ok)
    BY <2>3 DEF ClosePty, CloseReturns, managerVars, admissionVars, revokeVars, flagVars,
                timeVars
  <2>4. CASE CloseFinish(c)
    <3>1. sessions' \subseteq sessions BY <2>4, TrimKeeps DEF CloseFinish
    <3>2. finishedAt' \in [Calls -> Int] /\ updatedAt' \in [Calls -> Int]
      BY <2>4 DEF CloseFinish
    <3>3. closer' \in [Calls -> {"none", "call", "open"}] /\ pc' \in [Calls -> CallStates]
      BY <2>4 DEF CloseFinish, CloseReturns
    <3>4. closed' \subseteq Calls /\ closeFailed' \subseteq Calls
      BY <2>4 DEF CloseFinish
    <3> QED BY <2>4, <3>1, <3>2, <3>3, <3>4 DEF CloseFinish, managerVars, admissionVars,
                                                revokeVars, processVars
  <2> QED BY <1>9, <2>1, <2>2, <2>3, <2>4 DEF CloseStep
<1>10. ASSUME NEW o \in Owners, CloseOwner(o) PROVE TypeOK'
  BY <1>10 DEF CloseOwner, AskClose, Active, Reserved, OwnedBy, managerVars, callVars,
               flagVars, timeVars, processVars
<1>11. ASSUME CloseAll PROVE TypeOK'
  BY <1>11 DEF CloseAll, AskClose, Active, admissionVars, callVars, revokeVars, flagVars,
               timeVars, processVars
<1>12. ASSUME ReapExit \/ Tick PROVE TypeOK'
  <2>1. CASE ReapExit
    BY <2>1 DEF ReapExit, admissionVars, callVars, revokeVars, flagVars, timeVars,
                closeVars, processVars
  <2>2. CASE Tick
    <3>1. clock' \in 0..MaxClock BY <2>2 DEF Tick
    <3> QED BY <2>2, <3>1 DEF Tick, managerVars, admissionVars, callVars, revokeVars,
                              flagVars, timeVars, closeVars, processVars
  <2> QED BY <1>12, <2>1, <2>2
<1>13. ASSUME Reap PROVE TypeOK'
  <2>1. sessions' \subseteq sessions BY <1>13, TrimKeeps DEF Reap
  <2> QED BY <1>13, <2>1 DEF Reap, AskClose, Active, managerVars, admissionVars,
                             callVars, revokeVars, flagVars, timeVars, processVars
<1>14. ASSUME UNCHANGED vars PROVE TypeOK'
  BY <1>14 DEF vars, managerVars, admissionVars, callVars, revokeVars, flagVars,
               timeVars, closeVars, processVars
<1> QED
  BY <1>1, <1>2, <1>3, <1>5, <1>6, <1>7, <1>8, <1>9, <1>10, <1>11, <1>12, <1>13, <1>14
  DEF Next, OpenStep

LEMMA LifecycleStep ==
    ASSUME IInv, [Next]_vars
    PROVE  Lifecycle'
<1> USE DEF IInv, TypeOK, Lifecycle, Registered, Active
\* What trims the cache forgets closed sessions only.
<1>0. ASSUME NEW at, sessions' = Trimmed(Finished, at), closed' = closed
      PROVE  Registered' = Registered /\ Active' = Active
  BY <1>0, TrimKeeps DEF Finished
<1>1. ASSUME NEW c \in Calls, Reserve(c) PROVE Lifecycle'
  <2>1. Registered' = Registered /\ Active' = Active
    BY <1>0, <1>1 DEF Reserve, flagVars
  <2>2. c \notin Registered BY <1>1 DEF Reserve
  <2> QED BY <1>1, <2>1, <2>2 DEF Reserve, flagVars, closeVars, processVars
<1>2. ASSUME NEW c \in Calls, Cancel(c) PROVE Lifecycle'
  BY <1>2 DEF Cancel, flagVars, closeVars, processVars
<1>3. ASSUME NEW c \in Calls, Enter(c) PROVE Lifecycle'
  BY <1>3 DEF Enter, flagVars, closeVars, processVars
<1>4. ASSUME NEW c \in Calls, Refuse(c) PROVE Lifecycle'
  BY <1>4 DEF Refuse, flagVars, closeVars, processVars
<1>5. ASSUME NEW c \in Calls, Start(c) PROVE Lifecycle'
  <2>1. c \notin Registered BY <1>5 DEF Start
  <2> QED BY <1>5, <2>1 DEF Start, flagVars, closeVars
<1>6. ASSUME NEW c \in Calls, Register(c) PROVE Lifecycle'
  <2>1. c \notin Registered BY <1>6 DEF Register
  <2>2. CASE c \in pty
    <3>1. Registered' = Registered \cup {c} /\ Active' = Active \cup {c}
      BY <1>6, <2>1, <2>2 DEF Register, flagVars
    <3> QED BY <1>6, <2>1, <2>2, <3>1 DEF Register, flagVars, closeVars, processVars
  <2>3. CASE c \notin pty
    BY <1>6, <2>1, <2>3 DEF Register, flagVars, closeVars, processVars
  <2> QED BY <2>2, <2>3
<1>7. ASSUME NEW c \in Calls, SessionStep(c) PROVE Lifecycle'
  <2>1. CASE ClientClose(c) \/ Use(c) \/ Append(c)
    BY <2>1 DEF ClientClose, Use, Append, AskClose, callVars, flagVars, closeVars,
                processVars
  <2>2. CASE CaptureExit(c)
    BY <2>2 DEF CaptureExit, AskClose, callVars, processVars
  <2>3. CASE CapturePending(c)
    BY <2>3 DEF CapturePending, callVars, closeVars, processVars
  <2> QED BY <1>7, <2>1, <2>2, <2>3 DEF SessionStep
<1>8. ASSUME NEW c \in Calls, CloseStep(c) PROVE Lifecycle'
  <2>1. ASSUME NEW who \in {"call", "open"}, CloseBegin(c, who) PROVE Lifecycle'
    <3>1. c \in Registered BY <2>1 DEF CloseBegin
    <3> QED BY <2>1, <3>1 DEF CloseBegin, processVars
  <2>2. ASSUME NEW ok \in BOOLEAN, Kill(c, ok) PROVE Lifecycle'
    BY <2>2 DEF Kill, CloseReturns
  <2>3. ASSUME NEW ok \in BOOLEAN, ClosePty(c, ok) PROVE Lifecycle'
    BY <2>3 DEF ClosePty, CloseReturns, flagVars
  <2>4. ASSUME CloseFinish(c) PROVE Lifecycle'
    <3>1. sessions \ (closed' \ closeFailed') \subseteq sessions' /\ sessions' \subseteq sessions
      BY <2>4, TrimKeeps DEF CloseFinish
    <3>2. closed' = closed \cup {c} /\ closeFailed' = closeFailed \ {c} /\ c \in Active
      BY <2>4 DEF CloseFinish
    <3>3. Registered' = Registered /\ Active' = Active \ {c}
      BY <3>1, <3>2
    <3>4. c \notin scope \cup pty
      BY <2>4 DEF CloseFinish
    <3> QED BY <2>4, <3>2, <3>3, <3>4 DEF CloseFinish, CloseReturns, processVars
  <2> QED BY <1>8, <2>1, <2>2, <2>3, <2>4 DEF CloseStep
<1>9. ASSUME NEW o \in Owners, CloseOwner(o) PROVE Lifecycle'
  BY <1>9 DEF CloseOwner, AskClose, callVars, flagVars, processVars
<1>10. ASSUME CloseAll PROVE Lifecycle'
  BY <1>10 DEF CloseAll, AskClose, callVars, flagVars, processVars
<1>11. ASSUME ReapExit \/ Tick \/ UNCHANGED vars PROVE Lifecycle'
  BY <1>11 DEF ReapExit, Tick, vars, callVars, flagVars, closeVars, processVars
<1>12. ASSUME Reap PROVE Lifecycle'
  <2>1. Registered' = Registered /\ Active' = Active
    BY <1>0, <1>12 DEF Reap, flagVars
  <2>2. requests' \subseteq requests \cup Active
    BY <1>12 DEF Reap, AskClose
  <2> QED BY <1>12, <2>1, <2>2 DEF Reap, callVars, flagVars, processVars
<1> QED
  BY <1>1, <1>2, <1>3, <1>4, <1>5, <1>6, <1>7, <1>8, <1>9, <1>10, <1>11, <1>12
  DEF Next, OpenStep

-----------------------------------------------------------------------------
(***************************************************************************)
(* The state of the manager is well typed and consistent in every          *)
(* reachable state: the inductive invariant behind all that follows.       *)
(***************************************************************************)
THEOREM Inductive == Spec => []IInv
<1>1. Init => IInv
  <2> SUFFICES ASSUME Init PROVE IInv OBVIOUS
  <2>1. TypeOK
    <3>1. clock \in 0..MaxClock /\ revocations \in 0..MaxRevocations
          /\ bytes \in [Calls -> 0..MaxCapacity]
      BY TimesAssumption DEF Init
    <3>2. /\ createdAt \in [Calls -> Int] /\ updatedAt \in [Calls -> Int]
          /\ finishedAt \in [Calls -> Int]
      BY DEF Init, Unset
    <3> QED BY <3>1, <3>2 DEF Init, TypeOK, CallStates
  <2>2. Lifecycle
    BY DEF Init, Lifecycle, Registered, Active
  <2>3. Reserved = {} /\ Active = {} /\ Held = {}
    BY DEF Init, Reserved, Active, Held
  <2>4. AccountingExact
    BY <2>3, FS_EmptySet DEF Init, AccountingExact
  <2>5. Quota
    BY <2>3, FS_EmptySet, LimitsAssumption DEF Quota
  <2> QED BY <2>1, <2>2, <2>4, <2>5 DEF IInv
<1>2. IInv /\ [Next]_vars => IInv'
  BY TypeStep, LifecycleStep, AccountingStep, QuotaStep DEF IInv
<1> QED BY <1>1, <1>2, PTL DEF Spec

(***************************************************************************)
(* Every variable stays in its type, the counters included: no release of  *)
(* a reservation ever makes opening or an owner's count negative.          *)
(***************************************************************************)
THEOREM TypeCorrect == Spec => []TypeOK
BY Inductive, PTL DEF IInv

(***************************************************************************)
(* The counters of the manager equal the calls in flight.                  *)
(***************************************************************************)
THEOREM AccountingCorrect == Spec => []AccountingExact
BY Inductive, PTL DEF IInv

(***************************************************************************)
(* Neither limit is ever exceeded by calls in flight and active sessions.  *)
(***************************************************************************)
THEOREM QuotaCorrect == Spec => []Quota
BY Inductive, PTL DEF IInv

(***************************************************************************)
(* Busy, which admits a host backup, sees every process that may be alive. *)
(***************************************************************************)
THEOREM BusyCorrect == Spec => []BusySeesEveryProcess
<1>1. IInv => BusySeesEveryProcess
  <2> SUFFICES ASSUME IInv, scope \cup pty # {}, Active = {} PROVE opening # 0
    BY DEF BusySeesEveryProcess, Busy
  <2>1. PICK c \in scope \cup pty : pc[c] = "started"
    BY DEF IInv, Lifecycle
  <2>2. c \in Reserved BY <2>1 DEF IInv, TypeOK, Reserved
  <2> QED BY <2>2, FiniteHeld, FS_EmptySet DEF IInv, AccountingExact
<1> QED BY <1>1, Inductive, PTL

-----------------------------------------------------------------------------
(* Revocation.                                                             *)

(***************************************************************************)
(* Why no session slips through: a call in flight remembers an epoch that  *)
(* its owner has not left behind unless the call was revoked, and then the *)
(* owner's epoch, which lives as long as a call of the owner is in flight, *)
(* is later than the one it remembers; Close publishes closeFailed before  *)
(* it lets go of the request, and keeps it until the session is closed.    *)
(***************************************************************************)
EpochsCatch ==
    \A c \in Reserved :
        /\ epochAt[c] <= epoch[OwnerOf[c]]
        /\ c \in revoked => epochAt[c] < epoch[OwnerOf[c]]

CloseIsVisible ==
    /\ \A c \in revoked : pc[c] # "idle"
    /\ \A c \in Calls : closer[c] # "none" => c \in closeFailed

Reaching == EpochsCatch /\ CloseIsVisible /\ NothingSurvivesRevocation

\* An owner whose last call leaves Open has no other call in flight.
LEMMA LastCall ==
    ASSUME IInv, NEW c \in Reserved, NEW d \in Reserved,
           OwnerOf[d] = OwnerOf[c], pending[OwnerOf[c]] = 1
    PROVE  d = c
<1> DEFINE R == Reserved \cap OwnedBy(OwnerOf[c])
<1>1. c \in Calls /\ d \in Calls BY DEF Reserved
<1>2. OwnerOf[c] \in Owners BY <1>1, OwnersAssumption
<1>3. c \in R /\ d \in R BY <1>1 DEF OwnedBy
<1>4. IsFiniteSet(R) BY FiniteHeld, FS_Subset DEF IInv
<1>5. Cardinality(R) = 1 BY <1>2 DEF IInv, AccountingExact
<1>6. PICK x : R = {x}
  <2> HIDE DEF R
  <2> QED BY <1>4, <1>5, FS_Singleton
<1> QED BY <1>3, <1>6

\* What releasing the reservation of c does to the epochs of the others.
LEMMA ReleaseEpochs ==
    ASSUME IInv, EpochsCatch, NEW c \in Reserved, Release(c), Forget(c),
           Reserved' = Reserved \ {c}, revoked' = revoked
    PROVE  EpochsCatch'
<1> SUFFICES ASSUME NEW d \in Reserved, d # c
             PROVE  /\ epochAt'[d] <= epoch'[OwnerOf[d]]
                    /\ d \in revoked => epochAt'[d] < epoch'[OwnerOf[d]]
  BY DEF EpochsCatch
<1>1. c \in Calls /\ d \in Calls /\ OwnerOf[d] \in Owners /\ OwnerOf[c] \in Owners
  BY OwnersAssumption DEF Reserved
<1>2. epochAt'[d] = epochAt[d] BY <1>1 DEF Forget, IInv, TypeOK
<1>3. epoch'[OwnerOf[d]] = epoch[OwnerOf[d]]
  <2>1. CASE OwnerOf[d] # OwnerOf[c] BY <1>1, <2>1 DEF Release, IInv, TypeOK
  <2>2. CASE OwnerOf[d] = OwnerOf[c]
    <3>1. pending[OwnerOf[c]] # 1 BY <2>2, LastCall
    <3> QED BY <1>1, <3>1 DEF Release, IInv, TypeOK
  <2> QED BY <2>1, <2>2
<1> QED BY <1>2, <1>3 DEF EpochsCatch

LEMMA EpochsCatchStep ==
    ASSUME IInv, EpochsCatch, CloseIsVisible, [Next]_vars
    PROVE  EpochsCatch'
<1> USE DEF IInv, TypeOK
<1>1. ASSUME NEW c \in Calls, Reserve(c) PROVE EpochsCatch'
  <2>1. CASE ~managerClosed /\ HasRoom(OwnerOf[c])
    <3>1. Reserved' = Reserved \cup {c}
      BY <1>1, <2>1 DEF Reserve, Reserved
    <3>2. c \notin revoked BY <1>1 DEF Reserve, CloseIsVisible
    <3>3. epochAt'[c] = epoch[OwnerOf[c]] /\ \A d \in Calls \ {c} : epochAt'[d] = epochAt[d]
      BY <1>1, <2>1 DEF Reserve
    <3>4. epoch' = epoch /\ revoked' = revoked BY <1>1 DEF Reserve, revokeVars
    <3>5. OwnerOf[c] \in Owners BY OwnersAssumption
    <3>6. Reserved \subseteq Calls BY DEF Reserved
    <3> QED BY <3>1, <3>2, <3>3, <3>4, <3>5, <3>6 DEF EpochsCatch
  <2>2. CASE ~(~managerClosed /\ HasRoom(OwnerOf[c]))
    <3>1. Reserved' = Reserved
      BY <1>1, <2>2 DEF Reserve, Reserved
    <3> QED BY <1>1, <2>2, <3>1 DEF Reserve, EpochsCatch, revokeVars
  <2> QED BY <2>1, <2>2
<1>2. ASSUME NEW c \in Calls, Cancel(c) \/ Enter(c) \/ Start(c) PROVE EpochsCatch'
  <2>1. Reserved' = Reserved BY <1>2 DEF Cancel, Enter, Start, Reserved
  <2> QED BY <1>2, <2>1 DEF Cancel, Enter, Start, EpochsCatch, admissionVars, revokeVars
<1>3. ASSUME NEW c \in Calls, Refuse(c) \/ Register(c) PROVE EpochsCatch'
  <2>1. Reserved' = Reserved \ {c} /\ c \in Reserved
    BY <1>3 DEF Refuse, Register, Reserved
  <2> QED BY <1>3, <2>1, ReleaseEpochs DEF Refuse, Register, revokeVars
<1>4. ASSUME NEW c \in Calls, SessionStep(c) PROVE EpochsCatch'
  BY <1>4 DEF SessionStep, ClientClose, Use, Append, CaptureExit, CapturePending,
              EpochsCatch, Reserved, admissionVars, callVars, revokeVars
<1>5. ASSUME NEW c \in Calls, CloseStep(c) PROVE EpochsCatch'
  <2>1. Reserved' = Reserved /\ UNCHANGED <<epochAt, epoch, revoked>>
    <3>1. (closer[c] # "none" /\ CloseReturns(c)) => Reserved' = Reserved
      BY DEF CloseReturns, Reserved, Lifecycle, Registered, Active
    <3>2. ASSUME NEW who \in {"call", "open"}, CloseBegin(c, who)
          PROVE  Reserved' = Reserved /\ UNCHANGED <<epochAt, epoch, revoked>>
      BY <3>2 DEF CloseBegin, Reserved, admissionVars, revokeVars
    <3>3. ASSUME NEW ok \in BOOLEAN, Kill(c, ok)
          PROVE  Reserved' = Reserved /\ UNCHANGED <<epochAt, epoch, revoked>>
      BY <3>1, <3>3 DEF Kill, Reserved, admissionVars, revokeVars
    <3>4. ASSUME NEW ok \in BOOLEAN, ClosePty(c, ok)
          PROVE  Reserved' = Reserved /\ UNCHANGED <<epochAt, epoch, revoked>>
      BY <3>1, <3>4 DEF ClosePty, Reserved, admissionVars, revokeVars
    <3>5. CloseFinish(c) => Reserved' = Reserved /\ UNCHANGED <<epochAt, epoch, revoked>>
      BY <3>1 DEF CloseFinish, admissionVars, revokeVars
    <3> QED BY <1>5, <3>2, <3>3, <3>4, <3>5 DEF CloseStep
  <2> QED BY <2>1 DEF EpochsCatch
<1>6. ASSUME NEW o \in Owners, CloseOwner(o) PROVE EpochsCatch'
  <2>1. Reserved' = Reserved /\ epochAt' = epochAt
    BY <1>6 DEF CloseOwner, callVars, Reserved
  <2>2. revoked' = revoked \cup (OwnedBy(o) \cap (Reserved \cup sessions))
    BY <1>6 DEF CloseOwner
  <2>3. ASSUME NEW d \in Reserved
        PROVE  /\ epochAt[d] <= epoch'[OwnerOf[d]]
               /\ d \in revoked' => epochAt[d] < epoch'[OwnerOf[d]]
    <3>1. d \in Calls /\ OwnerOf[d] \in Owners BY OwnersAssumption DEF Reserved
    <3>2. epochAt[d] \in Nat /\ epoch[OwnerOf[d]] \in Nat /\ pending[o] \in Nat BY <3>1
    <3>3. CASE OwnerOf[d] = o
      <4>1. d \in Reserved \cap OwnedBy(o) BY <3>1, <3>3 DEF OwnedBy
      <4>2. pending[o] # 0
        <5> DEFINE R == Reserved \cap OwnedBy(o)
        <5>1. IsFiniteSet(R) BY FiniteHeld, FS_Subset
        <5>2. d \in R /\ pending[o] = Cardinality(R) BY <4>1 DEF AccountingExact
        <5> HIDE DEF R
        <5> QED BY <5>1, <5>2, FS_EmptySet
      <4>3. epoch'[OwnerOf[d]] = epoch[OwnerOf[d]] + 1
        BY <1>6, <3>1, <3>2, <3>3, <4>2 DEF CloseOwner
      <4> QED BY <3>2, <4>3 DEF EpochsCatch
    <3>4. CASE OwnerOf[d] # o
      <4>1. epoch'[OwnerOf[d]] = epoch[OwnerOf[d]] BY <1>6, <3>1, <3>4 DEF CloseOwner
      <4>2. d \in revoked' => d \in revoked BY <2>2, <3>4 DEF OwnedBy
      <4> QED BY <4>1, <4>2 DEF EpochsCatch
    <3> QED BY <3>3, <3>4
  <2> QED BY <2>1, <2>3 DEF EpochsCatch
<1>7. ASSUME CloseAll \/ Reap \/ ReapExit \/ Tick \/ UNCHANGED vars PROVE EpochsCatch'
  BY <1>7 DEF CloseAll, Reap, ReapExit, Tick, vars, EpochsCatch, Reserved,
              admissionVars, callVars, revokeVars
<1> QED BY <1>1, <1>2, <1>3, <1>4, <1>5, <1>6, <1>7 DEF Next, OpenStep

LEMMA CloseIsVisibleStep ==
    ASSUME IInv, CloseIsVisible, [Next]_vars
    PROVE  CloseIsVisible'
<1> USE DEF IInv, TypeOK, CloseIsVisible
<1>1. ASSUME NEW c \in Calls, OpenStep(c) PROVE CloseIsVisible'
  BY <1>1 DEF OpenStep, Reserve, Cancel, Enter, Refuse, Start, Register, revokeVars,
              flagVars, closeVars
<1>2. ASSUME NEW c \in Calls, SessionStep(c) PROVE CloseIsVisible'
  BY <1>2 DEF SessionStep, ClientClose, Use, Append, CaptureExit, CapturePending,
              callVars, revokeVars, flagVars, closeVars
<1>3. ASSUME NEW c \in Calls, CloseStep(c) PROVE CloseIsVisible'
  <2>1. ASSUME NEW who \in {"call", "open"}, CloseBegin(c, who) PROVE CloseIsVisible'
    BY <2>1 DEF CloseBegin, revokeVars
  <2>2. ASSUME NEW ok \in BOOLEAN, Kill(c, ok) PROVE CloseIsVisible'
    BY <2>2 DEF Kill, CloseReturns, revokeVars
  <2>3. ASSUME NEW ok \in BOOLEAN, ClosePty(c, ok) PROVE CloseIsVisible'
    BY <2>3 DEF ClosePty, CloseReturns, revokeVars, flagVars
  <2>4. ASSUME CloseFinish(c) PROVE CloseIsVisible'
    BY <2>4 DEF CloseFinish, CloseReturns, revokeVars
  <2> QED BY <1>3, <2>1, <2>2, <2>3, <2>4 DEF CloseStep
<1>4. ASSUME NEW o \in Owners, CloseOwner(o) PROVE CloseIsVisible'
  BY <1>4 DEF CloseOwner, callVars, flagVars, Reserved, Lifecycle, Registered
<1>5. ASSUME CloseAll \/ Reap \/ ReapExit \/ Tick \/ UNCHANGED vars PROVE CloseIsVisible'
  BY <1>5 DEF CloseAll, Reap, ReapExit, Tick, vars, callVars, revokeVars, flagVars,
              closeVars
<1> QED BY <1>1, <1>2, <1>3, <1>4, <1>5 DEF Next

LEMMA RevocationStep ==
    ASSUME IInv, Reaching, [Next]_vars
    PROVE  NothingSurvivesRevocation'
<1> USE DEF IInv, TypeOK, Reaching, NothingSurvivesRevocation, Closing, CloseIsVisible
<1>0. ASSUME NEW at, sessions' = Trimmed(Finished, at), closed' = closed
      PROVE  Active' = Active
  BY <1>0, TrimActive
<1>1. ASSUME NEW c \in Calls, Reserve(c) PROVE NothingSurvivesRevocation'
  <2>1. Active' = Active BY <1>0, <1>1 DEF Reserve, Active, flagVars
  <2>2. c \notin Active BY <1>1 DEF Reserve, Lifecycle, Registered, Active
  <2> QED BY <1>1, <2>1, <2>2 DEF Reserve, managerVars, revokeVars, flagVars, closeVars, Active
<1>2. ASSUME NEW c \in Calls, Cancel(c) \/ Enter(c) \/ Refuse(c) \/ Start(c)
      PROVE  NothingSurvivesRevocation'
  <2>1. Active' = Active
    BY <1>2 DEF Cancel, Enter, Refuse, Start, Active, flagVars
  <2>2. c \notin Active
    BY <1>2 DEF Cancel, Enter, Refuse, Start, Lifecycle, Registered, Active
  <2> QED BY <1>2, <2>1, <2>2 DEF Cancel, Enter, Refuse, Start, managerVars, revokeVars,
                                  flagVars, closeVars, Active
<1>3. ASSUME NEW c \in Calls, Register(c) PROVE NothingSurvivesRevocation'
  <2>1. Active' \subseteq Active \cup {c} /\ c \notin Active
    BY <1>3 DEF Register, Lifecycle, Registered, Active, flagVars
  <2>2. c \in Reserved BY <1>3 DEF Register, Reserved
  <2>3. c \in Active' /\ (c \in revoked \/ managerClosed) => pc'[c] = "cleaning"
    <3>1. c \in Active' => c \in pty BY <1>3, <2>1 DEF Register, Active, flagVars
    <3>2. c \in revoked \/ managerClosed => Invalid(c)
      <4>1. OwnerOf[c] \in Owners BY OwnersAssumption
      <4> QED BY <2>2, <4>1 DEF Invalid, EpochsCatch
    <3> QED BY <1>3, <3>1, <3>2 DEF Register
  <2> QED BY <1>3, <2>1, <2>3 DEF Register, managerVars, revokeVars, flagVars, closeVars, Active
<1>4. ASSUME NEW c \in Calls, SessionStep(c) PROVE NothingSurvivesRevocation'
  BY <1>4 DEF SessionStep, ClientClose, Use, Append, CaptureExit, CapturePending, AskClose,
              Active, managerVars, callVars, revokeVars, flagVars, closeVars
<1>5. ASSUME NEW c \in Calls, CloseStep(c) PROVE NothingSurvivesRevocation'
  <2>1. ASSUME NEW who \in {"call", "open"}, CloseBegin(c, who)
        PROVE  NothingSurvivesRevocation'
    BY <2>1 DEF CloseBegin, Active, managerVars, revokeVars
  <2>2. ASSUME NEW ok \in BOOLEAN, Kill(c, ok) PROVE NothingSurvivesRevocation'
    BY <2>2 DEF Kill, CloseReturns, Active, managerVars, revokeVars
  <2>3. ASSUME NEW ok \in BOOLEAN, ClosePty(c, ok) PROVE NothingSurvivesRevocation'
    BY <2>3 DEF ClosePty, CloseReturns, Active, managerVars, revokeVars, flagVars
  <2>4. ASSUME CloseFinish(c) PROVE NothingSurvivesRevocation'
    <3>1. sessions' \subseteq sessions BY <2>4, TrimKeeps DEF CloseFinish
    <3>2. Active' \subseteq Active \ {c} BY <2>4, <3>1 DEF CloseFinish, Active
    <3>3. ASSUME NEW d \in Active' PROVE d # c /\ (Closing(d) => Closing(d)')
      BY <2>4, <3>2, <3>3 DEF CloseFinish, CloseReturns, Active
    <3> QED BY <2>4, <3>2, <3>3 DEF CloseFinish, managerVars, revokeVars
  <2> QED BY <1>5, <2>1, <2>2, <2>3, <2>4 DEF CloseStep
<1>6. ASSUME NEW o \in Owners, CloseOwner(o) PROVE NothingSurvivesRevocation'
  <2>1. Active' = Active BY <1>6 DEF CloseOwner, Active, flagVars
  <2>2. \A c \in Active : c \in OwnedBy(o) => c \in requests'
    BY <1>6 DEF CloseOwner, AskClose, Active
  <2>3. \A c \in Active : Closing(c) => Closing(c)'
    BY <1>6 DEF CloseOwner, AskClose, callVars, flagVars
  <2>4. \A c \in Active : c \in revoked' => c \in revoked \/ c \in OwnedBy(o)
    BY <1>6 DEF CloseOwner
  <2> QED BY <1>6, <2>1, <2>2, <2>3, <2>4 DEF CloseOwner, managerVars
<1>7. ASSUME CloseAll PROVE NothingSurvivesRevocation'
  BY <1>7 DEF CloseAll, AskClose, Active, flagVars
<1>8. ASSUME Reap PROVE NothingSurvivesRevocation'
  <2>1. Active' = Active BY <1>0, <1>8 DEF Reap, flagVars
  <2> QED BY <1>8, <2>1 DEF Reap, AskClose, managerVars, callVars, revokeVars, flagVars
<1>9. ASSUME ReapExit \/ Tick \/ UNCHANGED vars PROVE NothingSurvivesRevocation'
  BY <1>9 DEF ReapExit, Tick, vars, Active, managerVars, callVars, revokeVars, flagVars,
              closeVars
<1> QED
  BY <1>1, <1>2, <1>3, <1>4, <1>5, <1>6, <1>7, <1>8, <1>9 DEF Next, OpenStep

(***************************************************************************)
(* CloseOwner and CloseAll reach every session they are meant for: one     *)
(* whose spawn was in flight when its owner was revoked registers later,   *)
(* and finds that its epoch is stale.                                      *)
(***************************************************************************)
THEOREM RevocationReaches == Spec => []NothingSurvivesRevocation
<1>1. Init => Reaching
  BY DEF Init, Reaching, EpochsCatch, CloseIsVisible, NothingSurvivesRevocation, Reserved,
         Active
<1>2. IInv /\ Reaching /\ [Next]_vars => Reaching'
  BY EpochsCatchStep, CloseIsVisibleStep, RevocationStep DEF Reaching
<1>3. Reaching => NothingSurvivesRevocation BY DEF Reaching
<1> QED BY <1>1, <1>2, <1>3, Inductive, PTL DEF Spec

-----------------------------------------------------------------------------
(* Refinement: every step of the manager is a step of the pool or none.    *)

\* What the pool sees of the manager.
Asked == {c \in Calls : pc[c] # "idle"}
Live == scope \cup pty

\* The instance has its own copy of the operator of FiniteSets.
LEMMA SameCardinality == ASSUME NEW S PROVE Pool!Cardinality(S) = Cardinality(S)
BY DEF Pool!Cardinality, Cardinality

LEMMA PoolStutters ==
    ASSUME Asked' = Asked, Held' = Held, Live' = Live, managerClosed' = managerClosed
    PROVE  UNCHANGED Pool!poolVars
BY DEF Pool!poolVars, Asked, Live

\* A step keeps a call in flight, or moves it from the calls in flight to the
\* active sessions, without the pool noticing.
LEMMA PoolOpenStep ==
    ASSUME IInv, NEW c \in Calls, OpenStep(c)
    PROVE  [Pool!PoolNext]_(Pool!poolVars)
<1> USE DEF IInv, TypeOK
<1>1. CASE Reserve(c)
  <2>1. /\ Active' = Active /\ Asked' = Asked \cup {c} /\ c \notin Asked
        /\ Live' = Live /\ managerClosed' = managerClosed
    <3>1. Active' = Active BY <1>1, TrimActive DEF Reserve, Active, flagVars
    <3>2. Asked' = Asked \cup {c} /\ c \notin Asked BY <1>1 DEF Reserve, Asked
    <3> QED BY <1>1, <3>1, <3>2 DEF Reserve, Live, processVars, managerVars
  <2>2. CASE ~managerClosed /\ HasRoom(OwnerOf[c])
    <3> DEFINE o == OwnerOf[c]
    <3>1. Reserved' = Reserved \cup {c}
      BY <1>1, <2>2 DEF Reserve, Reserved
    <3>2. Held' = Held \cup {c} BY <2>1, <3>1 DEF Held
    <3>3. Cardinality(Held) < MaxSessions
      BY <2>2, HeldAddsUp, FiniteHeld DEF HasRoom
    <3>4. Pool!HeldBy(o) = Held \cap OwnedBy(o)
      BY FiniteHeld DEF Pool!HeldBy, OwnedBy
    <3>5. Cardinality(Held \cap OwnedBy(o)) < MaxOwnerSessions
      <4>1. Cardinality(Held \cap OwnedBy(o)) = pending[o] + Cardinality(Active \cap OwnedBy(o))
        BY HeldAddsUp, OwnersAssumption
      <4>2. Cardinality(Active \cap OwnedBy(o)) + pending[o] < MaxOwnerSessions
        BY <2>2 DEF HasRoom
      <4>3. Cardinality(Active \cap OwnedBy(o)) \in Nat /\ pending[o] \in Nat
        BY FiniteHeld, OwnersAssumption
      <4> QED BY <4>1, <4>2, <4>3
    <3>6. Cardinality(Pool!HeldBy(OwnerOf[c])) < MaxOwnerSessions
      BY <3>4, <3>5
    <3>7. ~managerClosed /\ UNCHANGED managerClosed BY <2>1, <2>2
    <3>8. Pool!Grant(c)
      BY <2>1, <3>2, <3>3, <3>6, <3>7, SameCardinality DEF Pool!Grant, Asked, Live
    <3> QED BY <3>8 DEF Pool!PoolNext
  <2>3. CASE ~(~managerClosed /\ HasRoom(OwnerOf[c]))
    <3>1. Held' = Held BY <1>1, <2>1, <2>3 DEF Reserve, Held, Reserved
    <3>2. Pool!Refuse(c) BY <2>1, <3>1 DEF Pool!Refuse, Asked, Live
    <3> QED BY <3>2 DEF Pool!PoolNext
  <2> QED BY <2>2, <2>3
<1>2. CASE Cancel(c) \/ Enter(c)
  <2>1. Asked' = Asked /\ Held' = Held
    BY <1>2 DEF Cancel, Enter, Asked, Held, Reserved, Active, flagVars
  <2> QED BY <1>2, <2>1, PoolStutters DEF Cancel, Enter, Live, processVars, managerVars
<1>3. CASE Refuse(c)
  <2>1. /\ Asked' = Asked /\ Reserved' = Reserved \ {c} /\ c \in Reserved
        /\ Active' = Active /\ c \notin Active
    BY <1>3 DEF Refuse, Asked, Reserved, Active, Lifecycle, Registered, flagVars
  <2>2. c \notin Live BY <1>3, <2>1 DEF Refuse, Live, Lifecycle
  <2>3. Pool!GiveBack(c)
    BY <1>3, <2>1, <2>2 DEF Refuse, Pool!GiveBack, Held, Asked, Live, processVars,
                            managerVars
  <2> QED BY <2>3 DEF Pool!PoolNext
<1>4. CASE Start(c)
  <2>1. Asked' = Asked /\ Held' = Held /\ c \in Held
    BY <1>4 DEF Start, Asked, Held, Reserved, Active, flagVars
  <2>2. c \notin Live
    BY <1>4 DEF Start, Live, Lifecycle, Active, Registered
  <2>3. Live' = Live \/ Live' = Live \cup {c}
    BY <1>4 DEF Start, Live
  <2>4. Live' = Live \cup {c} => Pool!Run(c)
    BY <1>4, <2>1, <2>2 DEF Start, Pool!Run, Asked, Live, managerVars
  <2> QED BY <1>4, <2>1, <2>3, <2>4, PoolStutters DEF Start, Pool!PoolNext, managerVars
<1>5. CASE Register(c)
  <2>1. /\ Asked' = Asked /\ Reserved' = Reserved \ {c} /\ c \in Reserved
        /\ c \notin Active
    BY <1>5 DEF Register, Asked, Reserved, Active, Lifecycle, Registered
  <2>2. CASE c \in pty
    <3>1. Active' = Active \cup {c}
      BY <1>5, <2>2 DEF Register, Active, Lifecycle, Registered, flagVars
    <3> QED BY <1>5, <2>1, <3>1, PoolStutters
            DEF Register, Held, Live, processVars, managerVars
  <2>3. CASE c \notin pty
    <3>1. Active' = Active
      BY <1>5, <2>3 DEF Register, Active, flagVars
    <3>2. c \notin Live BY <2>3 DEF Live, Lifecycle
    <3>3. Pool!GiveBack(c)
      BY <1>5, <2>1, <3>1, <3>2 DEF Register, Pool!GiveBack, Held, Asked, Live,
                                    processVars, managerVars
    <3> QED BY <3>3 DEF Pool!PoolNext
  <2> QED BY <2>2, <2>3
<1> QED BY <1>1, <1>2, <1>3, <1>4, <1>5 DEF OpenStep

\* A Close gives the slot back in its last step, when the process is gone.
LEMMA PoolCloseStep ==
    ASSUME IInv, NEW c \in Calls, CloseStep(c)
    PROVE  [Pool!PoolNext]_(Pool!poolVars)
<1> USE DEF IInv, TypeOK
<1>0. ASSUME closer[c] # "none", CloseReturns(c) PROVE Asked' = Asked /\ Reserved' = Reserved
  BY <1>0 DEF CloseReturns, Asked, Reserved, Lifecycle, Registered, Active
<1>1. ASSUME NEW who \in {"call", "open"}, CloseBegin(c, who) PROVE UNCHANGED Pool!poolVars
  <2>1. Asked' = Asked /\ Held' = Held
    BY <1>1 DEF CloseBegin, Asked, Held, Reserved, Active
  <2> QED BY <1>1, <2>1, PoolStutters DEF CloseBegin, Live, processVars, managerVars
<1>2. ASSUME NEW ok \in BOOLEAN, Kill(c, ok) PROVE UNCHANGED Pool!poolVars
  <2>1. Asked' = Asked /\ Reserved' = Reserved
    BY <1>0, <1>2 DEF Kill, Asked, Reserved
  <2>2. Held' = Held BY <1>2, <2>1 DEF Kill, Held, Active
  <2>3. Live' = Live BY <1>2 DEF Kill, Live, Lifecycle
  <2> QED BY <1>2, <2>1, <2>2, <2>3, PoolStutters DEF Kill, managerVars
<1>3. ASSUME NEW ok \in BOOLEAN, ClosePty(c, ok)
      PROVE  Pool!Die(c) \/ UNCHANGED Pool!poolVars
  <2>1. Asked' = Asked /\ Reserved' = Reserved
    BY <1>0, <1>3 DEF ClosePty, Asked, Reserved
  <2>2. Held' = Held BY <1>3, <2>1 DEF ClosePty, Held, Active, flagVars
  <2>3. Live' = Live \/ (c \in Live /\ Live' = Live \ {c})
    BY <1>3 DEF ClosePty, Live, Lifecycle
  <2>4. c \in Live /\ Live' = Live \ {c} => Pool!Die(c)
    BY <1>3, <2>1, <2>2 DEF ClosePty, Pool!Die, Asked, Live, managerVars
  <2> QED BY <1>3, <2>1, <2>2, <2>3, <2>4, PoolStutters DEF ClosePty, managerVars
<1>4. ASSUME CloseFinish(c) PROVE Pool!GiveBack(c)
  <2>1. Asked' = Asked /\ Reserved' = Reserved BY <1>0, <1>4 DEF CloseFinish
  <2>2. c \in Active /\ c \notin Reserved /\ c \notin Live
    BY <1>4 DEF CloseFinish, Lifecycle, Registered, Active, Reserved, Live
  <2>3. sessions \ (closed' \ closeFailed') \subseteq sessions' /\ sessions' \subseteq sessions
    BY <1>4, TrimKeeps DEF CloseFinish
  <2>4. closed' = closed \cup {c} /\ closeFailed' = closeFailed \ {c}
    BY <1>4 DEF CloseFinish
  <2>5. Active' = Active \ {c} BY <2>2, <2>3, <2>4 DEF Active, Lifecycle
  <2> QED BY <1>4, <2>1, <2>2, <2>5 DEF CloseFinish, Pool!GiveBack, Held, Asked, Live,
                                        processVars, managerVars
<1> QED BY <1>1, <1>2, <1>3, <1>4 DEF CloseStep, Pool!PoolNext

LEMMA PoolOtherStep ==
    ASSUME IInv, [Next]_vars,
           ~ \E c \in Calls : OpenStep(c) \/ CloseStep(c)
    PROVE  [Pool!PoolNext]_(Pool!poolVars)
<1> USE DEF IInv, TypeOK
<1>1. ASSUME NEW c \in Calls, SessionStep(c) PROVE UNCHANGED Pool!poolVars
  BY <1>1, PoolStutters
  DEF SessionStep, ClientClose, Use, Append, CaptureExit, CapturePending, Asked, Held,
      Reserved, Active, Live, callVars, flagVars, processVars, managerVars
<1>2. ASSUME NEW o \in Owners, CloseOwner(o) PROVE UNCHANGED Pool!poolVars
  BY <1>2, PoolStutters DEF CloseOwner, Asked, Held, Reserved, Active, Live, callVars,
                            flagVars, processVars, managerVars
<1>3. ASSUME CloseAll PROVE Pool!Shut
  BY <1>3 DEF CloseAll, Pool!Shut, Held, Reserved, Active, callVars, flagVars, processVars
<1>4. ASSUME Reap PROVE UNCHANGED Pool!poolVars
  <2>1. Active' = Active BY <1>4, TrimActive DEF Reap, flagVars
  <2> QED BY <1>4, <2>1, PoolStutters DEF Reap, Asked, Held, Reserved, Live, callVars,
                                          processVars, managerVars
<1>5. ASSUME ReapExit \/ Tick \/ UNCHANGED vars PROVE UNCHANGED Pool!poolVars
  BY <1>5, PoolStutters DEF ReapExit, Tick, vars, Asked, Held, Reserved, Active, Live,
                            callVars, flagVars, processVars, managerVars
<1> QED BY <1>1, <1>2, <1>3, <1>4, <1>5 DEF Next, Pool!PoolNext

(***************************************************************************)
(* The session manager implements the pool of slots: a slot is granted     *)
(* within both limits and never after CloseAll, and is given back only     *)
(* when the process that used it is gone, whichever way the call or the    *)
(* session ends.                                                           *)
(***************************************************************************)
THEOREM Implements == Spec => ImplementsPool
<1>1. Init => Pool!PoolInit
  BY DEF Init, Pool!PoolInit, Held, Reserved, Active
<1>2. IInv /\ [Next]_vars => [Pool!PoolNext]_(Pool!poolVars)
  BY PoolOpenStep, PoolCloseStep, PoolOtherStep
<1> QED BY <1>1, <1>2, Inductive, PTL DEF Spec, ImplementsPool, Pool!PoolSpec
=============================================================================
