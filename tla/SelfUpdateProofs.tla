--------------------------- MODULE SelfUpdateProofs ---------------------------
(***************************************************************************)
(* Proofs about SelfUpdate.  Everything that is ever saved is sound: load  *)
(* accepts it, a candidate is what the last check returned and was not     *)
(* seen before that check, and what was tried and not seen installed is    *)
(* recorded as failed, or is being attempted.  One lemma per operation     *)
(* says that what it saves is sound; the theorems follow.                  *)
(***************************************************************************)
EXTENDS SelfUpdate, TLAPS

\* What every saved file satisfies, the history fields included.
Sound(m, t) ==
    /\ m.requested <=> m.state = "queued"
    /\ m.requested => m.cand # None /\ m.cand = m.wish
    /\ m.cand \in Offered(m.channel) \cup {None}
    /\ m.failed \in Offered(m.channel) \cup {None}
    /\ m.seen <= t /\ m.since <= t
    /\ m.cand # None => m.sight = m.cand /\ m.since <= m.seen
    /\ m.state = "updating" => m.cand # None /\ m.tried = m.cand
    /\ m.tried # None =>
         m.tried = m.sight /\ (m.state = "updating" \/ m.failed = m.tried)

Good(m, t) == m \in State /\ Sound(m, t)

\* A file that no request and no attempt occupies.
Quiet(m) == ~m.requested /\ m.state # "updating"

RestStates == {"waiting", "blocked", "idle", "disabled"}

-----------------------------------------------------------------------------
(* Records.                                                                *)

\* A field of the right type keeps the record in State.
LEMMA StateFields ==
    ASSUME NEW m \in State
    PROVE  /\ \A v \in BOOLEAN : /\ [m EXCEPT !.enabled = v] \in State
                                 /\ [m EXCEPT !.requested = v] \in State
           /\ \A v \in Channels : [m EXCEPT !.channel = v] \in State
           /\ \A v \in RestStates \cup {"available", "queued", "updating",
                                        "succeeded", "failed", "check_failed"} :
                [m EXCEPT !.state = v] \in State
           /\ \A v \in Releases \cup {None} : /\ [m EXCEPT !.cand = v] \in State
                                              /\ [m EXCEPT !.failed = v] \in State
                                              /\ [m EXCEPT !.wish = v] \in State
                                              /\ [m EXCEPT !.sight = v] \in State
                                              /\ [m EXCEPT !.tried = v] \in State
           /\ \A v \in 0..MaxNow : /\ [m EXCEPT !.seen = v] \in State
                                   /\ [m EXCEPT !.since = v] \in State
<1>1. \A v \in BOOLEAN : /\ [m EXCEPT !.enabled = v] \in State
                         /\ [m EXCEPT !.requested = v] \in State
  BY DEF State
<1>2. \A v \in Channels : [m EXCEPT !.channel = v] \in State
  BY DEF State
<1>3. \A v \in RestStates \cup {"available", "queued", "updating",
                                "succeeded", "failed", "check_failed"} :
        [m EXCEPT !.state = v] \in State
  BY DEF State, RestStates
<1>4. \A v \in Releases \cup {None} : /\ [m EXCEPT !.cand = v] \in State
                                      /\ [m EXCEPT !.failed = v] \in State
                                      /\ [m EXCEPT !.wish = v] \in State
                                      /\ [m EXCEPT !.sight = v] \in State
                                      /\ [m EXCEPT !.tried = v] \in State
  BY DEF State
<1>5. \A v \in 0..MaxNow : /\ [m EXCEPT !.seen = v] \in State
                           /\ [m EXCEPT !.since = v] \in State
  BY DEF State
<1> QED BY <1>1, <1>2, <1>3, <1>4, <1>5

\* clearCandidate leaves the rest of the record alone.
LEMMA NoCandidateIs ==
    ASSUME NEW m \in State
    PROVE  /\ NoCandidate(m) \in State
           /\ NoCandidate(m).cand = None /\ NoCandidate(m).seen = 0
           /\ NoCandidate(m).enabled = m.enabled
           /\ NoCandidate(m).channel = m.channel
           /\ NoCandidate(m).state = m.state
           /\ NoCandidate(m).requested = m.requested
           /\ NoCandidate(m).failed = m.failed
           /\ NoCandidate(m).wish = m.wish
           /\ NoCandidate(m).sight = m.sight
           /\ NoCandidate(m).since = m.since
           /\ NoCandidate(m).tried = m.tried
<1>1. NoCandidate(m) \in State
  <2>1. 0 \in 0..MaxNow
    BY NumberAssumption
  <2>2. [m EXCEPT !.cand = None] \in State
    BY StateFields
  <2>3. NoCandidate(m) = [[m EXCEPT !.cand = None] EXCEPT !.seen = 0]
    BY DEF NoCandidate
  <2> QED BY <2>1, <2>2, <2>3, StateFields
<1> QED BY <1>1 DEF NoCandidate, State

LEMMA RestingRests == ASSUME NEW m PROVE Resting(m) \in RestStates
BY DEF Resting, RestStates

-----------------------------------------------------------------------------
(* Operations.                                                             *)

\* A change of the channel.
LEMMA MovedGood ==
    ASSUME NEW m, NEW t \in Nat, Good(m, t), Quiet(m), NEW channel \in Channels
    PROVE  Good(Moved(m, channel), t) /\ Quiet(Moved(m, channel))
<1>1. CASE channel = m.channel
  BY <1>1 DEF Moved
<1>2. CASE channel # m.channel
  <2> DEFINE k == NoCandidate(m)
             n == [k EXCEPT !.channel = channel, !.failed = None, !.tried = None]
  <2>1. /\ k \in State /\ k.cand = None /\ k.seen = 0 /\ k.state = m.state
        /\ k.requested = m.requested /\ k.wish = m.wish /\ k.sight = m.sight
        /\ k.since = m.since
    BY NoCandidateIs DEF Good
  <2>2. n = Moved(m, channel)
    BY <1>2 DEF Moved
  <2> HIDE DEF k
  <2>3. n \in State
    BY <2>1 DEF State
  <2>4. /\ n.channel = channel /\ n.failed = None /\ n.tried = None
        /\ n.cand = k.cand /\ n.seen = k.seen /\ n.state = k.state
        /\ n.requested = k.requested /\ n.wish = k.wish /\ n.sight = k.sight
        /\ n.since = k.since
    BY <2>1 DEF State
  <2> HIDE DEF n
  <2>5. Sound(n, t) /\ Quiet(n)
    BY <2>1, <2>4 DEF Good, Sound, Quiet
  <2> QED BY <2>2, <2>3, <2>5 DEF Good
<1> QED BY <1>1, <1>2

\* A quiet file at rest, whatever else the policy says.
LEMMA RestGood ==
    ASSUME NEW m, NEW t \in Nat, Good(m, t), Quiet(m),
           NEW s \in RestStates \cup {"check_failed", "available"}
    PROVE  /\ Good([m EXCEPT !.state = s], t)
           /\ Quiet([m EXCEPT !.state = s])
<1> DEFINE n == [m EXCEPT !.state = s]
<1>1. n \in State
  BY StateFields DEF Good
<1>2. /\ n.requested = m.requested /\ n.state = s /\ n.cand = m.cand
      /\ n.seen = m.seen /\ n.failed = m.failed /\ n.tried = m.tried
      /\ n.wish = m.wish /\ n.sight = m.sight /\ n.since = m.since
      /\ n.channel = m.channel
  BY DEF Good, State
<1> HIDE DEF n
<1>3. Sound(n, t) /\ Quiet(n)
  BY <1>2 DEF Good, Sound, Quiet, RestStates
<1> QED BY <1>1, <1>3 DEF Good, n

LEMMA EnabledGood ==
    ASSUME NEW m, NEW t \in Nat, Good(m, t), Quiet(m), NEW enabled \in BOOLEAN
    PROVE  /\ Good([m EXCEPT !.enabled = enabled], t)
           /\ Quiet([m EXCEPT !.enabled = enabled])
<1> DEFINE n == [m EXCEPT !.enabled = enabled]
<1>1. n \in State
  BY StateFields DEF Good
<1>2. /\ n.requested = m.requested /\ n.state = m.state /\ n.cand = m.cand
      /\ n.seen = m.seen /\ n.failed = m.failed /\ n.tried = m.tried
      /\ n.wish = m.wish /\ n.sight = m.sight /\ n.since = m.since
      /\ n.channel = m.channel
  BY DEF Good, State
<1> HIDE DEF n
<1>3. Sound(n, t) /\ Quiet(n)
  BY <1>2 DEF Good, Sound, Quiet
<1> QED BY <1>1, <1>3 DEF Good, n

\* checkLocked: what it keeps, and how it decides about the candidate.
LEMMA ExaminedIs ==
    ASSUME NEW m \in State, NEW r \in Releases \cup {None}, now \in 0..MaxNow
    PROVE  /\ Examined(m, r) \in State
           /\ Examined(m, r).enabled = m.enabled
           /\ Examined(m, r).channel = m.channel
           /\ Examined(m, r).requested = m.requested
           /\ Examined(m, r).wish = m.wish
           /\ Examined(m, r).sight = m.sight
           /\ Examined(m, r).since = m.since
           /\ Examined(m, r).tried = m.tried
           /\ Examined(m, r).state \in RestStates \cup {"check_failed", "available"}
           /\ \/ /\ r = None
                 /\ Examined(m, r).state = "check_failed"
                 /\ Examined(m, r).cand = m.cand
                 /\ Examined(m, r).seen = m.seen
                 /\ Examined(m, r).failed = m.failed
              \/ /\ r # None /\ ~Newer(r)
                 /\ Examined(m, r).state # "available"
                 /\ Examined(m, r).cand = None
                 /\ Examined(m, r).seen = 0
                 /\ Examined(m, r).failed \in {None, m.failed}
                 /\ Newer(m.failed) => Examined(m, r).failed = m.failed
              \/ /\ Newer(r) /\ m.cand # r
                 /\ Examined(m, r).state # "available"
                 /\ Examined(m, r).cand = r
                 /\ Examined(m, r).seen = now
                 /\ Examined(m, r).failed \in {None, r}
                 /\ m.failed = r => Examined(m, r).failed = r
              \/ /\ Newer(r) /\ m.cand = r
                 /\ Examined(m, r).state = "available" =>
                      m.failed # r /\ now - m.seen >= Hold
                 /\ Examined(m, r).cand = m.cand
                 /\ Examined(m, r).seen = m.seen
                 /\ Examined(m, r).failed = m.failed
<1> DEFINE e == Examined(m, r)
<1>1. CASE r = None
  <2>1. e = [m EXCEPT !.state = "check_failed"]
    BY <1>1 DEF Examined
  <2>2. e \in State
    BY <2>1, StateFields
  <2> QED BY <1>1, <2>1, <2>2 DEF State
<1>2. CASE r # None /\ ~Newer(r)
  <2> DEFINE k == NoCandidate(m)
             f == IF m.failed # None /\ ~Newer(m.failed) THEN None ELSE m.failed
             n == [k EXCEPT !.failed = f]
  <2>1. k \in State /\ k.cand = None /\ k.seen = 0 /\ k.failed = m.failed
    BY NoCandidateIs
  <2>2. f \in {None, m.failed} /\ (Newer(m.failed) => f = m.failed)
    OBVIOUS
  <2>3. f \in Releases \cup {None}
    BY <2>2 DEF State
  <2>4. n = [k EXCEPT !.failed = IF m.failed # None /\ ~Newer(m.failed)
                                 THEN None ELSE @]
    BY <2>1 DEF State
  <2>5. e = [n EXCEPT !.state = Resting(n)]
    BY <1>2, <2>4 DEF Examined
  <2>6. k.enabled = m.enabled /\ k.channel = m.channel /\ k.requested = m.requested
        /\ k.wish = m.wish /\ k.sight = m.sight /\ k.since = m.since
        /\ k.tried = m.tried
    BY NoCandidateIs
  <2> HIDE DEF f, k
  <2>7. n \in State
    BY <2>1, <2>3, StateFields
  <2>8. /\ n.failed = f /\ n.cand = None /\ n.seen = 0
        /\ n.enabled = m.enabled /\ n.channel = m.channel
        /\ n.requested = m.requested
        /\ n.wish = m.wish /\ n.sight = m.sight /\ n.since = m.since
        /\ n.tried = m.tried
    BY <2>1, <2>6 DEF State
  <2> HIDE DEF n, e
  <2>9. Resting(n) \in RestStates
    BY RestingRests
  <2>10. e \in State
    BY <2>5, <2>7, <2>9, StateFields
  <2>11. /\ e.failed = f /\ e.cand = None /\ e.seen = 0 /\ e.state = Resting(n)
         /\ e.enabled = m.enabled /\ e.channel = m.channel
         /\ e.requested = m.requested
         /\ e.wish = m.wish /\ e.sight = m.sight /\ e.since = m.since
         /\ e.tried = m.tried
    BY <2>5, <2>7, <2>8 DEF State
  <2>12. e.state \in RestStates /\ e.state # "available"
    BY <2>9, <2>11 DEF RestStates
  <2>13. e.failed \in {None, m.failed} /\ (Newer(m.failed) => e.failed = m.failed)
    BY <2>2, <2>11
  <2> QED BY <1>2, <2>10, <2>11, <2>12, <2>13 DEF e
<1>3. CASE Newer(r) /\ m.cand # r
  <2> DEFINE f == IF m.failed = r THEN r ELSE None
             n == [m EXCEPT !.cand = r, !.seen = now, !.state = "waiting",
                            !.failed = f]
  <2>1. e = n
    BY <1>3 DEF Examined, Changed, State, Newer
  <2>2. f \in {None, r} /\ (m.failed = r => f = r)
    OBVIOUS
  <2> HIDE DEF f
  <2>3. n \in State
    BY <2>2 DEF State
  <2>4. /\ n.cand = r /\ n.seen = now /\ n.state = "waiting" /\ n.failed = f
        /\ n.enabled = m.enabled /\ n.channel = m.channel
        /\ n.requested = m.requested
        /\ n.wish = m.wish /\ n.sight = m.sight /\ n.since = m.since
        /\ n.tried = m.tried
    BY DEF State
  <2> HIDE DEF n, e
  <2> QED BY <1>3, <2>1, <2>2, <2>3, <2>4 DEF e, RestStates
<1>4. CASE Newer(r) /\ m.cand = r
  <2> DEFINE s == IF m.failed = r THEN "blocked"
                  ELSE IF now - m.seen < Hold THEN "waiting" ELSE "available"
  <2>1. e = [m EXCEPT !.state = s]
    BY <1>4 DEF Examined, Changed, Newer
  <2>2. /\ s \in RestStates \cup {"available"}
        /\ s = "available" => m.failed # r /\ ~(now - m.seen < Hold)
    BY DEF RestStates
  <2>3. m.seen \in Int /\ now \in Int /\ Hold \in Int
    BY NumberAssumption DEF State
  <2>4. s = "available" => m.failed # r /\ now - m.seen >= Hold
    BY <2>2, <2>3
  <2> HIDE DEF s
  <2>5. e \in State
    BY <2>1, <2>2, StateFields
  <2>6. /\ e.state = s /\ e.cand = m.cand /\ e.seen = m.seen
        /\ e.failed = m.failed
        /\ e.enabled = m.enabled /\ e.channel = m.channel
        /\ e.requested = m.requested
        /\ e.wish = m.wish /\ e.sight = m.sight /\ e.since = m.since
        /\ e.tried = m.tried
    BY <2>1 DEF State
  <2> HIDE DEF e
  <2> QED BY <1>4, <2>2, <2>4, <2>5, <2>6 DEF e
<1>5. Newer(r) => r # None
  BY DEF Newer
<1> QED BY <1>1, <1>2, <1>3, <1>4, <1>5

LEMMA CheckedGood ==
    ASSUME NEW m, Good(m, now), Quiet(m), NEW r \in Answers(m), now \in 0..MaxNow
    PROVE  /\ Good(Checked(m, r), now) /\ Quiet(Checked(m, r))
           /\ Checked(m, r).enabled = m.enabled
           /\ Checked(m, r).state = "available" =>
                /\ Newer(r) /\ Checked(m, r).cand = r /\ Checked(m, r).sight = r
                /\ now - Checked(m, r).since >= Hold
                /\ m.tried # r
<1> DEFINE e == Examined(m, r)
           f == IF Newer(m.tried) THEN m.tried ELSE None
           n == [e EXCEPT !.tried = f]
           x == [n EXCEPT !.sight = r, !.since = now, !.tried = None]
<1>1. m \in State /\ Sound(m, now) /\ r \in Releases \cup {None}
  <2>1. Offered(m.channel) \subseteq Releases
    BY ReleaseAssumption DEF Offered
  <2> QED BY <2>1 DEF Good, Answers
<1>2. r \in Offered(m.channel) \cup {None}
  BY DEF Answers
<1>3. e.tried = m.tried
  BY <1>1, ExaminedIs
<1>4. n = [e EXCEPT !.tried = IF Newer(@) THEN @ ELSE None]
  <2>1. e \in State
    BY <1>1, ExaminedIs
  <2> HIDE DEF e
  <2> QED BY <1>3, <2>1 DEF State
<1>5. f \in {None, m.tried} /\ (f # None => Newer(m.tried) /\ f = m.tried)
  OBVIOUS
<1>6. f \in Releases \cup {None}
  BY <1>1, <1>5 DEF State
<1>7. /\ e \in State /\ e.enabled = m.enabled /\ e.channel = m.channel
      /\ e.requested = m.requested /\ e.wish = m.wish /\ e.sight = m.sight
      /\ e.since = m.since
      /\ e.state \in RestStates \cup {"check_failed", "available"}
  BY <1>1, ExaminedIs
<1>8. \/ /\ r = None /\ e.state = "check_failed"
         /\ e.cand = m.cand /\ e.seen = m.seen /\ e.failed = m.failed
      \/ /\ r # None /\ ~Newer(r) /\ e.state # "available"
         /\ e.cand = None /\ e.seen = 0
         /\ e.failed \in {None, m.failed}
         /\ Newer(m.failed) => e.failed = m.failed
      \/ /\ Newer(r) /\ m.cand # r /\ e.state # "available"
         /\ e.cand = r /\ e.seen = now
         /\ e.failed \in {None, r}
         /\ m.failed = r => e.failed = r
      \/ /\ Newer(r) /\ m.cand = r
         /\ e.state = "available" => m.failed # r /\ now - m.seen >= Hold
         /\ e.cand = m.cand /\ e.seen = m.seen /\ e.failed = m.failed
  BY <1>1, ExaminedIs
<1>9. Checked(m, r) = IF r \in {None, m.sight} THEN n ELSE x
  BY <1>4 DEF Checked
<1>10. Newer(r) => r # None
  BY DEF Newer
<1>11. /\ now \in Int /\ Hold \in Int
       /\ m.seen \in Int /\ m.since \in Int /\ 0 <= m.since /\ m.since <= now
       /\ m.cand # None => m.since <= m.seen
       /\ 0 <= now
  BY <1>1, NumberAssumption DEF State, Sound
<1> HIDE DEF e, f
<1>12. n \in State
  BY <1>6, <1>7, StateFields
<1>13. /\ n.enabled = m.enabled /\ n.channel = m.channel
       /\ n.requested = m.requested /\ n.wish = m.wish /\ n.sight = m.sight
       /\ n.since = m.since /\ n.tried = f
       /\ n.state = e.state /\ n.cand = e.cand /\ n.seen = e.seen
       /\ n.failed = e.failed
  BY <1>7 DEF State
<1> HIDE DEF n
<1>14. x \in State
  BY <1>1, <1>12 DEF State
<1>15. /\ x.enabled = m.enabled /\ x.channel = m.channel
       /\ x.requested = m.requested /\ x.wish = m.wish
       /\ x.sight = r /\ x.since = now /\ x.tried = None
       /\ x.state = e.state /\ x.cand = e.cand /\ x.seen = e.seen
       /\ x.failed = e.failed
  BY <1>12, <1>13 DEF State
<1> HIDE DEF x
<1>16. e.state # "updating" /\ e.state # "queued"
  BY <1>7 DEF RestStates
<1>17. m.tried # None => m.tried = m.sight /\ m.failed = m.tried
  BY <1>1 DEF Sound, Quiet
<1>18. CASE r \in {None, m.sight}
  <2>1. n.tried # None => n.failed = n.tried
    BY <1>5, <1>8, <1>10, <1>13, <1>17, <1>18
  <2>2. n.cand # None => n.sight = n.cand /\ n.since <= n.seen
    BY <1>1, <1>8, <1>10, <1>11, <1>13, <1>18 DEF Sound
  <2>3. Sound(n, now) /\ Quiet(n)
    <3>1. /\ n.requested = FALSE /\ n.state # "queued" /\ n.state # "updating"
      BY <1>1, <1>13, <1>16 DEF Quiet, State
    <3>2. /\ n.cand \in Offered(n.channel) \cup {None}
          /\ n.failed \in Offered(n.channel) \cup {None}
      BY <1>1, <1>2, <1>8, <1>13 DEF Sound
    <3>3. n.seen <= now /\ n.since <= now
      BY <1>1, <1>8, <1>11, <1>13 DEF Sound
    <3>4. n.tried # None => n.tried = n.sight
      BY <1>5, <1>13, <1>17
    <3> QED BY <2>1, <2>2, <3>1, <3>2, <3>3, <3>4 DEF Sound, Quiet
  <2>4. e.state = "available" =>
          /\ Newer(r) /\ n.cand = r /\ n.sight = r
          /\ now - n.since >= Hold
          /\ m.tried # r
    <3> SUFFICES ASSUME e.state = "available"
                 PROVE  /\ Newer(r) /\ n.cand = r /\ n.sight = r
                        /\ now - n.since >= Hold
                        /\ m.tried # r
      OBVIOUS
    <3>1. Newer(r) /\ m.cand = r /\ m.failed # r /\ now - m.seen >= Hold /\ e.cand = r
      BY <1>8
    <3>2. now - m.since >= Hold
      BY <1>10, <1>11, <3>1
    <3> QED BY <1>1, <1>10, <1>13, <1>17, <3>1, <3>2 DEF Sound
  <2> QED BY <1>9, <1>12, <1>13, <1>18, <2>3, <2>4 DEF Good
<1>19. CASE r \notin {None, m.sight}
  <2>1. m.cand # r
    BY <1>1, <1>19 DEF Sound
  <2>2. e.state # "available" /\ e.cand \in {None, r} /\ e.seen \in {0, now}
        /\ (e.cand # None => e.seen = now)
    BY <1>8, <1>19, <2>1
  <2>3. Sound(x, now) /\ Quiet(x)
    <3>1. /\ x.requested = FALSE /\ x.state # "queued" /\ x.state # "updating"
      BY <1>1, <1>15, <1>16 DEF Quiet, State
    <3>2. /\ x.cand \in Offered(x.channel) \cup {None}
          /\ x.failed \in Offered(x.channel) \cup {None}
      BY <1>1, <1>2, <1>8, <1>15 DEF Sound
    <3>3. x.seen <= now /\ x.since <= now
      BY <1>11, <1>15, <2>2
    <3>4. x.cand # None => x.sight = x.cand /\ x.since <= x.seen
      BY <1>11, <1>15, <2>2
    <3> QED BY <1>15, <3>1, <3>2, <3>3, <3>4 DEF Sound, Quiet
  <2> QED BY <1>9, <1>14, <1>15, <1>19, <2>2, <2>3 DEF Good
<1> QED BY <1>18, <1>19

\* A request for the candidate that is shown.
LEMMA QueuedGood ==
    ASSUME NEW m, NEW t \in Nat, Good(m, t), Quiet(m), m.cand # None
    PROVE  Good([m EXCEPT !.requested = TRUE, !.state = "queued", !.wish = m.cand], t)
<1> DEFINE n == [m EXCEPT !.requested = TRUE, !.state = "queued", !.wish = m.cand]
<1>1. n \in State
  BY DEF Good, State
<1>2. /\ n.requested = TRUE /\ n.state = "queued" /\ n.wish = m.cand
      /\ n.cand = m.cand /\ n.seen = m.seen /\ n.failed = m.failed
      /\ n.tried = m.tried /\ n.sight = m.sight /\ n.since = m.since
      /\ n.channel = m.channel
  BY DEF Good, State
<1> HIDE DEF n
<1>3. Sound(n, t)
  BY <1>2 DEF Good, Sound, Quiet
<1> QED BY <1>1, <1>3 DEF Good, n

\* A request is cancelled, or dropped.
LEMMA DropGood ==
    ASSUME NEW m, NEW t \in Nat, Good(m, t), m.requested
    PROVE  Good(Drop(m), t)
<1> DEFINE n == [m EXCEPT !.requested = FALSE]
           x == [n EXCEPT !.state = Resting(n)]
<1>1. n \in State
  BY StateFields DEF Good
<1>2. /\ n.requested = FALSE
      /\ n.cand = m.cand /\ n.seen = m.seen /\ n.failed = m.failed
      /\ n.tried = m.tried /\ n.sight = m.sight /\ n.since = m.since
      /\ n.channel = m.channel
  BY DEF Good, State
<1>3. x = Drop(m)
  BY DEF Drop
<1> HIDE DEF n
<1>4. Resting(n) \in RestStates
  BY RestingRests
<1>5. x \in State
  BY <1>1, <1>4, StateFields
<1>6. /\ x.requested = FALSE /\ x.state = Resting(n)
      /\ x.cand = m.cand /\ x.seen = m.seen /\ x.failed = m.failed
      /\ x.tried = m.tried /\ x.sight = m.sight /\ x.since = m.since
      /\ x.channel = m.channel
  BY <1>1, <1>2 DEF State
<1> HIDE DEF x
<1>7. m.state = "queued"
  BY DEF Good, Sound
<1>8. Sound(x, t)
  BY <1>4, <1>6, <1>7 DEF Good, Sound, RestStates
<1> QED BY <1>3, <1>5, <1>8 DEF Good

\* The recovery failed.
LEMMA RecoveryFailedGood ==
    ASSUME NEW m, NEW t \in Nat, Good(m, t)
    PROVE  Good([m EXCEPT !.state = "failed", !.requested = FALSE, !.tried = None], t)
<1> DEFINE n == [m EXCEPT !.state = "failed", !.requested = FALSE, !.tried = None]
<1>1. n \in State
  BY DEF Good, State
<1>2. /\ n.requested = FALSE /\ n.state = "failed" /\ n.tried = None
      /\ n.cand = m.cand /\ n.seen = m.seen /\ n.failed = m.failed
      /\ n.sight = m.sight /\ n.since = m.since /\ n.channel = m.channel
  BY DEF Good, State
<1> HIDE DEF n
<1>3. Sound(n, t)
  BY <1>2 DEF Good, Sound
<1> QED BY <1>1, <1>3 DEF Good, n

\* The end of an attempt: its candidate failed ...
LEMMA FailedGood ==
    ASSUME NEW m, NEW t \in Nat, Good(m, t), m.state = "updating"
    PROVE  Good([m EXCEPT !.state = "failed", !.failed = m.cand], t)
<1> DEFINE n == [m EXCEPT !.state = "failed", !.failed = m.cand]
<1>1. n \in State
  BY DEF Good, State
<1>2. /\ n.requested = m.requested /\ n.state = "failed" /\ n.failed = m.cand
      /\ n.cand = m.cand /\ n.seen = m.seen /\ n.tried = m.tried
      /\ n.sight = m.sight /\ n.since = m.since /\ n.channel = m.channel
  BY DEF Good, State
<1> HIDE DEF n
<1>3. Sound(n, t)
  BY <1>2 DEF Good, Sound
<1> QED BY <1>1, <1>3 DEF Good, n

\* ... or is installed.
LEMMA SucceededGood ==
    ASSUME NEW m, NEW t \in Nat, Good(m, t), m.state = "updating"
    PROVE  Good([NoCandidate(m) EXCEPT !.state = "succeeded", !.failed = None,
                                       !.tried = None], t)
<1> DEFINE k == NoCandidate(m)
           n == [k EXCEPT !.state = "succeeded", !.failed = None, !.tried = None]
<1>1. /\ k \in State /\ k.cand = None /\ k.seen = 0 /\ k.channel = m.channel
      /\ k.requested = m.requested /\ k.sight = m.sight /\ k.since = m.since
  BY NoCandidateIs DEF Good
<1> HIDE DEF k
<1>2. n \in State
  BY <1>1 DEF State
<1>3. /\ n.requested = m.requested /\ n.state = "succeeded" /\ n.failed = None
      /\ n.cand = None /\ n.seen = 0 /\ n.tried = None
      /\ n.sight = m.sight /\ n.since = m.since /\ n.channel = m.channel
  BY <1>1 DEF State
<1> HIDE DEF n
<1>4. Sound(n, t)
  BY <1>3 DEF Good, Sound
<1> QED BY <1>2, <1>4 DEF Good, n, k

\* The intention to install the candidate.
Intent(m) == [m EXCEPT !.state = "updating", !.requested = FALSE, !.tried = m.cand]

LEMMA IntentGood ==
    ASSUME NEW m, NEW t \in Nat, Good(m, t), m.cand # None
    PROVE  /\ Good(Intent(m), t)
           /\ Intent(m).state = "updating" /\ Intent(m).cand = m.cand
           /\ Intent(m).sight = m.sight /\ Intent(m).since = m.since
<1> DEFINE n == Intent(m)
<1>1. n \in State
  BY DEF Good, State, Intent
<1>2. /\ n.requested = FALSE /\ n.state = "updating" /\ n.tried = m.cand
      /\ n.cand = m.cand /\ n.seen = m.seen /\ n.failed = m.failed
      /\ n.sight = m.sight /\ n.since = m.since /\ n.channel = m.channel
  BY DEF Good, State, Intent
<1> HIDE DEF n
<1>3. Sound(n, t)
  BY <1>2 DEF Good, Sound
<1> QED BY <1>1, <1>2, <1>3 DEF Good, n

\* Time passes.
LEMMA GoodLater ==
    ASSUME NEW m, NEW t \in Nat, Good(m, t)
    PROVE  Good(m, t + 1)
<1>1. m.seen \in Int /\ m.since \in Int
  BY NumberAssumption DEF Good, State
<1> QED BY <1>1 DEF Good, Sound

-----------------------------------------------------------------------------
(* The invariant.                                                          *)

\* The updater decides about a file without an attempt, and works for the
\* attempt that the file, and what survives of it, announces.
Working == {"update", "replace", "conclude", "succeeded", "failed"}
Announced ==
    /\ run.step = "decide" => disk.state # "updating"
    /\ run.step \in Working => /\ durable = disk /\ disk.state = "updating"
                               /\ run.target = disk.cand

IInv == TypeOK /\ Good(disk, now) /\ Good(durable, now) /\ Announced

LEMMA NowNat == ASSUME TypeOK PROVE now \in Nat /\ now \in 0..MaxNow
BY NumberAssumption DEF TypeOK

\* A save of something sound leaves sound files, whatever becomes of it.
LEMMA SaveGood ==
    ASSUME IInv, NEW m, Good(m, now), NEW o \in Outcomes, Save(m, o), now' = now
    PROVE  /\ Good(disk', now') /\ Good(durable', now')
           /\ disk' \in State /\ durable' \in State
           /\ slips' \in 0..MaxSlips
           /\ disk' \in {disk, m} /\ durable' \in {durable, m}
           /\ o = "ok" => disk' = m /\ durable' = m
           /\ o # "refused" => disk' = m
<1>1. disk' \in {disk, m} /\ durable' \in {durable, m}
  BY DEF Save
<1>2. Good(disk', now) /\ Good(durable', now)
  BY <1>1 DEF IInv
<1>3. Good(disk', now') /\ Good(durable', now')
  BY <1>2
<1>4. slips' \in 0..MaxSlips
  BY NumberAssumption DEF IInv, TypeOK, Save, Outcomes
<1> QED BY <1>1, <1>2, <1>3, <1>4 DEF Save, Good

\* A step that leaves the files and the clock alone.
LEMMA SameFiles ==
    ASSUME IInv, UNCHANGED <<disk, durable, now>>
    PROVE  /\ Good(disk', now') /\ Good(durable', now')
           /\ disk' \in State /\ durable' \in State
<1>1. Good(disk', now') /\ Good(durable', now')
  BY DEF IInv
<1> QED BY <1>1 DEF Good

Steps == {"idle", "recover", "read", "decide", "update", "replace",
          "conclude", "succeeded", "failed"}

\* The parts of the state besides the files keep their types.
LEMMA RestTyped ==
    ASSUME IInv
    PROVE  /\ run.step \in Steps /\ run.manual \in BOOLEAN
           /\ run.target \in Releases \cup {None}
           /\ \A s \in Steps : /\ At(s) \in [step : Steps, manual : BOOLEAN,
                                             target : Releases \cup {None}]
                               /\ At(s).step = s /\ At(s).target = run.target
                               /\ At(s).manual = run.manual
           /\ Idle \in [step : Steps, manual : BOOLEAN,
                        target : Releases \cup {None}]
           /\ Idle.step = "idle"
<1>1. run \in [step : Steps, manual : BOOLEAN, target : Releases \cup {None}]
  BY DEF IInv, TypeOK, Steps
<1>2. "idle" \in Steps
  BY DEF Steps
<1> QED BY <1>1, <1>2 DEF At, Idle

LEMMA AgentKeeps == ASSUME IInv, Agent PROVE IInv'
<1> USE DEF IInv
<1>1. now \in Nat /\ now \in 0..MaxNow
  BY NowNat
<1>2. ASSUME NEW m, Good(m, now), NEW o \in Outcomes, Save(m, o), run = Idle,
             UNCHANGED <<installed, txn, run, now, crashes>>,
             dispatch' \in [Clients -> Releases \cup {None}]
      PROVE  IInv'
  <2>1. /\ Good(disk', now') /\ Good(durable', now')
        /\ disk' \in State /\ durable' \in State /\ slips' \in 0..MaxSlips
    BY <1>2, SaveGood
  <2>2. Announced'
    BY <1>2, RestTyped DEF Announced, Working
  <2> QED BY <1>2, <2>1, <2>2 DEF TypeOK
<1>3. ~Busy => Quiet(disk)
  BY DEF Busy, Quiet
<1>4. ASSUME Check PROVE IInv'
  <2>1. PICK r \in Answers(disk), o \in Outcomes : Save(Checked(disk, r), o)
    BY <1>4 DEF Check
  <2>2. Good(Checked(disk, r), now)
    BY <1>1, <1>3, <1>4, CheckedGood DEF Check
  <2> QED BY <1>2, <1>4, <2>1, <2>2 DEF Check, TypeOK
<1>5. ASSUME NEW c \in Clients, QueueInstall(c) PROVE IInv'
  <2> DEFINE m == [disk EXCEPT !.requested = TRUE, !.state = "queued", !.wish = disk.cand]
  <2>1. PICK o \in Outcomes : /\ Save(m, o)
                              /\ dispatch' = IF o = "refused" THEN dispatch
                                             ELSE [dispatch EXCEPT ![c] = disk.cand]
    BY <1>5 DEF QueueInstall
  <2>2. Good(m, now)
    BY <1>1, <1>3, <1>5, QueuedGood DEF QueueInstall, Newer
  <2>3. dispatch' \in [Clients -> Releases \cup {None}]
    BY <2>1 DEF TypeOK, State
  <2> HIDE DEF m
  <2> QED BY <1>2, <1>5, <2>1, <2>2, <2>3 DEF QueueInstall
<1>6. ASSUME NEW c \in Clients, Dispatched(c) PROVE IInv'
  <2>1. /\ Good(disk', now') /\ Good(durable', now')
        /\ disk' \in State /\ durable' \in State
    BY <1>6, SameFiles DEF Dispatched
  <2>2. Announced'
    BY <1>6 DEF Announced, Dispatched
  <2>3. dispatch' \in [Clients -> Releases \cup {None}]
    BY <1>6 DEF Dispatched, TypeOK
  <2> QED BY <1>6, <2>1, <2>2, <2>3 DEF Dispatched, TypeOK
<1>7. ASSUME NEW c \in Clients, CancelQueuedInstall(c) PROVE IInv'
  <2>1. dispatch' \in [Clients -> Releases \cup {None}]
    BY <1>7 DEF CancelQueuedInstall, TypeOK
  <2>2. CASE run = Idle /\ disk.requested /\ disk.cand = dispatch[c]
    <3>1. PICK o \in Outcomes : Save(Drop(disk), o)
      BY <1>7, <2>2 DEF CancelQueuedInstall, Drop
    <3>2. Good(Drop(disk), now)
      BY <1>1, <2>2, DropGood
    <3> QED BY <1>2, <1>7, <2>1, <2>2, <3>1, <3>2 DEF CancelQueuedInstall
  <2>3. CASE ~(run = Idle /\ disk.requested /\ disk.cand = dispatch[c])
    <3>1. UNCHANGED <<disk, durable, slips, installed, txn, run, now, crashes>>
      BY <1>7, <2>3 DEF CancelQueuedInstall
    <3>2. /\ Good(disk', now') /\ Good(durable', now')
          /\ disk' \in State /\ durable' \in State
      BY <3>1, SameFiles
    <3>3. Announced'
      BY <3>1 DEF Announced
    <3> QED BY <2>1, <3>1, <3>2, <3>3 DEF TypeOK
  <2> QED BY <2>2, <2>3
<1>8. ASSUME NEW enabled \in BOOLEAN, NEW channel \in Channels, SetPolicy(enabled, channel)
      PROVE  IInv'
  <2> DEFINE m == [Moved(disk, channel) EXCEPT !.enabled = enabled]
             reset == channel # disk.channel \/ disk.state = "disabled"
             s == IF reset /\ m.cand # None THEN "waiting" ELSE Resting(m)
  <2>1. PICK o \in Outcomes : Save([m EXCEPT !.state = s], o)
    BY <1>8 DEF SetPolicy
  <2>2. Good(m, now) /\ Quiet(m)
    <3>1. Good(Moved(disk, channel), now) /\ Quiet(Moved(disk, channel))
      BY <1>1, <1>3, <1>8, MovedGood DEF SetPolicy
    <3> QED BY <1>1, <3>1, EnabledGood
  <2>3. s \in RestStates
    BY RestingRests DEF RestStates
  <2> HIDE DEF m, s
  <2>4. Good([m EXCEPT !.state = s], now)
    BY <1>1, <2>2, <2>3, RestGood
  <2> QED BY <1>2, <1>8, <2>1, <2>4 DEF SetPolicy, TypeOK
<1> QED BY <1>4, <1>5, <1>6, <1>7, <1>8 DEF Agent

\* Run, until it decides.
LEMMA PreludeKeeps ==
    ASSUME IInv, Begin \/ Recover \/ RecoverFails \/ Unread \/ Read
                 \/ \E o \in Outcomes : Reconcile(o)
    PROVE  IInv'
<1> USE DEF IInv
<1>1. now \in Nat /\ now \in 0..MaxNow
  BY NowNat
<1>2. ASSUME UNCHANGED <<disk, durable, dispatch, slips, now, crashes>>,
             installed' \in Nat, txn' \in Nat \cup {None},
             run' \in {Idle, At("recover"), At("read")}
      PROVE  IInv'
  <2>1. /\ Good(disk', now') /\ Good(durable', now')
        /\ disk' \in State /\ durable' \in State
    BY <1>2, SameFiles
  <2>2. /\ run' \in [step : Steps, manual : BOOLEAN, target : Releases \cup {None}]
        /\ run'.step \in {"idle", "recover", "read"}
    BY <1>2, RestTyped DEF Steps
  <2>3. Announced'
    BY <2>2 DEF Announced, Working
  <2> QED BY <1>2, <2>1, <2>2, <2>3 DEF TypeOK, Steps
<1>3. installed \in Nat /\ txn \in Nat \cup {None}
  BY DEF TypeOK
<1>4. CASE Begin
  BY <1>2, <1>3, <1>4 DEF Begin
<1>5. CASE Recover
  BY <1>2, <1>3, <1>5 DEF Recover
<1>6. CASE Unread
  BY <1>2, <1>3, <1>6 DEF Unread
<1>7. CASE Read
  <2>1. /\ Good(disk', now') /\ Good(durable', now')
        /\ disk' \in State /\ durable' \in State
    BY <1>7, SameFiles DEF Read
  <2>2. /\ run' \in [step : Steps, manual : BOOLEAN, target : Releases \cup {None}]
        /\ run'.step = "decide"
    BY <1>7, RestTyped DEF Read, Steps
  <2>3. Announced'
    BY <1>7, <2>2 DEF Announced, Working, Read
  <2> QED BY <1>7, <2>1, <2>2, <2>3 DEF TypeOK, Steps, Read
<1>8. CASE RecoverFails
  <2> DEFINE m == [disk EXCEPT !.state = "failed", !.requested = FALSE, !.tried = None]
  <2>1. PICK o \in Outcomes : Save(m, o)
    BY <1>8 DEF RecoverFails
  <2>2. Good(m, now)
    BY <1>1, RecoveryFailedGood
  <2>3. /\ Good(disk', now') /\ Good(durable', now')
        /\ disk' \in State /\ durable' \in State /\ slips' \in 0..MaxSlips
    <3> HIDE DEF m
    <3> QED BY <1>8, <2>1, <2>2, SaveGood DEF RecoverFails
  <2>4. run' = Idle /\ UNCHANGED <<installed, txn, dispatch, now, crashes>>
    BY <1>8 DEF RecoverFails
  <2> QED BY <2>3, <2>4, RestTyped DEF TypeOK, Announced, Working, Steps
<1>9. ASSUME NEW o \in Outcomes, Reconcile(o) PROVE IInv'
  <2> DEFINE m == Reconciled(disk)
  <2>1. Good(m, now) /\ m.state # "updating"
    <3>1. CASE Newer(disk.cand)
      BY <1>1, <1>9, <3>1, FailedGood DEF Reconciled, Reconcile, Good, State
    <3>2. CASE ~Newer(disk.cand)
      <4>1. m = [NoCandidate(disk) EXCEPT !.state = "succeeded", !.failed = None,
                                          !.tried = None]
        BY <3>2 DEF Reconciled
      <4>2. NoCandidate(disk) \in State
        BY NoCandidateIs DEF Good
      <4>3. m.state = "succeeded"
        BY <4>1, <4>2 DEF State
      <4> QED BY <1>1, <1>9, <4>1, <4>3, SucceededGood DEF Reconcile
    <3> QED BY <3>1, <3>2
  <2>2. /\ Save(m, o)
        /\ run' = IF o = "refused" THEN Idle ELSE At("decide")
        /\ UNCHANGED <<installed, txn, dispatch, now, crashes>>
    BY <1>9 DEF Reconcile
  <2> HIDE DEF m
  <2>3. /\ Good(disk', now') /\ Good(durable', now')
        /\ disk' \in State /\ durable' \in State /\ slips' \in 0..MaxSlips
        /\ o # "refused" => disk' = m
    BY <2>1, <2>2, SaveGood
  <2>4. /\ run' \in [step : Steps, manual : BOOLEAN, target : Releases \cup {None}]
        /\ run'.step \in {"idle", "decide"}
        /\ run'.step = "decide" => o # "refused"
    BY <2>2, RestTyped DEF Steps
  <2>5. Announced'
    BY <2>1, <2>3, <2>4 DEF Announced, Working
  <2> QED BY <2>2, <2>3, <2>4, <2>5 DEF TypeOK, Steps
<1> QED BY <1>4, <1>5, <1>6, <1>7, <1>8, <1>9

\* An attempt: what it saves, and the step it goes to.
LEMMA AttemptIs ==
    ASSUME IInv, NEW m, Good(m, now), m.cand # None, NEW o \in Outcomes, Attempt(m, o)
    PROVE  /\ IInv'
           /\ run'.step = "update" =>
                /\ run'.target = m.cand /\ run'.manual = disk.requested
                /\ disk'.sight = m.sight /\ disk'.since = m.since
<1> USE DEF IInv
<1>1. now \in Nat /\ now \in 0..MaxNow
  BY NowNat
<1>2. /\ Good(Intent(m), now)
      /\ Intent(m).state = "updating" /\ Intent(m).cand = m.cand
      /\ Intent(m).sight = m.sight /\ Intent(m).since = m.since
  BY <1>1, IntentGood
<1>3. /\ Save(Intent(m), o)
      /\ UNCHANGED <<installed, txn, dispatch, now, crashes>>
  BY DEF Attempt, Intent
<1>4. /\ Good(disk', now') /\ Good(durable', now')
      /\ disk' \in State /\ durable' \in State /\ slips' \in 0..MaxSlips
      /\ o = "ok" => disk' = Intent(m) /\ durable' = Intent(m)
  BY <1>2, <1>3, SaveGood
<1>5. CASE o = "ok"
  <2>1. run' = [step |-> "update", manual |-> disk.requested, target |-> m.cand]
    BY <1>5 DEF Attempt
  <2>2. m.cand \in Releases \cup {None} /\ disk.requested \in BOOLEAN
    BY DEF Good, State
  <2>3. /\ run' \in [step : Steps, manual : BOOLEAN, target : Releases \cup {None}]
        /\ run'.step = "update" /\ run'.target = m.cand
        /\ run'.manual = disk.requested
    BY <2>1, <2>2 DEF Steps
  <2>4. Announced'
    BY <1>2, <1>4, <1>5, <2>3 DEF Announced
  <2> QED BY <1>2, <1>3, <1>4, <1>5, <2>3, <2>4 DEF TypeOK, Steps
<1>6. CASE o # "ok"
  <2>1. run' = Idle
    BY <1>6 DEF Attempt
  <2> QED BY <1>3, <1>4, <2>1, RestTyped DEF TypeOK, Announced, Working, Steps
<1> QED BY <1>5, <1>6

\* Run, where it decides that there is nothing to do.
LEMMA FinishKeeps == ASSUME IInv, Disabled \/ Outdated \/ NotYet PROVE IInv'
<1> USE DEF IInv
<1>1. now \in Nat /\ now \in 0..MaxNow
  BY NowNat
<1>2. ASSUME NEW m, Good(m, now), Finish(m) PROVE IInv'
  <2>1. PICK o \in Outcomes : Save(m, o)
    BY <1>2 DEF Finish
  <2>2. run' = Idle /\ UNCHANGED <<installed, txn, dispatch, now, crashes>>
    BY <1>2 DEF Finish
  <2>3. /\ Good(disk', now') /\ Good(durable', now')
        /\ disk' \in State /\ durable' \in State /\ slips' \in 0..MaxSlips
    BY <1>2, <2>1, <2>2, SaveGood
  <2> QED BY <2>2, <2>3, RestTyped DEF TypeOK, Announced, Working, Steps
<1>3. run.step = "decide" => disk.state # "updating"
  BY DEF Announced
<1>4. CASE Disabled
  <2>1. Quiet(disk)
    BY <1>3, <1>4 DEF Disabled, Finish, Quiet
  <2>2. Good([disk EXCEPT !.state = "disabled"], now)
    BY <1>1, <2>1, RestGood DEF RestStates
  <2> QED BY <1>2, <1>4, <2>2 DEF Disabled
<1>5. CASE Outdated
  <2>1. Good(Drop(disk), now)
    BY <1>1, <1>5, DropGood DEF Outdated
  <2> QED BY <1>2, <1>5, <2>1 DEF Outdated
<1>6. CASE NotYet
  <2>1. PICK r \in Answers(disk) : Finish(Checked(disk, r))
    BY <1>6 DEF NotYet
  <2>2. Quiet(disk)
    BY <1>3, <1>6, <2>1 DEF NotYet, Finish, Quiet
  <2>3. Good(Checked(disk, r), now)
    BY <1>1, <2>2, CheckedGood
  <2> QED BY <1>2, <2>1, <2>3
<1> QED BY <1>4, <1>5, <1>6

\* What an update that starts may install.
Permitted ==
    Starts =>
      /\ Newer(run'.target)
      /\ run'.manual => run'.target = disk.wish
      /\ ~run'.manual => /\ disk.enabled /\ disk'.sight = run'.target
                         /\ now - disk'.since >= Hold
                         /\ disk.tried # run'.target

LEMMA RequestedKeeps ==
    ASSUME IInv, NEW o \in Outcomes, AttemptRequested(o)
    PROVE  IInv' /\ Permitted
<1>1. Good(disk, now) /\ disk.cand # None /\ Newer(disk.cand) /\ disk.requested
  BY DEF IInv, AttemptRequested, Newer
<1>2. /\ IInv'
      /\ run'.step = "update" => run'.target = disk.cand /\ run'.manual = disk.requested
  BY <1>1, AttemptIs DEF AttemptRequested
<1>3. disk.cand = disk.wish
  BY <1>1 DEF Good, Sound
<1> QED BY <1>1, <1>2, <1>3 DEF Permitted, Starts

LEMMA AutomaticKeeps ==
    ASSUME IInv, NEW o \in Outcomes, AttemptAutomatic(o)
    PROVE  IInv' /\ Permitted
<1>1. PICK r \in Answers(disk) : /\ Checked(disk, r).state = "available"
                                 /\ Attempt(Checked(disk, r), o)
  BY DEF AttemptAutomatic
<1>2. Good(disk, now) /\ Quiet(disk) /\ now \in 0..MaxNow
  BY NowNat DEF IInv, Announced, AttemptAutomatic, Quiet
<1> DEFINE m == Checked(disk, r)
<1>3. /\ Good(m, now) /\ Newer(r) /\ m.cand = r /\ m.sight = r
      /\ now - m.since >= Hold /\ disk.tried # r
  BY <1>1, <1>2, CheckedGood
<1>4. m.cand # None
  BY <1>3 DEF Newer
<1>5. Attempt(m, o)
  BY <1>1
<1> HIDE DEF m
<1>6. /\ IInv'
      /\ run'.step = "update" =>
           /\ run'.target = m.cand /\ run'.manual = disk.requested
           /\ disk'.sight = m.sight /\ disk'.since = m.since
  BY <1>3, <1>4, <1>5, AttemptIs
<1>7. disk.enabled /\ ~disk.requested
  BY DEF AttemptAutomatic
<1> QED BY <1>3, <1>6, <1>7 DEF Permitted, Starts

\* The update itself, and its result.
LEMMA WorkKeeps ==
    ASSUME IInv, Prepare \/ Replace \/ Conclude \/ Fail \/ Record
    PROVE  IInv'
<1> USE DEF IInv
<1>1. now \in Nat /\ now \in 0..MaxNow
  BY NowNat
<1>2. ASSUME UNCHANGED <<disk, durable, dispatch, slips, now, crashes>>,
             run.step \in Working,
             installed' \in Nat, txn' \in Nat \cup {None},
             NEW s \in Working, run' = At(s)
      PROVE  IInv'
  <2>1. /\ Good(disk', now') /\ Good(durable', now')
        /\ disk' \in State /\ durable' \in State
    BY <1>2, SameFiles
  <2>2. /\ run' \in [step : Steps, manual : BOOLEAN, target : Releases \cup {None}]
        /\ run'.step \in Working /\ run'.target = run.target
    BY <1>2, RestTyped DEF Steps, Working
  <2>3. Announced'
    BY <1>2, <2>2 DEF Announced, Working
  <2> QED BY <1>2, <2>1, <2>2, <2>3 DEF TypeOK, Steps
<1>3. installed \in Nat /\ txn \in Nat \cup {None}
  BY DEF TypeOK
<1>4. run.step \in Working =>
        disk.state = "updating" /\ run.target = disk.cand /\ disk.cand # None
  BY DEF Announced, Good, Sound
<1>5. run.step \in Working => run.target \in Releases
  BY <1>4 DEF Good, State
<1>6. CASE Prepare
  BY <1>2, <1>3, <1>6 DEF Prepare, Working
<1>7. CASE Replace
  <2>1. VersionOf[run.target] \in Nat
    BY <1>5, <1>7, ReleaseAssumption DEF Replace, Working
  <2> QED BY <1>2, <1>3, <1>7, <2>1 DEF Replace, Working
<1>8. CASE Conclude
  BY <1>2, <1>3, <1>8 DEF Conclude, Working
<1>9. CASE Fail
  <2>1. installed' \in Nat /\ txn' \in Nat \cup {None}
    BY <1>3, <1>9 DEF Fail
  <2> QED BY <1>2, <1>9, <2>1 DEF Fail, Working
<1>10. CASE Record
  <2> DEFINE m == IF run.step = "failed"
                  THEN [disk EXCEPT !.state = "failed", !.failed = run.target]
                  ELSE [NoCandidate(disk) EXCEPT !.state = "succeeded",
                                                 !.failed = None, !.tried = None]
  <2>1. PICK o \in Outcomes : Save(m, o)
    BY <1>10 DEF Record
  <2>2. disk.state = "updating" /\ run.target = disk.cand
    BY <1>4, <1>10 DEF Record, Working
  <2>3. Good(m, now)
    <3>1. CASE run.step = "failed"
      BY <1>1, <2>2, <3>1, FailedGood
    <3>2. CASE run.step # "failed"
      BY <1>1, <2>2, <3>2, SucceededGood
    <3> QED BY <3>1, <3>2
  <2>4. run' = Idle /\ UNCHANGED <<installed, txn, dispatch, now, crashes>>
    BY <1>10 DEF Record
  <2> HIDE DEF m
  <2>5. /\ Good(disk', now') /\ Good(durable', now')
        /\ disk' \in State /\ durable' \in State /\ slips' \in 0..MaxSlips
    BY <2>1, <2>3, <2>4, SaveGood
  <2> QED BY <2>4, <2>5, RestTyped DEF TypeOK, Announced, Working, Steps
<1> QED BY <1>6, <1>7, <1>8, <1>9, <1>10

\* Stops, power failures, updates by hand and time.
LEMMA EnvironmentKeeps ==
    ASSUME IInv, Crash \/ PowerLoss \/ UpgradeByHand \/ Tick PROVE IInv'
<1> USE DEF IInv
<1>1. now \in Nat /\ now \in 0..MaxNow
  BY NowNat
<1>2. CASE Crash
  <2>1. /\ Good(disk', now') /\ Good(durable', now')
        /\ disk' \in State /\ durable' \in State
    BY <1>2, SameFiles DEF Crash
  <2>2. crashes' \in 0..MaxCrashes
    BY <1>2, NumberAssumption DEF Crash, TypeOK
  <2> QED BY <1>2, <2>1, <2>2, RestTyped DEF Crash, TypeOK, Announced, Working, Steps
<1>3. CASE PowerLoss
  <2>1. disk' \in {disk, durable} /\ durable' = disk' /\ now' = now
    BY <1>3 DEF PowerLoss
  <2>2. /\ Good(disk', now') /\ Good(durable', now')
    BY <2>1
  <2>3. disk' \in State /\ durable' \in State
    BY <2>2 DEF Good
  <2>4. crashes' \in 0..MaxCrashes
    BY <1>3, NumberAssumption DEF PowerLoss, TypeOK
  <2>5. dispatch' \in [Clients -> Releases \cup {None}]
    BY <1>3 DEF PowerLoss
  <2> QED BY <1>3, <2>2, <2>3, <2>4, <2>5, RestTyped
          DEF PowerLoss, TypeOK, Announced, Working, Steps
<1>4. CASE UpgradeByHand
  <2>1. /\ Good(disk', now') /\ Good(durable', now')
        /\ disk' \in State /\ durable' \in State
    BY <1>4, SameFiles DEF UpgradeByHand
  <2>2. installed' \in Nat
    BY <1>4, ReleaseAssumption DEF UpgradeByHand
  <2>3. Announced'
    BY <1>4 DEF UpgradeByHand, Announced
  <2> QED BY <1>4, <2>1, <2>2, <2>3 DEF UpgradeByHand, TypeOK
<1>5. CASE Tick
  <2>1. /\ now' = now + 1 /\ now' \in 0..MaxNow
        /\ UNCHANGED <<disk, durable, installed, txn, run, slips, dispatch, crashes>>
    BY <1>1, <1>5, NumberAssumption DEF Tick
  <2>2. Good(disk', now') /\ Good(durable', now')
    BY <1>1, <2>1, GoodLater
  <2>3. Announced'
    BY <2>1 DEF Announced
  <2> QED BY <2>1, <2>2, <2>3 DEF TypeOK
<1> QED BY <1>2, <1>3, <1>4, <1>5

-----------------------------------------------------------------------------
(* The theorems.                                                           *)

\* At first nothing is known and nothing is requested.
LEMMA InitKeeps == ASSUME Init PROVE IInv
<1>1. NoState \in State /\ 0 \in 0..MaxNow
  BY NumberAssumption DEF NoState, State, Channels
<1>2. Sound(NoState, 0)
  BY DEF Sound, NoState
<1>3. Good(disk, now) /\ Good(durable, now)
  BY <1>1, <1>2 DEF Init, Good
<1>4. /\ Idle \in [step : Steps, manual : BOOLEAN, target : Releases \cup {None}]
      /\ Idle.step = "idle"
  BY DEF Idle, Steps
<1>5. Announced
  BY <1>4 DEF Init, Announced, Working
<1>6. TypeOK
  BY <1>1, <1>4, NumberAssumption DEF Init, TypeOK, Steps
<1> QED BY <1>3, <1>5, <1>6 DEF IInv

LEMMA StutterKeeps == ASSUME IInv, UNCHANGED vars PROVE IInv'
BY DEF vars, IInv, TypeOK, Good, Sound, Announced, State

LEMMA NextKeeps == ASSUME IInv, Next PROVE IInv'
<1>1. CASE Updater
  <2>1. ASSUME NEW o \in Outcomes, AttemptRequested(o) PROVE IInv'
    BY <2>1, RequestedKeeps
  <2>2. ASSUME NEW o \in Outcomes, AttemptAutomatic(o) PROVE IInv'
    BY <2>2, AutomaticKeeps
  <2> QED BY <1>1, <2>1, <2>2, PreludeKeeps, FinishKeeps, WorkKeeps DEF Updater
<1>2. CASE Agent
  BY <1>2, AgentKeeps
<1>3. CASE Crash \/ PowerLoss \/ UpgradeByHand \/ Tick
  BY <1>3, EnvironmentKeeps
<1> QED BY <1>1, <1>2, <1>3 DEF Next

THEOREM UpdateInvariant == Spec => []IInv
<1>1. Init => IInv
  BY InitKeeps
<1>2. IInv /\ [Next]_vars => IInv'
  BY NextKeeps, StutterKeeps
<1> QED BY <1>1, <1>2, PTL DEF Spec

\* The state of the updater keeps its type; in particular an update always has
\* a release to install and the executor a version to go back to.
THEOREM UpdateTypeCorrect == Spec => []TypeOK
<1>1. IInv => TypeOK
  BY DEF IInv
<1> QED BY <1>1, UpdateInvariant, PTL

\* Whatever the Agent and the updater save, in whatever order, load accepts it
\* (validPersistedState), and so does it accept what a power failure restores.
THEOREM UpdateLoadable == Spec => []Loadable
<1>1. IInv => Loadable
  BY DEF IInv, Good, Sound, Loadable, Valid
<1> QED BY <1>1, UpdateInvariant, PTL

\* The executor works only for the attempt that the durable file announces
\* (the DurabilityErr check of Run).
THEOREM UpdateIntentDurable == Spec => []IntentDurable
<1>1. IInv => IntentDurable
  BY DEF IInv, Announced, Working, IntentDurable
<1> QED BY <1>1, UpdateInvariant, PTL

\* Only the two attempts of Run start an update.
LEMMA OthersStartNothing ==
    ASSUME IInv, Next,
           ~ \E o \in Outcomes : AttemptRequested(o) \/ AttemptAutomatic(o)
    PROVE  Permitted
<1> SUFFICES ASSUME run.step # "update" PROVE run'.step # "update"
  BY DEF Permitted, Starts
<1>1. /\ Idle.step # "update"
      /\ \A s \in Steps : At(s).step = s
  BY RestTyped
<1>2. CASE Agent \/ UpgradeByHand \/ Tick
  <2>1. run' = run
    BY <1>2 DEF Agent, Check, QueueInstall, Dispatched, CancelQueuedInstall,
                SetPolicy, UpgradeByHand, Tick
  <2> QED BY <2>1
<1>3. CASE Crash \/ PowerLoss \/ RecoverFails \/ Unread \/ Record
           \/ Disabled \/ Outdated \/ NotYet
  <2>1. run' = Idle
    BY <1>3 DEF Crash, PowerLoss, RecoverFails, Unread, Record, Disabled,
                Outdated, NotYet, Finish
  <2> QED BY <1>1, <2>1
<1>4. CASE Begin \/ Recover \/ Read \/ Prepare \/ Replace \/ Conclude \/ Fail
           \/ \E o \in Outcomes : Reconcile(o)
  <2>1. run' = Idle \/ \E s \in Steps \ {"update"} : run' = At(s)
    BY <1>4 DEF Begin, Recover, Read, Prepare, Replace, Conclude, Fail,
                Reconcile, Steps
  <2> QED BY <1>1, <2>1
<1> QED BY <1>2, <1>3, <1>4 DEF Next, Updater

\* An update installs exactly what the administrator saw when asking for it;
\* without a request only what every check of the observation period returned
\* and was not tried since; and never a version older than the installed one.
THEOREM UpdateAuthorised == Spec => Authorised
<1>1. IInv /\ Next => Permitted
  BY RequestedKeeps, AutomaticKeeps, OthersStartNothing
<1>2. IInv /\ [Next]_vars => [Permitted]_vars
  BY <1>1
<1> QED BY <1>2, UpdateInvariant, PTL DEF Spec, Authorised, Permitted
===============================================================================
