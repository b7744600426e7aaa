---------------------------- MODULE InputProofs ----------------------------
(***************************************************************************)
(* What is proved of keyboard input, for any number of pages, window size, *)
(* frames, retries, drops and restarts.  First the owner of a PTY          *)
(* (ReliableInput): its invariants and the action property FreezeIsFinal.  *)
(* Then a task terminal from end to end (TaskInput): nothing that a page   *)
(* believes acknowledged is lost, and nothing a lone page types is read    *)
(* twice unless a claim that it has given up binds one of its streams anew.*)
(*                                                                         *)
(* AtMostOnce and InOrder speak of the whole history; what keeps them is   *)
(* that the history is fenced (a stream that wrote is the current one or   *)
(* retired for good) and that its end is the frame the counters speak of.  *)
(***************************************************************************)
EXTENDS ReliableInput, TaskInput, Integers, FiniteSetTheorems, SequenceTheorems, TLAPS

Sequenced == writing \in Frames

\* The number of the last frame of the current stream handed to the PTY.
Ahead == IF failed \/ Sequenced THEN acked + 1 ELSE acked

Fencing ==
    /\ stream \notin retired /\ IsFiniteSet(retired)
    /\ stream = None => retired = {} /\ acked = 0 /\ ~failed
    /\ ~Retained => retired = {}
    /\ \A i \in 1..Len(written) : written[i].stream \in retired \cup {stream, None}

OneWrite ==
    /\ Sequenced => writing.stream = stream /\ writing.seq = acked + 1 /\ ~failed
    /\ writing \in BareFrames => stream = None

Counting ==
    stream # None =>
        /\ \A i \in 1..Len(written) : written[i].stream = stream => written[i].seq <= Ahead
        /\ Ahead > 0 => /\ Len(written) > 0
                        /\ written[Len(written)].stream = stream
                        /\ written[Len(written)].seq = Ahead

IInv == /\ TypeOK /\ Fencing /\ OneWrite /\ Counting
        /\ AtMostOnce /\ InOrder /\ OneWriter

\* A frame is never a bare one, and a write in progress is one of them or none.
LEMMA Kinds ==
    /\ \A f \in Frames : f.stream # None /\ f # None /\ f \notin BareFrames
    /\ \A f \in BareFrames : f.stream = None /\ f # None
BY NoneAssumption, NoWriteAssumption DEF Frames, BareFrames, Bare

\* The initial state satisfies the invariant.
LEMMA InitIInv == Init => IInv
<1> SUFFICES ASSUME Init PROVE IInv
  OBVIOUS
<1> USE NoneAssumption, BoundsAssumption DEF Init
<1>1. IsFiniteSet({}) /\ Cardinality({}) = 0
  BY FS_EmptySet
<1>2. TypeOK
  BY <1>1 DEF TypeOK, NoHashes, Frames, BareFrames
<1>3. Fencing /\ OneWrite /\ Counting
  BY <1>1, Kinds DEF Fencing, OneWrite, Counting, Sequenced
<1>4. AtMostOnce /\ InOrder /\ OneWriter
  BY DEF AtMostOnce, InOrder, OneWriter
<1> QED BY <1>2, <1>3, <1>4 DEF IInv

\* What a step that hands nothing to the PTY leaves of the history properties.
LEMMA HistoryKept ==
    ASSUME AtMostOnce, InOrder, OneWriter, UNCHANGED written
    PROVE  AtMostOnce' /\ InOrder' /\ OneWriter'
BY DEF AtMostOnce, InOrder, OneWriter

\* A claim, a handoff, a replay, the outcome of a write and the end of the
\* session leave the history alone.
LEMMA ClaimIInv == ASSUME IInv, NEW s \in Streams, Claim(s) PROVE IInv'
<1> USE DEF IInv, Claim, Admitting
<1>1. TypeOK'
  BY DEF TypeOK, history
<1>2. Fencing'
  BY NoneAssumption DEF Fencing, history
<1>3. OneWrite'
  BY Kinds DEF OneWrite, Sequenced, history
<1>4. Counting'
  <2>1. CASE stream = s
    BY <2>1 DEF Counting, Ahead, Sequenced, history
  <2>2. CASE stream = None
    <3>1. Ahead' = 0
      BY <2>2, Kinds DEF Fencing, Ahead, Sequenced, history
    <3>2. \A i \in 1..Len(written) : written[i].stream # s
      BY <2>2, NoneAssumption DEF Fencing
    <3> QED BY <3>1, <3>2 DEF Counting, history
  <2> QED BY <2>1, <2>2
<1>5. AtMostOnce' /\ InOrder' /\ OneWriter'
  BY HistoryKept DEF history
<1> QED BY <1>1, <1>2, <1>3, <1>4, <1>5

\* A handoff retires the old writer for good.
LEMMA HandoffIInv == ASSUME IInv, NEW s \in Streams, Handoff(s) PROVE IInv'
<1> USE DEF IInv, Handoff, Admitting, MayTakeOver
<1>1. /\ IsFiniteSet(retired \cup {stream})
      /\ Cardinality(retired \cup {stream}) = Cardinality(retired) + 1
      /\ Cardinality(retired) \in Nat
  BY FS_AddElement, FS_CardinalityType DEF Fencing
<1>2. TypeOK'
  <2>1. Cardinality(retired') <= MaxWriters
    BY <1>1, BoundsAssumption
  <2> QED BY <2>1, BoundsAssumption DEF TypeOK, NoHashes, history
<1>3. Fencing'
  BY <1>1, NoneAssumption DEF Fencing, history
<1>4. OneWrite'
  BY Kinds DEF OneWrite, Sequenced, history
<1>5. Counting'
  <2>1. \A i \in 1..Len(written) : written[i].stream # s
    BY NoneAssumption DEF Fencing
  <2>2. Ahead' = 0
    BY Kinds DEF Ahead, Sequenced, history
  <2> QED BY <2>1, <2>2 DEF Counting, history
<1>6. AtMostOnce' /\ InOrder' /\ OneWriter'
  BY HistoryKept DEF history
<1> QED BY <1>2, <1>3, <1>4, <1>5, <1>6

\* A replay changes nothing but what is acknowledged.
LEMMA ReplayIInv == ASSUME IInv, NEW f \in Frames, Replay(f) PROVE IInv'
<1> USE DEF IInv, Replay, Admitting
<1>1. TypeOK'
  BY DEF TypeOK
<1>2. Fencing' /\ OneWrite' /\ Counting'
  BY DEF Fencing, OneWrite, Counting, Ahead, Sequenced
<1>3. AtMostOnce' /\ InOrder' /\ OneWriter'
  BY HistoryKept
<1> QED BY <1>1, <1>2, <1>3

\* The end of a write leaves the history alone.
LEMMA OutcomeIInv == ASSUME IInv, WriteDone \/ WriteUncertain \/ EndBare PROVE IInv'
<1> USE DEF IInv
<1>1. UNCHANGED written
  BY DEF WriteDone, WriteUncertain, EndBare, history
<1>2. TypeOK'
  <2>1. CASE WriteDone
    BY <2>1, BoundsAssumption DEF WriteDone, TypeOK, Frames
  <2>2. CASE WriteUncertain \/ EndBare
    BY <2>2 DEF WriteUncertain, EndBare, Freeze, TypeOK, history
  <2> QED BY <2>1, <2>2
<1>3. Fencing'
  BY <1>1, Kinds
  DEF WriteDone, WriteUncertain, EndBare, Freeze, Fencing, OneWrite, Sequenced, history
<1>4. OneWrite'
  BY Kinds DEF WriteDone, WriteUncertain, EndBare, Freeze, OneWrite, Sequenced, history
<1>5. Ahead' = Ahead /\ stream' = stream
  BY Kinds DEF WriteDone, WriteUncertain, EndBare, Freeze, OneWrite, Sequenced, Ahead, history
<1>6. Counting'
  BY <1>1, <1>5 DEF Counting
<1>7. AtMostOnce' /\ InOrder' /\ OneWriter'
  BY <1>1, HistoryKept
<1> QED BY <1>2, <1>3, <1>4, <1>6, <1>7

LEMMA EndIInv == ASSUME IInv, EndOfSession \/ UNCHANGED vars PROVE IInv'
<1> USE DEF IInv, EndOfSession, vars, history
<1>1. TypeOK'
  BY DEF TypeOK
<1>2. Fencing' /\ OneWrite' /\ Counting'
  BY DEF Fencing, OneWrite, Counting, Ahead, Sequenced
<1>3. AtMostOnce' /\ InOrder' /\ OneWriter'
  BY HistoryKept
<1> QED BY <1>1, <1>2, <1>3

\* How the history grows.
LEMMA Grown ==
    ASSUME NEW w, TypeOK, w \in Frames \cup BareFrames, written' = Append(written, w)
    PROVE  /\ Len(written') = Len(written) + 1 /\ Len(written) \in Nat
           /\ written'[Len(written) + 1] = w
           /\ \A i \in 1..Len(written) : written'[i] = written[i]
           /\ written' \in Seq(Frames \cup BareFrames)
BY DEF TypeOK

\* The next frame of the current stream: nothing of that number was written.
LEMMA WriteIInv == ASSUME IInv, NEW f \in Frames, BeginWrite(f) PROVE IInv'
<1> USE DEF IInv, BeginWrite, Admitting, IsNext
<1> DEFINE n == Len(written)
<1>1. /\ Len(written') = n + 1 /\ n \in Nat
      /\ written'[n + 1] = f
      /\ \A i \in 1..n : written'[i] = written[i]
      /\ written' \in Seq(Frames \cup BareFrames)
  BY Grown
<1>f. f.stream \in Streams /\ f.seq = acked + 1 /\ f.stream # None /\ acked \in Nat
  BY Kinds DEF Frames, TypeOK
<1> HIDE DEF n
<1>2. TypeOK'
  BY <1>1 DEF TypeOK, Frames
<1>3. Fencing'
  <2>1. f.stream \notin retired
    BY <1>f DEF Fencing
  <2>2. \A i \in 1..Len(written') : written'[i].stream \in retired \cup {f.stream, None}
    BY <1>1 DEF Fencing, n
  <2> QED BY <1>f, <2>1, <2>2 DEF Fencing
<1>4. OneWrite'
  BY <1>f, Kinds DEF OneWrite, Sequenced
<1>5. \A i \in 1..n : written[i].stream = f.stream => written[i].seq <= acked
  <2>1. CASE stream = None
    BY <2>1, <1>f DEF Fencing, n
  <2>2. CASE stream = f.stream
    BY <2>2, <1>f, Kinds DEF Counting, Ahead, Sequenced, n
  <2> QED BY <2>1, <2>2
<1>6. Ahead' = acked + 1
  BY <1>f DEF Ahead, Sequenced
<1>t. \A i \in 1..n : written[i].seq \in Nat
  BY DEF TypeOK, n, Frames, BareFrames, Bare
<1>7. Counting'
  BY <1>1, <1>f, <1>5, <1>6, <1>t DEF Counting
<1>8. AtMostOnce'
  <2>1. ASSUME NEW i \in 1..(n + 1), NEW j \in 1..(n + 1), i < j, written'[i].stream # None
        PROVE  <<written'[i].stream, written'[i].seq>> # <<written'[j].stream, written'[j].seq>>
    <3>1. CASE j = n + 1
      <4>1. written'[i] = written[i] /\ written'[j] = f /\ i \in 1..n
        BY <2>1, <3>1, <1>1
      <4>2. ~(written[i].stream = f.stream /\ written[i].seq = f.seq)
        BY <4>1, <1>5, <1>f, <1>t
      <4> QED BY <4>1, <4>2
    <3>2. CASE j # n + 1
      <4>1. i \in 1..n /\ j \in 1..n
        BY <2>1, <3>2, <1>1
      <4>2. written'[i] = written[i] /\ written'[j] = written[j]
        BY <4>1, <1>1
      <4> QED BY <2>1, <4>1, <4>2 DEF AtMostOnce, n
    <3> QED BY <3>1, <3>2
  <2>2. Len(written') = n + 1
    BY <1>1
  <2>3. AtMostOnce' = \A i, j \in 1..Len(written') :
            i < j /\ written'[i].stream # None
                => <<written'[i].stream, written'[i].seq>> # <<written'[j].stream, written'[j].seq>>
    BY DEF AtMostOnce
  <2> HIDE DEF IInv, BeginWrite
  <2> QED BY <2>1, <2>2, <2>3, Zenon
<1>9. InOrder'
  <2> SUFFICES ASSUME NEW i \in 1..(n + 1), written'[i].stream # None, written'[i].seq # 1
               PROVE  /\ i > 1
                      /\ written'[i-1].stream = written'[i].stream
                      /\ written'[i-1].seq = written'[i].seq - 1
    BY <1>1 DEF InOrder
  <2>1. CASE i = n + 1
    <3>1. stream = f.stream /\ acked > 0
      BY <2>1, <1>1, <1>f DEF Fencing
    <3>2. n > 0 /\ written[n].stream = stream /\ written[n].seq = acked
      BY <3>1, <1>f, Kinds DEF Counting, Ahead, Sequenced, n
    <3> QED BY <2>1, <3>1, <3>2, <1>1, <1>f
  <2>2. CASE i # n + 1
    BY <2>2, <1>1 DEF InOrder, n
  <2> QED BY <2>1, <2>2
<1>10. OneWriter'
  <2> SUFFICES ASSUME ~Retained, NEW i \in 1..(n + 1), NEW j \in 1..(n + 1), i < j,
                      written'[i].stream # None
               PROVE  written'[j].stream = written'[i].stream
    BY <1>1 DEF OneWriter
  <2>1. CASE j = n + 1
    BY <2>1, <1>1, <1>f, SMTT(30) DEF Fencing, n
  <2>2. CASE j # n + 1
    BY <2>2, <1>1 DEF OneWriter, n
  <2> QED BY <2>1, <2>2
<1> QED BY <1>2, <1>3, <1>4, <1>7, <1>8, <1>9, <1>10

\* A bare write: nobody has claimed the session, so the history is all bare.
LEMMA BareIInv == ASSUME IInv, NEW d \in Data, BeginBare(d) PROVE IInv'
<1> USE DEF IInv, BeginBare, BareAllowed, Admitting
<1> DEFINE n == Len(written)
<1>b. Bare(d) \in BareFrames /\ Bare(d).stream = None
  BY DEF Bare, BareFrames
<1>1. /\ Len(written') = n + 1 /\ n \in Nat
      /\ written'[n + 1] = Bare(d)
      /\ \A i \in 1..n : written'[i] = written[i]
      /\ written' \in Seq(Frames \cup BareFrames)
  BY <1>b, Grown
<1> HIDE DEF n
<1>2. \A i \in 1..(n + 1) : written'[i].stream = None
  BY <1>1, <1>b DEF Fencing, n
<1>3. TypeOK'
  BY <1>1, <1>b DEF TypeOK
<1>4. Fencing'
  BY <1>1, <1>2 DEF Fencing
<1>5. OneWrite' /\ Counting'
  BY <1>b, Kinds DEF OneWrite, Counting, Sequenced
<1>6. AtMostOnce' /\ InOrder' /\ OneWriter'
  BY <1>1, <1>2 DEF AtMostOnce, InOrder, OneWriter
<1> QED BY <1>3, <1>4, <1>5, <1>6

\* Every step keeps the invariant.
LEMMA NextIInv == IInv /\ [Next]_vars => IInv'
<1> SUFFICES ASSUME IInv, [Next]_vars PROVE IInv'
  OBVIOUS
<1>1. ASSUME NEW s \in Streams, Claim(s) \/ Handoff(s) PROVE IInv'
  BY <1>1, ClaimIInv, HandoffIInv
<1>2. ASSUME NEW f \in Frames, Replay(f) \/ BeginWrite(f) PROVE IInv'
  BY <1>2, ReplayIInv, WriteIInv
<1>3. ASSUME NEW d \in Data, BeginBare(d) PROVE IInv'
  BY <1>3, BareIInv
<1>4. CASE WriteDone \/ WriteUncertain \/ EndBare
  BY <1>4, OutcomeIInv
<1>5. CASE EndOfSession \/ UNCHANGED vars
  BY <1>5, EndIInv
<1> QED BY <1>1, <1>2, <1>3, <1>4, <1>5 DEF Next

(***************************************************************************)
(* The fenced history and the one write at a time, in every state.         *)
(***************************************************************************)
THEOREM Invariance == Spec => []IInv
BY InitIInv, NextIInv, PTL DEF Spec

(***************************************************************************)
(* The state of a session's input stays in its types, in particular within *)
(* the limit of fenced writers.                                            *)
(***************************************************************************)
THEOREM InputTypes == Spec => []TypeOK
<1>1. IInv => TypeOK
  BY DEF IInv
<1> QED BY <1>1, Invariance, PTL

(***************************************************************************)
(* No frame of any writer is written to the PTY twice.                     *)
(***************************************************************************)
THEOREM NeverTwice == Spec => []AtMostOnce
<1>1. IInv => AtMostOnce
  BY DEF IInv
<1> QED BY <1>1, Invariance, PTL

(***************************************************************************)
(* Every writer's frames are written in order and without another's        *)
(* between them.                                                           *)
(***************************************************************************)
THEOREM Ordered == Spec => []InOrder
<1>1. IInv => InOrder
  BY DEF IInv
<1> QED BY <1>1, Invariance, PTL

(***************************************************************************)
(* A session that is not retained has one writer.                          *)
(***************************************************************************)
THEOREM OneWriterOnly == Spec => []OneWriter
<1>1. IInv => OneWriter
  BY DEF IInv
<1> QED BY <1>1, Invariance, PTL

(***************************************************************************)
(* Nothing is written to a session after a write of uncertain outcome.     *)
(***************************************************************************)
THEOREM Frozen == Spec => FreezeIsFinal
<1>1. ASSUME IInv, [Next]_vars PROVE failed => failed' /\ UNCHANGED written
  <2> SUFFICES ASSUME failed PROVE failed' /\ UNCHANGED written
    OBVIOUS
  <2>1. stream # None
    BY <1>1 DEF IInv, Fencing
  <2>2. ASSUME NEW s \in Streams, Claim(s) \/ Handoff(s) PROVE failed' /\ UNCHANGED written
    BY <2>2 DEF Claim, Handoff, MayTakeOver, history
  <2>3. ASSUME NEW f \in Frames, Replay(f) \/ BeginWrite(f) PROVE failed' /\ UNCHANGED written
    BY <2>3 DEF Replay, BeginWrite
  <2>4. ASSUME NEW d \in Data, BeginBare(d) PROVE FALSE
    BY <2>4, <2>1 DEF BeginBare, BareAllowed
  <2>5. CASE WriteDone \/ WriteUncertain \/ EndBare \/ EndOfSession \/ UNCHANGED vars
    BY <2>5 DEF WriteDone, WriteUncertain, Freeze, EndBare, EndOfSession, vars, history
  <2> QED BY <1>1, <2>2, <2>3, <2>4, <2>5 DEF Next
<1>2. IInv /\ [Next]_vars => [failed => failed' /\ UNCHANGED written]_vars
  BY <1>1
<1> QED BY <1>2, Invariance, PTL DEF Spec, FreezeIsFinal

-----------------------------------------------------------------------------
(***************************************************************************)
(* Acknowledgements.  A replay is acknowledged from its hash alone, so the *)
(* invariant says what the window of hashes means: slot m % InputWindow    *)
(* holds the bytes of frame m, for the last InputWindow frames.            *)
(***************************************************************************)

\* No multiple of w lies strictly between 0 and w.
LEMMA NoMultiple == ASSUME NEW w \in Nat \ {0}, NEW k \in Int, w * k < w, 0 < w * k PROVE FALSE
<1>1. CASE k <= 0
  BY <1>1
<1>2. CASE k >= 1
  <2>1. w * k >= w * 1
    BY <1>2
  <2> QED BY <2>1
<1> QED BY <1>1, <1>2

\* Two numbers less than a window apart have different slots in it.
LEMMA SlotsDiffer ==
    ASSUME NEW w \in Nat \ {0}, NEW a \in Nat, NEW b \in Nat, a < b, b - a < w
    PROVE  a % w # b % w
<1> SUFFICES ASSUME a % w = b % w PROVE FALSE OBVIOUS
<1>1. a = w * (a \div w) + (a % w) /\ a \div w \in Int /\ a % w \in Int
  OBVIOUS
<1>2. b = w * (b \div w) + (b % w) /\ b \div w \in Int /\ b % w \in Int
  OBVIOUS
<1>3. b - a = w * (b \div w) - w * (a \div w)
  BY <1>1, <1>2
<1>4. w * (b \div w) - w * (a \div w) = w * ((b \div w) - (a \div w))
  BY <1>1, <1>2
<1>5. (b \div w) - (a \div w) \in Int
  BY <1>1, <1>2
<1> DEFINE k == (b \div w) - (a \div w)
<1>6. b - a = w * k /\ k \in Int
  BY <1>3, <1>4, <1>5
<1> HIDE DEF k
<1>7. w * k < w /\ 0 < w * k
  BY <1>6
<1> QED BY <1>6, <1>7, NoMultiple

\* w was written completely.
Done(w) == \E i \in 1..Len(written) :
    written[i] = w /\ (i = Len(written) => writing = None /\ ~failed)

Recorded ==
    /\ \A m \in 1..acked : acked - m < InputWindow =>
           Done([stream |-> stream, seq |-> m, data |-> hashes[m % InputWindow]])
    /\ Sequenced => Len(written) > 0 /\ written[Len(written)] = writing

AInv == IInv /\ Recorded /\ AckMeansWritten

\* A completed write stays completed as long as no write is pending before and
\* the history only grows.
LEMMA DoneGrows ==
    ASSUME IInv, NEW w, Done(w), NEW v \in Frames \cup BareFrames,
           written' = Append(written, v), writing = None, ~failed
    PROVE  Done(w)'
<1>1. PICK i \in 1..Len(written) : written[i] = w
  BY DEF Done
<1>2. Len(written') = Len(written) + 1 /\ Len(written) \in Nat /\ written'[i] = written[i]
  BY Grown DEF IInv
<1>3. i \in 1..Len(written') /\ i # Len(written')
  BY <1>2
<1> QED BY <1>1, <1>2, <1>3 DEF Done

\* A step that completes nothing.
LEMMA DoneKept ==
    ASSUME NEW w, Done(w), UNCHANGED written,
           (writing = None /\ ~failed) => (writing' = None /\ ~failed')
    PROVE  Done(w)'
BY DEF Done

\* A step that acknowledges nothing.
LEMMA AcksKept ==
    ASSUME AckMeansWritten, UNCHANGED <<written, acks>>,
           (writing = None /\ ~failed) => (writing' = None /\ ~failed')
    PROVE  AckMeansWritten'
BY DEF AckMeansWritten

\* Nothing is acknowledged at first, and each step acknowledges only what is done.
LEMMA InitAInv == Init => AInv
BY InitIInv, Kinds DEF AInv, Init, Recorded, AckMeansWritten, Sequenced

LEMMA ClaimAInv == ASSUME AInv, NEW s \in Streams, Claim(s) \/ Handoff(s) PROVE AInv'
<1>1. IInv'
  BY ClaimIInv, HandoffIInv DEF AInv
<1>2. UNCHANGED <<written, acks, writing, failed>>
  BY DEF Claim, Handoff, history
<1>3. AckMeansWritten'
  BY <1>2, AcksKept DEF AInv
<1>4. writing' = None /\ ~Sequenced'
  BY Kinds DEF Claim, Handoff, Admitting, Sequenced
<1>5. CASE stream' = stream /\ acked' = acked /\ hashes' = hashes
  <2>1. ASSUME NEW m \in 1..acked, acked - m < InputWindow
        PROVE  Done([stream |-> stream, seq |-> m, data |-> hashes[m % InputWindow]])'
    BY <2>1, <1>2, <1>5 DEF AInv, Recorded, Done
  <2> QED BY <1>1, <1>3, <1>4, <1>5, <2>1 DEF AInv, Recorded
<1>6. CASE acked' = 0
  BY <1>1, <1>3, <1>4, <1>6 DEF AInv, Recorded
<1> QED
  <2>1. Claim(s) /\ stream = None => acked' = 0
    BY DEF Claim, AInv, IInv, Fencing
  <2> QED BY <1>5, <1>6, <2>1 DEF Claim, Handoff

LEMMA ReplayAInv == ASSUME AInv, NEW f \in Frames, Replay(f) PROVE AInv'
<1>1. IInv'
  BY ReplayIInv DEF AInv
<1>2. acked \in Nat /\ f.seq \in 1..acked /\ stream = f.stream
  BY DEF AInv, IInv, Fencing, TypeOK, Replay, IsReplay, Frames
<1>3. f = [stream |-> stream, seq |-> f.seq, data |-> hashes[f.seq % InputWindow]]
  BY <1>2 DEF Replay, IsReplay, Frames
<1>4. Done(f)
  BY <1>2, <1>3 DEF AInv, Recorded, Replay, IsReplay
<1>5. Recorded'
  BY DEF AInv, Recorded, Done, Replay, Sequenced
<1>6. AckMeansWritten'
  BY <1>4 DEF AInv, AckMeansWritten, Done, Replay
<1> QED BY <1>1, <1>5, <1>6 DEF AInv

\* A complete write puts its hash into the slot of the frame that leaves the window.
LEMMA DoneAInv == ASSUME AInv, WriteDone PROVE AInv'
<1> DEFINE n == acked + 1
<1>1. IInv'
  BY OutcomeIInv DEF AInv
<1>2. /\ Sequenced /\ writing.stream = stream /\ writing.seq = n /\ ~failed
      /\ acked \in Nat /\ Len(written) > 0 /\ Len(written) \in Nat
      /\ written[Len(written)] = writing
      /\ writing # None
  BY Kinds DEF AInv, IInv, OneWrite, Recorded, Sequenced, WriteDone, TypeOK
<1>w. PICK w : w = writing
  OBVIOUS
<1>3. /\ hashes' = [hashes EXCEPT ![n % InputWindow] = w.data]
      /\ acked' = n /\ stream' = stream /\ writing' = None /\ ~failed'
      /\ acks' = acks \cup {w} /\ written' = written
  BY <1>2, <1>w DEF WriteDone
<1>4. ASSUME NEW v, Done(v) PROVE Done(v)'
  BY <1>4, <1>3, DoneKept
<1>5. Done(w)'
  BY <1>2, <1>3, <1>w DEF Done
<1>6. n % InputWindow \in 0..(InputWindow - 1) /\ n \in Nat
  BY <1>2, BoundsAssumption
<1>7. w = [stream |-> stream, seq |-> n, data |-> w.data]
  BY <1>2, <1>w DEF Sequenced, Frames
<1> HIDE DEF n
<1>8. ASSUME NEW m \in 1..n, n - m < InputWindow
      PROVE  Done([stream |-> stream, seq |-> m, data |-> hashes[m % InputWindow]])'
  <2>1. CASE m = n
    <3>1. hashes'[n % InputWindow] = w.data
      BY <1>3, <1>6 DEF AInv, IInv, TypeOK
    <3> QED BY <2>1, <3>1, <1>3, <1>5, <1>7
  <2>2. CASE m # n
    <3>1. m \in 1..acked /\ acked - m < InputWindow
      BY <2>2, <1>8, <1>2, BoundsAssumption DEF n
    <3>2. m % InputWindow # n % InputWindow
      <4>1. m \in Nat /\ m < n /\ n - m < InputWindow /\ InputWindow \in Nat \ {0}
        BY <2>2, <1>8, <1>6, BoundsAssumption
      <4> QED BY <4>1, <1>6, SlotsDiffer
    <3>3. hashes'[m % InputWindow] = hashes[m % InputWindow]
      <4>1. m % InputWindow \in 0..(InputWindow - 1)
        BY BoundsAssumption
      <4> QED BY <4>1, <3>2, <1>3, <1>6 DEF AInv, IInv, TypeOK
    <3>4. Done([stream |-> stream, seq |-> m, data |-> hashes[m % InputWindow]])
      BY <3>1 DEF AInv, Recorded
    <3> QED BY <3>3, <3>4, <1>3, <1>4
  <2> QED BY <2>1, <2>2
<1>9. Recorded'
  BY <1>3, <1>8, Kinds DEF Recorded, Sequenced
<1>10. AckMeansWritten'
  <2>1. \A f \in acks : Done(f)
    BY DEF AInv, AckMeansWritten, Done
  <2>2. ASSUME NEW f \in acks' PROVE Done(f)'
    <3>1. CASE f \in acks
      BY <2>1, <3>1, <1>4
    <3>2. CASE f = w
      BY <3>2, <1>5
    <3> QED BY <3>1, <3>2, <1>3
  <2> QED BY <2>2 DEF AckMeansWritten, Done
<1> QED BY <1>1, <1>9, <1>10 DEF AInv

LEMMA UncertainAInv == ASSUME AInv, WriteUncertain \/ EndBare PROVE AInv'
<1>1. IInv'
  BY OutcomeIInv DEF AInv
<1>2. /\ UNCHANGED <<stream, acked, hashes, written, acks>>
      /\ writing # None /\ writing' = None /\ ~Sequenced'
  BY Kinds DEF WriteUncertain, Freeze, EndBare, Sequenced, history
<1>3. Recorded'
  BY <1>2 DEF AInv, Recorded, Done
<1>4. AckMeansWritten'
  BY <1>2, AcksKept DEF AInv
<1> QED BY <1>1, <1>3, <1>4 DEF AInv

\* A write that begins acknowledges nothing yet.
LEMMA WriteAInv == ASSUME AInv, NEW f \in Frames, BeginWrite(f) PROVE AInv'
<1>1. IInv'
  BY WriteIInv DEF AInv
<1>2. /\ written' = Append(written, f) /\ writing = None /\ ~failed /\ writing' = f
      /\ UNCHANGED <<acked, hashes, acks>>
      /\ stream' = f.stream /\ stream \in {None, f.stream}
  BY DEF BeginWrite, Admitting
<1>3. ASSUME NEW w, Done(w) PROVE Done(w)'
  BY <1>2, <1>3, DoneGrows DEF AInv
<1>4. \A m \in 1..acked : acked - m < InputWindow =>
          Done([stream |-> stream, seq |-> m, data |-> hashes[m % InputWindow]])'
  <2>1. stream = None => acked = 0
    BY DEF AInv, IInv, Fencing
  <2>2. CASE stream = f.stream
    <3>1. \A m \in 1..acked : acked - m < InputWindow =>
              Done([stream |-> stream, seq |-> m, data |-> hashes[m % InputWindow]])
      BY DEF AInv, Recorded
    <3>2. UNCHANGED <<stream, hashes>>
      BY <1>2, <2>2
    <3> QED BY <3>1, <3>2, <1>3
  <2>3. CASE stream = None
    BY <2>1, <2>3
  <2> QED BY <1>2, <2>2, <2>3
<1>5. Len(written') > 0 /\ written'[Len(written')] = writing'
  BY <1>2, Grown DEF AInv, IInv
<1>6. Recorded'
  BY <1>2, <1>4, <1>5 DEF Recorded
<1>7. AckMeansWritten'
  <2>1. \A g \in acks : Done(g)
    BY DEF AInv, AckMeansWritten, Done
  <2> QED BY <2>1, <1>2, <1>3 DEF AckMeansWritten, Done
<1> QED BY <1>1, <1>6, <1>7 DEF AInv

LEMMA BareAInv == ASSUME AInv, NEW d \in Data, BeginBare(d) PROVE AInv'
<1>1. IInv'
  BY BareIInv DEF AInv
<1>2. stream = None /\ acked = 0 /\ ~failed
  BY DEF AInv, IInv, Fencing, BeginBare, BareAllowed
<1>3. /\ written' = Append(written, Bare(d)) /\ writing = None /\ Bare(d) \in BareFrames
      /\ writing' = Bare(d) /\ UNCHANGED <<acked, acks>>
  BY DEF BeginBare, BareAllowed, Admitting, BareFrames
<1>4. Recorded'
  BY <1>2, <1>3, Kinds DEF Recorded, Sequenced
<1>5. AckMeansWritten'
  <2>1. \A g \in acks : Done(g)
    BY DEF AInv, AckMeansWritten, Done
  <2>2. \A g \in acks : Done(g)'
    BY <2>1, <1>2, <1>3, DoneGrows DEF AInv
  <2> QED BY <2>2, <1>3 DEF AckMeansWritten, Done
<1> QED BY <1>1, <1>4, <1>5 DEF AInv

LEMMA EndAInv == ASSUME AInv, EndOfSession \/ UNCHANGED vars PROVE AInv'
<1>1. IInv'
  BY EndIInv DEF AInv
<1> QED BY <1>1, AcksKept DEF AInv, Recorded, Done, Sequenced, EndOfSession, vars, history

\* Every step keeps it.
LEMMA NextAInv == AInv /\ [Next]_vars => AInv'
<1> SUFFICES ASSUME AInv, [Next]_vars PROVE AInv'
  OBVIOUS
<1>1. ASSUME NEW s \in Streams, Claim(s) \/ Handoff(s) PROVE AInv'
  BY <1>1, ClaimAInv
<1>2. ASSUME NEW f \in Frames, Replay(f) \/ BeginWrite(f) PROVE AInv'
  BY <1>2, ReplayAInv, WriteAInv
<1>3. ASSUME NEW d \in Data, BeginBare(d) PROVE AInv'
  BY <1>3, BareAInv
<1>4. CASE WriteDone \/ WriteUncertain \/ EndBare
  BY <1>4, DoneAInv, UncertainAInv
<1>5. CASE EndOfSession \/ UNCHANGED vars
  BY <1>5, EndAInv
<1> QED BY <1>1, <1>2, <1>3, <1>4, <1>5 DEF Next

(***************************************************************************)
(* What the owner acknowledges it has written completely, with these       *)
(* bytes; this holds for every size of the hash window.                    *)
(***************************************************************************)
THEOREM AckCorrect == Spec => []AckMeansWritten
<1>1. Spec => []AInv
  BY InitAInv, NextAInv, PTL DEF Spec
<1>2. AInv => AckMeansWritten
  BY DEF AInv
<1> QED BY <1>1, <1>2, PTL
-----------------------------------------------------------------------------
(***************************************************************************)
(* TaskInput.  An acknowledgement is true wherever it stands: what a       *)
(* sequencer has counted, what a reply on its way says and what the page   *)
(* has dropped from its window are complete.  An answer reaches a page only*)
(* within the attempt that sent the call, and then the call carries a frame*)
(* of the page's present stream.                                           *)
(***************************************************************************)

AllStreams == Pages \X Nat
AnyFrame == [stream : AllStreams, seq : Nat]
AnyCall == [page : Pages, conn : Nat, frame : AnyFrame, at : Epochs]
AnyReply == [type : {"ack", "retry", "fatal"}, seq : Nat, epoch : Nat]
Writers == [link : {"down", "claiming", "ready", "posting", "stopped"},
            mode : {"duplex", "post"}, life : Nat, epoch : Nat, sequence : Nat,
            acked : Nat, queue : Nat, typed : Nat, postClaimed : BOOLEAN,
            everReady : BOOLEAN, retries : Nat, conn : Nat]

\* A writer's window: what it has framed and not seen acknowledged.
InWindow(w) == w.acked <= w.sequence /\ w.sequence - w.acked <= Window

\* A frame that comes late, of attempt conn.
Latecomers == [page : Pages, conn : Nat, frame : AnyFrame]

AgentTypes ==
    /\ created \in 0..MaxEpochs /\ entry \in 0..created
    /\ sequencer \in [Epochs -> [stream : AllStreams \cup {Nothing}, acked : Nat,
                                 failed : BOOLEAN]]
    /\ holder \in [Epochs -> {Nothing} \cup [call : AnyCall, result : Results]]
    /\ calls \subseteq AnyCall

PageTypes ==
    /\ page \in [Pages -> Writers]
    /\ \A p \in Pages : InWindow(page[p])
    /\ relay \in [Pages -> Seq(AnyFrame)]
    /\ replies \in [Pages -> Seq(AnyReply)]

\* What comes late is of an attempt its page has given up.
LateFits ==
    \A l \in late : l \in Latecomers /\ l.conn <= page[l.page].conn /\ ~Current(l)

\* The frames of stream s up to number n have been written completely.
Whole(s, n) == \A k \in 1..n : [stream |-> s, seq |-> k] \in complete

\* A call of a page's present attempt carries a frame of its present stream.
Fits(c) ==
    /\ c.conn <= page[c.page].conn /\ c.at <= created
    /\ Current(c) => c.frame.stream = Stream(c.page)

RelayFits == \A p \in Pages : \A i \in 1..Len(relay[p]) : relay[p][i].stream = Stream(p)

CallsFit ==
    /\ \A c \in calls : Fits(c)
    /\ \A e \in Epochs : holder[e] # Nothing => Fits(holder[e].call)

\* The gate is held for the next frame of the sequencer's stream.
HolderIsNext ==
    \A e \in Epochs : holder[e] # Nothing =>
        LET f == holder[e].call.frame
        IN  /\ holder[e].call.at = e
            /\ sequencer[e].stream = f.stream /\ f.seq = sequencer[e].acked + 1

CountIsWhole == \A e \in Epochs : Whole(sequencer[e].stream, sequencer[e].acked)

\* An acknowledgement on its way speaks of complete frames only.
ReplyIsWhole ==
    \A p \in Pages : \A i \in 1..Len(replies[p]) :
        replies[p][i].type = "ack" => Whole(Stream(p), replies[p][i].seq)

TaskInv == /\ AgentTypes /\ PageTypes
           /\ RelayFits /\ LateFits /\ CallsFit /\ HolderIsNext /\ CountIsWhole /\ ReplyIsWhole
           /\ AckedIsComplete

-----------------------------------------------------------------------------
\* Field by field, a writer with one field changed is a writer.
LEMMA Updates ==
    ASSUME NEW w \in Writers
    PROVE  /\ \A x \in {"down", "claiming", "ready", "posting", "stopped"} :
                 [w EXCEPT !.link = x] \in Writers
           /\ \A x \in {"duplex", "post"} : [w EXCEPT !.mode = x] \in Writers
           /\ \A x \in Nat : [w EXCEPT !.queue = x] \in Writers
           /\ \A x \in Nat : [w EXCEPT !.retries = x] \in Writers
           /\ \A x \in Nat : [w EXCEPT !.conn = x] \in Writers
           /\ \A x \in Nat : [w EXCEPT !.typed = x] \in Writers
           /\ \A x \in Nat : [w EXCEPT !.epoch = x] \in Writers
           /\ \A x \in Nat : [w EXCEPT !.acked = x] \in Writers
           /\ \A x \in Nat : [w EXCEPT !.sequence = x] \in Writers
           /\ \A x \in Nat : [w EXCEPT !.life = x] \in Writers
           /\ [w EXCEPT !.postClaimed = TRUE] \in Writers
           /\ [w EXCEPT !.postClaimed = FALSE] \in Writers
           /\ [w EXCEPT !.everReady = TRUE] \in Writers
<1>1. \A x \in {"down", "claiming", "ready", "posting", "stopped"} :
         [w EXCEPT !.link = x] \in Writers
  BY DEF Writers
<1>2. \A x \in {"duplex", "post"} : [w EXCEPT !.mode = x] \in Writers
  BY DEF Writers
<1>3. \A x \in Nat : [w EXCEPT !.queue = x] \in Writers
  BY DEF Writers
<1>4. \A x \in Nat : [w EXCEPT !.retries = x] \in Writers
  BY DEF Writers
<1>5. \A x \in Nat : [w EXCEPT !.conn = x] \in Writers
  BY DEF Writers
<1>6. \A x \in Nat : [w EXCEPT !.typed = x] \in Writers
  BY DEF Writers
<1>7. \A x \in Nat : [w EXCEPT !.epoch = x] \in Writers
  BY DEF Writers
<1>8. \A x \in Nat : [w EXCEPT !.acked = x] \in Writers
  BY DEF Writers
<1>9. \A x \in Nat : [w EXCEPT !.sequence = x] \in Writers
  BY DEF Writers
<1>10. \A x \in Nat : [w EXCEPT !.life = x] \in Writers
  BY DEF Writers
<1>11. /\ [w EXCEPT !.postClaimed = TRUE] \in Writers
       /\ [w EXCEPT !.postClaimed = FALSE] \in Writers
  BY DEF Writers
<1>12. [w EXCEPT !.everReady = TRUE] \in Writers
  BY DEF Writers
<1> QED BY <1>1, <1>2, <1>3, <1>4, <1>5, <1>6, <1>7, <1>8, <1>9, <1>10, <1>11, <1>12

\* fillWindow frames queued text within the window and touches nothing else.
LEMMA FilledKeeps ==
    ASSUME NEW w \in Writers, InWindow(w)
    PROVE  /\ Filled(w) \in Writers /\ InWindow(Filled(w))
           /\ \A f \in {"link", "mode", "life", "epoch", "acked", "typed", "postClaimed",
                        "everReady", "retries", "conn"} : Filled(w)[f] = w[f]
           /\ Filled(w).sequence >= w.sequence
<1> DEFINE room == Window - (w.sequence - w.acked)
           n == IF w.queue < room THEN w.queue ELSE room
<1>1. room \in Nat
  BY WindowAssumption DEF Writers, InWindow
<1>2. n \in Nat /\ n <= w.queue /\ n <= room
  BY <1>1 DEF Writers
<1>3. Filled(w) = [w EXCEPT !.sequence = @ + n, !.queue = @ - n]
  BY DEF Filled
<1> HIDE DEF n
<1>4. w.sequence + n \in Nat /\ w.queue - n \in Nat
  BY <1>2 DEF Writers
<1>5. Filled(w) \in Writers
  BY <1>3, <1>4 DEF Writers
<1>6. Filled(w).sequence = w.sequence + n /\ Filled(w).acked = w.acked
  BY <1>3 DEF Writers
<1>7. InWindow(Filled(w))
  BY <1>2, <1>6, WindowAssumption DEF InWindow, Writers
<1>8. \A f \in {"link", "mode", "life", "epoch", "acked", "typed", "postClaimed",
                "everReady", "retries", "conn"} : Filled(w)[f] = w[f]
  BY <1>3 DEF Writers
<1>9. Filled(w).sequence >= w.sequence
  BY <1>2, <1>6 DEF Writers
<1> QED BY <1>5, <1>7, <1>8, <1>9

\* What disconnect keeps of a writer, and that another attempt has a new number.
LEMMA DisconnectedKeeps ==
    ASSUME NEW w \in Writers, InWindow(w)
    PROVE  /\ Disconnected(w) \in Writers /\ InWindow(Disconnected(w))
           /\ Disconnected(w).life = w.life /\ Disconnected(w).acked = w.acked
           /\ Disconnected(w).link = "stopped" \/ Disconnected(w).conn = w.conn + 1
           /\ Disconnected(w).conn >= w.conn
<1>1. CASE w.retries >= MaxRetries
  <2>1. Disconnected(w) = [w EXCEPT !.link = "stopped", !.queue = 0]
    BY <1>1 DEF Disconnected, Stopped
  <2>2. Disconnected(w) \in Writers
    <3> DEFINE v == [w EXCEPT !.link = "stopped"]
    <3>1. v \in Writers
      BY Updates
    <3>2. [v EXCEPT !.queue = 0] \in Writers
      BY <3>1, Updates
    <3> QED BY <2>1, <3>2
  <2>3. /\ Disconnected(w).link = "stopped" /\ Disconnected(w).life = w.life
        /\ Disconnected(w).acked = w.acked /\ Disconnected(w).conn = w.conn
        /\ Disconnected(w).sequence = w.sequence
    BY <2>1 DEF Writers
  <2>4. w.conn \in Nat
    BY DEF Writers
  <2> QED BY <2>2, <2>3, <2>4 DEF InWindow
<1>2. CASE ~(w.retries >= MaxRetries)
  <2> DEFINE m == IF w.mode = "duplex" /\ (w.sequence > w.acked \/ ~w.everReady)
                  THEN "post" ELSE w.mode
  <2>1. m \in {"duplex", "post"}
    BY DEF Writers
  <2>2. Disconnected(w) = [w EXCEPT !.mode = m, !.link = "down", !.retries = @ + 1,
                                    !.conn = @ + 1]
    BY <1>2 DEF Disconnected
  <2> HIDE DEF m
  <2>3. Disconnected(w) \in Writers
    <3> DEFINE w1 == [w EXCEPT !.mode = m]
               w2 == [w1 EXCEPT !.link = "down"]
               w3 == [w2 EXCEPT !.retries = w.retries + 1]
    <3>1. w.retries + 1 \in Nat /\ w.conn + 1 \in Nat
      BY DEF Writers
    <3>2. w1 \in Writers
      BY <2>1, Updates
    <3>3. w2 \in Writers
      BY <3>2, Updates
    <3>4. w3 \in Writers
      BY <3>1, <3>3, Updates
    <3>5. [w3 EXCEPT !.conn = w.conn + 1] \in Writers
      BY <3>1, <3>4, Updates
    <3>6. Disconnected(w) = [w3 EXCEPT !.conn = w.conn + 1]
      BY <2>2 DEF Writers
    <3> QED BY <3>5, <3>6
  <2>4. /\ Disconnected(w).life = w.life /\ Disconnected(w).sequence = w.sequence
        /\ Disconnected(w).acked = w.acked /\ Disconnected(w).conn = w.conn + 1
    BY <2>2 DEF Writers
  <2>5. w.conn \in Nat
    BY DEF Writers
  <2> QED BY <2>3, <2>4, <2>5 DEF InWindow
<1> QED BY <1>1, <1>2

\* The frames a page sends are frames of its present stream.
LEMMA FramesFit ==
    ASSUME NEW p \in Pages, page \in [Pages -> Writers], NEW first \in Nat \ {0}, NEW last \in Nat,
           last >= first - 1
    PROVE  /\ FramesOf(p, first, last) \in Seq(AnyFrame)
           /\ \A i \in 1..Len(FramesOf(p, first, last)) :
                 FramesOf(p, first, last)[i].stream = Stream(p)
<1> DEFINE n == last + 1 - first
           F(i) == [stream |-> Stream(p), seq |-> first + i - 1]
<1>1. n \in Nat /\ FramesOf(p, first, last) = [i \in 1..n |-> F(i)]
  BY DEF FramesOf
<1>2. Stream(p) \in AllStreams
  BY DEF Stream, AllStreams, Writers
<1>3. \A i \in 1..n : F(i) \in AnyFrame /\ F(i).stream = Stream(p)
  BY <1>1, <1>2 DEF AnyFrame
<1> HIDE DEF n, F
<1>4. [i \in 1..n |-> F(i)] \in Seq(AnyFrame) /\ Len([i \in 1..n |-> F(i)]) = n
  BY <1>1, <1>3, IsASeq, LenProperties
<1> QED BY <1>1, <1>3, <1>4

\* What a step of page p keeps.
LEMMA PageMoves ==
    ASSUME TaskInv, NEW p \in Pages, NEW w \in Writers, InWindow(w),
           NEW sent \in Seq(AnyFrame), NEW told \in Seq(AnyReply),
           \A i \in 1..Len(sent) : sent[i].stream = <<p, w.life>>,
           \A i \in 1..Len(told) : told[i].type = "ack" => Whole(<<p, w.life>>, told[i].seq),
           w.conn >= page[p].conn,
           w.conn = page[p].conn /\ w.link # "stopped"
             => w.life = page[p].life /\ page[p].link # "stopped",
           Whole(<<p, w.life>>, w.acked),
           page' = [page EXCEPT ![p] = w], relay' = [relay EXCEPT ![p] = sent],
           replies' = [replies EXCEPT ![p] = told], UNCHANGED <<agentVars, taskHistory>>,
           \A l \in late' :
              \/ l \in late
              \/ /\ l \in Latecomers /\ l.page = p /\ l.conn = page[p].conn
                 /\ w.conn > page[p].conn \/ w.link = "stopped"
    PROVE  TaskInv'
<1> USE DEF TaskInv
<1>1. /\ created' = created /\ entry' = entry /\ sequencer' = sequencer
      /\ holder' = holder /\ calls' = calls /\ complete' = complete
  BY DEF agentVars, taskHistory
<1>2. page'[p] = w /\ \A q \in Pages \ {p} : page'[q] = page[q]
  BY DEF PageTypes
<1>3. relay'[p] = sent /\ \A q \in Pages \ {p} : relay'[q] = relay[q]
  BY DEF PageTypes
<1>4. replies'[p] = told /\ \A q \in Pages \ {p} : replies'[q] = replies[q]
  BY DEF PageTypes
<1>5. AgentTypes'
  BY <1>1 DEF AgentTypes
<1>6. PageTypes'
  <2>1. page' \in [Pages -> Writers] /\ relay' \in [Pages -> Seq(AnyFrame)]
        /\ replies' \in [Pages -> Seq(AnyReply)]
    BY DEF PageTypes
  <2>2. \A q \in Pages : InWindow(page'[q])
    BY <1>2 DEF PageTypes
  <2> QED BY <2>1, <2>2 DEF PageTypes, InWindow
<1>7. RelayFits'
  BY <1>2, <1>3 DEF RelayFits, Stream
<1>8. ASSUME NEW c \in AnyCall, Fits(c) PROVE Fits(c)'
  <2>1. CASE c.page = p
    <3>1. c.conn \in Nat /\ page[p].conn \in Nat /\ w.conn \in Nat
      BY DEF AnyCall, PageTypes, Writers
    <3>2. c.conn <= page[p].conn /\ c.at <= created
      BY <1>8, <2>1 DEF Fits
    <3>3. c.conn <= w.conn
      BY <3>1, <3>2
    <3>4. ASSUME w.conn = c.conn, w.link # "stopped" PROVE c.frame.stream = <<p, w.life>>
      <4>1. w.conn = page[p].conn
        BY <3>1, <3>2, <3>4
      <4>2. Current(c)
        BY <2>1, <3>4, <4>1 DEF Current
      <4> QED BY <1>8, <2>1, <3>4, <4>1, <4>2 DEF Fits, Stream
    <3> QED BY <1>1, <1>2, <2>1, <3>2, <3>3, <3>4 DEF Fits, Current, Stream
  <2>2. CASE c.page # p
    BY <1>1, <1>2, <1>8, <2>2 DEF Fits, Current, Stream, AnyCall
  <2> QED BY <2>1, <2>2
<1>9. CallsFit'
  <2>1. \A c \in calls : Fits(c)'
    BY <1>8 DEF CallsFit, AgentTypes
  <2>2. \A e \in Epochs : holder[e] # Nothing
          => LET c == holder[e].call IN
             /\ c.conn <= page'[c.page].conn /\ c.at <= created'
             /\ page'[c.page].conn = c.conn /\ page'[c.page].link # "stopped"
                  => c.frame.stream = <<c.page, page'[c.page].life>>
    <3>1. \A e \in Epochs : holder[e] # Nothing => holder[e].call \in AnyCall
      BY DEF AgentTypes
    <3>2. ASSUME NEW c \in AnyCall, Fits(c)
          PROVE  /\ c.conn <= page'[c.page].conn /\ c.at <= created'
                 /\ page'[c.page].conn = c.conn /\ page'[c.page].link # "stopped"
                      => c.frame.stream = <<c.page, page'[c.page].life>>
      BY <1>8, <3>2 DEF Fits, Current, Stream
    <3> QED BY <3>1, <3>2 DEF CallsFit
  <2>3. calls' = calls /\ holder' = holder /\ Epochs' = Epochs
    BY <1>1 DEF Epochs
  <2> HIDE DEF TaskInv
  <2> QED BY <2>1, <2>2, <2>3 DEF CallsFit, Fits, Current, Stream
<1>10. HolderIsNext' /\ CountIsWhole'
  BY <1>1 DEF HolderIsNext, CountIsWhole, Whole
<1>11. ReplyIsWhole'
  <2>1. ASSUME NEW q \in Pages, NEW i \in 1..Len(replies'[q]), replies'[q][i].type = "ack"
        PROVE  Whole(Stream(q), replies[q][i].seq)'
    <3>1. CASE q = p
      <4>1. i \in 1..Len(told) /\ told[i].type = "ack" /\ replies'[q][i] = told[i]
        BY <1>4, <2>1, <3>1
      <4>2. Whole(<<p, w.life>>, told[i].seq)
        BY <4>1
      <4> HIDE DEF TaskInv
      <4> QED BY <1>1, <1>2, <3>1, <4>1, <4>2 DEF Whole, Stream
    <3>2. CASE q # p
      BY <1>1, <1>2, <1>4, <2>1, <3>2 DEF ReplyIsWhole, Whole, Stream
    <3> QED BY <3>1, <3>2
  <2> QED BY <2>1 DEF ReplyIsWhole
<1>12. AckedIsComplete'
  <2>1. ASSUME NEW q \in Pages PROVE Whole(<<q, page'[q].life>>, page'[q].acked)
    BY <1>2 DEF AckedIsComplete, Whole, Stream
  <2> QED BY <1>1, <2>1 DEF AckedIsComplete, Whole, Stream
<1>13. LateFits'
  <2>1. w.conn \in Nat /\ page[p].conn \in Nat
    BY DEF PageTypes, Writers
  <2>2. ASSUME NEW l \in late'
        PROVE  /\ l \in Latecomers /\ l.conn <= page'[l.page].conn
               /\ ~(page'[l.page].conn = l.conn /\ page'[l.page].link # "stopped")
    <3>1. CASE l \in late /\ l.page = p
      <4>1. /\ l \in Latecomers /\ l.conn \in Nat /\ l.conn <= page[p].conn
            /\ ~(page[p].conn = l.conn /\ page[p].link # "stopped")
        BY <3>1 DEF LateFits, Current, Latecomers
      <4> QED BY <1>2, <2>1, <3>1, <4>1
    <3>2. CASE l \in late /\ l.page # p
      <4>1. /\ l \in Latecomers /\ l.page \in Pages /\ l.conn <= page[l.page].conn
            /\ ~(page[l.page].conn = l.conn /\ page[l.page].link # "stopped")
        BY <3>2 DEF LateFits, Current, Latecomers
      <4> QED BY <1>2, <3>2, <4>1
    <3>3. CASE l \notin late
      BY <1>2, <2>1, <3>3
    <3> QED BY <3>1, <3>2, <3>3
  <2> QED BY <2>2 DEF LateFits, Current
<1> QED BY <1>5, <1>6, <1>7, <1>9, <1>10, <1>11, <1>12, <1>13

\* The same for a page that goes on with an empty relay and no replies.
LEMMA PageRests ==
    ASSUME TaskInv, NEW p \in Pages, NEW w \in Writers, InWindow(w), Becomes(p, w, <<>>), Silent(p),
           w.conn = page[p].conn, w.life = page[p].life, page[p].link # "stopped",
           Whole(<<p, w.life>>, w.acked)
    PROVE  TaskInv'
<1>1. <<>> \in Seq(AnyFrame) /\ <<>> \in Seq(AnyReply) /\ Len(<<>>) = 0
  BY EmptySeq
<1>2. /\ \A i \in 1..Len(<<>>) : <<>>[i].stream = <<p, w.life>>
      /\ \A i \in 1..Len(<<>>) : <<>>[i].type = "ack" => Whole(<<p, w.life>>, <<>>[i].seq)
  BY <1>1
<1>3. /\ page' = [page EXCEPT ![p] = w] /\ relay' = [relay EXCEPT ![p] = <<>>]
      /\ replies' = [replies EXCEPT ![p] = <<>>] /\ UNCHANGED <<agentVars, taskHistory>>
      /\ late' = late
  BY DEF Becomes, Silent
<1>4. w.conn >= page[p].conn
  BY DEF TaskInv, PageTypes, Writers
<1> QED BY <1>1, <1>2, <1>3, <1>4, PageMoves

\* And for one that gives its attempt up: it has another number or has stopped.
LEMMA PageRestarts ==
    ASSUME TaskInv, NEW p \in Pages, NEW w \in Writers, InWindow(w), GivesUp(p, w),
           w.conn >= page[p].conn, w.conn > page[p].conn \/ w.link = "stopped",
           Whole(<<p, w.life>>, w.acked)
    PROVE  TaskInv'
<1>1. <<>> \in Seq(AnyFrame) /\ <<>> \in Seq(AnyReply) /\ Len(<<>>) = 0
  BY EmptySeq
<1>2. /\ \A i \in 1..Len(<<>>) : <<>>[i].stream = <<p, w.life>>
      /\ \A i \in 1..Len(<<>>) : <<>>[i].type = "ack" => Whole(<<p, w.life>>, <<>>[i].seq)
  BY <1>1
<1>3. /\ page' = [page EXCEPT ![p] = w] /\ relay' = [relay EXCEPT ![p] = <<>>]
      /\ replies' = [replies EXCEPT ![p] = <<>>] /\ UNCHANGED <<agentVars, taskHistory>>
  BY DEF GivesUp
<1>4. page[p].conn \in Nat /\ relay[p] \in Seq(AnyFrame)
  BY DEF TaskInv, PageTypes, Writers
<1>5. \A i \in 1..Len(relay[p]) : relay[p][i] \in AnyFrame
  BY <1>4, ElementOfSeq
<1>6. ASSUME NEW l \in late', l \notin late
      PROVE  l \in Latecomers /\ l.page = p /\ l.conn = page[p].conn
  <2>1. PICK i \in 1..Len(relay[p]) :
            l = [page |-> p, conn |-> page[p].conn, frame |-> relay[p][i]]
    BY <1>6 DEF GivesUp
  <2> QED BY <1>4, <1>5, <2>1 DEF Latecomers
<1>7. w.conn = page[p].conn /\ w.link # "stopped"
        => w.life = page[p].life /\ page[p].link # "stopped"
  BY <1>4
<1> QED BY <1>1, <1>2, <1>3, <1>6, <1>7, PageMoves

\* What is known of a page before its step.
LEMMA Own ==
    ASSUME TaskInv, NEW p \in Pages
    PROVE  /\ page[p] \in Writers /\ InWindow(page[p])
           /\ page[p].conn \in Nat /\ page[p].life \in Nat /\ page[p].sequence \in Nat
           /\ page[p].acked \in Nat /\ page[p].acked <= page[p].sequence
           /\ Stream(p) = <<p, page[p].life>> /\ Whole(Stream(p), page[p].acked)
           /\ relay[p] \in Seq(AnyFrame) /\ replies[p] \in Seq(AnyReply)
           /\ \A i \in 1..Len(relay[p]) : relay[p][i].stream = Stream(p)
           /\ \A i \in 1..Len(replies[p]) :
                 replies[p][i].type = "ack" => Whole(Stream(p), replies[p][i].seq)
<1>1. page[p] \in Writers /\ InWindow(page[p]) /\ page[p].acked <= page[p].sequence
  BY DEF TaskInv, PageTypes, InWindow
<1>2. /\ page[p].conn \in Nat /\ page[p].life \in Nat /\ page[p].sequence \in Nat
      /\ page[p].acked \in Nat
  BY <1>1 DEF Writers
<1>3. Whole(Stream(p), page[p].acked)
  BY DEF TaskInv, AckedIsComplete, Whole
<1>4. relay[p] \in Seq(AnyFrame) /\ replies[p] \in Seq(AnyReply)
  BY DEF TaskInv, PageTypes
<1> QED BY <1>1, <1>2, <1>3, <1>4 DEF TaskInv, RelayFits, ReplyIsWhole, Stream

\* The frames a page adds to those on their way.
LEMMA RelayGrows ==
    ASSUME TaskInv, NEW p \in Pages, NEW last \in Nat, last >= page[p].sequence
    PROVE  LET sent == relay[p] \o FramesOf(p, page[p].sequence + 1, last)
           IN  /\ sent \in Seq(AnyFrame)
               /\ \A i \in 1..Len(sent) : sent[i].stream = <<p, page[p].life>>
<1> DEFINE first == page[p].sequence + 1
           more == FramesOf(p, first, last)
<1>0. page[p].sequence \in Nat
  BY Own
<1>1. first \in Nat \ {0} /\ last >= first - 1
  BY <1>0
<1>2. more \in Seq(AnyFrame) /\ \A i \in 1..Len(more) : more[i].stream = Stream(p)
  <2>1. page \in [Pages -> Writers]
    BY DEF TaskInv, PageTypes
  <2> HIDE DEF first
  <2> QED BY <1>1, <2>1, FramesFit
<1>3. relay[p] \in Seq(AnyFrame) /\ \A i \in 1..Len(relay[p]) : relay[p][i].stream = Stream(p)
  BY Own
<1>4. Stream(p) = <<p, page[p].life>>
  BY Own
<1> HIDE DEF more
<1>5. /\ relay[p] \o more \in Seq(AnyFrame)
      /\ Len(relay[p] \o more) = Len(relay[p]) + Len(more)
      /\ \A i \in 1..Len(relay[p]) + Len(more) :
            (relay[p] \o more)[i] = IF i <= Len(relay[p]) THEN relay[p][i]
                                    ELSE more[i - Len(relay[p])]
  BY <1>2, <1>3, ConcatProperties
<1>6. Len(relay[p]) \in Nat /\ Len(more) \in Nat
  BY <1>2, <1>3, LenProperties
<1>7. ASSUME NEW i \in 1..Len(relay[p] \o more)
      PROVE  (relay[p] \o more)[i].stream = Stream(p)
  <2>1. CASE i <= Len(relay[p])
    BY <1>3, <1>5, <1>6, <2>1
  <2>2. CASE ~(i <= Len(relay[p]))
    <3>1. i - Len(relay[p]) \in 1..Len(more)
      BY <1>5, <1>6, <2>2
    <3> QED BY <1>2, <1>5, <1>6, <2>2, <3>1
  <2> QED BY <2>1, <2>2
<1> QED BY <1>4, <1>5, <1>7 DEF more

\* Each step of the page keeps TaskInv.
LEMMA TypeStep == ASSUME TaskInv, NEW p \in Pages, Type(p) PROVE TaskInv'
<1> DEFINE w == [page[p] EXCEPT !.typed = @ + 1, !.queue = @ + 1]
           f == IF w.link = "ready" THEN Filled(w) ELSE w
           sent == relay[p] \o FramesOf(p, w.sequence + 1, f.sequence)
<1>1. Becomes(p, f, sent) /\ replies' = replies /\ page[p].link # "stopped"
  BY DEF Type
<1>2. w \in Writers
  <2>1. page[p] \in Writers /\ page[p].typed + 1 \in Nat /\ page[p].queue + 1 \in Nat
    BY Own DEF Writers
  <2> DEFINE v == [page[p] EXCEPT !.typed = @ + 1]
  <2>2. v \in Writers
    BY <2>1, Updates
  <2>3. [v EXCEPT !.queue = page[p].queue + 1] \in Writers
    BY <2>1, <2>2, Updates
  <2>4. w = [v EXCEPT !.queue = page[p].queue + 1]
    BY <2>1 DEF Writers
  <2> QED BY <2>3, <2>4
<1>3. /\ w.link = page[p].link /\ w.sequence = page[p].sequence /\ w.acked = page[p].acked
      /\ w.life = page[p].life /\ w.conn = page[p].conn
  BY Own DEF Writers
<1>4. InWindow(w)
  BY <1>3, Own DEF InWindow
<1> HIDE DEF w
<1>5. /\ f \in Writers /\ InWindow(f) /\ f.link = page[p].link /\ f.acked = page[p].acked
      /\ f.life = page[p].life /\ f.conn = page[p].conn
      /\ f.sequence \in Nat /\ f.sequence >= page[p].sequence
  <2>1. CASE w.link = "ready"
    <3>1. /\ Filled(w) \in Writers /\ InWindow(Filled(w)) /\ Filled(w).link = w.link
          /\ Filled(w).acked = w.acked /\ Filled(w).life = w.life /\ Filled(w).conn = w.conn
          /\ Filled(w).sequence >= w.sequence
      BY <1>2, <1>4, FilledKeeps
    <3>2. Filled(w).sequence \in Nat
      BY <3>1 DEF Writers
    <3> QED BY <1>3, <2>1, <3>1, <3>2
  <2>2. CASE w.link # "ready"
    <3>1. page[p].sequence \in Nat
      BY Own
    <3> QED BY <1>2, <1>3, <1>4, <2>2, <3>1
  <2> QED BY <2>1, <2>2
<1> HIDE DEF f
<1>6. sent \in Seq(AnyFrame) /\ \A i \in 1..Len(sent) : sent[i].stream = <<p, f.life>>
  BY <1>3, <1>5, RelayGrows
<1>7. replies' = [replies EXCEPT ![p] = replies[p]]
  BY <1>1 DEF TaskInv, PageTypes
<1>8. /\ replies[p] \in Seq(AnyReply)
      /\ \A i \in 1..Len(replies[p]) :
            replies[p][i].type = "ack" => Whole(<<p, f.life>>, replies[p][i].seq)
      /\ Whole(<<p, f.life>>, f.acked)
  BY <1>5, Own
<1>9. f.conn >= page[p].conn
  BY <1>5, Own
<1>10. /\ page' = [page EXCEPT ![p] = f] /\ relay' = [relay EXCEPT ![p] = sent]
       /\ late' = late /\ UNCHANGED <<agentVars, taskHistory>>
  BY <1>1 DEF Becomes
<1> HIDE DEF sent
<1> QED BY <1>1, <1>5, <1>6, <1>7, <1>8, <1>9, <1>10, PageMoves

\* The connection breaks.
LEMMA DropStep ==
    ASSUME TaskInv, NEW p \in Pages, GivesUp(p, Disconnected(page[p]))
    PROVE  TaskInv'
<1> DEFINE w == Disconnected(page[p])
<1>1. /\ w \in Writers /\ InWindow(w) /\ w.life = page[p].life /\ w.acked = page[p].acked
      /\ w.link = "stopped" \/ w.conn = page[p].conn + 1
      /\ w.conn >= page[p].conn
  BY Own, DisconnectedKeeps
<1>2. Whole(<<p, w.life>>, w.acked)
  BY <1>1, Own
<1>3. w.conn > page[p].conn \/ w.link = "stopped"
  BY <1>1, Own
<1> HIDE DEF w
<1> QED BY <1>1, <1>2, <1>3, PageRestarts DEF w

\* A page that stops, its acknowledged frames complete.
LEMMA StopStep ==
    ASSUME TaskInv, NEW p \in Pages, NEW v \in Writers, InWindow(v),
           v.conn = page[p].conn, Whole(<<p, v.life>>, v.acked),
           GivesUp(p, Stopped(v))
    PROVE  TaskInv'
<1> DEFINE w == Stopped(v)
           u == [v EXCEPT !.link = "stopped"]
<1>1. u \in Writers
  BY Updates
<1>2. w \in Writers
  <2>1. [u EXCEPT !.queue = 0] \in Writers
    BY <1>1, Updates
  <2> QED BY <2>1 DEF Stopped
<1>3. /\ w.link = "stopped" /\ w.life = v.life /\ w.acked = v.acked /\ w.conn = v.conn
      /\ w.sequence = v.sequence
  BY DEF Stopped, Writers
<1>4. InWindow(w) /\ Whole(<<p, w.life>>, w.acked)
  BY <1>3 DEF InWindow
<1>5. w.conn >= page[p].conn
  BY <1>3, Own
<1> HIDE DEF w
<1> QED BY <1>2, <1>3, <1>4, <1>5, PageRestarts DEF w

LEMMA ConnectStep == ASSUME TaskInv, NEW p \in Pages, Connect(p) PROVE TaskInv'
<1> DEFINE w == [page[p] EXCEPT !.link = "claiming"]
           sent == <<[stream |-> Stream(p), seq |-> 0]>>
<1>1. Becomes(p, w, sent) /\ Silent(p) /\ page[p].link = "down"
  BY DEF Connect
<1>2. w \in Writers
  BY Own, Updates
<1>3. /\ w.link = "claiming" /\ w.life = page[p].life /\ w.conn = page[p].conn
      /\ w.acked = page[p].acked /\ w.sequence = page[p].sequence
  BY Own DEF Writers
<1>4. InWindow(w) /\ Whole(<<p, w.life>>, w.acked) /\ w.conn >= page[p].conn
  BY <1>3, Own DEF InWindow
<1>5. [stream |-> Stream(p), seq |-> 0] \in AnyFrame /\ Stream(p) = <<p, w.life>>
  BY <1>3, Own DEF AnyFrame, AllStreams
<1>6. /\ sent \in Seq(AnyFrame)
      /\ \A i \in 1..Len(sent) : sent[i].stream = <<p, w.life>>
  BY <1>5
<1>7. <<>> \in Seq(AnyReply) /\ Len(<<>>) = 0
  BY EmptySeq
<1>8. \A i \in 1..Len(<<>>) : <<>>[i].type = "ack" => Whole(<<p, w.life>>, <<>>[i].seq)
  BY <1>7
<1>9. /\ page' = [page EXCEPT ![p] = w] /\ relay' = [relay EXCEPT ![p] = sent]
      /\ replies' = [replies EXCEPT ![p] = <<>>] /\ UNCHANGED <<agentVars, taskHistory>>
      /\ late' = late
  BY <1>1 DEF Becomes, Silent
<1>10. w.life = page[p].life /\ page[p].link # "stopped"
  BY <1>1, <1>3
<1> HIDE DEF w, sent
<1> QED BY <1>2, <1>4, <1>6, <1>7, <1>8, <1>9, <1>10, PageMoves

\* The frames of a page from the first unacknowledged one on.
LEMMA PendingFit ==
    ASSUME TaskInv, NEW p \in Pages, NEW last \in Nat, last >= page[p].acked
    PROVE  LET sent == FramesOf(p, page[p].acked + 1, last)
           IN  /\ sent \in Seq(AnyFrame)
               /\ \A i \in 1..Len(sent) : sent[i].stream = <<p, page[p].life>>
<1> DEFINE first == page[p].acked + 1
<1>1. page[p].acked \in Nat /\ Stream(p) = <<p, page[p].life>>
  BY Own
<1>2. page \in [Pages -> Writers]
  BY DEF TaskInv, PageTypes
<1>3. first \in Nat \ {0} /\ last >= first - 1
  BY <1>1
<1> HIDE DEF first
<1>4. /\ FramesOf(p, first, last) \in Seq(AnyFrame)
      /\ \A i \in 1..Len(FramesOf(p, first, last)) :
            FramesOf(p, first, last)[i].stream = Stream(p)
  BY <1>2, <1>3, FramesFit
<1> QED BY <1>1, <1>4 DEF first

\* A page of the same stream and attempt sends what is pending and has read its
\* replies.
LEMMA ResendStep ==
    ASSUME TaskInv, NEW p \in Pages, page[p].link # "stopped", NEW w \in Writers, InWindow(w),
           w.life = page[p].life, w.conn = page[p].conn, w.acked = page[p].acked,
           Becomes(p, w, FramesOf(p, page[p].acked + 1, w.sequence)), Silent(p)
    PROVE  TaskInv'
<1> DEFINE sent == FramesOf(p, page[p].acked + 1, w.sequence)
<1>1. w.sequence \in Nat /\ w.sequence >= page[p].acked
  BY DEF InWindow, Writers
<1>2. sent \in Seq(AnyFrame) /\ \A i \in 1..Len(sent) : sent[i].stream = <<p, w.life>>
  BY <1>1, PendingFit
<1>3. Whole(<<p, w.life>>, w.acked) /\ w.conn >= page[p].conn
  BY Own
<1>4. <<>> \in Seq(AnyReply) /\ Len(<<>>) = 0
  BY EmptySeq
<1>5. \A i \in 1..Len(<<>>) : <<>>[i].type = "ack" => Whole(<<p, w.life>>, <<>>[i].seq)
  BY <1>4
<1>6. /\ page' = [page EXCEPT ![p] = w] /\ relay' = [relay EXCEPT ![p] = sent]
      /\ replies' = [replies EXCEPT ![p] = <<>>] /\ UNCHANGED <<agentVars, taskHistory>>
      /\ late' = late
  BY DEF Becomes, Silent
<1> HIDE DEF sent
<1> QED BY <1>2, <1>3, <1>4, <1>5, <1>6, PageMoves

LEMMA SendBatchStep == ASSUME TaskInv, NEW p \in Pages, SendBatch(p) PROVE TaskInv'
<1> DEFINE w == Filled(page[p])
           v == [w EXCEPT !.link = "posting"]
<1>1. Becomes(p, v, FramesOf(p, w.acked + 1, w.sequence)) /\ Silent(p)
      /\ page[p].link # "stopped"
  BY DEF SendBatch
<1>2. /\ w \in Writers /\ InWindow(w) /\ w.life = page[p].life /\ w.conn = page[p].conn
      /\ w.acked = page[p].acked
  BY Own, FilledKeeps
<1> HIDE DEF w
<1>3. v \in Writers
  BY <1>2, Updates
<1>4. /\ v.life = w.life /\ v.conn = w.conn /\ v.acked = w.acked
      /\ v.sequence = w.sequence
  BY <1>2 DEF Writers
<1>5. InWindow(v)
  BY <1>2, <1>4 DEF InWindow
<1> HIDE DEF v
<1>6. Becomes(p, v, FramesOf(p, page[p].acked + 1, v.sequence))
  BY <1>1, <1>2, <1>4
<1>7. v.life = page[p].life /\ v.conn = page[p].conn /\ v.acked = page[p].acked
  BY <1>2, <1>4
<1>8. Silent(p) /\ page[p].link # "stopped"
  BY <1>1
<1> QED BY <1>3, <1>5, <1>6, <1>7, <1>8, ResendStep

\* The reply a page reads speaks the truth, and so does what is left of them.
LEMMA HeadFits ==
    ASSUME TaskInv, NEW p \in Pages, replies[p] # <<>>
    PROVE  /\ Head(replies[p]) \in AnyReply /\ Tail(replies[p]) \in Seq(AnyReply)
           /\ Head(replies[p]).type = "ack" => Whole(Stream(p), Head(replies[p]).seq)
           /\ \A i \in 1..Len(Tail(replies[p])) :
                 Tail(replies[p])[i].type = "ack" => Whole(Stream(p), Tail(replies[p])[i].seq)
<1>1. /\ replies[p] \in Seq(AnyReply)
      /\ \A i \in 1..Len(replies[p]) :
            replies[p][i].type = "ack" => Whole(Stream(p), replies[p][i].seq)
  BY Own
<1>2. /\ Head(replies[p]) = replies[p][1] /\ Tail(replies[p]) \in Seq(AnyReply)
      /\ Len(replies[p]) \in Nat /\ Len(replies[p]) > 0
      /\ Len(Tail(replies[p])) = Len(replies[p]) - 1
      /\ \A i \in 1..Len(Tail(replies[p])) : Tail(replies[p])[i] = replies[p][i + 1]
  BY <1>1
<1>3. Head(replies[p]) \in AnyReply
  BY <1>1, <1>2, ElementOfSeq
<1>4. \A i \in 1..Len(Tail(replies[p])) : i + 1 \in 1..Len(replies[p])
  BY <1>2
<1> QED BY <1>1, <1>2, <1>3, <1>4

\* A page that loses its owner stops, or starts a stream with nothing acknowledged.
LEMMA OwnerLostStep ==
    ASSUME TaskInv, NEW p \in Pages, GivesUp(p, OwnerLost(page[p]))
    PROVE  TaskInv'
<1>1. CASE page[p].sequence > page[p].acked
  <2>1. OwnerLost(page[p]) = Stopped(page[p])
    BY <1>1 DEF OwnerLost
  <2>2. /\ page[p] \in Writers /\ InWindow(page[p])
        /\ Whole(<<p, page[p].life>>, page[p].acked)
    BY Own
  <2> QED BY <2>1, <2>2, StopStep
<1>2. CASE ~(page[p].sequence > page[p].acked)
  <2> DEFINE v == [page[p] EXCEPT !.life = @ + 1, !.sequence = 0, !.acked = 0, !.epoch = 0,
                                  !.postClaimed = FALSE]
             w == Disconnected(v)
  <2>1. OwnerLost(page[p]) = w
    BY <1>2 DEF OwnerLost
  <2>2. v \in Writers
    <3> DEFINE v1 == [page[p] EXCEPT !.life = page[p].life + 1]
               v2 == [v1 EXCEPT !.sequence = 0]
               v3 == [v2 EXCEPT !.acked = 0]
               v4 == [v3 EXCEPT !.epoch = 0]
               v5 == [v4 EXCEPT !.postClaimed = FALSE]
    <3>0. page[p] \in Writers /\ page[p].life + 1 \in Nat
      BY Own
    <3>1. v1 \in Writers
      BY <3>0, Updates
    <3>2. v2 \in Writers
      BY <3>1, Updates
    <3>3. v3 \in Writers
      BY <3>2, Updates
    <3>4. v4 \in Writers
      BY <3>3, Updates
    <3>5. v5 \in Writers
      BY <3>4, Updates
    <3>6. v = [[[[[page[p] EXCEPT !.life = page[p].life + 1] EXCEPT !.sequence = 0]
                  EXCEPT !.acked = 0] EXCEPT !.epoch = 0] EXCEPT !.postClaimed = FALSE]
      OBVIOUS
    <3> QED BY <3>5, <3>6
  <2>3. v.sequence = 0 /\ v.acked = 0 /\ v.conn = page[p].conn
    BY Own DEF Writers
  <2>4. InWindow(v)
    BY <2>3, WindowAssumption DEF InWindow
  <2> HIDE DEF v
  <2>5. /\ w \in Writers /\ InWindow(w) /\ w.acked = 0
        /\ w.link = "stopped" \/ w.conn = page[p].conn + 1
        /\ w.conn >= page[p].conn
    BY <2>2, <2>3, <2>4, DisconnectedKeeps
  <2> HIDE DEF w
  <2>6. Whole(<<p, w.life>>, w.acked)
    BY <2>5 DEF Whole
  <2>7. w.conn > page[p].conn \/ w.link = "stopped"
    BY <2>5, Own
  <2> QED BY <2>1, <2>5, <2>6, <2>7, PageRestarts DEF w
<1> QED BY <1>1, <1>2

LEMMA OnClaimedStep == ASSUME TaskInv, NEW p \in Pages, OnClaimed(p) PROVE TaskInv'
<1> DEFINE w == page[p]
           e == Head(replies[p]).epoch
           n == IF w.sequence = w.acked THEN 0 ELSE w.retries
           v == [w EXCEPT !.link = "ready", !.epoch = e, !.everReady = TRUE,
                          !.retries = IF w.sequence = w.acked THEN 0 ELSE @]
           ready == Filled(v)
           u == [w EXCEPT !.link = "down", !.epoch = e, !.postClaimed = TRUE]
<1>1. w.link = "claiming" /\ replies[p] # <<>>
  BY DEF OnClaimed
<1>2. w \in Writers /\ InWindow(w) /\ w.retries \in Nat
  BY Own DEF Writers
<1>3. e \in Nat
  BY <1>1, HeadFits DEF AnyReply
<1>4. CASE GivesUp(p, OwnerLost(w))
  BY <1>4, OwnerLostStep
<1>5. CASE Becomes(p, ready, FramesOf(p, w.acked + 1, ready.sequence)) /\ Silent(p)
  <2>1. v \in Writers
    <3> DEFINE v1 == [w EXCEPT !.link = "ready"]
               v2 == [v1 EXCEPT !.epoch = e]
               v3 == [v2 EXCEPT !.everReady = TRUE]
    <3>1. n \in Nat
      BY <1>2
    <3>2. v1 \in Writers
      BY <1>2, Updates
    <3>3. v2 \in Writers
      BY <1>3, <3>2, Updates
    <3>4. v3 \in Writers
      BY <3>3, Updates
    <3>5. [v3 EXCEPT !.retries = n] \in Writers
      BY <3>1, <3>4, Updates
    <3>6. v = [v3 EXCEPT !.retries = n]
      BY <1>2 DEF Writers
    <3> QED BY <3>5, <3>6
  <2>2. /\ v.life = w.life /\ v.conn = w.conn /\ v.acked = w.acked
        /\ v.sequence = w.sequence
    BY <1>2 DEF Writers
  <2>3. InWindow(v)
    BY <1>2, <2>2 DEF InWindow
  <2> HIDE DEF v
  <2>4. /\ ready \in Writers /\ InWindow(ready) /\ ready.life = w.life
        /\ ready.conn = w.conn /\ ready.acked = w.acked
    BY <2>1, <2>2, <2>3, FilledKeeps
  <2>5. w.link # "stopped"
    BY <1>1
  <2> HIDE DEF ready
  <2> QED BY <1>1, <1>5, <2>4, <2>5, ResendStep
<1>6. CASE Becomes(p, u, <<>>) /\ Silent(p)
  <2>1. u \in Writers
    <3> DEFINE u1 == [w EXCEPT !.link = "down"]
               u2 == [u1 EXCEPT !.epoch = e]
    <3>1. u1 \in Writers
      BY <1>2, Updates
    <3>2. u2 \in Writers
      BY <1>3, <3>1, Updates
    <3>3. [u2 EXCEPT !.postClaimed = TRUE] \in Writers
      BY <3>2, Updates
    <3>4. u = [u2 EXCEPT !.postClaimed = TRUE]
      BY <1>2 DEF Writers
    <3> QED BY <3>3, <3>4
  <2>2. /\ u.life = w.life /\ u.conn = w.conn /\ u.acked = w.acked
        /\ u.sequence = w.sequence
    BY <1>2 DEF Writers
  <2>3. InWindow(u) /\ Whole(<<p, u.life>>, u.acked)
    BY <1>2, <2>2, Own DEF InWindow
  <2>4. u.life = w.life /\ u.conn = w.conn /\ w.link # "stopped"
    BY <1>1, <2>2
  <2> HIDE DEF u
  <2> QED BY <1>6, <2>1, <2>3, <2>4, PageRests
<1>7. \/ GivesUp(p, OwnerLost(w))
      \/ Becomes(p, ready, FramesOf(p, w.acked + 1, ready.sequence)) /\ Silent(p)
      \/ Becomes(p, u, <<>>) /\ Silent(p)
  BY DEF OnClaimed
<1> QED BY <1>4, <1>5, <1>6, <1>7

\* The acknowledgement on the socket is of the oldest pending frame.
LEMMA OnAckStep == ASSUME TaskInv, NEW p \in Pages, OnAck(p) PROVE TaskInv'
<1> DEFINE w == page[p]
           seq == Head(replies[p]).seq
           v == [w EXCEPT !.acked = seq, !.retries = 0]
           f == Filled(v)
           sent == relay[p] \o FramesOf(p, w.sequence + 1, f.sequence)
<1>1. /\ w.link = "ready" /\ replies[p] # <<>> /\ Head(replies[p]).type = "ack"
      /\ w \in Writers /\ InWindow(w) /\ w.conn \in Nat
  BY Own DEF OnAck
<1>2. /\ seq \in Nat /\ Whole(Stream(p), seq) /\ Stream(p) = <<p, w.life>>
      /\ Tail(replies[p]) \in Seq(AnyReply)
      /\ \A i \in 1..Len(Tail(replies[p])) :
            Tail(replies[p])[i].type = "ack" => Whole(Stream(p), Tail(replies[p])[i].seq)
  BY <1>1, HeadFits, Own DEF AnyReply
<1>3. CASE /\ Pending(p) > 0 /\ seq = w.acked + 1
           /\ Becomes(p, f, sent) /\ replies' = [replies EXCEPT ![p] = Tail(@)]
  <2>1. v \in Writers
    <3> DEFINE v1 == [w EXCEPT !.acked = seq]
    <3>1. v1 \in Writers
      BY <1>1, <1>2, Updates
    <3>2. [v1 EXCEPT !.retries = 0] \in Writers
      BY <3>1, Updates
    <3> QED BY <3>2
  <2>2. /\ v.life = w.life /\ v.conn = w.conn /\ v.acked = seq /\ v.link = "ready"
        /\ v.sequence = w.sequence
    BY <1>1 DEF Writers
  <2>3. InWindow(v)
    <3>1. w.acked \in Nat /\ w.sequence \in Nat /\ w.sequence - w.acked > 0
      BY <1>3, Own DEF Pending
    <3> QED BY <1>1, <1>3, <2>2, <3>1, WindowAssumption DEF InWindow
  <2> HIDE DEF v
  <2>4. /\ f \in Writers /\ InWindow(f) /\ f.life = w.life /\ f.conn = w.conn
        /\ f.acked = seq /\ f.sequence >= w.sequence /\ f.link = "ready"
    BY <2>1, <2>2, <2>3, FilledKeeps
  <2> HIDE DEF f
  <2>5. f.sequence \in Nat
    BY <2>4 DEF Writers
  <2>6. sent \in Seq(AnyFrame) /\ \A i \in 1..Len(sent) : sent[i].stream = <<p, f.life>>
    BY <2>4, <2>5, RelayGrows
  <2>7. /\ page' = [page EXCEPT ![p] = f] /\ relay' = [relay EXCEPT ![p] = sent]
        /\ replies' = [replies EXCEPT ![p] = Tail(replies[p])]
        /\ late' = late /\ UNCHANGED <<agentVars, taskHistory>>
    BY <1>3 DEF Becomes
  <2>8. /\ Whole(<<p, f.life>>, f.acked) /\ f.conn >= page[p].conn /\ f.life = page[p].life
        /\ page[p].link # "stopped"
    BY <1>1, <1>2, <2>4
  <2>9. \A i \in 1..Len(Tail(replies[p])) :
            Tail(replies[p])[i].type = "ack" => Whole(<<p, f.life>>, Tail(replies[p])[i].seq)
    BY <1>2, <2>4
  <2> HIDE DEF sent
  <2> QED BY <1>2, <2>4, <2>6, <2>7, <2>8, <2>9, PageMoves
<1>4. CASE GivesUp(p, Stopped(w))
  <2>1. Whole(<<p, w.life>>, w.acked)
    BY Own
  <2> QED BY <1>1, <1>4, <2>1, StopStep
<1> QED BY <1>3, <1>4 DEF OnAck

\* The one of a batch speaks of its last frame, and so of all of them.
LEMMA OnBatchStep == ASSUME TaskInv, NEW p \in Pages, OnBatch(p) PROVE TaskInv'
<1> DEFINE w == page[p]
           seq == Head(replies[p]).seq
           v == [w EXCEPT !.link = "down", !.acked = w.sequence, !.retries = 0]
<1>1. /\ w.link = "posting" /\ replies[p] # <<>> /\ Head(replies[p]).type = "ack"
      /\ w \in Writers /\ InWindow(w) /\ w.conn \in Nat /\ w.sequence \in Nat
  BY Own DEF OnBatch
<1>2. Whole(Stream(p), seq) /\ Stream(p) = <<p, w.life>>
  BY <1>1, HeadFits, Own
<1>3. CASE seq = w.sequence /\ Becomes(p, v, <<>>) /\ Silent(p)
  <2>1. v \in Writers
    <3> DEFINE v1 == [w EXCEPT !.link = "down"]
               v2 == [v1 EXCEPT !.acked = w.sequence]
    <3>1. v1 \in Writers
      BY <1>1, Updates
    <3>2. v2 \in Writers
      BY <1>1, <3>1, Updates
    <3>3. [v2 EXCEPT !.retries = 0] \in Writers
      BY <3>2, Updates
    <3>4. v = [v2 EXCEPT !.retries = 0]
      BY <1>1 DEF Writers
    <3> QED BY <3>3, <3>4
  <2>2. /\ v.life = w.life /\ v.conn = w.conn /\ v.acked = w.sequence
        /\ v.sequence = w.sequence
    BY <1>1 DEF Writers
  <2>3. InWindow(v)
    BY <1>1, <2>2, WindowAssumption DEF InWindow
  <2>4. Whole(<<p, v.life>>, v.acked) /\ w.link # "stopped"
    BY <1>1, <1>2, <1>3, <2>2
  <2> HIDE DEF v
  <2> QED BY <1>3, <2>1, <2>2, <2>3, <2>4, PageRests
<1>4. CASE GivesUp(p, Stopped(w))
  <2>1. Whole(<<p, w.life>>, w.acked)
    BY Own
  <2> QED BY <1>1, <1>2, <1>4, <2>1, StopStep
<1>5. (seq = w.sequence /\ Becomes(p, v, <<>>) /\ Silent(p)) \/ GivesUp(p, Stopped(w))
  BY DEF OnBatch
<1> QED BY <1>3, <1>4, <1>5

LEMMA OnErrorStep == ASSUME TaskInv, NEW p \in Pages, OnError(p) PROVE TaskInv'
<1>1. CASE GivesUp(p, Disconnected(page[p]))
  BY <1>1, DropStep
<1>2. CASE GivesUp(p, Stopped(page[p]))
  <2>1. /\ page[p] \in Writers /\ InWindow(page[p])
        /\ Whole(<<p, page[p].life>>, page[p].acked)
    BY Own
  <2> QED BY <1>2, <2>1, StopStep
<1> QED BY <1>1, <1>2 DEF OnError

LEMMA CloseStep == ASSUME TaskInv, NEW p \in Pages, Close(p) PROVE TaskInv'
<1>1. /\ page[p] \in Writers /\ InWindow(page[p])
      /\ Whole(<<p, page[p].life>>, page[p].acked)
  BY Own
<1> QED BY <1>1, StopStep DEF Close

-----------------------------------------------------------------------------
\* One more reply for a page, or none: what it speaks of is complete.
LEMMA Told ==
    ASSUME TaskInv, NEW p \in Pages, NEW reply \in AnyReply, complete \subseteq complete',
           reply.type = "ack" => Whole(Stream(p), reply.seq)',
           page' = page, replies' = [replies EXCEPT ![p] = Append(@, reply)]
    PROVE  replies' \in [Pages -> Seq(AnyReply)] /\ ReplyIsWhole'
<1> DEFINE new == Append(replies[p], reply)
<1>1. replies \in [Pages -> Seq(AnyReply)] /\ replies[p] \in Seq(AnyReply)
  BY DEF TaskInv, PageTypes
<1>2. /\ new \in Seq(AnyReply) /\ Len(new) = Len(replies[p]) + 1 /\ Len(replies[p]) \in Nat
      /\ \A i \in 1..Len(replies[p]) : new[i] = replies[p][i]
      /\ new[Len(replies[p]) + 1] = reply
  BY <1>1, AppendProperties, LenProperties
<1>3. replies'[p] = new /\ \A q \in Pages \ {p} : replies'[q] = replies[q]
  BY <1>1
<1> HIDE DEF new
<1>4. replies' \in [Pages -> Seq(AnyReply)]
  BY <1>1, <1>2 DEF new
<1>5. ASSUME NEW q \in Pages, NEW i \in 1..Len(replies'[q]), replies'[q][i].type = "ack"
      PROVE  Whole(Stream(q), replies[q][i].seq)'
  <2>1. CASE q = p /\ i = Len(replies[p]) + 1
    BY <1>2, <1>3, <1>5, <2>1
  <2>2. CASE q # p \/ i # Len(replies[p]) + 1
    <3>1. i \in 1..Len(replies[q]) /\ replies'[q][i] = replies[q][i]
      BY <1>2, <1>3, <2>2
    <3>2. Whole(Stream(q), replies[q][i].seq)
      BY <1>5, <3>1 DEF TaskInv, ReplyIsWhole
    <3> QED BY <3>1, <3>2 DEF Whole, Stream
  <2> QED BY <2>1, <2>2
<1> QED BY <1>4, <1>5 DEF ReplyIsWhole

\* No reply at all.
LEMMA Untold ==
    ASSUME TaskInv, complete \subseteq complete', page' = page, replies' = replies
    PROVE  replies' \in [Pages -> Seq(AnyReply)] /\ ReplyIsWhole'
BY DEF TaskInv, PageTypes, ReplyIsWhole, Whole, Stream

\* The answer to a call.
LEMMA AnsweredKeeps ==
    ASSUME TaskInv, NEW c \in AnyCall, NEW reply \in AnyReply, Answered(c, reply), page' = page,
           complete \subseteq complete',
           Current(c) /\ reply.type = "ack" =>
             \A k \in 1..reply.seq : [stream |-> Stream(c.page), seq |-> k] \in complete'
    PROVE  PageTypes' /\ RelayFits' /\ ReplyIsWhole'
<1> DEFINE p == c.page
<1>1. p \in Pages
  BY DEF AnyCall
<1>2. relay \in [Pages -> Seq(AnyFrame)]
  BY DEF TaskInv, PageTypes
<1>3. relay' = relay \/ relay' = [relay EXCEPT ![p] = <<>>]
  BY DEF Answered
<1>4. relay' \in [Pages -> Seq(AnyFrame)] /\ RelayFits'
  <2>1. CASE relay' = relay
    BY <1>2, <2>1 DEF TaskInv, RelayFits, Stream
  <2>2. CASE relay' = [relay EXCEPT ![p] = <<>>]
    <3>1. <<>> \in Seq(AnyFrame) /\ Len(<<>>) = 0
      BY EmptySeq
    <3>2. relay'[p] = <<>> /\ \A q \in Pages \ {p} : relay'[q] = relay[q]
      BY <1>1, <1>2, <2>2
    <3>3. relay' \in [Pages -> Seq(AnyFrame)]
      BY <1>2, <2>2, <3>1
    <3> QED BY <3>1, <3>2, <3>3 DEF TaskInv, RelayFits, Stream
  <2> QED BY <1>3, <2>1, <2>2
<1>5. replies' \in [Pages -> Seq(AnyReply)] /\ ReplyIsWhole'
  <2>1. CASE replies' = replies
    BY <2>1, Untold
  <2>2. CASE Current(c) /\ replies' = [replies EXCEPT ![p] = Append(@, reply)]
    <3>1. reply.type = "ack" => Whole(Stream(p), reply.seq)'
      BY <2>2 DEF Whole, Stream
    <3> QED BY <1>1, <2>2, <3>1, Told
  <2> QED BY <2>1, <2>2 DEF Answered
<1>6. PageTypes'
  BY <1>4, <1>5 DEF TaskInv, PageTypes, InWindow
<1> QED BY <1>4, <1>5, <1>6

\* The calls at the Agent, and those that hold a gate, are calls that fit.
LEMMA CallTypes ==
    ASSUME TaskInv
    PROVE  /\ \A c \in calls : c \in AnyCall /\ Fits(c) /\ c.at \in Epochs /\ c.page \in Pages
           /\ \A e \in Epochs : holder[e] # Nothing =>
                 /\ holder[e] \in [call : AnyCall, result : Results]
                 /\ holder[e].call \in AnyCall /\ Fits(holder[e].call)
<1>1. \A c \in AnyCall : c.at \in Epochs /\ c.page \in Pages
  BY DEF AnyCall
<1>2. \A c \in calls : c \in AnyCall /\ Fits(c)
  BY DEF TaskInv, AgentTypes, CallsFit
<1>3. \A e \in Epochs : holder[e] # Nothing =>
          holder[e] \in [call : AnyCall, result : Results] /\ Fits(holder[e].call)
  BY DEF TaskInv, AgentTypes, CallsFit
<1> QED BY <1>1, <1>2, <1>3

\* A call of the page's present attempt that is answered "ack" for a number its
\* sequencer has counted.
LEMMA CountedIsWhole ==
    ASSUME TaskInv, NEW c \in AnyCall, Fits(c), NEW e \in Epochs, NEW n \in Nat, Current(c),
           sequencer[e].stream = c.frame.stream, n <= sequencer[e].acked
    PROVE  Whole(Stream(c.page), n)
<1>1. Whole(sequencer[e].stream, sequencer[e].acked) /\ sequencer[e].acked \in Nat
  BY DEF TaskInv, CountIsWhole, AgentTypes
<1>2. c.frame.stream = Stream(c.page)
  BY DEF Fits
<1>3. 1..n \subseteq 1..sequencer[e].acked
  BY <1>1
<1> QED BY <1>1, <1>2, <1>3 DEF Whole

\* A call answered and gone: the gates and the counts stay.
LEMMA UnavailableStep == ASSUME TaskInv, NEW c \in calls, Unavailable(c) PROVE TaskInv'
<1>1. c \in AnyCall /\ c.frame.seq \in Nat
  BY CallTypes DEF AnyCall, AnyFrame
<1> DEFINE reply == Reply("retry", c.frame.seq, 0)
<1>2. /\ calls' = calls \ {c} /\ Answered(c, reply) /\ page' = page /\ complete' = complete
      /\ late' = late
      /\ UNCHANGED <<entry, created, sequencer, holder>>
  BY DEF Unavailable, taskHistory
<1>3. reply \in AnyReply /\ reply.type # "ack"
  BY <1>1 DEF Reply, AnyReply
<1> HIDE DEF reply
<1>4. PageTypes' /\ RelayFits' /\ ReplyIsWhole'
  BY <1>1, <1>2, <1>3, AnsweredKeeps
<1>5. AgentTypes' /\ CallsFit' /\ HolderIsNext' /\ CountIsWhole' /\ AckedIsComplete' /\ LateFits'
  BY <1>2 DEF LateFits, TaskInv, AgentTypes, CallsFit, Fits, Current, Stream, HolderIsNext, CountIsWhole,
              Whole, AckedIsComplete
<1> QED BY <1>4, <1>5 DEF TaskInv

LEMMA AnswerFrameStep == ASSUME TaskInv, NEW c \in calls, AnswerFrame(c) PROVE TaskInv'
<1> DEFINE q == sequencer[c.at]
           reply == Reply(IF RepeatsFrame(q, c.frame) THEN "ack" ELSE "fatal", c.frame.seq, c.at)
<1>1. /\ c \in AnyCall /\ c.frame.seq \in Nat /\ c.at \in Epochs /\ c.at \in Nat
      /\ Fits(c) /\ q.acked \in Nat
  BY CallTypes DEF AnyCall, AnyFrame, Epochs, TaskInv, AgentTypes
<1>2. /\ calls' = calls \ {c} /\ Answered(c, reply) /\ page' = page /\ complete' = complete
      /\ late' = late
      /\ UNCHANGED <<entry, created, sequencer, holder>>
  BY DEF AnswerFrame, taskHistory
<1>3. /\ reply \in AnyReply /\ reply.seq = c.frame.seq
      /\ reply.type = "ack" => RepeatsFrame(q, c.frame)
  BY <1>1 DEF Reply, AnyReply
<1> HIDE DEF reply
<1>4. Current(c) /\ reply.type = "ack" =>
         \A k \in 1..reply.seq : [stream |-> Stream(c.page), seq |-> k] \in complete'
  <2>1. ASSUME Current(c), reply.type = "ack" PROVE Whole(Stream(c.page), reply.seq)
    <3>1. RepeatsFrame(q, c.frame) /\ reply.seq = c.frame.seq
      BY <1>3, <2>1
    <3>2. q.stream = c.frame.stream /\ c.frame.seq <= q.acked
      BY <3>1 DEF RepeatsFrame
    <3>3. Whole(Stream(c.page), c.frame.seq)
      BY <1>1, <2>1, <3>2, CountedIsWhole
    <3> QED BY <3>1, <3>3
  <2> QED BY <1>2, <2>1 DEF Whole
<1>5. PageTypes' /\ RelayFits' /\ ReplyIsWhole'
  BY <1>1, <1>2, <1>3, <1>4, AnsweredKeeps
<1>6. AgentTypes' /\ CallsFit' /\ HolderIsNext' /\ CountIsWhole' /\ AckedIsComplete' /\ LateFits'
  BY <1>2 DEF LateFits, TaskInv, AgentTypes, CallsFit, Fits, Current, Stream, HolderIsNext, CountIsWhole,
              Whole, AckedIsComplete
<1> QED BY <1>5, <1>6 DEF TaskInv

\* A claim finds its stream's count or starts an empty one.
LEMMA ClaimStep == ASSUME TaskInv, NEW c \in calls, AdmitClaim(c) PROVE TaskInv'
<1> DEFINE old == sequencer[c.at]
           q == AfterClaim(old, c.frame.stream)
           reply == Reply(IF q.failed THEN "fatal" ELSE "ack", 0, c.at)
           Sequencers == [stream : AllStreams \cup {Nothing}, acked : Nat, failed : BOOLEAN]
<1>1. /\ c \in AnyCall /\ c.at \in Epochs /\ c.at \in Nat
      /\ old \in Sequencers /\ c.frame.stream \in AllStreams
  BY CallTypes DEF AnyCall, AnyFrame, Epochs, TaskInv, AgentTypes
<1>2. /\ calls' = calls \ {c} /\ Answered(c, reply) /\ page' = page /\ complete' = complete
      /\ late' = late
      /\ UNCHANGED <<entry, created, holder>> /\ sequencer' = [sequencer EXCEPT ![c.at] = q]
      /\ holder[c.at] = Nothing
  BY DEF AdmitClaim, GateFree, taskHistory
<1>3. q = old \/ q = Fresh(c.frame.stream)
  BY DEF AfterClaim
<1>4. q \in Sequencers /\ Whole(q.stream, q.acked)
  <2>1. CASE q = old
    BY <1>1, <2>1 DEF TaskInv, CountIsWhole
  <2>2. CASE q = Fresh(c.frame.stream)
    <3>1. Fresh(c.frame.stream) \in Sequencers /\ Fresh(c.frame.stream).acked = 0
      BY <1>1 DEF Fresh
    <3> QED BY <2>2, <3>1 DEF Whole
  <2> QED BY <1>3, <2>1, <2>2
<1>5. reply \in AnyReply /\ reply.seq = 0
  BY <1>1 DEF Reply, AnyReply
<1> HIDE DEF reply, q
<1>6. \A k \in 1..reply.seq : [stream |-> Stream(c.page), seq |-> k] \in complete'
  BY <1>5
<1>7. PageTypes' /\ RelayFits' /\ ReplyIsWhole'
  BY <1>1, <1>2, <1>5, <1>6, AnsweredKeeps
<1>8. sequencer \in [Epochs -> Sequencers]
  BY DEF TaskInv, AgentTypes
<1>9. /\ sequencer'[c.at] = q /\ \A e \in Epochs \ {c.at} : sequencer'[e] = sequencer[e]
      /\ sequencer' \in [Epochs -> Sequencers]
  BY <1>1, <1>2, <1>4, <1>8
<1>10. AgentTypes'
  BY <1>2, <1>9 DEF TaskInv, AgentTypes
<1>11. CallsFit' /\ LateFits' /\ AckedIsComplete'
  BY <1>2 DEF TaskInv, CallsFit, Fits, LateFits, Current, Stream, AckedIsComplete
<1>12. HolderIsNext'
  BY <1>2, <1>9 DEF TaskInv, HolderIsNext
<1>13. CountIsWhole'
  BY <1>2, <1>4, <1>9 DEF TaskInv, CountIsWhole, Whole
<1> QED BY <1>7, <1>10, <1>11, <1>12, <1>13 DEF TaskInv

\* The gate goes to the next frame of the stream the sequencer is bound to.
LEMMA StartWriteStep == ASSUME TaskInv, NEW c \in calls, StartWrite(c) PROVE TaskInv'
<1>1. c \in AnyCall /\ c.at \in Epochs /\ Fits(c)
  BY CallTypes
<1>2. PICK r \in Results : holder' = [holder EXCEPT ![c.at] = [call |-> c, result |-> r]]
  BY DEF StartWrite
<1>3. /\ calls' = calls \ {c} /\ page' = page /\ relay' = relay /\ replies' = replies
      /\ UNCHANGED <<entry, created, sequencer, complete, late>>
      /\ NextInOrder(sequencer[c.at], c.frame)
  BY DEF StartWrite, pageVars
<1> DEFINE h == [call |-> c, result |-> r]
<1>4. h \in [call : AnyCall, result : Results] /\ h.call = c
  BY <1>1
<1>5. holder \in [Epochs -> {Nothing} \cup [call : AnyCall, result : Results]]
  BY DEF TaskInv, AgentTypes
<1> HIDE DEF h
<1>6. /\ holder'[c.at] = h /\ \A e \in Epochs \ {c.at} : holder'[e] = holder[e]
      /\ holder' \in [Epochs -> {Nothing} \cup [call : AnyCall, result : Results]]
  BY <1>1, <1>2, <1>4, <1>5 DEF h
<1>7. AgentTypes'
  BY <1>3, <1>6 DEF TaskInv, AgentTypes
<1>8. /\ PageTypes' /\ RelayFits' /\ LateFits' /\ CountIsWhole' /\ ReplyIsWhole'
      /\ AckedIsComplete'
  BY <1>3 DEF TaskInv, PageTypes, InWindow, RelayFits, LateFits, Current, CountIsWhole,
              ReplyIsWhole, AckedIsComplete, Whole, Stream
<1>9. CallsFit'
  <2>1. ASSUME NEW d \in calls' PROVE Fits(d)'
    BY <1>3 DEF TaskInv, CallsFit, Fits, Current, Stream
  <2>2. ASSUME NEW e \in Epochs, holder'[e] # Nothing PROVE Fits(holder[e].call)'
    <3>1. CASE e = c.at
      BY <1>1, <1>3, <1>4, <1>6, <3>1 DEF Fits, Current, Stream
    <3>2. CASE e # c.at
      BY <1>3, <1>6, <2>2, <3>2 DEF TaskInv, CallsFit, Fits, Current, Stream
    <3> QED BY <3>1, <3>2
  <2> QED BY <2>1, <2>2 DEF CallsFit
<1>10. HolderIsNext'
  BY <1>1, <1>3, <1>4, <1>6 DEF TaskInv, HolderIsNext, NextInOrder
<1> QED BY <1>7, <1>8, <1>9, <1>10 DEF TaskInv

\* The count grows only with a frame that is complete.
LEMMA EndWriteStep == ASSUME TaskInv, NEW e \in Epochs, EndWrite(e) PROVE TaskInv'
<1> DEFINE c == holder[e].call
           r == holder[e].result
           f == c.frame
           old == sequencer[e]
           q == AfterWrite(old, f, r)
           reply == Reply(WriteReply(r), f.seq, e)
           Sequencers == [stream : AllStreams \cup {Nothing}, acked : Nat, failed : BOOLEAN]
<1>1. /\ holder[e] # Nothing /\ sequencer' = [sequencer EXCEPT ![e] = q]
      /\ complete' = IF r = "ok" THEN complete \cup {f} ELSE complete
      /\ entry' = IF r = "closed" THEN 0 ELSE entry
      /\ Answered(c, reply) /\ holder' = [holder EXCEPT ![e] = Nothing]
      /\ created' = created /\ calls' = calls /\ page' = page /\ late' = late
  BY DEF EndWrite
<1>2. /\ c \in AnyCall /\ Fits(c) /\ r \in Results /\ old \in Sequencers
      /\ e \in Nat
  BY <1>1, CallTypes DEF TaskInv, AgentTypes, Epochs
<1>3. f \in AnyFrame /\ f.seq \in Nat
  BY <1>2 DEF AnyCall, AnyFrame
<1>4. old.stream = f.stream /\ f.seq = old.acked + 1 /\ old.acked \in Nat
      /\ Whole(old.stream, old.acked)
  BY <1>1, <1>2 DEF TaskInv, HolderIsNext, CountIsWhole
<1>5. f = [stream |-> old.stream, seq |-> old.acked + 1]
  BY <1>3, <1>4 DEF AnyFrame
<1>6. /\ q \in Sequencers /\ q.stream = old.stream
      /\ q.acked = IF r = "ok" THEN old.acked + 1 ELSE old.acked
  <2> DEFINE n == IF r = "ok" THEN f.seq ELSE old.acked
             b == IF r = "uncertain" THEN TRUE ELSE old.failed
  <2>1. n \in Nat /\ n = IF r = "ok" THEN old.acked + 1 ELSE old.acked
    BY <1>4
  <2>2. old.failed \in BOOLEAN
    BY <1>2
  <2>3. b \in BOOLEAN
    BY <2>2
  <2>4. q = [old EXCEPT !.acked = n, !.failed = b]
    BY DEF AfterWrite
  <2> HIDE DEF n, b
  <2> QED BY <1>2, <2>1, <2>3, <2>4
<1>7. r = "ok" => \A k \in 1..old.acked + 1 : [stream |-> old.stream, seq |-> k] \in complete'
  BY <1>1, <1>4, <1>5 DEF Whole
<1>8. reply \in AnyReply /\ reply.seq = f.seq /\ (reply.type = "ack" => r = "ok")
  BY <1>2, <1>3 DEF Reply, AnyReply, WriteReply, Results
<1> HIDE DEF reply, q
<1>9. Current(c) /\ reply.type = "ack" =>
         \A k \in 1..reply.seq : [stream |-> Stream(c.page), seq |-> k] \in complete'
  BY <1>2, <1>4, <1>7, <1>8 DEF Fits
<1>10. complete \subseteq complete'
  BY <1>1
<1>11. PageTypes' /\ RelayFits' /\ ReplyIsWhole'
  BY <1>1, <1>2, <1>8, <1>9, <1>10, AnsweredKeeps
<1>12. sequencer \in [Epochs -> Sequencers]
       /\ holder \in [Epochs -> {Nothing} \cup [call : AnyCall, result : Results]]
  BY DEF TaskInv, AgentTypes
<1>13. /\ sequencer'[e] = q /\ \A d \in Epochs \ {e} : sequencer'[d] = sequencer[d]
       /\ sequencer' \in [Epochs -> Sequencers]
       /\ holder'[e] = Nothing /\ \A d \in Epochs \ {e} : holder'[d] = holder[d]
       /\ holder' \in [Epochs -> {Nothing} \cup [call : AnyCall, result : Results]]
  BY <1>1, <1>6, <1>12
<1>14. AgentTypes'
  <2>1. created' \in 0..MaxEpochs /\ entry' \in 0..created' /\ calls' \subseteq AnyCall
    BY <1>1 DEF TaskInv, AgentTypes
  <2> QED BY <1>13, <2>1 DEF AgentTypes
<1>15. CallsFit'
  BY <1>1, <1>13 DEF TaskInv, CallsFit, Fits, Current, Stream
<1>16. HolderIsNext'
  BY <1>13 DEF TaskInv, HolderIsNext
<1>17. CountIsWhole'
  <2>1. \A k \in 1..q.acked : [stream |-> q.stream, seq |-> k] \in complete'
    BY <1>4, <1>6, <1>7, <1>10 DEF Whole
  <2> QED BY <1>10, <1>13, <2>1 DEF TaskInv, CountIsWhole, Whole
<1>18. AckedIsComplete' /\ LateFits'
  BY <1>1, <1>10 DEF TaskInv, AckedIsComplete, Stream, LateFits, Current
<1> QED BY <1>11, <1>14, <1>15, <1>16, <1>17, <1>18 DEF TaskInv

\* The frame at the head of a page's relay, and the relay without it.
LEMMA RelayShrinks ==
    ASSUME TaskInv, NEW p \in Pages, relay[p] # <<>>
    PROVE  /\ Head(relay[p]) \in AnyFrame /\ Head(relay[p]).stream = Stream(p)
           /\ Tail(relay[p]) \in Seq(AnyFrame)
           /\ \A i \in 1..Len(Tail(relay[p])) : Tail(relay[p])[i].stream = Stream(p)
<1>1. /\ relay[p] \in Seq(AnyFrame)
      /\ \A i \in 1..Len(relay[p]) : relay[p][i].stream = Stream(p)
  BY Own
<1>2. /\ Head(relay[p]) = relay[p][1] /\ Tail(relay[p]) \in Seq(AnyFrame)
      /\ Len(relay[p]) \in Nat /\ Len(relay[p]) > 0
      /\ Len(Tail(relay[p])) = Len(relay[p]) - 1
      /\ \A i \in 1..Len(Tail(relay[p])) : Tail(relay[p])[i] = relay[p][i + 1]
  BY <1>1
<1>3. Head(relay[p]) \in AnyFrame
  BY <1>1, <1>2, ElementOfSeq
<1>4. \A i \in 1..Len(Tail(relay[p])) : i + 1 \in 1..Len(relay[p])
  BY <1>2
<1> QED BY <1>1, <1>2, <1>3, <1>4

\* A page's relay keeps frames of the page's stream.
LEMMA RelayKeeps ==
    ASSUME TaskInv, NEW p \in Pages, NEW left \in Seq(AnyFrame), page' = page,
           \A i \in 1..Len(left) : left[i].stream = Stream(p),
           relay' = [relay EXCEPT ![p] = left]
    PROVE  relay' \in [Pages -> Seq(AnyFrame)] /\ RelayFits'
<1>1. relay \in [Pages -> Seq(AnyFrame)]
  BY DEF TaskInv, PageTypes
<1>2. /\ relay'[p] = left /\ \A q \in Pages \ {p} : relay'[q] = relay[q]
      /\ relay' \in [Pages -> Seq(AnyFrame)]
  BY <1>1
<1> QED BY <1>2 DEF TaskInv, RelayFits, Stream

\* The registry's answer, and the call it lets through, that fits.
LEMMA RegistryKeeps ==
    ASSUME TaskInv, NEW f, NEW e \in 0..MaxEpochs, Registry(f, e),
           page' = page, complete' = complete, holder' = holder, NEW new,
           \/ calls' = calls
           \/ /\ e # 0 /\ calls' = calls \cup {new}
              /\ new \in [page : Pages, conn : Nat, frame : AnyFrame, at : {e}]
              /\ new.conn <= page[new.page].conn
              /\ Current(new) => new.frame.stream = Stream(new.page)
    PROVE  AgentTypes' /\ CallsFit' /\ HolderIsNext' /\ CountIsWhole' /\ AckedIsComplete'
<1> DEFINE Sequencers == [stream : AllStreams \cup {Nothing}, acked : Nat, failed : BOOLEAN]
<1>1. /\ created \in 0..MaxEpochs /\ entry \in 0..created /\ created \in Nat
      /\ MaxEpochs \in Nat /\ calls \subseteq AnyCall /\ entry \in Nat
      /\ sequencer \in [Epochs -> Sequencers]
      /\ holder \in [Epochs -> {Nothing} \cup [call : AnyCall, result : Results]]
  BY TaskBounds DEF TaskInv, AgentTypes
<1>2. \/ entry' \in {0, entry} /\ created' = created /\ sequencer' = sequencer /\ e <= created
      \/ /\ created < MaxEpochs /\ e = created + 1 /\ created' = e /\ entry' = e
         /\ sequencer' = [sequencer EXCEPT ![e] = Fresh(Nothing)]
  BY <1>1 DEF Registry
<1>3. /\ created' \in 0..MaxEpochs /\ created <= created' /\ entry' \in 0..created'
      /\ e <= created'
  BY <1>1, <1>2
<1>4. /\ sequencer' \in [Epochs -> Sequencers]
      /\ \A d \in Epochs : d <= created => sequencer'[d] = sequencer[d]
      /\ \A d \in Epochs : sequencer'[d] = sequencer[d] \/ sequencer'[d].acked = 0
  <2>1. CASE sequencer' = sequencer
    BY <1>1, <2>1
  <2>2. CASE /\ created < MaxEpochs /\ e = created + 1
             /\ sequencer' = [sequencer EXCEPT ![e] = Fresh(Nothing)]
    <3>1. Fresh(Nothing) \in Sequencers /\ Fresh(Nothing).acked = 0
      BY DEF Fresh
    <3>2. e \in Epochs /\ \A d \in Epochs : d \in Nat
      BY <1>1, <2>2 DEF Epochs
    <3>3. /\ sequencer'[e] = Fresh(Nothing)
          /\ \A d \in Epochs \ {e} : sequencer'[d] = sequencer[d]
          /\ sequencer' \in [Epochs -> Sequencers]
      BY <1>1, <2>2, <3>1, <3>2
    <3> QED BY <1>1, <2>2, <3>1, <3>2, <3>3
  <2> QED BY <1>2, <2>1, <2>2
<1>5. calls' \subseteq AnyCall
  <2>1. CASE calls' = calls
    BY <1>1, <2>1
  <2>2. CASE e # 0 /\ calls' = calls \cup {new}
             /\ new \in [page : Pages, conn : Nat, frame : AnyFrame, at : {e}]
    <3>1. e \in Epochs
      BY <1>1, <2>2 DEF Epochs
    <3>2. new \in AnyCall
      BY <2>2, <3>1 DEF AnyCall
    <3> QED BY <1>1, <2>2, <3>2
  <2> QED BY <2>1, <2>2
<1>6. AgentTypes'
  BY <1>1, <1>3, <1>4, <1>5 DEF AgentTypes
<1>7. ASSUME NEW c, Fits(c), c.at \in Nat PROVE Fits(c)' /\ c.at <= created
  BY <1>1, <1>3, <1>7 DEF Fits, Current, Stream
<1>8. \A c \in AnyCall : c.at \in Nat
  BY DEF AnyCall, Epochs
<1>9. CallsFit'
  <2>1. ASSUME NEW c \in calls' PROVE Fits(c)'
    <3>1. CASE c \in calls
      BY <1>7, <1>8, <3>1, CallTypes
    <3>2. CASE c \notin calls
      <4>1. /\ c \in [page : Pages, conn : Nat, frame : AnyFrame, at : {e}]
            /\ c.conn <= page[c.page].conn
            /\ Current(c) => c.frame.stream = Stream(c.page)
        BY <3>2
      <4>2. c.at = e
        BY <4>1
      <4> QED BY <1>3, <4>1, <4>2 DEF Fits, Current, Stream
    <3> QED BY <3>1, <3>2
  <2>2. ASSUME NEW d \in Epochs, holder[d] # Nothing PROVE Fits(holder[d].call)'
    <3>1. /\ holder[d].call \in AnyCall /\ holder[d].call.conn <= page[holder[d].call.page].conn
          /\ holder[d].call.at <= created
          /\ Current(holder[d].call)
                => holder[d].call.frame.stream = Stream(holder[d].call.page)
      BY <2>2, CallTypes DEF Fits
    <3>2. holder[d].call.at \in Nat
      BY <1>8, <3>1
    <3>3. holder[d].call.at <= created'
      BY <1>1, <1>3, <3>1, <3>2
    <3> QED BY <3>1, <3>3 DEF Fits, Current, Stream
  <2> QED BY <2>1, <2>2 DEF CallsFit
<1>10. HolderIsNext'
  <2>1. ASSUME NEW d \in Epochs, holder[d] # Nothing
        PROVE  d <= created /\ holder[d].call.at = d
    <3>1. holder[d].call \in AnyCall /\ holder[d].call.at <= created
      BY <2>1, CallTypes DEF Fits
    <3>2. holder[d].call.at = d
      BY <2>1 DEF TaskInv, HolderIsNext
    <3> QED BY <3>1, <3>2
  <2>2. \A d \in Epochs : holder'[d] # Nothing =>
           sequencer'[d] = sequencer[d] /\ holder'[d] = holder[d]
    BY <1>4, <2>1
  <2> QED BY <2>2 DEF TaskInv, HolderIsNext
<1>11. CountIsWhole'
  BY <1>4 DEF TaskInv, CountIsWhole, Whole
<1>12. AckedIsComplete'
  BY DEF TaskInv, AckedIsComplete, Stream
<1> QED BY <1>6, <1>9, <1>10, <1>11, <1>12

\* A frame that is passed on becomes a call that fits.
LEMMA DispatchStep == ASSUME TaskInv, NEW p \in Pages, Dispatch(p) PROVE TaskInv'
<1> DEFINE f == Head(relay[p])
           rest == Tail(relay[p])
           reply == Reply("fatal", f.seq, 0)
           left == IF page[p].mode = "post" THEN <<>> ELSE rest
<1>1. relay[p] # <<>> /\ page' = page /\ complete' = complete /\ holder' = holder /\ late' = late
  BY DEF Dispatch, taskHistory
<1>2. PICK e \in 0..MaxEpochs :
         /\ Registry(f, e)
         /\ \/ /\ e # 0
               /\ Arrives(p, page[p].conn, f, e)
               /\ relay' = [relay EXCEPT ![p] = rest]
               /\ replies' = replies
            \/ /\ replies' = [replies EXCEPT ![p] = Append(@, reply)]
               /\ relay' = [relay EXCEPT ![p] = left]
               /\ calls' = calls
  BY DEF Dispatch
<1>3. /\ f \in AnyFrame /\ f.seq \in Nat /\ f.stream = Stream(p) /\ rest \in Seq(AnyFrame)
      /\ \A i \in 1..Len(rest) : rest[i].stream = Stream(p)
  BY <1>1, RelayShrinks DEF AnyFrame
<1>4. page[p].conn \in Nat
  BY Own
<1> HIDE DEF f, rest
<1> DEFINE new == [page |-> p, conn |-> page[p].conn, frame |-> f, at |-> e]
<1>5. /\ new \in [page : Pages, conn : Nat, frame : AnyFrame, at : {e}]
      /\ new.conn <= page[new.page].conn
      /\ Current(new) => new.frame.stream = Stream(new.page)
  BY <1>3, <1>4
<1>6. calls' = calls \/ (e # 0 /\ calls' = calls \cup {new})
  BY <1>2 DEF Arrives
<1> HIDE DEF new
<1>7. AgentTypes' /\ CallsFit' /\ HolderIsNext' /\ CountIsWhole' /\ AckedIsComplete'
  BY <1>1, <1>2, <1>5, <1>6, RegistryKeeps
<1>8. left \in Seq(AnyFrame) /\ \A i \in 1..Len(left) : left[i].stream = Stream(p)
  <2>1. <<>> \in Seq(AnyFrame) /\ Len(<<>>) = 0
    BY EmptySeq
  <2> QED BY <1>3, <2>1
<1> HIDE DEF left
<1>9. relay' \in [Pages -> Seq(AnyFrame)] /\ RelayFits'
  <2>1. CASE relay' = [relay EXCEPT ![p] = rest]
    BY <1>1, <1>3, <2>1, RelayKeeps
  <2>2. CASE relay' = [relay EXCEPT ![p] = left]
    BY <1>1, <1>8, <2>2, RelayKeeps
  <2> QED BY <1>2, <2>1, <2>2
<1>10. reply \in AnyReply /\ reply.type # "ack"
  BY <1>3 DEF Reply, AnyReply
<1> HIDE DEF reply
<1>11. replies' \in [Pages -> Seq(AnyReply)] /\ ReplyIsWhole'
  <2>1. CASE replies' = replies
    BY <1>1, <2>1, Untold
  <2>2. CASE replies' = [replies EXCEPT ![p] = Append(@, reply)]
    BY <1>1, <1>10, <2>2, Told
  <2> QED BY <1>2, <2>1, <2>2
<1>12. PageTypes'
  BY <1>1, <1>9, <1>11 DEF TaskInv, PageTypes, InWindow
<1>13. LateFits'
  BY <1>1 DEF TaskInv, LateFits, Current
<1> QED BY <1>7, <1>9, <1>11, <1>12, <1>13 DEF TaskInv

\* A frame that comes late becomes a call of no present attempt.
LEMMA DispatchLateStep == ASSUME TaskInv, NEW l \in late, DispatchLate(l) PROVE TaskInv'
<1>1. /\ page' = page /\ complete' = complete /\ holder' = holder /\ relay' = relay
      /\ replies' = replies /\ late' = late \ {l}
  BY DEF DispatchLate, taskHistory
<1>2. PICK e \in 0..MaxEpochs :
         /\ Registry(l.frame, e)
         /\ IF e = 0 THEN UNCHANGED calls ELSE Arrives(l.page, l.conn, l.frame, e)
  BY DEF DispatchLate
<1> DEFINE new == [page |-> l.page, conn |-> l.conn, frame |-> l.frame, at |-> e]
<1>3. l \in Latecomers /\ l.conn <= page[l.page].conn /\ ~Current(l)
  BY DEF TaskInv, LateFits
<1>4. /\ new \in [page : Pages, conn : Nat, frame : AnyFrame, at : {e}]
      /\ new.conn <= page[new.page].conn
      /\ Current(new) => new.frame.stream = Stream(new.page)
  BY <1>3 DEF Latecomers, Current
<1>5. calls' = calls \/ (e # 0 /\ calls' = calls \cup {new})
  BY <1>2 DEF Arrives
<1> HIDE DEF new
<1>6. AgentTypes' /\ CallsFit' /\ HolderIsNext' /\ CountIsWhole' /\ AckedIsComplete'
  BY <1>1, <1>2, <1>4, <1>5, RegistryKeeps
<1>7. PageTypes' /\ RelayFits' /\ ReplyIsWhole' /\ LateFits'
  BY <1>1 DEF TaskInv, PageTypes, InWindow, RelayFits, Stream, ReplyIsWhole, Whole, LateFits,
              Current
<1> QED BY <1>6, <1>7 DEF TaskInv

\* A restart forgets the registry and the calls, but nothing written.
LEMMA AgentRestartStep == ASSUME TaskInv, AgentRestart PROVE TaskInv'
<1> DEFINE Cut(p) == InAgent(p) # {} /\ page[p].link # "stopped"
           reply == Reply("retry", 0, 0)
<1>1. /\ entry' = 0 /\ calls' = {} /\ holder' = [e \in Epochs |-> Nothing]
      /\ replies' = [p \in Pages |-> IF Cut(p) THEN Append(replies[p], reply) ELSE replies[p]]
      /\ relay' = [p \in Pages |-> IF Cut(p) /\ page[p].mode = "post" THEN <<>> ELSE relay[p]]
      /\ created' = created /\ sequencer' = sequencer /\ page' = page /\ complete' = complete
      /\ late' = late
  BY DEF AgentRestart, taskHistory
<1>2. reply \in AnyReply /\ reply.type # "ack"
  BY DEF Reply, AnyReply
<1> HIDE DEF Cut, reply
<1>3. ASSUME NEW p \in Pages
      PROVE  /\ replies'[p] \in Seq(AnyReply)
             /\ \A i \in 1..Len(replies'[p]) : replies'[p][i].type = "ack"
                  => Whole(Stream(p), replies'[p][i].seq)
  <2>1. /\ replies[p] \in Seq(AnyReply)
        /\ \A i \in 1..Len(replies[p]) :
              replies[p][i].type = "ack" => Whole(Stream(p), replies[p][i].seq)
    BY Own
  <2>2. CASE replies'[p] = replies[p]
    BY <2>1, <2>2
  <2>3. CASE replies'[p] = Append(replies[p], reply)
    <3> DEFINE new == Append(replies[p], reply)
    <3>1. /\ new \in Seq(AnyReply) /\ Len(new) = Len(replies[p]) + 1
          /\ Len(replies[p]) \in Nat
          /\ \A i \in 1..Len(replies[p]) : new[i] = replies[p][i]
          /\ new[Len(replies[p]) + 1] = reply
      BY <1>2, <2>1, AppendProperties, LenProperties
    <3> HIDE DEF new
    <3>2. \A i \in 1..Len(new) : i \in 1..Len(replies[p]) \/ new[i] = reply
      BY <3>1
    <3>3. \A i \in 1..Len(new) : new[i].type = "ack" => Whole(Stream(p), new[i].seq)
      BY <1>2, <2>1, <3>1, <3>2
    <3> QED BY <2>3, <3>1, <3>3 DEF new
  <2> QED BY <1>1, <2>2, <2>3
<1>4. ASSUME NEW p \in Pages
      PROVE  /\ relay'[p] \in Seq(AnyFrame)
             /\ \A i \in 1..Len(relay'[p]) : relay'[p][i].stream = Stream(p)
  <2>1. <<>> \in Seq(AnyFrame) /\ Len(<<>>) = 0
    BY EmptySeq
  <2>2. relay'[p] = <<>> \/ relay'[p] = relay[p]
    BY <1>1
  <2>3. relay[p] \in Seq(AnyFrame) /\ \A i \in 1..Len(relay[p]) : relay[p][i].stream = Stream(p)
    BY Own
  <2>4. CASE relay'[p] = <<>>
    <3> DEFINE none == relay'[p]
    <3>1. none \in Seq(AnyFrame) /\ Len(none) = 0
      BY <2>1, <2>4
    <3> HIDE DEF none
    <3>2. \A i \in 1..Len(none) : none[i].stream = Stream(p)
      BY <3>1
    <3> QED BY <3>1, <3>2 DEF none
  <2>5. CASE relay'[p] = relay[p]
    BY <2>3, <2>5
  <2> QED BY <2>2, <2>4, <2>5
<1>5. relay' \in [Pages -> Seq(AnyFrame)] /\ replies' \in [Pages -> Seq(AnyReply)]
  <2>1. DOMAIN relay' = Pages /\ relay' = [p \in Pages |-> relay'[p]]
    BY <1>1
  <2>2. DOMAIN replies' = Pages /\ replies' = [p \in Pages |-> replies'[p]]
    BY <1>1
  <2>3. \A p \in Pages : relay'[p] \in Seq(AnyFrame)
    BY <1>4
  <2>4. \A p \in Pages : replies'[p] \in Seq(AnyReply)
    BY <1>3
  <2>5. relay' \in [Pages -> Seq(AnyFrame)]
    BY <2>1, <2>3
  <2>6. replies' \in [Pages -> Seq(AnyReply)]
    BY <2>2, <2>4
  <2> QED BY <2>5, <2>6
<1>6. PageTypes'
  BY <1>1, <1>5 DEF TaskInv, PageTypes, InWindow
<1>7. RelayFits'
  BY <1>1, <1>4 DEF RelayFits, Stream
<1>8. ReplyIsWhole'
  BY <1>1, <1>3 DEF ReplyIsWhole, Whole, Stream
<1>9. AgentTypes'
  <2>1. created' \in 0..MaxEpochs /\ entry' \in 0..created' /\ calls' \subseteq AnyCall
    BY <1>1 DEF TaskInv, AgentTypes
  <2>2. holder' \in [Epochs -> {Nothing} \cup [call : AnyCall, result : Results]]
    BY <1>1
  <2> QED BY <1>1, <2>1, <2>2 DEF TaskInv, AgentTypes
<1>10. CallsFit' /\ HolderIsNext'
  BY <1>1 DEF CallsFit, HolderIsNext
<1>11. CountIsWhole' /\ AckedIsComplete' /\ LateFits'
  BY <1>1 DEF TaskInv, CountIsWhole, AckedIsComplete, Whole, Stream, LateFits, Current
<1> QED BY <1>6, <1>7, <1>8, <1>9, <1>10, <1>11 DEF TaskInv

\* A step of which the invariant sees nothing.
LEMMA Unseen ==
    ASSUME TaskInv, UNCHANGED <<entry, created, sequencer, holder, calls, pageVars, complete>>
    PROVE  TaskInv'
BY DEF TaskInv, AgentTypes, PageTypes, InWindow, RelayFits, CallsFit, Fits, Current, Stream,
       HolderIsNext, CountIsWhole, ReplyIsWhole, AckedIsComplete, LateFits, Whole, pageVars

\* The invariant holds at first and is kept by every step.
LEMMA TaskInitInv == TaskInit => TaskInv
<1> SUFFICES ASSUME TaskInit PROVE TaskInv
  OBVIOUS
<1>1. <<>> \in Seq(AnyFrame) /\ <<>> \in Seq(AnyReply) /\ Len(<<>>) = 0
  BY EmptySeq
<1>2. /\ entry = 0 /\ created = 0 /\ sequencer = [e \in Epochs |-> Fresh(Nothing)]
      /\ holder = [e \in Epochs |-> Nothing] /\ calls = {}
      /\ page = [p \in Pages |-> NewPage] /\ late = {}
      /\ relay = [p \in Pages |-> <<>>] /\ replies = [p \in Pages |-> <<>>]
  BY DEF TaskInit
<1>3. NewPage \in Writers /\ NewPage.acked = 0 /\ NewPage.sequence = 0
  BY DEF NewPage, Writers
<1>4. AgentTypes
  BY <1>2, TaskBounds DEF AgentTypes, Fresh
<1>5. PageTypes
  <2>1. page \in [Pages -> Writers]
    <3> HIDE DEF NewPage
    <3> QED BY <1>2, <1>3
  <2>2. \A p \in Pages : InWindow(page[p])
    <3>1. \A p \in Pages : page[p] = NewPage
      BY <1>2
    <3>2. InWindow(NewPage)
      BY <1>3, WindowAssumption DEF InWindow
    <3> QED BY <3>1, <3>2
  <2> QED BY <1>1, <1>2, <2>1, <2>2 DEF PageTypes
<1>6. RelayFits /\ ReplyIsWhole
  BY <1>1, <1>2 DEF RelayFits, ReplyIsWhole
<1>7. CallsFit /\ HolderIsNext /\ LateFits
  BY <1>2 DEF CallsFit, HolderIsNext, LateFits
<1>8. CountIsWhole
  BY <1>2 DEF CountIsWhole, Fresh, Whole
<1>9. AckedIsComplete
  BY <1>2, <1>3 DEF AckedIsComplete
<1> QED BY <1>4, <1>5, <1>6, <1>7, <1>8, <1>9 DEF TaskInv

LEMMA TaskNextInv == ASSUME TaskInv, [TaskNext]_taskVars PROVE TaskInv'
<1>1. ASSUME NEW p \in Pages, Type(p) PROVE TaskInv'
  BY <1>1, TypeStep
<1>2. ASSUME NEW p \in Pages, PageStep(p) PROVE TaskInv'
  BY <1>2, ConnectStep, SendBatchStep, DispatchStep, OnClaimedStep, OnAckStep, OnBatchStep,
     OnErrorStep DEF PageStep
<1>3. ASSUME NEW p \in Pages, Drop(p) PROVE TaskInv'
  BY <1>3, DropStep DEF Drop
<1>4. ASSUME NEW p \in Pages, Close(p) PROVE TaskInv'
  BY <1>4, CloseStep
<1>5. ASSUME NEW c \in calls, Unavailable(c) PROVE TaskInv'
  BY <1>5, UnavailableStep
<1>6. ASSUME AgentStep PROVE TaskInv'
  BY <1>6, ClaimStep, AnswerFrameStep, StartWriteStep, EndWriteStep DEF AgentStep
<1>7. ASSUME AgentRestart PROVE TaskInv'
  BY <1>7, AgentRestartStep
<1>8. ASSUME TaskStep PROVE TaskInv'
  BY <1>8, Unseen DEF TaskStep, taskHistory
<1>9. ASSUME UNCHANGED taskVars PROVE TaskInv'
  BY <1>9, Unseen DEF taskVars, agentVars, taskHistory
<1>10. ASSUME NEW l \in late, DispatchLate(l) PROVE TaskInv'
  BY <1>10, DispatchLateStep
<1> QED BY <1>1, <1>2, <1>3, <1>4, <1>5, <1>6, <1>7, <1>8, <1>9, <1>10 DEF TaskNext

(***************************************************************************)
(* For any pages of one task: a frame that a page has dropped from its     *)
(* window as acknowledged was written to the job completely, however its   *)
(* calls are dropped, retried and answered late and the Agent restarts.    *)
(***************************************************************************)
THEOREM NothingLost == TaskSpec => []AckedIsComplete
<1>1. TaskInit => TaskInv
  BY TaskInitInv
<1>2. TaskInv /\ [TaskNext]_taskVars => TaskInv'
  BY TaskNextInv
<1>3. TaskInv => AckedIsComplete
  BY DEF TaskInv
<1> QED BY <1>1, <1>2, <1>3, PTL DEF TaskSpec

\* Whoever is next at a sequencer follows frames that are complete.
LEMMA StartsInTurn ==
    ASSUME TaskInv, NEW c \in calls, StartWrite(c)
    PROVE  \/ taken' = taken
           \/ /\ taken' = Append(taken, c.frame)
              /\ \A n \in 1..(c.frame.seq - 1) :
                   [stream |-> c.frame.stream, seq |-> n] \in complete
<1>1. taken' \in {taken, Append(taken, c.frame)}
  BY DEF StartWrite
<1>2. sequencer[c.at].stream = c.frame.stream /\ c.frame.seq = sequencer[c.at].acked + 1
  BY DEF StartWrite, NextInOrder
<1>3. Whole(sequencer[c.at].stream, sequencer[c.at].acked) /\ sequencer[c.at].acked \in Nat
  BY CallTypes DEF TaskInv, CountIsWhole, AgentTypes
<1>4. c.frame.seq - 1 = sequencer[c.at].acked
  BY <1>2, <1>3
<1>5. \A n \in 1..(c.frame.seq - 1) : [stream |-> c.frame.stream, seq |-> n] \in complete
  BY <1>2, <1>3, <1>4 DEF Whole
<1> QED BY <1>1, <1>5

(***************************************************************************)
(* For any pages of one task: the job is given bytes of a frame only when  *)
(* every earlier frame of its stream has been written completely.          *)
(***************************************************************************)
THEOREM NothingSkipped == TaskSpec => InTurn
<1> DEFINE Turn == \/ taken' = taken
                   \/ \E c \in calls :
                        /\ taken' = Append(taken, c.frame)
                        /\ \A n \in 1..(c.frame.seq - 1) :
                             [stream |-> c.frame.stream, seq |-> n] \in complete
<1>1. TaskInit => TaskInv
  BY TaskInitInv
<1>2. TaskInv /\ [TaskNext]_taskVars => TaskInv'
  BY TaskNextInv
<1>3. ASSUME TaskInv, [TaskNext]_taskVars PROVE [Turn]_taskVars
  <2>1. ASSUME NEW c \in calls, StartWrite(c) PROVE Turn
    BY <1>3, <2>1, StartsInTurn
  <2>2. ASSUME NEW p \in Pages, Type(p) \/ PageStep(p) \/ Drop(p) \/ Close(p) PROVE taken' = taken
    BY <2>2 DEF Type, PageStep, Connect, SendBatch, Dispatch, OnClaimed, OnAck, OnBatch,
                OnError, Drop, Close, Becomes, GivesUp, taskHistory
  <2>3. ASSUME NEW c \in calls, Unavailable(c) \/ AdmitClaim(c) \/ AnswerFrame(c)
        PROVE  taken' = taken
    BY <2>3 DEF Unavailable, AdmitClaim, AnswerFrame, taskHistory
  <2>4. ASSUME \/ \E e \in Epochs : EndWrite(e)
               \/ \E l \in late : DispatchLate(l)
               \/ AgentRestart \/ TaskStep
        PROVE  taken' = taken
    BY <2>4 DEF EndWrite, DispatchLate, AgentRestart, TaskStep, taskHistory
  <2>5. CASE UNCHANGED taskVars
    BY <2>5
  <2>6. CASE TaskNext
    BY <2>1, <2>2, <2>3, <2>4, <2>6 DEF TaskNext, AgentStep
  <2> QED BY <1>3, <2>5, <2>6
<1> QED BY <1>1, <1>2, <1>3, PTL DEF TaskSpec, InTurn
-----------------------------------------------------------------------------
(***************************************************************************)
(* A page alone at its task.  Its data reaches the job through a sequencer *)
(* that it has been told of, and which therefore counts its frames, or, as *)
(* long as its batches have not claimed, there is one copy of each frame on*)
(* its way: what waits has been sent once, and is neither read by the job  *)
(* nor acknowledged.  Only a claim of an attempt given up that binds the   *)
(* stream anew (stray) can put an empty count under a page that goes on.   *)
(***************************************************************************)

\* A sequencer that works for a call is the one the registry knows, unless the
\* registry has forgotten it with the task.
RegistryKnows ==
    /\ entry \in {0, created}
    /\ \A e \in Epochs : (holder[e] # Nothing \/ \E c \in calls : c.at = e)
         => entry = e \/ (entry = 0 /\ task = "ended")
    /\ task \in {"starting", "open", "ended"}
    /\ task = "starting" => entry = 0
    /\ \A e \in Epochs : holder[e] # Nothing /\ holder[e].result = "closed" => task = "ended"

\* The frames of which the job has read bytes.
Given == {taken[i] : i \in 1..Len(taken)}

HeldRead ==
    \A e \in Epochs : holder[e] # Nothing /\ holder[e].result \in {"ok", "uncertain"}
        => holder[e].call.frame \in Given

\* What an attempt of a page is made of: one claim, or data of a page that has
\* claimed.
Attempt(p) ==
    LET w == page[p]
    IN  /\ w.link \in {"down", "stopped"} => relay[p] = <<>>
        /\ w.link = "down" /\ ~w.postClaimed => InAgent(p) = {}
        /\ w.link = "claiming" =>
              /\ ~w.postClaimed
              /\ \A c, d \in InAgent(p) : c = d /\ c.frame.seq = 0
              /\ InAgent(p) # {} => replies[p] = <<>>
              /\ relay[p] # <<>> => /\ Len(relay[p]) = 1 /\ relay[p][1].seq = 0
                                    /\ InAgent(p) = {} /\ replies[p] = <<>>
        /\ w.link \in {"ready", "posting"} =>
              \A i \in 1..Len(relay[p]) : relay[p][i].seq > 0
        /\ w.link \in {"down", "ready", "posting"} =>
              \A c \in InAgent(p) : c.frame.seq > 0
        /\ w.link = "ready" => w.mode = "duplex" /\ ~w.postClaimed
        /\ w.link = "posting" => w.postClaimed
        /\ w.postClaimed => w.mode = "post"

\* The number of the last frame of the sequencer's stream handed to the FIFO.
HandedOn(e) ==
    IF \/ sequencer[e].failed
       \/ holder[e] # Nothing /\ holder[e].result \in {"ok", "uncertain"}
    THEN sequencer[e].acked + 1 ELSE sequencer[e].acked

Counted(s, e) == \A f \in Given : f.stream = s => f.seq <= HandedOn(e)

\* Data that was sent and has not reached its gate.
Waiting == {x \in late \cup calls : x.frame.seq > 0}

\* The number of the last frame that the relay of a ready page has passed on.
Passed(p) == IF page[p].link = "ready" THEN page[p].sequence - Len(relay[p])
             ELSE page[p].sequence

\* The acknowledgements on their way to a page.
Acks(p) == {r \in {replies[p][i] : i \in 1..Len(replies[p])} : r.type = "ack"}

\* All data is of the page's present stream; there is none before its first claim.
Owns(p) ==
    LET w == page[p]
        s == Stream(p)
    IN  /\ \A x \in Waiting : x.frame.stream = s
        /\ \A f \in Given : f.stream[2] <= w.life
        /\ w.epoch = 0 => /\ w.link \notin {"ready", "posting"} /\ ~w.postClaimed
                          /\ Waiting = {}
                          /\ \A f \in Given : f.stream # s

\* The registry's sequencer counts the frames of a page that was told of it.
Bound(p) ==
    LET w == page[p]
        s == Stream(p)
    IN  /\ w.epoch <= created
        /\ \A r \in Acks(p) : r.epoch \in 1..created
        /\ entry # 0 /\ task # "ended" =>
            /\ entry = w.epoch => sequencer[entry].stream = s /\ Counted(s, entry)
            /\ w.postClaimed /\ sequencer[entry].stream = s => Counted(s, entry)
            /\ w.link = "claiming" =>
                  \A r \in Acks(p) :
                      IF r.epoch = entry THEN sequencer[entry].stream = s
                      ELSE w.epoch = 0 \/ sequencer[entry].stream # s

\* Until batches have claimed, what waits is sent once, unread and pending.
Single(p) ==
    LET w == page[p]
        s == Stream(p)
        n == Passed(p)
    IN  ~w.postClaimed =>
        /\ w.mode = "duplex" /\ w.link \in {"down", "claiming"} => w.sequence = w.acked
        /\ \A f \in Given : f.stream = s => f.seq <= n
        /\ \A x \in Waiting : /\ w.acked < x.frame.seq /\ x.frame.seq <= n
                              /\ x.frame \notin Given
                              /\ \A y \in Waiting : x.frame = y.frame => x = y
        /\ w.link = "ready" =>
              /\ w.acked <= n
              /\ \A i \in 1..Len(relay[p]) : relay[p][i].seq = n + i
              /\ \A r \in Acks(p) : /\ r.seq <= n
                                    /\ \A x \in Waiting : x.frame.seq # r.seq

\* What holds whatever claims come late, and what holds while none has strayed.
Orderly(p) == /\ Pages = {p} /\ TaskInv /\ taken \in Seq(AnyFrame)
              /\ RegistryKnows /\ HeldRead /\ Attempt(p)

Once(p) == ReadOnce /\ Owns(p) /\ Bound(p) /\ Single(p)

OnceInv(p) == Orderly(p) /\ (~stray => Once(p))

-----------------------------------------------------------------------------
\* The calls in hand have their types and fit their pages.
LEMMA HandTypes ==
    ASSUME TaskInv
    PROVE  \A c \in InHand :
              /\ c \in AnyCall /\ Fits(c) /\ c.at \in Epochs /\ c.at \in Nat /\ c.at # 0
              /\ c.page \in Pages /\ c.frame \in AnyFrame /\ c.frame.stream \in AllStreams
              /\ c.frame.seq \in Nat /\ c.conn \in Nat
<1>1. \A c \in InHand : c \in AnyCall /\ Fits(c)
  BY CallTypes DEF InHand
<1>2. \A c \in AnyCall :
         /\ c.at \in Epochs /\ c.at \in Nat /\ c.at # 0 /\ c.page \in Pages
         /\ c.frame \in AnyFrame /\ c.conn \in Nat
  BY DEF AnyCall, Epochs
<1>3. \A f \in AnyFrame : f.stream \in AllStreams /\ f.seq \in Nat
  BY DEF AnyFrame
<1> QED BY <1>1, <1>2, <1>3

\* Two frames of one stream differ in their numbers.
LEMMA SameFrame ==
    ASSUME NEW f \in AnyFrame, NEW g \in AnyFrame, f.stream = g.stream, f.seq = g.seq
    PROVE  f = g
BY DEF AnyFrame

\* What was read, what waits and what is acknowledged have their types.
LEMMA GivenTypes ==
    ASSUME taken \in Seq(AnyFrame)
    PROVE  \A f \in Given : f \in AnyFrame /\ f.seq \in Nat /\ f.stream[2] \in Nat
<1>1. \A f \in Given : f \in AnyFrame
  BY ElementOfSeq DEF Given
<1>2. \A f \in AnyFrame : f.seq \in Nat /\ f.stream[2] \in Nat
  BY DEF AnyFrame, AllStreams
<1> QED BY <1>1, <1>2

LEMMA WaitingTypes ==
    ASSUME TaskInv
    PROVE  /\ \A x \in Waiting : x.frame \in AnyFrame /\ x.frame.seq \in Nat
           /\ late \cap calls = {}
           /\ \A l \in late : l \in Latecomers
<1>1. \A l \in late : l \in Latecomers
  BY DEF TaskInv, LateFits
<1>2. \A c \in calls : c \in AnyCall
  BY CallTypes
<1>3. \A x \in Latecomers : x.frame \in AnyFrame /\ x \notin AnyCall
  BY DEF Latecomers, AnyCall
<1>4. \A x \in AnyCall : x.frame \in AnyFrame
  BY DEF AnyCall
<1>5. \A f \in AnyFrame : f.seq \in Nat
  BY DEF AnyFrame
<1> QED BY <1>1, <1>2, <1>3, <1>4, <1>5 DEF Waiting

\* The acknowledgements after a reply was added or read.
LEMMA AcksAre ==
    ASSUME TaskInv, TaskInv', NEW p \in Pages
    PROVE  /\ \A r \in Acks(p) : r \in AnyReply /\ r.seq \in Nat /\ r.epoch \in Nat
           /\ replies'[p] = <<>> => Acks(p)' = {}
           /\ replies'[p] = replies[p] => Acks(p)' = Acks(p)
           /\ \A r \in AnyReply : replies'[p] = Append(replies[p], r)
                => Acks(p)' \subseteq Acks(p) \cup {r}
                   /\ (r.type # "ack" => Acks(p)' \subseteq Acks(p))
           /\ replies[p] # <<>> /\ replies'[p] = Tail(replies[p]) => Acks(p)' \subseteq Acks(p)
           /\ replies[p] # <<>> /\ Head(replies[p]).type = "ack" => Head(replies[p]) \in Acks(p)
<1>1. replies[p] \in Seq(AnyReply) /\ replies'[p] \in Seq(AnyReply)
  BY DEF TaskInv, PageTypes, AnyReply
<1>2. \A r \in Acks(p) : r \in AnyReply
  BY <1>1, ElementOfSeq DEF Acks
<1>3. \A r \in AnyReply : r.seq \in Nat /\ r.epoch \in Nat
  BY DEF AnyReply
<1>4. replies'[p] = <<>> => Acks(p)' = {}
  BY EmptySeq DEF Acks
<1>5. replies'[p] = replies[p] => Acks(p)' = Acks(p)
  BY DEF Acks
<1>6. ASSUME NEW r \in AnyReply, replies'[p] = Append(replies[p], r)
      PROVE  Acks(p)' \subseteq Acks(p) \cup {r} /\ (r.type # "ack" => Acks(p)' \subseteq Acks(p))
  <2> DEFINE new == Append(replies[p], r)
  <2>1. /\ Len(new) = Len(replies[p]) + 1 /\ Len(replies[p]) \in Nat
        /\ \A i \in 1..Len(replies[p]) : new[i] = replies[p][i]
        /\ new[Len(replies[p]) + 1] = r
    BY <1>1, AppendProperties, LenProperties
  <2> HIDE DEF new
  <2>2. \A i \in 1..Len(new) : new[i] = r \/ (i \in 1..Len(replies[p]) /\ new[i] = replies[p][i])
    BY <2>1
  <2>3. replies'[p] = new
    BY <1>6 DEF new
  <2> QED BY <2>2, <2>3 DEF Acks
<1>7. ASSUME replies[p] # <<>>
      PROVE  /\ replies'[p] = Tail(replies[p]) => Acks(p)' \subseteq Acks(p)
             /\ Head(replies[p]).type = "ack" => Head(replies[p]) \in Acks(p)
  <2>1. /\ Head(replies[p]) = replies[p][1]
        /\ Len(replies[p]) \in Nat /\ Len(replies[p]) > 0
        /\ Len(Tail(replies[p])) = Len(replies[p]) - 1
        /\ \A i \in 1..Len(Tail(replies[p])) : Tail(replies[p])[i] = replies[p][i + 1]
    BY <1>1, <1>7
  <2>2. \A i \in 1..Len(Tail(replies[p])) : i + 1 \in 1..Len(replies[p])
    BY <2>1
  <2>3. Head(replies[p]).type = "ack" => Head(replies[p]) \in Acks(p)
    <3>1. 1 \in 1..Len(replies[p])
      BY <2>1
    <3> QED BY <2>1, <3>1 DEF Acks
  <2>4. ASSUME replies'[p] = Tail(replies[p]), NEW r \in Acks(p)' PROVE r \in Acks(p)
    <3>1. PICK i \in 1..Len(Tail(replies[p])) : r = Tail(replies[p])[i] /\ r.type = "ack"
      BY <2>4 DEF Acks
    <3>2. r = replies[p][i + 1] /\ i + 1 \in 1..Len(replies[p])
      BY <2>1, <2>2, <3>1
    <3> QED BY <3>1, <3>2 DEF Acks
  <2> QED BY <2>3, <2>4
<1> QED BY <1>2, <1>3, <1>4, <1>5, <1>6, <1>7

\* What the page's variables are after a step that changes them for p alone.
LEMMA OnePage ==
    ASSUME NEW p \in Pages, Pages = {p}, TaskInv, NEW w, NEW sent, NEW told,
           page' = [page EXCEPT ![p] = w], relay' = [relay EXCEPT ![p] = sent],
           replies' = [replies EXCEPT ![p] = told]
    PROVE  page'[p] = w /\ relay'[p] = sent /\ replies'[p] = told
BY DEF TaskInv, PageTypes

\* The number handed on is a number.
LEMMA HandedOnTypes ==
    ASSUME TaskInv, NEW e \in Epochs
    PROVE  HandedOn(e) \in Nat
BY DEF TaskInv, AgentTypes, HandedOn

\* The sequencer of the registry is one of those created.
LEMMA EntryTypes ==
    ASSUME TaskInv
    PROVE  /\ created \in Nat /\ entry \in Nat /\ entry <= created
           /\ entry # 0 => entry \in Epochs
BY TaskBounds DEF TaskInv, AgentTypes, Epochs

\* The page's own place: the stream stays while its life does.
LEMMA StreamIs ==
    ASSUME NEW p \in Pages
    PROVE  Stream(p) = <<p, page[p].life>> /\ Stream(p)' = <<p, page'[p].life>>
BY DEF Stream

\* The registry's part: a step that gives nobody new work and forgets the
\* sequencer only when nobody works or the task has ended.
LEMMA RegistryKept ==
    ASSUME RegistryKnows, created' = created, task' = task,
           \/ entry' = entry
           \/ entry' = 0 /\ task = "ended",
           \A e \in Epochs : holder'[e] # Nothing \/ (\E c \in calls' : c.at = e)
               => holder[e] # Nothing \/ \E c \in calls : c.at = e,
           \A e \in Epochs : holder'[e] # Nothing /\ holder'[e].result = "closed" => task = "ended"
    PROVE  RegistryKnows'
BY DEF RegistryKnows, Epochs

\* The Agent's part of Once: the page stands still, nothing new waits, and what
\* a new acknowledgement speaks of does not wait any more.
LEMMA AgentKeeps ==
    ASSUME NEW p \in Pages, Orderly(p), Once(p), TaskInv',
           page' = page, late' = late, calls' \subseteq calls, Given' = Given, taken' = taken,
           relay'[p] = relay[p] \/ page[p].mode = "post",
           \A r \in Acks(p)' : r \in Acks(p) \/
               (page[p].link = "ready" =>
                   r.seq <= Passed(p) /\ \A x \in Waiting' : x.frame.seq # r.seq)
    PROVE  ReadOnce' /\ Owns(p)' /\ Single(p)'
<1>1. ReadOnce'
  BY DEF Once, ReadOnce
<1>2. Waiting' \subseteq Waiting
  BY DEF Waiting
<1>3. Stream(p)' = Stream(p)
  BY StreamIs
<1>4. Owns(p)'
  BY <1>2, <1>3 DEF Once, Owns
<1>5. page[p].link = "ready" => relay'[p] = relay[p]
  BY DEF Orderly, Attempt
<1>6. Passed(p)' = Passed(p)
  BY <1>5 DEF Passed
<1>7. Single(p)'
  BY <1>2, <1>3, <1>5, <1>6 DEF Once, Single
<1> QED BY <1>1, <1>4, <1>7

\* The page's side of Bound stands still, and the registry's sequencer counts
\* at least what it counted, and the frame just handed on.
LEMMA BoundKept ==
    ASSUME NEW p \in Pages, Orderly(p), Once(p), TaskInv',
           page' = page, created <= created',
           entry' # 0 /\ task' # "ended" =>
               /\ entry' = entry /\ task # "ended"
               /\ sequencer'[entry].stream = sequencer[entry].stream
               /\ HandedOn(entry) <= HandedOn(entry)'
               /\ \A f \in Given' : f \in Given \/ f.seq <= HandedOn(entry)',
           \A r \in Acks(p)' : r \in Acks(p) \/
               /\ r.epoch \in 1..created'
               /\ entry' # 0 /\ task' # "ended" /\ page[p].link = "claiming" =>
                      IF r.epoch = entry THEN sequencer[entry].stream = Stream(p)
                      ELSE page[p].epoch = 0 \/ sequencer[entry].stream # Stream(p)
    PROVE  Bound(p)'
<1>1. Stream(p)' = Stream(p)
  BY StreamIs
<1>2. created \in Nat /\ created' \in Nat /\ (entry # 0 => entry \in Epochs)
      /\ page[p].epoch \in Nat
  <2>1. TaskInv
    BY DEF Orderly
  <2>2. created' \in Nat
    BY TaskBounds DEF TaskInv, AgentTypes
  <2>3. page[p].epoch \in Nat
    BY <2>1, Own DEF Writers
  <2> QED BY <2>1, <2>2, <2>3, EntryTypes
<1>3. 1..created \subseteq 1..created' /\ page[p].epoch <= created'
  BY <1>2 DEF Once, Bound
<1>4. \A r \in Acks(p)' : r.epoch \in 1..created'
  BY <1>3 DEF Once, Bound
<1>5. ASSUME entry' # 0, task' # "ended"
      PROVE  /\ entry = page[p].epoch =>
                   sequencer'[entry].stream = Stream(p) /\ Counted(Stream(p), entry)'
             /\ page[p].postClaimed /\ sequencer'[entry].stream = Stream(p)
                   => Counted(Stream(p), entry)'
             /\ page[p].link = "claiming" =>
                  \A r \in Acks(p)' :
                      IF r.epoch = entry THEN sequencer'[entry].stream = Stream(p)
                      ELSE page[p].epoch = 0 \/ sequencer'[entry].stream # Stream(p)
  <2>1. /\ entry # 0 /\ task # "ended" /\ entry \in Epochs /\ entry' = entry
        /\ sequencer'[entry].stream = sequencer[entry].stream
        /\ HandedOn(entry) <= HandedOn(entry)'
        /\ \A f \in Given' : f \in Given \/ f.seq <= HandedOn(entry)'
    BY <1>2, <1>5
  <2>2. HandedOn(entry) \in Nat /\ HandedOn(entry)' \in Nat
    <3>1. HandedOn(entry) \in Nat
      BY <2>1, HandedOnTypes DEF Orderly
    <3>2. sequencer'[entry].acked \in Nat
      BY <2>1 DEF TaskInv, AgentTypes, Epochs
    <3> QED BY <2>1, <3>1, <3>2 DEF HandedOn
  <2>3. \A f \in Given : f.seq \in Nat
    BY GivenTypes DEF Orderly
  <2>4. Counted(Stream(p), entry) => Counted(Stream(p), entry)'
    BY <1>1, <2>1, <2>2, <2>3 DEF Counted
  <2>5. /\ entry = page[p].epoch => sequencer[entry].stream = Stream(p) /\ Counted(Stream(p), entry)
        /\ page[p].postClaimed /\ sequencer[entry].stream = Stream(p) => Counted(Stream(p), entry)
    BY <2>1 DEF Once, Bound
  <2>6. page[p].link = "claiming" =>
             \A r \in Acks(p)' :
                 IF r.epoch = entry THEN sequencer[entry].stream = Stream(p)
                 ELSE page[p].epoch = 0 \/ sequencer[entry].stream # Stream(p)
    BY <1>5, <2>1 DEF Once, Bound
  <2> QED BY <2>1, <2>4, <2>5, <2>6
<1>6. entry' # 0 /\ task' # "ended" => entry' = entry
  OBVIOUS
<1> QED BY <1>1, <1>3, <1>4, <1>5, <1>6 DEF Bound

\* An answer to a call that is in hand no more: what it changes of the page's
\* attempt, and the acknowledgement it may add.
LEMMA AnswerKeeps ==
    ASSUME NEW p \in Pages, Orderly(p), TaskInv', NEW c \in InHand, NEW reply \in AnyReply,
           Answered(c, reply), page' = page, InHand' \subseteq InHand,
           c.frame.seq = 0 => c \notin InHand'
    PROVE  /\ Attempt(p)' /\ (relay'[p] = relay[p] \/ page[p].mode = "post")
           /\ \A r \in Acks(p)' : r \in Acks(p)
                 \/ (r = reply /\ reply.type = "ack" /\ c \in InAgent(p) /\ Current(c))
<1>1. c.page = p /\ Attempt(p)
  BY HandTypes DEF Orderly
<1>2. relay \in [Pages -> Seq(AnyFrame)] /\ replies \in [Pages -> Seq(AnyReply)]
  BY DEF Orderly, TaskInv, PageTypes
<1>3. relay'[p] = relay[p] \/ (relay'[p] = <<>> /\ page[p].mode = "post")
  BY <1>1, <1>2 DEF Answered
<1>4. replies'[p] = replies[p] \/
        (replies'[p] = Append(replies[p], reply) /\ c \in InAgent(p) /\ Current(c))
  <2>1. CASE ~Current(c)
    BY <2>1 DEF Answered
  <2>2. CASE Current(c)
    <3>1. c \in InAgent(p)
      BY <1>1, <2>2 DEF Current, InAgent
    <3> QED BY <1>1, <1>2, <2>2, <3>1 DEF Answered
  <2> QED BY <2>1, <2>2
<1>5. InAgent(p)' \subseteq InAgent(p) /\ (c.frame.seq = 0 => c \notin InAgent(p)')
  BY DEF InAgent
<1>6. \A r \in Acks(p)' : r \in Acks(p)
         \/ (r = reply /\ reply.type = "ack" /\ c \in InAgent(p) /\ Current(c))
  <2>1. TaskInv
    BY DEF Orderly
  <2>2. CASE replies'[p] = replies[p]
    <3>1. Acks(p)' = Acks(p)
      BY <2>1, <2>2, AcksAre
    <3> QED BY <3>1
  <2>3. CASE replies'[p] = Append(replies[p], reply) /\ c \in InAgent(p) /\ Current(c)
    <3>1. /\ Acks(p)' \subseteq Acks(p) \cup {reply}
          /\ reply.type # "ack" => Acks(p)' \subseteq Acks(p)
      BY <2>1, <2>3, AcksAre
    <3> QED BY <2>3, <3>1
  <2> QED BY <1>4, <2>2, <2>3
<1>7. page[p].link = "claiming" => InAgent(p)' = {} \/ replies'[p] = replies[p]
  BY <1>1, <1>4, <1>5 DEF Attempt
<1>8. Len(<<>>) = 0
  OBVIOUS
<1>9. Attempt(p)'
  BY <1>1, <1>3, <1>4, <1>5, <1>7, <1>8 DEF Attempt
<1> QED BY <1>3, <1>6, <1>9

\* What a step of the Agent must keep for the invariant.
LEMMA AgentOnce ==
    ASSUME NEW p \in Pages, OnceInv(p), TaskInv', RegistryKnows', HeldRead', Attempt(p)',
           taken' \in Seq(AnyFrame), stray => stray',
           Once(p) /\ ~stray' => Once(p)'
    PROVE  OnceInv(p)'
<1>1. Orderly(p)'
  BY DEF OnceInv, Orderly, AnyFrame, AllStreams
<1> QED BY <1>1 DEF OnceInv

\* A claim is never in the middle of a write.
LEMMA ClaimIsNotHeld ==
    ASSUME TaskInv
    PROVE  \A e \in Epochs : holder[e] # Nothing => holder[e].call.frame.seq > 0
BY DEF TaskInv, HolderIsNext, AgentTypes

\* A sequencer that is left alone has handed on what it had.
LEMMA StandsStill ==
    ASSUME TaskInv, sequencer' = sequencer, holder' = holder, created' = created
    PROVE  /\ \A e \in Epochs : HandedOn(e)' = HandedOn(e) /\ HandedOn(e) <= HandedOn(e)'
           /\ created <= created' /\ (entry # 0 => entry \in Epochs)
<1>1. \A e \in Epochs : HandedOn(e)' = HandedOn(e) /\ HandedOn(e) \in Nat
  BY HandedOnTypes DEF HandedOn
<1> QED BY <1>1, EntryTypes

-----------------------------------------------------------------------------
(* The steps of the Agent.                                                 *)

LEMMA UnavailableOnce ==
    ASSUME NEW p \in Pages, OnceInv(p), NEW c \in calls, Unavailable(c)
    PROVE  OnceInv(p)'
<1> DEFINE reply == Reply("retry", c.frame.seq, 0)
<1>1. /\ calls' = calls \ {c} /\ Answered(c, reply) /\ page' = page
      /\ UNCHANGED <<task, entry, created, sequencer, holder, late, taken, stray>>
  BY DEF Unavailable, taskHistory
<1>2. Orderly(p) /\ TaskInv /\ RegistryKnows /\ HeldRead
  BY DEF OnceInv, Orderly
<1>3. TaskInv'
  BY <1>2, UnavailableStep
<1>4. c \in InHand /\ InHand' \subseteq InHand /\ c.frame.seq \in Nat
  <2>1. c \in InHand /\ InHand' \subseteq InHand
    BY <1>1 DEF InHand, Epochs
  <2> QED BY <1>2, <2>1, HandTypes
<1>5. c.frame.seq = 0 => c \notin InHand'
  BY <1>1, <1>2, ClaimIsNotHeld DEF InHand, Epochs
<1>6. reply \in AnyReply /\ reply.type # "ack"
  BY <1>4 DEF Reply, AnyReply
<1> HIDE DEF reply
<1>7. /\ Attempt(p)' /\ (relay'[p] = relay[p] \/ page[p].mode = "post")
      /\ Acks(p)' \subseteq Acks(p)
  BY <1>1, <1>2, <1>3, <1>4, <1>5, <1>6, AnswerKeeps
<1>8. RegistryKnows' /\ HeldRead' /\ Given' = Given
  <2>1. Given' = Given
    BY <1>1 DEF Given
  <2>2. HeldRead'
    BY <1>1, <1>2, <2>1 DEF HeldRead, Epochs
  <2>3. \A e \in Epochs : holder[e] # Nothing /\ holder[e].result = "closed" => task = "ended"
    BY <1>2 DEF RegistryKnows
  <2> QED BY <1>1, <1>2, <2>1, <2>2, <2>3, RegistryKept
<1>9. ASSUME Once(p) PROVE Once(p)'
  <2>1. ReadOnce' /\ Owns(p)' /\ Single(p)'
    BY <1>1, <1>2, <1>3, <1>7, <1>8, <1>9, AgentKeeps
  <2>2. Bound(p)'
    BY <1>1, <1>2, <1>3, <1>7, <1>8, <1>9, StandsStill, BoundKept
  <2> QED BY <2>1, <2>2 DEF Once
<1>10. taken' \in Seq(AnyFrame) /\ stray' = stray
  BY <1>1, <1>2 DEF Orderly
<1> QED BY <1>3, <1>7, <1>8, <1>9, <1>10, AgentOnce

\* A frame answered at once: if it is acknowledged, it was the only copy.
LEMMA AnswerFrameOnce ==
    ASSUME NEW p \in Pages, OnceInv(p), NEW c \in calls, AnswerFrame(c)
    PROVE  OnceInv(p)'
<1> DEFINE reply == Reply(IF RepeatsFrame(sequencer[c.at], c.frame) THEN "ack" ELSE "fatal",
                          c.frame.seq, c.at)
<1>1. /\ calls' = calls \ {c} /\ Answered(c, reply) /\ page' = page /\ c.frame.seq # 0
      /\ UNCHANGED <<task, entry, created, sequencer, holder, late, taken, stray>>
  BY DEF AnswerFrame, taskHistory
<1>2. Orderly(p) /\ TaskInv /\ RegistryKnows /\ HeldRead
  BY DEF OnceInv, Orderly
<1>3. TaskInv'
  BY <1>2, AnswerFrameStep
<1>4. /\ c \in InHand /\ InHand' \subseteq InHand /\ c.frame.seq \in Nat /\ c.at \in Nat
      /\ c.at # 0 /\ Fits(c) /\ c.frame \in AnyFrame
  <2>1. c \in InHand /\ InHand' \subseteq InHand
    BY <1>1 DEF InHand, Epochs
  <2> QED BY <1>2, <2>1, HandTypes
<1>5. reply \in AnyReply /\ reply.seq = c.frame.seq /\ reply.epoch = c.at
  BY <1>4 DEF Reply, AnyReply
<1> HIDE DEF reply
<1>6. /\ Attempt(p)' /\ (relay'[p] = relay[p] \/ page[p].mode = "post")
      /\ \A r \in Acks(p)' : r \in Acks(p) \/ (r = reply /\ c \in InAgent(p) /\ Current(c))
  BY <1>1, <1>2, <1>3, <1>4, <1>5, AnswerKeeps
<1>7. RegistryKnows' /\ HeldRead' /\ Given' = Given
  <2>1. Given' = Given
    BY <1>1 DEF Given
  <2>2. HeldRead'
    BY <1>1, <1>2, <2>1 DEF HeldRead, Epochs
  <2>3. \A e \in Epochs : holder[e] # Nothing /\ holder[e].result = "closed" => task = "ended"
    BY <1>2 DEF RegistryKnows
  <2> QED BY <1>1, <1>2, <2>1, <2>2, <2>3, RegistryKept
<1>8. c \in InAgent(p) => page[p].link # "claiming"
  BY <1>1, <1>2 DEF Orderly, Attempt
<1>9. reply.epoch \in 1..created'
  BY <1>1, <1>2, <1>4, <1>5, EntryTypes DEF Fits
<1>10. ASSUME Once(p) PROVE Once(p)'
  <2>1. page[p].link = "ready" =>
           reply.seq <= Passed(p) /\ \A x \in Waiting' : x.frame.seq # reply.seq
    <3>1. c \in Waiting /\ \A x \in Waiting' : x \in Waiting /\ x # c
      <4>1. c \in Waiting
        BY <1>1, <1>4 DEF Waiting
      <4>2. c \notin late
        BY <1>2, WaitingTypes
      <4> QED BY <1>1, <4>1, <4>2 DEF Waiting
    <3>2. \A x \in Waiting : x.frame \in AnyFrame /\ x.frame.stream = Stream(p)
      BY <1>2, <1>10, WaitingTypes DEF Once, Owns
    <3>3. SUFFICES ASSUME page[p].link = "ready"
                   PROVE  /\ c.frame.seq <= Passed(p)
                          /\ \A x \in Waiting' : x.frame.seq # c.frame.seq
      BY <1>5
    <3>4. ~page[p].postClaimed
      BY <1>2, <3>3 DEF Orderly, Attempt
    <3>5. /\ c.frame.seq <= Passed(p)
          /\ \A x \in Waiting : x.frame = c.frame => x = c
      BY <1>10, <3>1, <3>4 DEF Once, Single
    <3> QED BY <3>1, <3>2, <3>5, SameFrame
  <2>2. ReadOnce' /\ Owns(p)' /\ Single(p)'
    BY <1>1, <1>2, <1>3, <1>6, <1>7, <1>10, <2>1, AgentKeeps
  <2>3. Bound(p)'
    BY <1>1, <1>2, <1>3, <1>6, <1>7, <1>8, <1>9, <1>10, StandsStill, BoundKept
  <2> QED BY <2>2, <2>3 DEF Once
<1>11. taken' \in Seq(AnyFrame) /\ stray' = stray
  BY <1>1, <1>2 DEF Orderly
<1> QED BY <1>3, <1>6, <1>7, <1>10, <1>11, AgentOnce

\* A claim binds a stream the page is told of, or only the page's first claim
\* for a stream can have done so before it is told: any other has strayed.
LEMMA ClaimOnce ==
    ASSUME NEW p \in Pages, OnceInv(p), NEW c \in calls, AdmitClaim(c)
    PROVE  OnceInv(p)'
<1> DEFINE old == sequencer[c.at]
           q == AfterClaim(old, c.frame.stream)
           reply == Reply(IF q.failed THEN "fatal" ELSE "ack", 0, c.at)
<1>1. /\ calls' = calls \ {c} /\ Answered(c, reply) /\ page' = page /\ c.frame.seq = 0
      /\ UNCHANGED <<task, entry, created, holder, late, taken>>
      /\ sequencer' = [sequencer EXCEPT ![c.at] = q]
      /\ stray' = (stray \/ Strays(c)) /\ holder[c.at] = Nothing
  BY DEF AdmitClaim, GateFree
<1>2. Orderly(p) /\ TaskInv /\ RegistryKnows /\ HeldRead
  BY DEF OnceInv, Orderly
<1>3. TaskInv'
  BY <1>2, ClaimStep
<1>4. /\ c \in InHand /\ InHand' \subseteq InHand /\ c.at \in Epochs /\ c.at \in Nat
      /\ c.at # 0 /\ Fits(c) /\ c.frame.stream \in AllStreams /\ c.page = p
  <2>1. c \in InHand /\ InHand' \subseteq InHand
    BY <1>1 DEF InHand, Epochs
  <2> QED BY <1>2, <2>1, HandTypes DEF Orderly
<1>5. c.frame.seq = 0 => c \notin InHand'
  BY <1>1, <1>2, ClaimIsNotHeld DEF InHand, Epochs
<1>6. reply \in AnyReply /\ reply.seq = 0 /\ reply.epoch = c.at
  BY <1>4 DEF Reply, AnyReply
<1>7. /\ q.stream = c.frame.stream
      /\ old.stream = c.frame.stream => q = old
  BY DEF AfterClaim, Fresh
<1> HIDE DEF reply, q
<1>8. /\ Attempt(p)' /\ (relay'[p] = relay[p] \/ page[p].mode = "post")
      /\ \A r \in Acks(p)' : r \in Acks(p) \/ (r = reply /\ c \in InAgent(p) /\ Current(c))
  BY <1>1, <1>2, <1>3, <1>4, <1>5, <1>6, AnswerKeeps
<1>9. RegistryKnows' /\ HeldRead' /\ Given' = Given
  <2>1. Given' = Given
    BY <1>1 DEF Given
  <2>2. HeldRead'
    BY <1>1, <1>2, <2>1 DEF HeldRead, Epochs
  <2>3. \A e \in Epochs : holder[e] # Nothing /\ holder[e].result = "closed" => task = "ended"
    BY <1>2 DEF RegistryKnows
  <2> QED BY <1>1, <1>2, <2>1, <2>2, <2>3, RegistryKept
<1>10. sequencer'[c.at] = q /\ \A e \in Epochs \ {c.at} : sequencer'[e] = sequencer[e]
  BY <1>1, <1>2, <1>4 DEF TaskInv, AgentTypes
\* The attempt that claims is the page's present one, and hears its only answer.
<1>11. c \in InAgent(p) /\ Current(c) =>
           page[p].link = "claiming" /\ ~page[p].postClaimed /\ Acks(p) = {}
           /\ c.frame.stream = Stream(p)
  <2>1. SUFFICES ASSUME c \in InAgent(p), Current(c)
                 PROVE  /\ page[p].link = "claiming" /\ ~page[p].postClaimed /\ Acks(p) = {}
                        /\ c.frame.stream = Stream(p)
    OBVIOUS
  <2>2. page[p].link \in {"down", "claiming", "ready", "posting", "stopped"}
    BY <1>2, Own DEF Writers
  <2>3. page[p].link = "claiming" /\ ~page[p].postClaimed /\ replies[p] = <<>>
    BY <1>1, <1>2, <1>4, <2>1, <2>2 DEF Orderly, Attempt, Current
  <2>4. Acks(p) = {}
    BY <2>3, EmptySeq DEF Acks
  <2> QED BY <1>4, <2>1, <2>3, <2>4 DEF Fits
<1>12. /\ entry # 0 => entry \in Epochs
       /\ entry = c.at \/ (entry = 0 /\ task = "ended")
       /\ c.at \in 1..created
  <2>1. entry = c.at \/ (entry = 0 /\ task = "ended")
    BY <1>2, <1>4 DEF RegistryKnows
  <2> QED BY <1>2, <1>4, <2>1, EntryTypes DEF Fits
<1>13. ASSUME Once(p), ~stray' PROVE Once(p)'
  <2>1. ReadOnce' /\ Owns(p)' /\ Single(p)'
    <3>1. \A r \in Acks(p)' : r \in Acks(p) \/ page[p].link # "ready"
      BY <1>8, <1>11
    <3> QED BY <1>1, <1>2, <1>3, <1>8, <1>9, <1>13, <3>1, AgentKeeps
  <2>2. CASE old.stream = c.frame.stream
    <3>1. sequencer' = sequencer
      <4>1. sequencer' = [sequencer EXCEPT ![c.at] = sequencer[c.at]]
        BY <1>1, <1>7, <2>2
      <4>2. sequencer = [e \in Epochs |-> sequencer[e]]
        BY <1>2 DEF TaskInv, AgentTypes
      <4> QED BY <4>1, <4>2
    <3>2. \A r \in Acks(p)' : r \in Acks(p) \/
              /\ r.epoch \in 1..created'
              /\ entry' # 0 /\ task' # "ended" /\ page[p].link = "claiming" =>
                     IF r.epoch = entry THEN sequencer[entry].stream = Stream(p)
                     ELSE page[p].epoch = 0 \/ sequencer[entry].stream # Stream(p)
      BY <1>1, <1>6, <1>8, <1>11, <1>12, <2>2
    <3>3. Bound(p)'
      BY <1>1, <1>2, <1>3, <1>9, <1>13, <3>1, <3>2, StandsStill, BoundKept
    <3> QED BY <2>1, <3>3 DEF Once
  <2>3. CASE old.stream # c.frame.stream
    <3>1. Stream(p)' = Stream(p) /\ page[p].epoch \in Nat
      BY <1>1, <1>2, Own DEF Stream, Writers
    <3>2. page[p].epoch <= created' /\ \A r \in Acks(p)' : r.epoch \in 1..created'
      BY <1>1, <1>6, <1>8, <1>12, <1>13 DEF Once, Bound
    <3>3. ASSUME entry' # 0, task' # "ended"
          PROVE  /\ entry # page[p].epoch /\ ~page[p].postClaimed
                 /\ \A r \in Acks(p)' :
                      IF r.epoch = entry THEN sequencer'[entry].stream = Stream(p)
                      ELSE page[p].epoch = 0
      <4>1. entry = c.at /\ entry # 0 /\ task # "ended" /\ sequencer'[entry].stream = c.frame.stream
        BY <1>1, <1>7, <1>10, <1>12, <3>3
      <4>2. CASE Current(c)
        <5>1. c \in InAgent(p)
          BY <1>4, <4>2 DEF InAgent, Current
        <5>2. entry # page[p].epoch
          BY <1>11, <1>13, <2>3, <4>1, <4>2, <5>1 DEF Once, Bound
        <5>3. \A r \in Acks(p)' : r = reply
          BY <1>8, <1>11, <4>2, <5>1
        <5> QED BY <1>6, <1>11, <4>1, <4>2, <5>1, <5>2, <5>3
      <4>3. CASE ~Current(c)
        <5>1. page[p].epoch = 0 /\ c.frame.stream = Stream(p)
          BY <1>1, <1>4, <1>13, <2>3, <4>3 DEF Strays
        <5>2. ~page[p].postClaimed
          BY <1>13, <5>1 DEF Once, Owns
        <5> QED BY <4>1, <5>1, <5>2
      <4> QED BY <4>2, <4>3
    <3>4. Bound(p)'
      BY <1>1, <3>1, <3>2, <3>3 DEF Bound
    <3> QED BY <2>1, <3>4 DEF Once
  <2> QED BY <2>2, <2>3
<1>14. taken' \in Seq(AnyFrame) /\ (stray => stray')
  BY <1>1, <1>2 DEF Orderly
<1> QED BY <1>3, <1>8, <1>9, <1>13, <1>14, AgentOnce

\* What the gate held counts, and the frame handed on stays the last one.
LEMMA EndWriteOnce ==
    ASSUME NEW p \in Pages, OnceInv(p), NEW e \in Epochs, EndWrite(e)
    PROVE  OnceInv(p)'
<1> DEFINE c == holder[e].call
           r == holder[e].result
           f == c.frame
           old == sequencer[e]
           q == AfterWrite(old, f, r)
           reply == Reply(WriteReply(r), f.seq, e)
           Sequencers == [stream : AllStreams \cup {Nothing}, acked : Nat, failed : BOOLEAN]
<1>1. /\ holder[e] # Nothing /\ sequencer' = [sequencer EXCEPT ![e] = q]
      /\ entry' = IF r = "closed" THEN 0 ELSE entry
      /\ Answered(c, reply) /\ holder' = [holder EXCEPT ![e] = Nothing]
      /\ UNCHANGED <<task, created, calls, page, late, taken, stray>>
  BY DEF EndWrite
<1>2. Orderly(p) /\ TaskInv /\ RegistryKnows /\ HeldRead
  BY DEF OnceInv, Orderly
<1>3. /\ c \in InHand /\ f \in AnyFrame /\ f.seq \in Nat /\ c.at = e /\ e \in Nat
      /\ r \in Results /\ old \in Sequencers /\ f.seq = old.acked + 1
      /\ old.acked \in Nat /\ f.seq > 0 /\ Fits(c) /\ c.page = p
  <2>1. c \in InHand
    BY <1>1 DEF InHand
  <2>2. r \in Results /\ old \in Sequencers /\ old.acked \in Nat
    BY <1>1, <1>2, CallTypes DEF TaskInv, AgentTypes
  <2>3. c.at = e /\ f.seq = old.acked + 1
    BY <1>1, <1>2 DEF TaskInv, HolderIsNext
  <2> QED BY <1>2, <2>1, <2>2, <2>3, HandTypes DEF Orderly, Epochs
<1>4. /\ holder'[e] = Nothing /\ \A d \in Epochs \ {e} : holder'[d] = holder[d]
      /\ sequencer'[e] = q /\ \A d \in Epochs \ {e} : sequencer'[d] = sequencer[d]
  BY <1>1, <1>2 DEF TaskInv, AgentTypes
<1>5. InHand' \subseteq InHand
  <2>1. \A d : d \in InHand' => d \in InHand
    BY <1>1, <1>4 DEF InHand, Epochs
  <2> QED BY <2>1
<1>6. reply \in AnyReply /\ reply.seq = f.seq /\ reply.epoch = e /\ (reply.type = "ack" => r = "ok")
  BY <1>3 DEF Reply, AnyReply, WriteReply, Results
<1>7. /\ q.stream = old.stream
      /\ q.acked = IF r = "ok" THEN f.seq ELSE old.acked
      /\ q.failed = IF r = "uncertain" THEN TRUE ELSE old.failed
  BY <1>3 DEF AfterWrite
<1> HIDE DEF reply, q
<1>8. TaskInv'
  BY <1>2, EndWriteStep
<1>9. /\ Attempt(p)' /\ (relay'[p] = relay[p] \/ page[p].mode = "post")
      /\ \A a \in Acks(p)' : a \in Acks(p)
            \/ (a = reply /\ reply.type = "ack" /\ c \in InAgent(p) /\ Current(c))
  BY <1>1, <1>2, <1>3, <1>5, <1>6, <1>8, AnswerKeeps
<1>10. r = "closed" => task = "ended"
  BY <1>1, <1>2 DEF RegistryKnows
<1>11. RegistryKnows' /\ HeldRead' /\ Given' = Given
  <2>1. Given' = Given
    BY <1>1 DEF Given
  <2>2. \A d \in Epochs : holder'[d] # Nothing => holder[d] # Nothing /\ holder'[d] = holder[d]
    BY <1>4
  <2>3. HeldRead'
    BY <1>2, <2>1, <2>2 DEF HeldRead, Epochs
  <2>4. \A d \in Epochs : holder[d] # Nothing /\ holder[d].result = "closed" => task = "ended"
    BY <1>2 DEF RegistryKnows
  <2>5. RegistryKnows'
    BY <1>1, <1>2, <1>10, <2>2, <2>4, RegistryKept
  <2> QED BY <2>1, <2>3, <2>5
<1>12. c \in InAgent(p) => page[p].link # "claiming"
  BY <1>2, <1>3 DEF Orderly, Attempt
<1>13. \A d \in Epochs : /\ HandedOn(d) \in Nat /\ HandedOn(d) <= HandedOn(d)'
                         /\ sequencer'[d].stream = sequencer[d].stream
  <2>1. ASSUME NEW d \in Epochs, d # e
        PROVE  HandedOn(d)' = HandedOn(d) /\ sequencer'[d].stream = sequencer[d].stream
    BY <1>4, <2>1 DEF HandedOn
  <2>2. HandedOn(e) <= HandedOn(e)' /\ sequencer'[e].stream = sequencer[e].stream
    <3>1. HandedOn(e) = IF old.failed \/ r \in {"ok", "uncertain"} THEN old.acked + 1
                        ELSE old.acked
      BY <1>1 DEF HandedOn
    <3>2. HandedOn(e)' = IF q.failed THEN q.acked + 1 ELSE q.acked
      BY <1>4 DEF HandedOn
    <3> QED BY <1>3, <1>4, <1>7, <3>1, <3>2
  <2>3. \A d \in Epochs : HandedOn(d) \in Nat
    BY <1>2, HandedOnTypes
  <2> QED BY <2>1, <2>2, <2>3
<1>14. ASSUME Once(p) PROVE Once(p)'
  <2>1. page[p].link = "ready" /\ r = "ok" /\ c \in InAgent(p) /\ Current(c) =>
           reply.seq <= Passed(p) /\ \A x \in Waiting' : x.frame.seq # reply.seq
    <3>1. SUFFICES ASSUME page[p].link = "ready", r = "ok", Current(c)
                   PROVE  f.seq <= Passed(p) /\ \A x \in Waiting' : x.frame.seq # f.seq
      BY <1>6
    <3>2. f \in Given /\ f.stream = Stream(p)
      BY <1>1, <1>2, <1>3, <3>1 DEF HeldRead, Fits
    <3>3. Waiting' = Waiting
      BY <1>1 DEF Waiting
    <3>4. \A x \in Waiting : x.frame \in AnyFrame /\ x.frame.stream = Stream(p)
      BY <1>2, <1>14, WaitingTypes DEF Once, Owns
    <3>5. ~page[p].postClaimed
      BY <1>2, <3>1 DEF Orderly, Attempt
    <3>6. f.seq <= Passed(p) /\ \A x \in Waiting : x.frame \notin Given
      BY <1>14, <3>2, <3>5 DEF Once, Single
    <3> HIDE DEF f
    <3> QED BY <1>3, <3>2, <3>3, <3>4, <3>6, SameFrame
  <2>2. ReadOnce' /\ Owns(p)' /\ Single(p)'
    BY <1>1, <1>2, <1>6, <1>8, <1>9, <1>11, <1>14, <2>1, AgentKeeps
  <2>3. entry' # 0 => entry' = entry /\ entry \in Epochs
    BY <1>1, <1>2, EntryTypes
  <2>4. created <= created' /\ reply.epoch \in 1..created'
    BY <1>1, <1>2, <1>3, <1>6, EntryTypes DEF Fits, Epochs
  <2>5. Bound(p)'
    <3>1. \A a \in Acks(p)' : a \in Acks(p) \/ (a.epoch \in 1..created' /\ page[p].link # "claiming")
      BY <1>9, <1>12, <2>4
    <3>2. entry' # 0 /\ task' # "ended" =>
               /\ entry' = entry /\ task # "ended"
               /\ sequencer'[entry].stream = sequencer[entry].stream
               /\ HandedOn(entry) <= HandedOn(entry)'
               /\ \A g \in Given' : g \in Given
      BY <1>1, <1>11, <1>13, <2>3
    <3> QED BY <1>1, <1>2, <1>8, <1>14, <2>4, <3>1, <3>2, BoundKept
  <2> QED BY <2>2, <2>5 DEF Once
<1>15. taken' \in Seq(AnyFrame) /\ stray' = stray
  BY <1>1, <1>2 DEF Orderly
<1> QED BY <1>8, <1>9, <1>11, <1>14, <1>15, AgentOnce

\* What a gate holds is not Nothing.
LEMMA HeldIsSome ==
    ASSUME NEW c \in AnyCall, NEW r \in Results
    PROVE  [call |-> c, result |-> r] # Nothing
<1>1. [call |-> c, result |-> r] \in
          [call : [page : Pages, conn : Nat, at : Epochs,
                   frame : [stream : Pages \X Nat, seq : Nat]], result : Results]
  BY DEF AnyCall, AnyFrame, AllStreams
<1> QED BY <1>1, NoCallAssumption

\* The next frame is written: it has not been read before, for it is counted, or
\* it is the only copy of a frame that was never read.
LEMMA StartWriteOnce ==
    ASSUME NEW p \in Pages, OnceInv(p), NEW c \in calls, StartWrite(c)
    PROVE  OnceInv(p)'
<1> DEFINE f == c.frame
           old == sequencer[c.at]
<1>1. /\ calls' = calls \ {c} /\ page' = page /\ relay' = relay /\ replies' = replies
      /\ UNCHANGED <<task, entry, created, sequencer, late, stray>>
      /\ holder[c.at] = Nothing /\ f.seq # 0 /\ NextInOrder(old, f)
  BY DEF StartWrite, GateFree, pageVars
<1>2. Orderly(p) /\ TaskInv /\ RegistryKnows /\ HeldRead /\ Attempt(p)
  BY DEF OnceInv, Orderly
<1>3. TaskInv'
  BY <1>2, StartWriteStep
<1>4. /\ c \in InHand /\ c \in AnyCall /\ c.at \in Epochs /\ c.at # 0
      /\ f \in AnyFrame /\ f.seq \in Nat
  <2>1. c \in InHand
    BY DEF InHand
  <2> QED BY <1>2, <2>1, HandTypes
<1>5. old.stream = f.stream /\ ~old.failed /\ f.seq = old.acked + 1 /\ old.acked \in Nat
  BY <1>1, <1>2, <1>4 DEF NextInOrder, TaskInv, AgentTypes
<1>6. PICK r \in Results :
         /\ r = "closed" <=> task # "open"
         /\ holder' = [holder EXCEPT ![c.at] = [call |-> c, result |-> r]]
         /\ taken' = IF r \in {"ok", "uncertain"} THEN Append(taken, f) ELSE taken
  BY DEF StartWrite
<1> DEFINE h == [call |-> c, result |-> r]
<1>7. h # Nothing /\ h.call = c /\ h.result = r
  BY <1>4, HeldIsSome
<1> HIDE DEF f, old, h
<1>8. holder'[c.at] = h /\ \A e \in Epochs \ {c.at} : holder'[e] = holder[e]
  BY <1>2, <1>4, <1>6 DEF TaskInv, AgentTypes, h
<1>9. InHand' \subseteq InHand
  <2>1. \A d \in calls' : d \in InHand
    BY <1>1 DEF InHand
  <2>2. ASSUME NEW e \in Epochs, holder'[e] # Nothing PROVE holder'[e].call \in InHand
    <3>1. CASE e = c.at
      BY <1>4, <1>7, <1>8, <3>1
    <3>2. CASE e # c.at
      BY <1>8, <2>2, <3>2 DEF InHand
    <3> QED BY <3>1, <3>2
  <2>3. InHand' = calls' \cup {holder'[e].call : e \in {e \in Epochs : holder'[e] # Nothing}}
    BY DEF InHand, Epochs
  <2> QED BY <2>1, <2>2, <2>3
<1>10. Attempt(p)'
  <2>1. InAgent(p)' \subseteq InAgent(p)
    BY <1>1, <1>9 DEF InAgent
  <2> QED BY <1>1, <1>2, <2>1 DEF Attempt
<1>11. task # "ended" => entry = c.at
  BY <1>2, <1>4 DEF RegistryKnows
<1>12. RegistryKnows'
  <2>1. \A e \in Epochs : holder'[e] # Nothing \/ (\E d \in calls' : d.at = e)
           => holder[e] # Nothing \/ \E d \in calls : d.at = e
    BY <1>1, <1>8
  <2>2. r = "closed" => task = "ended"
    BY <1>2, <1>4, <1>6, <1>11 DEF RegistryKnows
  <2>3. \A e \in Epochs : holder'[e] # Nothing /\ holder'[e].result = "closed" => task = "ended"
    BY <1>2, <1>7, <1>8, <2>2 DEF RegistryKnows
  <2> QED BY <1>1, <1>2, <2>1, <2>3, RegistryKept
<1>13. /\ \A e \in Epochs : HandedOn(e) \in Nat /\ HandedOn(e) <= HandedOn(e)'
       /\ HandedOn(c.at) = old.acked
       /\ r \in {"ok", "uncertain"} => HandedOn(c.at)' = f.seq
  <2>1. \A e \in Epochs : HandedOn(e) \in Nat
    BY <1>2, HandedOnTypes
  <2>2. \A e \in Epochs \ {c.at} : HandedOn(e)' = HandedOn(e)
    BY <1>1, <1>8 DEF HandedOn
  <2>3. HandedOn(c.at) = old.acked
    BY <1>1, <1>5 DEF HandedOn, old
  <2>4. HandedOn(c.at)' = IF r \in {"ok", "uncertain"} THEN old.acked + 1 ELSE old.acked
    BY <1>1, <1>5, <1>7, <1>8 DEF HandedOn, old
  <2> QED BY <1>5, <2>1, <2>2, <2>3, <2>4
<1>14. created <= created' /\ (entry # 0 => entry \in Epochs)
  BY <1>1, <1>2, EntryTypes
<1>15. Acks(p)' = Acks(p)
  BY <1>1 DEF Acks
<1>16. CASE r \notin {"ok", "uncertain"}
  <2>1. taken' = taken /\ Given' = Given
    BY <1>6, <1>16 DEF Given
  <2>2. HeldRead'
    BY <1>2, <1>7, <1>8, <1>16, <2>1 DEF HeldRead, Epochs
  <2>3. ASSUME Once(p) PROVE Once(p)'
    <3>1. ReadOnce' /\ Owns(p)' /\ Single(p)'
      BY <1>1, <1>2, <1>3, <1>15, <2>1, <2>3, AgentKeeps
    <3>2. Bound(p)'
      BY <1>1, <1>2, <1>3, <1>13, <1>14, <1>15, <2>1, <2>3, BoundKept
    <3> QED BY <3>1, <3>2 DEF Once
  <2>4. taken' \in Seq(AnyFrame) /\ stray' = stray
    BY <1>1, <1>2, <2>1 DEF Orderly
  <2> QED BY <1>3, <1>10, <1>12, <2>2, <2>3, <2>4, AgentOnce
<1>17. CASE r \in {"ok", "uncertain"}
  <2>1. taken \in Seq(AnyFrame) /\ taken' = Append(taken, f)
    BY <1>2, <1>6, <1>17 DEF Orderly
  <2>2. /\ Len(taken) \in Nat /\ Len(taken') = Len(taken) + 1
        /\ \A i \in 1..Len(taken) : taken'[i] = taken[i]
        /\ taken'[Len(taken) + 1] = f /\ taken' \in Seq(AnyFrame)
    BY <1>4, <2>1, AppendProperties, LenProperties
  <2>3. Given' = Given \cup {f}
    <3>1. \A i \in 1..Len(taken') : i \in 1..Len(taken) \/ i = Len(taken) + 1
      BY <2>2
    <3>2. 1..Len(taken) \subseteq 1..Len(taken') /\ Len(taken) + 1 \in 1..Len(taken')
      BY <2>2
    <3>3. \A g \in Given' : g \in Given \cup {f}
      BY <2>2, <3>1 DEF Given
    <3>4. \A g \in Given \cup {f} : g \in Given'
      BY <2>2, <3>2 DEF Given
    <3> QED BY <3>3, <3>4
  <2>4. HeldRead'
    BY <1>2, <1>7, <1>8, <2>3 DEF HeldRead, Epochs, f
  <2>5. ASSUME Once(p) PROVE Once(p)'
    <3>1. /\ c \in Waiting /\ c \notin late
          /\ Waiting' \subseteq Waiting /\ \A x \in Waiting' : x # c
      <4>1. c \in Waiting /\ c \notin late
        BY <1>1, <1>2, <1>4, WaitingTypes DEF Waiting, f
      <4> QED BY <1>1, <4>1 DEF Waiting
    <3>2. f.stream = Stream(p) /\ Stream(p) = <<p, page[p].life>>
          /\ Stream(p)' = Stream(p) /\ page[p].epoch # 0 /\ page[p].life \in Nat
      BY <1>1, <1>2, <2>5, <3>1, Own, StreamIs DEF Once, Owns, f
    <3>3. entry = c.at /\ entry # 0 /\ task # "ended"
      BY <1>2, <1>4, <1>6, <1>11, <1>17
    <3>4. f \notin Given
      <4>1. CASE page[p].postClaimed
        <5>1. Counted(Stream(p), entry)
          BY <1>5, <2>5, <3>2, <3>3, <4>1 DEF Once, Bound, old
        <5> QED BY <1>5, <1>13, <3>2, <3>3, <5>1 DEF Counted
      <4>2. CASE ~page[p].postClaimed
        BY <2>5, <3>1, <4>2 DEF Once, Single, f
      <4> QED BY <4>1, <4>2
    <3>5. ReadOnce'
      <4>1. \A i \in 1..Len(taken) : taken[i] # f
        BY <3>4 DEF Given
      <4>2. \A i, j \in 1..Len(taken) : i < j => taken[i] # taken[j]
        BY <2>5 DEF Once, ReadOnce
      <4>3. \A i \in 1..Len(taken') : i \in 1..Len(taken) \/ i = Len(taken) + 1
        BY <2>2
      <4>4. ASSUME NEW i \in 1..Len(taken'), NEW j \in 1..Len(taken'), i < j
            PROVE  taken'[i] # taken'[j]
        <5>1. i \in 1..Len(taken)
          BY <2>2, <4>4
        <5>2. CASE j \in 1..Len(taken)
          BY <2>2, <4>2, <4>4, <5>1, <5>2
        <5>3. CASE j = Len(taken) + 1
          BY <2>2, <4>1, <5>1, <5>3
        <5> QED BY <4>3, <5>2, <5>3
      <4> QED BY <4>4 DEF ReadOnce
    <3>6. Owns(p)'
      <4>1. f.stream[2] = page[p].life
        BY <3>2
      <4>2. \A g \in Given' : g.stream[2] <= page[p].life
        BY <2>3, <2>5, <3>2, <4>1 DEF Once, Owns
      <4>3. \A x \in Waiting' : x.frame.stream = Stream(p)
        BY <2>5, <3>1 DEF Once, Owns
      <4> QED BY <1>1, <3>2, <4>2, <4>3 DEF Owns
    <3>7. Single(p)'
      <4>1. SUFFICES ASSUME ~page[p].postClaimed PROVE Single(p)'
        BY <1>1 DEF Single
      <4>2. Passed(p)' = Passed(p)
        BY <1>1 DEF Passed
      <4>3. f.seq <= Passed(p) /\ \A x \in Waiting' : x.frame # f /\ x.frame \notin Given
        BY <2>5, <3>1, <4>1 DEF Once, Single, f
      <4>4. \A g \in Given' : g.stream = Stream(p) => g.seq <= Passed(p)
        BY <2>3, <2>5, <4>1, <4>3 DEF Once, Single
      <4>5. \A x \in Waiting' : x.frame \notin Given'
        BY <2>3, <4>3
      <4>6. \A x \in Waiting' : /\ page[p].acked < x.frame.seq /\ x.frame.seq <= Passed(p)
                                /\ \A y \in Waiting' : x.frame = y.frame => x = y
        BY <2>5, <3>1, <4>1 DEF Once, Single
      <4>7. /\ page[p].mode = "duplex" /\ page[p].link \in {"down", "claiming"}
                  => page[p].sequence = page[p].acked
            /\ page[p].link = "ready" =>
                  /\ page[p].acked <= Passed(p)
                  /\ \A i \in 1..Len(relay[p]) : relay[p][i].seq = Passed(p) + i
                  /\ \A a \in Acks(p) : /\ a.seq <= Passed(p)
                                        /\ \A x \in Waiting' : x.frame.seq # a.seq
        BY <2>5, <3>1, <4>1 DEF Once, Single
      <4> QED BY <1>1, <1>15, <3>2, <4>2, <4>4, <4>5, <4>6, <4>7 DEF Single
    <3>8. Bound(p)'
      <4>1. \A g \in Given' : g \in Given \/ g.seq <= HandedOn(entry)'
        BY <1>1, <1>4, <1>13, <1>17, <2>3, <3>3
      <4> QED BY <1>1, <1>2, <1>3, <1>13, <1>14, <1>15, <2>5, <4>1, BoundKept
    <3> QED BY <3>5, <3>6, <3>7, <3>8 DEF Once
  <2> QED BY <1>1, <1>3, <1>10, <1>12, <2>2, <2>4, <2>5, AgentOnce
<1> QED BY <1>16, <1>17

-----------------------------------------------------------------------------
(* The relay's steps, the restart and the task.                            *)

\* What the registry does with a frame: it goes on with the sequencer it knows,
\* or with a fresh one, and gives new work to that one only.
LEMMA RegistryMoves ==
    ASSUME TaskInv, RegistryKnows, NEW f, NEW e \in 0..MaxEpochs, Registry(f, e),
           task' = task, holder' = holder, NEW new,
           calls' = calls \/ (e # 0 /\ calls' = calls \cup {new} /\ new.at = e)
    PROVE  /\ RegistryKnows' /\ created <= created'
           /\ entry' # 0 /\ task # "ended" =>
                \/ entry' = entry /\ sequencer'[entry] = sequencer[entry]
                \/ entry' = created + 1 /\ sequencer'[created + 1].stream = Nothing
<1>1. /\ created \in Nat /\ entry \in Nat /\ entry <= created /\ MaxEpochs \in Nat
      /\ DOMAIN sequencer = Epochs /\ \A d \in Epochs : d \in Nat /\ d # 0
  BY TaskBounds, EntryTypes DEF TaskInv, AgentTypes, Epochs
<1>2. /\ entry \in {0, created} /\ task \in {"starting", "open", "ended"}
      /\ task = "starting" => entry = 0
      /\ \A d \in Epochs : (holder[d] # Nothing \/ \E c \in calls : c.at = d)
            => entry = d \/ (entry = 0 /\ task = "ended")
      /\ \A d \in Epochs : holder[d] # Nothing /\ holder[d].result = "closed" => task = "ended"
  BY DEF RegistryKnows
<1>3. CASE f.seq = 0 /\ task # "open" /\ e = 0 /\ entry' = 0 /\ UNCHANGED <<created, sequencer>>
  <2>1. \A d \in Epochs : (holder[d] # Nothing \/ \E c \in calls : c.at = d) => task = "ended"
    BY <1>1, <1>2, <1>3
  <2> QED BY <1>1, <1>2, <1>3, <2>1 DEF RegistryKnows, Epochs
<1>4. CASE /\ task = "open" /\ entry = 0 /\ created < MaxEpochs
           /\ e = created + 1 /\ created' = e /\ entry' = e
           /\ sequencer' = [sequencer EXCEPT ![e] = Fresh(Nothing)]
  <2>1. \A d \in Epochs : holder[d] = Nothing /\ ~\E c \in calls : c.at = d
    BY <1>1, <1>2, <1>4
  <2>2. \A d \in Epochs : (\E c \in calls' : c.at = d) => d = e
    BY <1>4, <2>1
  <2>3. e \in Epochs
    BY <1>1, <1>4 DEF Epochs
  <2>4. sequencer'[e].stream = Nothing
    BY <1>1, <1>4, <2>3 DEF Fresh
  <2>5. RegistryKnows'
    BY <1>4, <2>1, <2>2 DEF RegistryKnows, Epochs
  <2> QED BY <1>1, <1>4, <2>4, <2>5
<1>5. CASE e = entry /\ UNCHANGED <<entry, created, sequencer>>
  <2>1. \A d \in Epochs : (\E c \in calls' : c.at = d) => (\E c \in calls : c.at = d) \/ d = entry
    BY <1>5
  <2>2. RegistryKnows'
    BY <1>2, <1>5, <2>1 DEF RegistryKnows, Epochs
  <2> QED BY <1>1, <1>5, <2>2
<1> QED BY <1>3, <1>4, <1>5 DEF Registry

\* A fresh sequencer is none that the page knows, and counts no stream.
LEMMA BoundAfter ==
    ASSUME NEW p \in Pages, Orderly(p), Once(p), TaskInv', page' = page, holder' = holder,
           task' = task, Given' = Given, Acks(p)' \subseteq Acks(p), created <= created',
           entry' # 0 /\ task # "ended" =>
                \/ entry' = entry /\ sequencer'[entry] = sequencer[entry]
                \/ entry' = created + 1 /\ sequencer'[created + 1].stream = Nothing
    PROVE  Bound(p)'
<1>1. TaskInv
  BY DEF Orderly
<1>2. /\ created \in Nat /\ created' \in Nat /\ page[p].epoch \in Nat
      /\ Stream(p)' = Stream(p) /\ Stream(p) # Nothing
      /\ (entry # 0 => entry \in Epochs)
  <2>1. created' \in Nat
    BY TaskBounds DEF TaskInv, AgentTypes
  <2>2. page[p].epoch \in Nat /\ page[p].life \in Nat /\ Stream(p) = <<p, page[p].life>>
    BY <1>1, Own DEF Writers
  <2>3. Stream(p)' = Stream(p)
    BY StreamIs
  <2> QED BY <1>1, <2>1, <2>2, <2>3, EntryTypes, NoStreamAssumption
<1>3. CASE entry' # 0 /\ task # "ended" /\ entry' = created + 1
           /\ sequencer'[created + 1].stream = Nothing
  <2>1. page[p].epoch <= created /\ \A r \in Acks(p) : r.epoch \in 1..created
    BY DEF Once, Bound
  <2>2. /\ page[p].epoch <= created' /\ entry' # page[p].epoch
        /\ \A r \in Acks(p)' : r.epoch \in 1..created' /\ r.epoch # entry'
    BY <1>2, <1>3, <2>1
  <2> QED BY <1>2, <1>3, <2>2 DEF Bound
<1>4. CASE ~(entry' # 0 /\ task # "ended" /\ entry' = created + 1
             /\ sequencer'[created + 1].stream = Nothing)
  <2>1. entry' # 0 /\ task' # "ended" =>
               /\ entry' = entry /\ task # "ended"
               /\ sequencer'[entry].stream = sequencer[entry].stream
               /\ HandedOn(entry) <= HandedOn(entry)'
               /\ \A g \in Given' : g \in Given
    <3>1. SUFFICES ASSUME entry' # 0, task # "ended"
                   PROVE  /\ entry' = entry /\ sequencer'[entry].stream = sequencer[entry].stream
                          /\ HandedOn(entry) <= HandedOn(entry)'
      OBVIOUS
    <3>2. entry' = entry /\ sequencer'[entry] = sequencer[entry] /\ entry \in Epochs
      BY <1>2, <1>4, <3>1
    <3>3. HandedOn(entry) \in Nat
      BY <1>1, <3>2, HandedOnTypes
    <3>4. /\ HandedOn(entry) =
              IF \/ sequencer[entry].failed
                 \/ holder[entry] # Nothing /\ holder[entry].result \in {"ok", "uncertain"}
              THEN sequencer[entry].acked + 1 ELSE sequencer[entry].acked
          /\ HandedOn(entry)' =
              IF \/ sequencer'[entry'].failed
                 \/ holder'[entry'] # Nothing /\ holder'[entry'].result \in {"ok", "uncertain"}
              THEN sequencer'[entry'].acked + 1 ELSE sequencer'[entry'].acked
      BY DEF HandedOn
    <3> QED BY <3>2, <3>3, <3>4
  <2> QED BY <2>1, BoundKept
<1> QED BY <1>3, <1>4

\* A frame of an attempt given up waits at the Agent instead of on its way.
LEMMA DispatchLateOnce ==
    ASSUME NEW p \in Pages, OnceInv(p), NEW l \in late, DispatchLate(l)
    PROVE  OnceInv(p)'
<1>1. /\ page' = page /\ holder' = holder /\ relay' = relay /\ replies' = replies
      /\ late' = late \ {l} /\ task' = task /\ taken' = taken /\ stray' = stray
  BY DEF DispatchLate, taskHistory
<1>2. Orderly(p) /\ TaskInv /\ RegistryKnows /\ HeldRead /\ Attempt(p)
  BY DEF OnceInv, Orderly
<1>3. TaskInv'
  BY <1>2, DispatchLateStep
<1>4. PICK e \in 0..MaxEpochs :
         /\ Registry(l.frame, e)
         /\ IF e = 0 THEN UNCHANGED calls ELSE Arrives(l.page, l.conn, l.frame, e)
  BY DEF DispatchLate
<1> DEFINE new == [page |-> l.page, conn |-> l.conn, frame |-> l.frame, at |-> e]
<1>5. l \in Latecomers /\ l.page = p /\ ~Current(l) /\ l \notin calls
  BY <1>2, WaitingTypes DEF Latecomers, TaskInv, LateFits, Orderly
<1>6. /\ calls' = calls \/ (e # 0 /\ calls' = calls \cup {new})
      /\ new.at = e /\ new.frame = l.frame /\ new.page = p /\ new.conn = l.conn
  BY <1>4, <1>5 DEF Arrives
<1> HIDE DEF new
<1>7. /\ RegistryKnows' /\ created <= created'
      /\ entry' # 0 /\ task # "ended" =>
           \/ entry' = entry /\ sequencer'[entry] = sequencer[entry]
           \/ entry' = created + 1 /\ sequencer'[created + 1].stream = Nothing
  BY <1>1, <1>2, <1>4, <1>6, RegistryMoves
<1>8. Given' = Given /\ HeldRead' /\ Acks(p)' = Acks(p)
  <2>1. Given' = Given
    BY <1>1 DEF Given
  <2> QED BY <1>1, <1>2, <2>1 DEF HeldRead, Epochs, Acks
<1>9. Attempt(p)'
  <2>1. \A c \in InHand' : c \in InHand \/ c = new
    BY <1>1, <1>6 DEF InHand, Epochs
  <2>2. page[p].link # "stopped" => l.conn # page[p].conn
    BY <1>5 DEF Current
  <2>3. page[p].link # "stopped" => InAgent(p)' \subseteq InAgent(p)
    BY <1>1, <1>6, <2>1, <2>2 DEF InAgent
  <2>4. CASE page[p].link # "stopped"
    BY <1>1, <1>2, <2>3, <2>4 DEF Attempt
  <2>5. CASE page[p].link = "stopped"
    BY <1>1, <1>2, <2>5 DEF Attempt
  <2> QED BY <2>4, <2>5
<1>10. \A x \in Waiting' : \/ x \in Waiting /\ x # l
                           \/ x = new /\ l \in Waiting
  BY <1>1, <1>5, <1>6 DEF Waiting
<1>11. ASSUME Once(p) PROVE Once(p)'
  <2>1. ReadOnce' /\ Stream(p)' = Stream(p) /\ Passed(p)' = Passed(p)
    BY <1>1, <1>11 DEF Once, ReadOnce, Stream, Passed
  <2>2. Owns(p)'
    BY <1>1, <1>6, <1>8, <1>10, <1>11, <2>1 DEF Once, Owns
  <2>3. Single(p)'
    <3>1. SUFFICES ASSUME ~page[p].postClaimed PROVE Single(p)'
      BY <1>1 DEF Single
    <3>2. \A x \in Waiting : /\ page[p].acked < x.frame.seq /\ x.frame.seq <= Passed(p)
                             /\ x.frame \notin Given
                             /\ \A y \in Waiting : x.frame = y.frame => x = y
      BY <1>11, <3>1 DEF Once, Single
    <3>3. \A x \in Waiting' : /\ page[p].acked < x.frame.seq /\ x.frame.seq <= Passed(p)
                              /\ x.frame \notin Given
                              /\ \A y \in Waiting' : x.frame = y.frame => x = y
      BY <1>6, <1>10, <3>2
    <3>4. /\ page[p].mode = "duplex" /\ page[p].link \in {"down", "claiming"}
                => page[p].sequence = page[p].acked
          /\ \A f \in Given : f.stream = Stream(p) => f.seq <= Passed(p)
          /\ page[p].link = "ready" =>
                /\ page[p].acked <= Passed(p)
                /\ \A i \in 1..Len(relay[p]) : relay[p][i].seq = Passed(p) + i
                /\ \A a \in Acks(p) : /\ a.seq <= Passed(p)
                                      /\ \A x \in Waiting : x.frame.seq # a.seq
      BY <1>11, <3>1 DEF Once, Single
    <3>5. \A a \in Acks(p) : page[p].link = "ready" => \A x \in Waiting' : x.frame.seq # a.seq
      BY <1>6, <1>10, <3>4
    <3> QED BY <1>1, <1>8, <2>1, <3>3, <3>4, <3>5 DEF Single
  <2>4. Bound(p)'
    BY <1>1, <1>2, <1>3, <1>7, <1>8, <1>11, BoundAfter
  <2> QED BY <2>1, <2>2, <2>3, <2>4 DEF Once
<1>12. taken' \in Seq(AnyFrame)
  BY <1>1, <1>2 DEF Orderly
<1> QED BY <1>1, <1>3, <1>7, <1>8, <1>9, <1>11, <1>12, AgentOnce

\* A restart leaves no call, no gate and no sequencer.
LEMMA AgentRestartOnce ==
    ASSUME NEW p \in Pages, OnceInv(p), AgentRestart
    PROVE  OnceInv(p)'
<1> DEFINE Cut(q) == InAgent(q) # {} /\ page[q].link # "stopped"
           reply == Reply("retry", 0, 0)
<1>1. /\ entry' = 0 /\ calls' = {} /\ holder' = [e \in Epochs |-> Nothing]
      /\ replies' = [q \in Pages |-> IF Cut(q) THEN Append(replies[q], reply) ELSE replies[q]]
      /\ relay' = [q \in Pages |-> IF Cut(q) /\ page[q].mode = "post" THEN <<>> ELSE relay[q]]
      /\ UNCHANGED <<task, created, sequencer, page, late, taken, stray>>
  BY DEF AgentRestart, taskHistory
<1>2. Orderly(p) /\ TaskInv /\ RegistryKnows /\ HeldRead /\ Attempt(p)
  BY DEF OnceInv, Orderly
<1>3. TaskInv'
  BY <1>2, AgentRestartStep
<1>4. reply \in AnyReply /\ reply.type # "ack"
  BY DEF Reply, AnyReply
<1>5. /\ relay'[p] = relay[p] \/ (relay'[p] = <<>> /\ page[p].mode = "post")
      /\ replies'[p] = replies[p]
           \/ (replies'[p] = Append(replies[p], reply) /\ InAgent(p) # {})
  BY <1>1
<1> HIDE DEF Cut, reply
<1>6. \A e \in Epochs : holder'[e] = Nothing
  BY <1>1
<1>7. RegistryKnows' /\ HeldRead'
  BY <1>1, <1>2, <1>6 DEF RegistryKnows, HeldRead, Epochs
<1>8. Attempt(p)'
  <2>1. InAgent(p)' = {}
    <3>1. InHand' = {}
      BY <1>1, <1>6 DEF InHand, Epochs
    <3> QED BY <3>1 DEF InAgent
  <2>2. Len(<<>>) = 0 /\ page' = page
    BY <1>1
  <2>3. CASE InAgent(p) = {}
    <3>1. relay'[p] = relay[p] /\ replies'[p] = replies[p]
      BY <1>1, <2>3 DEF Cut
    <3> QED BY <1>2, <2>1, <2>2, <3>1 DEF Attempt
  <2>4. CASE InAgent(p) # {}
    <3>1. page[p].link = "claiming" => relay'[p] = <<>>
      BY <1>2, <1>5, <2>4 DEF Attempt
    <3> QED BY <1>2, <1>5, <2>1, <2>2, <3>1 DEF Attempt
  <2> QED BY <2>3, <2>4
<1>9. Acks(p)' \subseteq Acks(p)
  <2>1. CASE replies'[p] = replies[p]
    <3>1. Acks(p)' = Acks(p)
      BY <1>2, <1>3, <2>1, AcksAre
    <3> QED BY <3>1
  <2>2. CASE replies'[p] = Append(replies[p], reply)
    BY <1>2, <1>3, <1>4, <2>2, AcksAre
  <2> QED BY <1>5, <2>1, <2>2
<1>10. Given' = Given
  BY <1>1 DEF Given
<1>11. ASSUME Once(p) PROVE Once(p)'
  <2>1. calls' \subseteq calls
    BY <1>1
  <2>2. ReadOnce' /\ Owns(p)' /\ Single(p)'
    BY <1>1, <1>2, <1>3, <1>5, <1>9, <1>10, <1>11, <2>1, AgentKeeps
  <2>3. created <= created'
    BY <1>1, <1>2, EntryTypes
  <2>4. Bound(p)'
    BY <1>1, <1>2, <1>3, <1>9, <1>11, <2>3, BoundKept
  <2> QED BY <2>2, <2>4 DEF Once
<1>12. taken' \in Seq(AnyFrame)
  BY <1>1, <1>2 DEF Orderly
<1> QED BY <1>1, <1>3, <1>7, <1>8, <1>11, <1>12, AgentOnce

\* The task opens while no sequencer works for it, and ends once.
LEMMA TaskOnce ==
    ASSUME NEW p \in Pages, OnceInv(p), TaskStep
    PROVE  OnceInv(p)'
<1>1. /\ UNCHANGED <<entry, created, sequencer, holder, calls, page, relay, replies, late>>
      /\ UNCHANGED <<taken, complete, stray>>
      /\ \/ task = "starting" /\ task' = "open"
         \/ task = "open" /\ task' = "ended"
  BY DEF TaskStep, pageVars, taskHistory
<1>2. Orderly(p) /\ TaskInv /\ RegistryKnows /\ HeldRead /\ Attempt(p)
  BY DEF OnceInv, Orderly
<1>3. TaskInv'
  BY <1>1, <1>2, Unseen DEF pageVars
<1>4. RegistryKnows' /\ HeldRead'
  BY <1>1, <1>2 DEF RegistryKnows, HeldRead, Epochs, Given
<1>5. Attempt(p)'
  BY <1>1, <1>2 DEF Attempt, InAgent, InHand, Epochs
<1>6. Acks(p)' = Acks(p) /\ Given' = Given
  BY <1>1 DEF Acks, Given
<1>7. ASSUME Once(p) PROVE Once(p)'
  <2>1. ReadOnce' /\ Owns(p)' /\ Single(p)'
    BY <1>1, <1>2, <1>3, <1>6, <1>7, AgentKeeps
  <2>2. entry' # 0 /\ task' # "ended" => FALSE
    BY <1>1, <1>2 DEF RegistryKnows
  <2>3. created <= created'
    BY <1>1, <1>2, EntryTypes
  <2>4. Bound(p)'
    BY <1>1, <1>2, <1>3, <1>6, <1>7, <2>2, <2>3, BoundKept
  <2> QED BY <2>1, <2>4 DEF Once
<1>8. taken' \in Seq(AnyFrame)
  BY <1>1, <1>2 DEF Orderly
<1> QED BY <1>1, <1>3, <1>4, <1>5, <1>7, <1>8, AgentOnce

LEMMA StutterOnce ==
    ASSUME NEW p \in Pages, OnceInv(p), UNCHANGED taskVars
    PROVE  OnceInv(p)'
<1>1. UNCHANGED <<task, entry, created, sequencer, holder, calls, page, relay, replies, late,
                  taken, complete, stray>>
  BY DEF taskVars, agentVars, pageVars, taskHistory
<1>2. Orderly(p) /\ TaskInv /\ RegistryKnows /\ HeldRead /\ Attempt(p)
  BY DEF OnceInv, Orderly
<1>3. TaskInv'
  BY <1>1, <1>2, Unseen DEF pageVars
<1>4. RegistryKnows' /\ HeldRead' /\ Attempt(p)'
  BY <1>1, <1>2 DEF RegistryKnows, HeldRead, Epochs, Given, Attempt, InAgent, InHand
<1>5. Acks(p)' = Acks(p) /\ Given' = Given
  BY <1>1 DEF Acks, Given
<1>6. ASSUME Once(p) PROVE Once(p)'
  <2>1. ReadOnce' /\ Owns(p)' /\ Single(p)'
    BY <1>1, <1>2, <1>3, <1>5, <1>6, AgentKeeps
  <2>2. Bound(p)'
    BY <1>1, <1>2, <1>3, <1>5, <1>6, StandsStill, BoundKept
  <2> QED BY <2>1, <2>2 DEF Once
<1>7. taken' \in Seq(AnyFrame)
  BY <1>1, <1>2 DEF Orderly
<1> QED BY <1>1, <1>3, <1>4, <1>6, <1>7, AgentOnce

\* The relay's next frame, and what is left of it.
LEMMA RelayHead ==
    ASSUME TaskInv, NEW p \in Pages, relay[p] # <<>>
    PROVE  /\ Head(relay[p]) \in AnyFrame /\ Head(relay[p]).seq \in Nat
           /\ Head(relay[p]).stream = Stream(p)
           /\ Head(relay[p]) = relay[p][1] /\ Tail(relay[p]) \in Seq(AnyFrame)
           /\ Len(Tail(relay[p])) \in Nat /\ Len(relay[p]) = Len(Tail(relay[p])) + 1
           /\ \A i \in 1..Len(Tail(relay[p])) : Tail(relay[p])[i] = relay[p][i + 1]
           /\ Len(Tail(relay[p])) = 0 => Tail(relay[p]) = <<>>
<1>1. relay[p] \in Seq(AnyFrame)
  BY Own
<1>2. /\ Head(relay[p]) = relay[p][1] /\ Tail(relay[p]) \in Seq(AnyFrame)
      /\ Len(relay[p]) \in Nat /\ Len(relay[p]) > 0
      /\ Len(Tail(relay[p])) = Len(relay[p]) - 1
      /\ \A i \in 1..Len(Tail(relay[p])) : Tail(relay[p])[i] = relay[p][i + 1]
  BY <1>1
<1>3. Len(Tail(relay[p])) = 0 => Tail(relay[p]) = <<>>
  BY <1>2, EmptySeq
<1>4. Head(relay[p]) \in AnyFrame /\ Head(relay[p]).stream = Stream(p)
  BY RelayShrinks
<1>5. Head(relay[p]).seq \in Nat
  BY <1>4 DEF AnyFrame
<1> QED BY <1>2, <1>3, <1>4, <1>5

\* A frame passed on: a claim while the attempt claims; otherwise the next data,
\* which has a number above all that were read or wait.
LEMMA DispatchOnce ==
    ASSUME NEW p \in Pages, OnceInv(p), Dispatch(p)
    PROVE  OnceInv(p)'
<1> DEFINE f == Head(relay[p])
           rest == Tail(relay[p])
           w == page[p]
           s == Stream(p)
           n == Passed(p)
           reply == Reply("fatal", f.seq, 0)
           left == IF page[p].mode = "post" THEN <<>> ELSE rest
<1>1. /\ relay[p] # <<>> /\ InAgent(p) = {} /\ page' = page /\ holder' = holder
      /\ late' = late /\ task' = task /\ taken' = taken /\ stray' = stray
  BY DEF Dispatch, taskHistory
<1>2. Orderly(p) /\ TaskInv /\ RegistryKnows /\ HeldRead /\ Attempt(p)
  BY DEF OnceInv, Orderly
<1>3. TaskInv'
  BY <1>2, DispatchStep
<1>4. /\ f \in AnyFrame /\ f.seq \in Nat /\ f.stream = s /\ f = relay[p][1]
      /\ Len(rest) \in Nat /\ Len(relay[p]) = Len(rest) + 1
      /\ \A i \in 1..Len(rest) : rest[i] = relay[p][i + 1]
      /\ Len(rest) = 0 => rest = <<>>
  BY <1>1, <1>2, RelayHead
<1>5. PICK e \in 0..MaxEpochs :
         /\ Registry(f, e)
         /\ \/ /\ e # 0
               /\ Arrives(p, w.conn, f, e)
               /\ relay' = [relay EXCEPT ![p] = rest]
               /\ replies' = replies
            \/ /\ replies' = [replies EXCEPT ![p] = Append(@, reply)]
               /\ relay' = [relay EXCEPT ![p] = left]
               /\ calls' = calls
  BY DEF Dispatch
<1> DEFINE new == [page |-> p, conn |-> w.conn, frame |-> f, at |-> e]
<1>6. new.at = e /\ new.frame = f /\ new.page = p /\ new.conn = w.conn
  OBVIOUS
<1>7. \/ /\ e # 0 /\ calls' = calls \cup {new}
         /\ relay'[p] = rest /\ replies'[p] = replies[p]
      \/ /\ calls' = calls /\ relay'[p] = left /\ replies'[p] = Append(replies[p], reply)
  BY <1>2, <1>5 DEF Arrives, TaskInv, PageTypes
<1>8. reply \in AnyReply /\ reply.type # "ack"
  BY <1>4 DEF Reply, AnyReply
<1>9. left = rest \/ (left = <<>> /\ w.mode = "post")
  OBVIOUS
<1> HIDE DEF new, f, rest, reply, left
<1>10. /\ RegistryKnows' /\ created <= created'
       /\ entry' # 0 /\ task # "ended" =>
            \/ entry' = entry /\ sequencer'[entry] = sequencer[entry]
            \/ entry' = created + 1 /\ sequencer'[created + 1].stream = Nothing
  <2>1. calls' = calls \/ (e # 0 /\ calls' = calls \cup {new} /\ new.at = e)
    BY <1>6, <1>7
  <2> QED BY <1>1, <1>2, <1>5, <2>1, RegistryMoves
<1>11. Given' = Given /\ HeldRead'
  <2>1. Given' = Given
    BY <1>1 DEF Given
  <2> QED BY <1>1, <1>2, <2>1 DEF HeldRead, Epochs
<1>12. Acks(p)' \subseteq Acks(p)
  <2>1. CASE replies'[p] = replies[p]
    <3>1. Acks(p)' = Acks(p)
      BY <1>2, <1>3, <2>1, AcksAre
    <3> QED BY <3>1
  <2>2. CASE replies'[p] = Append(replies[p], reply)
    BY <1>2, <1>3, <1>8, <2>2, AcksAre
  <2> QED BY <1>7, <2>1, <2>2
<1>13. w.link \in {"claiming", "ready", "posting"} /\ w.sequence \in Nat /\ w.acked \in Nat
  <2>1. w \in Writers
    BY <1>2, Own
  <2>2. w.link \in {"down", "claiming", "ready", "posting", "stopped"}
        /\ w.sequence \in Nat /\ w.acked \in Nat
    BY <2>1 DEF Writers
  <2> QED BY <1>1, <1>2, <2>2 DEF Attempt
<1>14. /\ w.link = "claiming" => f.seq = 0 /\ rest = <<>> /\ left = <<>>
       /\ w.link # "claiming" => /\ f.seq > 0
                                 /\ \A i \in 1..Len(rest) : rest[i].seq > 0
  <2>1. w.link = "claiming" => Len(relay[p]) = 1 /\ relay[p][1].seq = 0
    BY <1>1, <1>2 DEF Attempt
  <2>2. w.link # "claiming" => \A i \in 1..Len(relay[p]) : relay[p][i].seq > 0
    BY <1>2, <1>13 DEF Attempt
  <2>3. 1 \in 1..Len(relay[p]) /\ \A i \in 1..Len(rest) : i + 1 \in 1..Len(relay[p])
    BY <1>4
  <2> QED BY <1>4, <1>9, <2>1, <2>2, <2>3
<1>15. Attempt(p)'
  <2>1. \A c \in InAgent(p)' : c = new /\ calls' # calls
    <3>1. \A c \in InHand' : c \in InHand \/ (c = new /\ calls' # calls)
      BY <1>1, <1>7 DEF InHand, Epochs
    <3> QED BY <1>1, <3>1 DEF InAgent
  <2>2. CASE w.link = "claiming"
    <3>1. relay'[p] = <<>> /\ ~w.postClaimed /\ replies[p] = <<>>
      BY <1>1, <1>2, <1>7, <1>14, <2>2 DEF Attempt
    <3>2. InAgent(p)' # {} => replies'[p] = <<>>
      BY <1>7, <2>1, <3>1
    <3>3. \A c, d \in InAgent(p)' : c = d /\ c.frame.seq = 0
      BY <1>6, <1>14, <2>1, <2>2
    <3> QED BY <1>1, <1>2, <2>2, <3>1, <3>2, <3>3 DEF Attempt
  <2>3. CASE w.link # "claiming"
    <3>1. \A i \in 1..Len(relay'[p]) : relay'[p][i].seq > 0
      <4>1. CASE relay'[p] = rest
        BY <1>14, <2>3, <4>1
      <4>2. CASE relay'[p] = <<>>
        <5>1. Len(<<>>) = 0
          OBVIOUS
        <5> QED BY <4>2, <5>1
      <4> QED BY <1>7, <1>9, <4>1, <4>2
    <3>2. \A c \in InAgent(p)' : c.frame.seq > 0
      BY <1>6, <1>14, <2>1, <2>3
    <3> QED BY <1>1, <1>2, <1>13, <2>3, <3>1, <3>2 DEF Attempt
  <2> QED BY <2>2, <2>3
<1>16. \A x \in Waiting' : x \in Waiting \/ (x = new /\ f.seq > 0)
  BY <1>1, <1>6, <1>7 DEF Waiting
<1>17. ASSUME Once(p) PROVE Once(p)'
  <2>1. ReadOnce' /\ Stream(p)' = Stream(p)
    BY <1>1, <1>17 DEF Once, ReadOnce, Stream
  <2>2. Owns(p)'
    <3>1. w.epoch = 0 => Waiting' = {}
      BY <1>13, <1>14, <1>16, <1>17 DEF Once, Owns
    <3>2. \A x \in Waiting' : x.frame.stream = s
      BY <1>4, <1>6, <1>16, <1>17 DEF Once, Owns
    <3> QED BY <1>1, <1>11, <1>17, <2>1, <3>1, <3>2 DEF Once, Owns
  <2>3. Single(p)'
    <3>1. CASE w.postClaimed
      BY <1>1, <3>1 DEF Single
    <3>2. CASE ~w.postClaimed /\ w.link = "claiming"
      <4>1. Waiting' \subseteq Waiting /\ Passed(p)' = Passed(p)
        BY <1>1, <1>14, <1>16, <3>2 DEF Passed
      <4> QED BY <1>1, <1>11, <1>17, <2>1, <3>2, <4>1 DEF Once, Single
    <3>3. CASE ~w.postClaimed /\ w.link = "ready"
      <4>1. /\ \A g \in Given : g.stream = s => g.seq <= n
            /\ \A x \in Waiting : /\ w.acked < x.frame.seq /\ x.frame.seq <= n
                                  /\ x.frame \notin Given
                                  /\ \A y \in Waiting : x.frame = y.frame => x = y
            /\ w.acked <= n
            /\ \A i \in 1..Len(relay[p]) : relay[p][i].seq = n + i
            /\ \A r \in Acks(p) : r.seq <= n /\ \A x \in Waiting : x.frame.seq # r.seq
        BY <1>17, <3>3 DEF Once, Single
      <4>2. n = w.sequence - Len(relay[p]) /\ relay'[p] = rest /\ n \in Int
        BY <1>2, <1>4, <1>7, <1>9, <1>13, <3>3 DEF Attempt, Passed
      <4>3. Passed(p)' = n + 1
        BY <1>1, <1>4, <1>13, <3>3, <4>2 DEF Passed
      <4>4. f.seq = n + 1
        <5>1. 1 \in 1..Len(relay[p])
          BY <1>4
        <5> QED BY <1>4, <4>1, <5>1
      <4>5. \A i \in 1..Len(rest) : rest[i].seq = n + 1 + i
        <5>1. \A i \in 1..Len(rest) : i + 1 \in 1..Len(relay[p])
          BY <1>4
        <5>2. \A i \in 1..Len(rest) : relay[p][i + 1].seq = n + (i + 1)
          BY <4>1, <5>1
        <5> HIDE DEF n
        <5>3. \A i \in 1..Len(rest) : n + (i + 1) = n + 1 + i
          BY <4>2
        <5> QED BY <1>4, <5>2, <5>3
      <4> HIDE DEF n
      <4>6. \A g \in Given : g.seq \in Nat
        BY <1>2, GivenTypes DEF Orderly
      <4>7. \A x \in Waiting : x.frame.seq \in Nat
        BY <1>2, WaitingTypes
      <4>8. \A r \in Acks(p) : r.seq \in Nat
        BY <1>2, <1>3, AcksAre
      <4>9. \A g \in Given : g.stream = s => g.seq <= n + 1 /\ g # f
        BY <4>1, <4>2, <4>4, <4>6
      <4>10. f \notin Given
        BY <1>4, <4>9
      <4>11. \A x \in Waiting' : /\ w.acked < x.frame.seq /\ x.frame.seq <= n + 1
                                 /\ x.frame \notin Given
        BY <1>6, <1>13, <1>16, <4>1, <4>2, <4>4, <4>7, <4>10
      <4>12. \A x, y \in Waiting' : x.frame = y.frame => x = y
        <5>1. \A x \in Waiting : x.frame # f
          BY <4>1, <4>2, <4>4, <4>7
        <5> QED BY <1>6, <1>16, <4>1, <5>1
      <4>13. \A r \in Acks(p)' : r.seq <= n + 1 /\ \A x \in Waiting' : x.frame.seq # r.seq
        BY <1>6, <1>12, <1>16, <4>1, <4>2, <4>4, <4>8
      <4>14. w.acked <= n + 1
        BY <1>13, <4>1, <4>2
      <4> QED BY <1>1, <1>11, <2>1, <3>3, <4>2, <4>3, <4>5, <4>9, <4>11, <4>12, <4>13, <4>14
           DEF Single
    <3>4. w.link = "posting" => w.postClaimed
      BY <1>2 DEF Attempt
    <3> QED BY <1>13, <3>1, <3>2, <3>3, <3>4
  <2>4. Bound(p)'
    BY <1>1, <1>2, <1>3, <1>10, <1>11, <1>12, <1>17, BoundAfter
  <2> QED BY <2>1, <2>2, <2>3, <2>4 DEF Once
<1>18. taken' \in Seq(AnyFrame)
  BY <1>1, <1>2 DEF Orderly
<1> QED BY <1>1, <1>3, <1>10, <1>11, <1>15, <1>17, <1>18, AgentOnce

-----------------------------------------------------------------------------
(* The steps of the page.                                                  *)

\* The pending frames in order.
LEMMA FramesInOrder ==
    ASSUME NEW p \in Pages, page \in [Pages -> Writers], NEW a \in Nat, NEW last \in Nat, last >= a
    PROVE  LET more == FramesOf(p, a + 1, last)
           IN  /\ more \in Seq(AnyFrame) /\ Len(more) = last - a
               /\ \A i \in 1..Len(more) : more[i].seq = a + i
<1> DEFINE k == last - a
           F(i) == [stream |-> Stream(p), seq |-> a + 1 + i - 1]
           more == FramesOf(p, a + 1, last)
<1>1. k \in Nat /\ last + 1 - (a + 1) = k /\ a + 1 \in Nat \ {0} /\ last >= a + 1 - 1
  OBVIOUS
<1>2. more = [i \in 1..k |-> F(i)]
  BY <1>1 DEF FramesOf
<1>3. more \in Seq(AnyFrame)
  BY <1>1, FramesFit
<1>4. \A i \in 1..k : F(i).seq = a + i
  BY <1>1
<1> HIDE DEF F, k, more
<1>5. Len(more) = k
  BY <1>1, <1>2
<1> QED BY <1>2, <1>3, <1>4, <1>5 DEF k, more

\* A relay in order stays so when the next frames follow.
LEMMA RelayFollows ==
    ASSUME TaskInv, NEW p \in Pages, NEW last \in Nat, last >= page[p].sequence
    PROVE  LET sent == relay[p] \o FramesOf(p, page[p].sequence + 1, last)
               n == page[p].sequence - Len(relay[p])
           IN  /\ Len(sent) = Len(relay[p]) + (last - page[p].sequence)
               /\ (\A i \in 1..Len(relay[p]) : relay[p][i].seq > 0)
                     => \A i \in 1..Len(sent) : sent[i].seq > 0
               /\ (\A i \in 1..Len(relay[p]) : relay[p][i].seq = n + i)
                     => \A i \in 1..Len(sent) : sent[i].seq = n + i
<1> DEFINE a == page[p].sequence
           old == relay[p]
           more == FramesOf(p, a + 1, last)
           sent == old \o more
           n == a - Len(old)
<1>1. a \in Nat /\ old \in Seq(AnyFrame) /\ page \in [Pages -> Writers]
  BY Own DEF TaskInv, PageTypes
<1> HIDE DEF a
<1>2. /\ more \in Seq(AnyFrame) /\ Len(more) = last - a
      /\ \A i \in 1..Len(more) : more[i].seq = a + i
  BY <1>1, FramesInOrder DEF a
<1> HIDE DEF old, more
<1>3. /\ Len(sent) = Len(old) + Len(more) /\ Len(old) \in Nat /\ Len(more) \in Nat
      /\ \A i \in 1..Len(old) + Len(more) :
            sent[i] = IF i <= Len(old) THEN old[i] ELSE more[i - Len(old)]
  BY <1>1, <1>2, ConcatProperties, LenProperties
<1> HIDE DEF sent
<1>4. \A i \in 1..Len(sent) : \/ i \in 1..Len(old) /\ sent[i] = old[i]
                              \/ i \in Nat /\ i > Len(old) /\ sent[i].seq = a + (i - Len(old))
  <2>1. SUFFICES ASSUME NEW i \in 1..Len(sent), ~(i <= Len(old))
                 PROVE  i \in Nat /\ i > Len(old) /\ sent[i].seq = a + (i - Len(old))
    BY <1>3
  <2>2. i - Len(old) \in 1..Len(more) /\ sent[i] = more[i - Len(old)]
    BY <1>3, <2>1
  <2> QED BY <1>2, <1>3, <2>1, <2>2
<1>5. (\A i \in 1..Len(old) : old[i].seq > 0) => \A i \in 1..Len(sent) : sent[i].seq > 0
  BY <1>1, <1>3, <1>4
<1>6. (\A i \in 1..Len(old) : old[i].seq = n + i) => \A i \in 1..Len(sent) : sent[i].seq = n + i
  BY <1>1, <1>3, <1>4
<1>7. Len(sent) = Len(old) + (last - a)
  BY <1>2, <1>3
<1> QED BY <1>5, <1>6, <1>7 DEF a, old, more, sent

\* What a step of the page must keep for the invariant.
LEMMA PageOnce ==
    ASSUME NEW p \in Pages, OnceInv(p), TaskInv', UNCHANGED <<agentVars, taskHistory>>, Attempt(p)',
           Once(p) => Owns(p)' /\ Bound(p)' /\ Single(p)'
    PROVE  OnceInv(p)'
<1>1. UNCHANGED <<task, entry, created, sequencer, holder, calls, taken, stray>>
  BY DEF agentVars, taskHistory
<1>2. RegistryKnows' /\ HeldRead'
  BY <1>1 DEF OnceInv, Orderly, RegistryKnows, HeldRead, Given, Epochs
<1>3. taken' \in Seq(AnyFrame)
  BY <1>1 DEF OnceInv, Orderly
<1>4. Once(p) => Once(p)'
  BY <1>1 DEF Once, ReadOnce
<1> QED BY <1>1, <1>2, <1>3, <1>4, AgentOnce

\* Nobody else's calls change.
LEMMA AgentRests ==
    ASSUME UNCHANGED <<agentVars, taskHistory>>, NEW p \in Pages, page'[p].conn = page[p].conn
    PROVE  InAgent(p)' = InAgent(p)
<1>1. InHand' = InHand
  BY DEF agentVars, InHand, Epochs
<1> QED BY <1>1 DEF InAgent

\* A page that goes on in its stream: it knows what it knew of its sequencer.
LEMMA BoundRests ==
    ASSUME NEW p \in Pages, Once(p), UNCHANGED <<agentVars, taskHistory>>,
           page'[p].life = page[p].life, page'[p].epoch = page[p].epoch,
           page'[p].postClaimed = page[p].postClaimed, Acks(p)' \subseteq Acks(p),
           page'[p].link = "claiming" => page[p].link = "claiming" \/ Acks(p)' = {}
    PROVE  Bound(p)'
<1>1. UNCHANGED <<task, entry, created, sequencer, holder>> /\ Given' = Given
  BY DEF agentVars, taskHistory, Given
<1>2. Stream(p)' = Stream(p)
  BY StreamIs
<1>3. Counted(Stream(p), entry)' = Counted(Stream(p), entry)
  BY <1>1, <1>2 DEF Counted, HandedOn
<1> QED BY <1>1, <1>2, <1>3 DEF Once, Bound

\* A page that goes on in its stream and its attempt.
LEMMA GoesOn ==
    ASSUME NEW p \in Pages, OnceInv(p), TaskInv', NEW w, NEW sent, Becomes(p, w, sent),
           w.life = page[p].life, w.epoch = page[p].epoch, w.postClaimed = page[p].postClaimed,
           Acks(p)' \subseteq Acks(p),
           w.link = "claiming" => page[p].link = "claiming" \/ Acks(p)' = {},
           Attempt(p)',
           w.link \in {"ready", "posting"} => page[p].link = w.link \/ page[p].postClaimed,
           ~w.postClaimed /\ Once(p) =>
             /\ w.mode = "duplex" /\ w.link \in {"down", "claiming"} => w.sequence = w.acked
             /\ Passed(p)' = Passed(p) /\ \A x \in Waiting : w.acked < x.frame.seq
             /\ w.link = "ready" =>
                  /\ w.acked <= Passed(p) /\ \A i \in 1..Len(sent) : sent[i].seq = Passed(p) + i
                  /\ page[p].link = "ready"
    PROVE  OnceInv(p)'
<1>1. /\ page'[p] = w /\ relay'[p] = sent /\ late' = late
      /\ UNCHANGED <<agentVars, taskHistory>>
  BY DEF Becomes, OnceInv, Orderly, TaskInv, PageTypes
<1>2. Waiting' = Waiting /\ Given' = Given /\ Stream(p)' = Stream(p)
  BY <1>1, StreamIs DEF Waiting, Given, agentVars, taskHistory
<1>3. ASSUME Once(p) PROVE Owns(p)' /\ Bound(p)' /\ Single(p)'
  <2>1. Bound(p)'
    BY <1>1, <1>3, BoundRests
  <2>2. Owns(p)'
    BY <1>1, <1>2, <1>3 DEF Once, Owns
  <2>3. CASE w.postClaimed
    BY <1>1, <2>1, <2>2, <2>3 DEF Single
  <2>4. CASE ~w.postClaimed
    <3>1. /\ \A f \in Given : f.stream = Stream(p) => f.seq <= Passed(p)
          /\ \A x \in Waiting : /\ x.frame.seq <= Passed(p) /\ x.frame \notin Given
                                /\ \A y \in Waiting : x.frame = y.frame => x = y
          /\ page[p].link = "ready" =>
                \A r \in Acks(p) : r.seq <= Passed(p) /\ \A x \in Waiting : x.frame.seq # r.seq
      BY <1>3, <2>4 DEF Once, Single
    <3>2. Single(p)'
      BY <1>1, <1>2, <1>3, <2>4, <3>1 DEF Single
    <3> QED BY <2>1, <2>2, <3>2
  <2> QED BY <2>3, <2>4
<1> QED BY <1>1, <1>3, PageOnce

\* What a given-up attempt leaves behind, and that the page has no calls.
LEMMA GivesUpLeaves ==
    ASSUME NEW p \in Pages, Orderly(p), NEW w, GivesUp(p, w)
    PROVE  /\ page'[p] = w /\ relay'[p] = <<>> /\ Acks(p)' = {}
           /\ UNCHANGED <<agentVars, taskHistory>> /\ Given' = Given
           /\ \A x \in Waiting' : x \in Waiting \/
                 (\E i \in 1..Len(relay[p]) :
                     /\ x = [page |-> p, conn |-> page[p].conn, frame |-> relay[p][i]]
                     /\ relay[p][i].seq > 0 /\ page[p].link \in {"ready", "posting"})
<1> DEFINE rec(i) == [page |-> p, conn |-> page[p].conn, frame |-> relay[p][i]]
<1>1. /\ page'[p] = w /\ relay'[p] = <<>> /\ replies'[p] = <<>>
      /\ UNCHANGED <<agentVars, taskHistory>>
      /\ \A x \in late' : x \in late \/ \E i \in 1..Len(relay[p]) : x = rec(i)
  BY DEF GivesUp, Orderly, TaskInv, PageTypes
<1>2. Acks(p)' = {} /\ Given' = Given /\ calls' = calls
  <2>1. Len(<<>>) = 0
    OBVIOUS
  <2>2. \A i \in 1..Len(replies'[p]) : FALSE
    BY <1>1, <2>1
  <2> QED BY <1>1, <2>2 DEF Acks, Given, agentVars, taskHistory
<1>3. \A i \in 1..Len(relay[p]) : relay[p][i].seq > 0 => page[p].link \in {"ready", "posting"}
  <2>1. SUFFICES ASSUME NEW i \in 1..Len(relay[p]), relay[p][i].seq > 0,
                        page[p].link \notin {"ready", "posting"}
                 PROVE  FALSE
    OBVIOUS
  <2>2. page[p].link \in {"down", "claiming", "ready", "posting", "stopped"}
    BY Own DEF Orderly, Writers
  <2>3. Attempt(p) /\ Len(<<>>) = 0
    BY DEF Orderly
  <2>4. relay[p] # <<>>
    BY <2>1, <2>3
  <2>5. Len(relay[p]) = 1 /\ relay[p][1].seq = 0
    BY <2>1, <2>2, <2>3, <2>4 DEF Attempt
  <2> QED BY <2>1, <2>5
<1>4. \A i \in 1..Len(relay[p]) : rec(i).frame = relay[p][i]
  OBVIOUS
<1>5. \A x \in Waiting' : x \in Waiting \/
         (\E i \in 1..Len(relay[p]) : x = rec(i) /\ relay[p][i].seq > 0)
  <2> HIDE DEF rec
  <2> QED BY <1>1, <1>2, <1>4 DEF Waiting
<1> QED BY <1>1, <1>2, <1>3, <1>5

\* An attempt given up: what it leaves in the relay waits from now on.
LEMMA GiveUpOnce ==
    ASSUME NEW p \in Pages, OnceInv(p), TaskInv', NEW w \in Writers, GivesUp(p, w),
           w.life = page[p].life, w.epoch = page[p].epoch, w.postClaimed = page[p].postClaimed,
           w.sequence = page[p].sequence, w.acked = page[p].acked,
           w.link \in {"down", "stopped"}, w.link = "down" => w.conn > page[p].conn,
           page[p].mode = "post" => w.mode = "post",
           w.link = "down" /\ w.mode = "duplex" => w.sequence = w.acked
    PROVE  OnceInv(p)'
<1> DEFINE rec(i) == [page |-> p, conn |-> page[p].conn, frame |-> relay[p][i]]
           s == Stream(p)
           n == page[p].sequence - Len(relay[p])
<1>1. Orderly(p) /\ TaskInv /\ Attempt(p)
  BY DEF OnceInv, Orderly
<1>2. /\ page'[p] = w /\ relay'[p] = <<>> /\ Acks(p)' = {}
      /\ UNCHANGED <<agentVars, taskHistory>> /\ Given' = Given
      /\ \A x \in Waiting' : x \in Waiting \/
            (\E i \in 1..Len(relay[p]) :
                x = rec(i) /\ relay[p][i].seq > 0 /\ page[p].link \in {"ready", "posting"})
  BY <1>1, GivesUpLeaves
<1>3. \A i \in 1..Len(relay[p]) : rec(i).frame = relay[p][i] /\ relay[p][i].stream = s
  BY <1>1, Own
<1>4. page[p].sequence \in Nat /\ page[p].acked \in Nat /\ page[p].acked <= page[p].sequence
      /\ Len(relay[p]) \in Nat
  BY <1>1, Own, LenProperties
<1> HIDE DEF rec
<1>5. Attempt(p)'
  <2>1. w.link = "down" => InAgent(p)' = {}
    <3>1. SUFFICES ASSUME w.link = "down", NEW c \in InAgent(p)' PROVE FALSE
      OBVIOUS
    <3>2. InHand' = InHand
      BY <1>2 DEF agentVars, InHand, Epochs
    <3>3. c \in InHand /\ c.page = p /\ c.conn = w.conn
      BY <1>2, <3>1, <3>2 DEF InAgent
    <3>4. c.conn <= page[p].conn /\ c.conn \in Nat
      BY <1>1, <3>3, HandTypes DEF Fits
    <3>5. page[p].conn \in Nat
      BY <1>1, Own
    <3> QED BY <3>1, <3>3, <3>4, <3>5
  <2>2. w.postClaimed => w.mode = "post"
    BY <1>1 DEF Attempt
  <2> QED BY <1>2, <2>1, <2>2 DEF Attempt
<1>6. ASSUME Once(p) PROVE Owns(p)' /\ Bound(p)' /\ Single(p)'
  <2>1. Stream(p)' = s
    BY <1>2, StreamIs
  <2>2. Bound(p)'
    BY <1>2, <1>6, BoundRests
  <2>3. Owns(p)'
    <3>1. \A x \in Waiting' : x.frame.stream = s
      BY <1>2, <1>3, <1>6 DEF Once, Owns
    <3>2. w.epoch = 0 => Waiting' = {}
      BY <1>2, <1>6 DEF Once, Owns
    <3> QED BY <1>2, <1>6, <2>1, <3>1, <3>2 DEF Once, Owns
  <2>4. Single(p)'
    <3>1. SUFFICES ASSUME ~w.postClaimed PROVE Single(p)'
      BY <1>2 DEF Single
    <3>2. Passed(p)' = w.sequence
      BY <1>2 DEF Passed
    <3>3. /\ \A f \in Given : f.stream = s => f.seq <= Passed(p)
          /\ \A x \in Waiting : /\ w.acked < x.frame.seq /\ x.frame.seq <= Passed(p)
                                /\ x.frame \notin Given
                                /\ \A y \in Waiting : x.frame = y.frame => x = y
      BY <1>6, <3>1 DEF Once, Single
    <3>4. \A x \in Waiting : x.frame.seq \in Nat
      BY <1>1, WaitingTypes
    <3>5. \A f \in Given : f.seq \in Nat
      BY <1>1, GivenTypes DEF Orderly
    <3>6. CASE page[p].link # "ready"
      <4>1. page[p].link # "posting"
        BY <1>1, <3>1 DEF Attempt
      <4>2. Passed(p) = w.sequence /\ Waiting' \subseteq Waiting
        BY <1>2, <3>6, <4>1 DEF Passed
      <4> QED BY <1>2, <2>1, <3>1, <3>2, <3>3, <4>2 DEF Single
    <3>7. CASE page[p].link = "ready"
      <4>1. /\ w.acked <= Passed(p) /\ Passed(p) = n
            /\ \A i \in 1..Len(relay[p]) : relay[p][i].seq = n + i
        BY <1>6, <3>1, <3>7 DEF Once, Single, Passed
      <4>2. \A i \in 1..Len(relay[p]) : w.acked < n + i /\ n + i <= w.sequence /\ n < n + i
        BY <1>4, <4>1
      <4>3. n \in Int /\ n <= w.sequence
        BY <1>4
      <4> HIDE DEF n
      <4>4. \A f \in Given : f.stream = s => f.seq <= w.sequence /\ f.seq <= n
        BY <1>4, <3>3, <3>5, <4>1, <4>3
      <4>5. \A i \in 1..Len(relay[p]) : rec(i).frame \notin Given /\ rec(i).frame.seq = n + i
        BY <1>3, <4>1, <4>2, <4>3, <4>4, <3>5
      <4>6. \A x \in Waiting : x.frame.seq <= n /\ x.frame.seq <= w.sequence
        BY <1>4, <3>3, <3>4, <4>1, <4>3
      <4>7. \A x \in Waiting' : /\ w.acked < x.frame.seq /\ x.frame.seq <= w.sequence
                                /\ x.frame \notin Given
        BY <1>2, <3>3, <4>2, <4>5, <4>6
      <4>8. \A x, y \in Waiting' : x.frame = y.frame => x = y
        <5>1. \A i, j \in 1..Len(relay[p]) : rec(i).frame = rec(j).frame => i = j
          BY <4>3, <4>5
        <5>2. \A i \in 1..Len(relay[p]) : \A x \in Waiting : rec(i).frame # x.frame
          BY <3>4, <4>3, <4>5, <4>6
        <5> QED BY <1>2, <3>3, <5>1, <5>2
      <4> QED BY <1>2, <2>1, <3>1, <3>2, <4>4, <4>7, <4>8 DEF Single
    <3> QED BY <3>6, <3>7
  <2> QED BY <2>2, <2>3, <2>4
<1> QED BY <1>2, <1>5, <1>6, PageOnce

\* A page whose claim was answered and that has nothing pending: nothing waits.
LEMMA NothingWaits ==
    ASSUME NEW p \in Pages, Orderly(p), Once(p), page[p].link = "claiming",
           page[p].sequence = page[p].acked
    PROVE  Waiting = {} /\ \A f \in Given : f.stream = Stream(p) => f.seq <= page[p].sequence
<1>1. ~page[p].postClaimed /\ page[p].sequence \in Nat /\ page[p].acked \in Nat
  BY Own DEF Orderly, Attempt
<1>2. Passed(p) = page[p].sequence
  BY DEF Passed
<1>3. \A x \in Waiting : x.frame.seq \in Nat
  BY WaitingTypes DEF Orderly
<1> QED BY <1>1, <1>2, <1>3 DEF Once, Single

\* A page that has lost its owner with nothing pending takes a stream of which
\* nothing waits and nothing was read.
LEMMA NewLifeOnce ==
    ASSUME NEW p \in Pages, OnceInv(p), TaskInv', NEW w \in Writers, GivesUp(p, w),
           page[p].link = "claiming", page[p].sequence = page[p].acked,
           w.life = page[p].life + 1, w.epoch = 0, ~w.postClaimed,
           w.sequence = 0, w.acked = 0,
           w.link \in {"down", "stopped"}, w.link = "down" => w.conn > page[p].conn
    PROVE  OnceInv(p)'
<1>1. Orderly(p) /\ TaskInv /\ page[p].life \in Nat
  BY Own DEF OnceInv, Orderly
<1>2. /\ page'[p] = w /\ relay'[p] = <<>> /\ Acks(p)' = {}
      /\ UNCHANGED <<agentVars, taskHistory>> /\ Given' = Given
      /\ Waiting' \subseteq Waiting
  BY <1>1, GivesUpLeaves
<1>3. Attempt(p)'
  <2>1. w.link = "down" => InAgent(p)' = {}
    <3>1. SUFFICES ASSUME w.link = "down", NEW c \in InAgent(p)' PROVE FALSE
      OBVIOUS
    <3>2. InHand' = InHand
      BY <1>2 DEF agentVars, InHand, Epochs
    <3>3. c \in InHand /\ c.page = p /\ c.conn = w.conn
      BY <1>2, <3>1, <3>2 DEF InAgent
    <3>4. c.conn <= page[p].conn /\ c.conn \in Nat
      BY <1>1, <3>3, HandTypes DEF Fits
    <3>5. page[p].conn \in Nat
      BY <1>1, Own
    <3> QED BY <3>1, <3>3, <3>4, <3>5
  <2> QED BY <1>2, <2>1 DEF Attempt
<1>4. ASSUME Once(p) PROVE Owns(p)' /\ Bound(p)' /\ Single(p)'
  <2>1. Waiting' = {}
    BY <1>1, <1>2, <1>4, NothingWaits
  <2>2. Stream(p)' = <<p, page[p].life + 1>>
    BY <1>2, StreamIs
  <2>3. \A f \in Given : f.stream[2] \in Nat /\ f.stream[2] <= page[p].life
    BY <1>1, <1>4, GivenTypes DEF Orderly, Once, Owns
  <2>4. \A f \in Given : f.stream # Stream(p)' /\ f.stream[2] <= w.life
    BY <1>1, <2>2, <2>3
  <2>5. Owns(p)'
    BY <1>2, <2>1, <2>4 DEF Owns
  <2>6. Single(p)'
    BY <1>2, <2>1, <2>4 DEF Single
  <2>7. created' \in Nat
    BY TaskBounds DEF TaskInv, AgentTypes
  <2>8. Bound(p)'
    BY <1>2, <2>7 DEF Bound
  <2> QED BY <2>5, <2>6, <2>8
<1> QED BY <1>2, <1>3, <1>4, PageOnce

\* What disconnect and stopping keep of a writer.
LEMMA DownFields ==
    ASSUME NEW w \in Writers, InWindow(w)
    PROVE  /\ Disconnected(w) \in Writers /\ Disconnected(w).link \in {"down", "stopped"}
           /\ Disconnected(w).life = w.life
           /\ Disconnected(w).epoch = w.epoch /\ Disconnected(w).postClaimed = w.postClaimed
           /\ Disconnected(w).sequence = w.sequence /\ Disconnected(w).acked = w.acked
           /\ w.mode = "post" => Disconnected(w).mode = "post"
           /\ Disconnected(w).link = "down" => Disconnected(w).conn > w.conn
           /\ Disconnected(w).link = "down" /\ Disconnected(w).mode = "duplex"
                 => w.sequence = w.acked
           /\ Stopped(w) \in Writers /\ Stopped(w).link = "stopped" /\ Stopped(w).life = w.life
           /\ Stopped(w).epoch = w.epoch /\ Stopped(w).postClaimed = w.postClaimed
           /\ Stopped(w).mode = w.mode
           /\ Stopped(w).sequence = w.sequence /\ Stopped(w).acked = w.acked
<1>1. /\ Stopped(w).link = "stopped" /\ Stopped(w).life = w.life
      /\ Stopped(w).epoch = w.epoch /\ Stopped(w).postClaimed = w.postClaimed
      /\ Stopped(w).mode = w.mode
      /\ Stopped(w).sequence = w.sequence /\ Stopped(w).acked = w.acked
  BY DEF Stopped, Writers
<1>2. w.conn \in Nat /\ w.sequence \in Nat /\ w.acked \in Nat /\ w.mode \in {"duplex", "post"}
  BY DEF Writers
<1>3. Disconnected(w) \in Writers
  BY DisconnectedKeeps
<1>4. Stopped(w) \in Writers
  <2> DEFINE v == [w EXCEPT !.link = "stopped"]
  <2>1. v \in Writers
    BY Updates
  <2>2. [v EXCEPT !.queue = 0] \in Writers
    BY <2>1, Updates
  <2> QED BY <2>2 DEF Stopped
<1>5. CASE w.retries >= MaxRetries
  BY <1>1, <1>3, <1>4, <1>5 DEF Disconnected
<1>6. CASE ~(w.retries >= MaxRetries)
  <2> DEFINE m == IF w.mode = "duplex" /\ (w.sequence > w.acked \/ ~w.everReady)
                  THEN "post" ELSE w.mode
  <2>1. /\ w.mode = "post" => m = "post"
        /\ m = "duplex" => ~(w.sequence > w.acked)
    BY <1>2
  <2>2. Disconnected(w) = [w EXCEPT !.mode = m, !.link = "down", !.retries = @ + 1,
                                    !.conn = @ + 1]
    BY <1>6 DEF Disconnected
  <2> HIDE DEF m
  <2>3. /\ Disconnected(w).link = "down" /\ Disconnected(w).life = w.life
        /\ Disconnected(w).epoch = w.epoch /\ Disconnected(w).postClaimed = w.postClaimed
        /\ Disconnected(w).sequence = w.sequence /\ Disconnected(w).acked = w.acked
        /\ Disconnected(w).mode = m /\ Disconnected(w).conn = w.conn + 1
    BY <2>2 DEF Writers
  <2>4. m = "duplex" => w.sequence = w.acked
    BY <1>2, <2>1 DEF InWindow
  <2> QED BY <1>1, <1>2, <1>3, <1>4, <2>1, <2>3, <2>4
<1> QED BY <1>5, <1>6

\* What is known of a page before its step.
LEMMA OwnOnce ==
    ASSUME NEW p \in Pages, OnceInv(p)
    PROVE  /\ Orderly(p) /\ TaskInv /\ Attempt(p) /\ page[p] \in Writers /\ InWindow(page[p])
           /\ page \in [Pages -> Writers] /\ relay \in [Pages -> Seq(AnyFrame)]
           /\ replies \in [Pages -> Seq(AnyReply)]
           /\ page[p].sequence \in Nat /\ page[p].acked \in Nat
           /\ page[p].acked <= page[p].sequence /\ Len(relay[p]) \in Nat
<1>1. Orderly(p) /\ TaskInv /\ Attempt(p)
  BY DEF OnceInv, Orderly
<1>2. Len(relay[p]) \in Nat
  BY <1>1, Own, LenProperties
<1>3. /\ page \in [Pages -> Writers] /\ relay \in [Pages -> Seq(AnyFrame)]
      /\ replies \in [Pages -> Seq(AnyReply)]
  BY <1>1 DEF TaskInv, PageTypes
<1> QED BY <1>1, <1>2, <1>3, Own

\* A page that gives up its attempt, or everything.
LEMMA EndsOnce ==
    ASSUME NEW p \in Pages, OnceInv(p), TaskInv',
           GivesUp(p, Disconnected(page[p])) \/ GivesUp(p, Stopped(page[p]))
    PROVE  OnceInv(p)'
<1> DEFINE d == Disconnected(page[p])
           t == Stopped(page[p])
<1>1. /\ d \in Writers /\ d.link \in {"down", "stopped"} /\ d.life = page[p].life
      /\ d.epoch = page[p].epoch /\ d.postClaimed = page[p].postClaimed
      /\ d.sequence = page[p].sequence /\ d.acked = page[p].acked
      /\ page[p].mode = "post" => d.mode = "post"
      /\ d.link = "down" => d.conn > page[p].conn
      /\ d.link = "down" /\ d.mode = "duplex" => page[p].sequence = page[p].acked
      /\ t \in Writers /\ t.link = "stopped" /\ t.life = page[p].life
      /\ t.epoch = page[p].epoch /\ t.postClaimed = page[p].postClaimed /\ t.mode = page[p].mode
      /\ t.sequence = page[p].sequence /\ t.acked = page[p].acked
  BY OwnOnce, DownFields
<1> HIDE DEF d, t
<1>2. CASE GivesUp(p, d)
  BY <1>1, <1>2, GiveUpOnce
<1>3. CASE GivesUp(p, t)
  BY <1>1, <1>3, GiveUpOnce
<1> QED BY <1>2, <1>3 DEF d, t

\* A new attempt begins with its claim.
LEMMA ConnectOnce ==
    ASSUME NEW p \in Pages, OnceInv(p), Connect(p)
    PROVE  OnceInv(p)'
<1> DEFINE w == [page[p] EXCEPT !.link = "claiming"]
           claim == [stream |-> Stream(p), seq |-> 0]
<1>0. page[p] \in Writers
  BY OwnOnce
<1>1. /\ w \in Writers /\ w.link = "claiming" /\ w.life = page[p].life
      /\ w.epoch = page[p].epoch /\ w.postClaimed = page[p].postClaimed
      /\ w.conn = page[p].conn /\ w.mode = page[p].mode
      /\ w.sequence = page[p].sequence /\ w.acked = page[p].acked
  <2>1. w \in Writers
    BY <1>0, Updates
  <2> QED BY <1>0, <2>1 DEF Writers
<1>2. /\ Becomes(p, w, <<claim>>) /\ replies'[p] = <<>>
      /\ page[p].link = "down" /\ (page[p].mode = "duplex" \/ ~page[p].postClaimed)
  BY OwnOnce DEF Connect, Silent
<1>3. page'[p] = w /\ relay'[p] = <<claim>> /\ UNCHANGED <<agentVars, taskHistory>>
  BY <1>2, OwnOnce DEF Becomes
<1> HIDE DEF w
<1>4. TaskInv'
  BY OwnOnce, ConnectStep
<1>5. ~w.postClaimed /\ InAgent(p) = {}
  BY <1>1, <1>2, OwnOnce DEF Attempt
<1>6. InAgent(p)' = {}
  BY <1>1, <1>3, <1>5, AgentRests
<1>7. Len(<<claim>>) = 1 /\ <<claim>>[1].seq = 0
  OBVIOUS
<1> HIDE DEF claim
<1>8. Attempt(p)'
  BY <1>1, <1>2, <1>3, <1>5, <1>6, <1>7 DEF Attempt
<1>9. Acks(p)' = {}
  BY <1>2, <1>4, OwnOnce, AcksAre
<1>10. Once(p) => /\ w.mode = "duplex" => w.sequence = w.acked
                  /\ Passed(p)' = Passed(p) /\ \A x \in Waiting : w.acked < x.frame.seq
  BY <1>1, <1>2, <1>3, <1>5 DEF Once, Single, Passed
<1> QED BY <1>1, <1>2, <1>4, <1>8, <1>9, <1>10, GoesOn

\* A batch is sent only by a page that has claimed for its batches.
LEMMA SendBatchOnce ==
    ASSUME NEW p \in Pages, OnceInv(p), SendBatch(p)
    PROVE  OnceInv(p)'
<1> DEFINE v == Filled(page[p])
           w == [v EXCEPT !.link = "posting"]
           sent == FramesOf(p, v.acked + 1, v.sequence)
<1>1. /\ v \in Writers /\ v.life = page[p].life /\ v.epoch = page[p].epoch
      /\ v.postClaimed = page[p].postClaimed /\ v.mode = page[p].mode /\ v.conn = page[p].conn
  BY OwnOnce, FilledKeeps
<1>2. /\ Becomes(p, w, sent) /\ replies'[p] = <<>> /\ v.sequence > v.acked
      /\ page[p].link = "down" /\ page[p].mode = "post" /\ page[p].postClaimed
  BY OwnOnce DEF SendBatch, Silent
<1> HIDE DEF v
<1>3. /\ w \in Writers /\ w.link = "posting" /\ w.life = page[p].life /\ w.epoch = page[p].epoch
      /\ w.postClaimed = page[p].postClaimed /\ w.mode = page[p].mode /\ w.conn = page[p].conn
  <2>1. w \in Writers
    BY <1>1, Updates
  <2> QED BY <1>1, <2>1 DEF Writers
<1> HIDE DEF w
<1>4. page'[p] = w /\ relay'[p] = sent /\ UNCHANGED <<agentVars, taskHistory>>
  BY <1>2, OwnOnce DEF Becomes
<1>5. TaskInv'
  BY OwnOnce, SendBatchStep
<1>6. \A i \in 1..Len(sent) : sent[i].seq > 0
  <2>1. v.acked \in Nat /\ v.sequence \in Nat /\ v.sequence >= v.acked
    BY <1>1, <1>2 DEF Writers
  <2>2. Len(sent) = v.sequence - v.acked /\ \A i \in 1..Len(sent) : sent[i].seq = v.acked + i
    BY <2>1, OwnOnce, FramesInOrder
  <2> HIDE DEF sent
  <2> QED BY <2>1, <2>2
<1> HIDE DEF sent
<1>7. InAgent(p)' = InAgent(p)
  BY <1>3, <1>4, AgentRests
<1>8. Attempt(p)'
  BY <1>2, <1>3, <1>4, <1>6, <1>7, OwnOnce DEF Attempt
<1>9. Acks(p)' = {}
  BY <1>2, <1>5, OwnOnce, AcksAre
<1> QED BY <1>2, <1>3, <1>5, <1>8, <1>9, GoesOn

\* The reply to a batch empties its window.
LEMMA OnBatchOnce ==
    ASSUME NEW p \in Pages, OnceInv(p), OnBatch(p)
    PROVE  OnceInv(p)'
<1> DEFINE v == [page[p] EXCEPT !.link = "down", !.acked = page[p].sequence, !.retries = 0]
<1>1. TaskInv' /\ page[p].link = "posting"
  BY OwnOnce, OnBatchStep DEF OnBatch
<1>2. CASE GivesUp(p, Stopped(page[p]))
  BY <1>1, <1>2, EndsOnce
<1>3. CASE Becomes(p, v, <<>>) /\ Silent(p)
  <2>1. /\ v.link = "down" /\ v.life = page[p].life /\ v.epoch = page[p].epoch
        /\ v.postClaimed = page[p].postClaimed /\ v.mode = page[p].mode /\ v.conn = page[p].conn
    BY OwnOnce DEF Writers
  <2> HIDE DEF v
  <2>2. /\ page'[p] = v /\ relay'[p] = <<>> /\ replies'[p] = <<>>
        /\ UNCHANGED <<agentVars, taskHistory>>
    BY <1>3, OwnOnce DEF Becomes, Silent
  <2>3. page[p].postClaimed
    BY <1>1, OwnOnce DEF Attempt
  <2>4. InAgent(p)' = InAgent(p)
    BY <2>1, <2>2, AgentRests
  <2>5. Attempt(p)'
    BY <1>1, <2>1, <2>2, <2>3, <2>4, OwnOnce DEF Attempt
  <2>6. Acks(p)' = {}
    BY <1>1, <2>2, OwnOnce, AcksAre
  <2> QED BY <1>1, <1>3, <2>1, <2>3, <2>5, <2>6, GoesOn
<1> QED BY <1>2, <1>3 DEF OnBatch

LEMMA OnErrorOnce ==
    ASSUME NEW p \in Pages, OnceInv(p), OnError(p) \/ Drop(p) \/ Close(p)
    PROVE  OnceInv(p)'
<1>1. TaskInv'
  <2>1. TaskInv
    BY OwnOnce
  <2>2. CASE OnError(p)
    BY <2>1, <2>2, OnErrorStep
  <2>3. CASE Drop(p)
    BY <2>1, <2>3, DropStep DEF Drop
  <2>4. CASE Close(p)
    BY <2>1, <2>4, CloseStep
  <2> QED BY <2>2, <2>3, <2>4
<1>2. GivesUp(p, Disconnected(page[p])) \/ GivesUp(p, Stopped(page[p]))
  BY DEF OnError, Drop, Close
<1> QED BY <1>1, <1>2, EndsOnce

\* Typed text goes out at once only on a ready socket, behind what is there.
LEMMA TypeOnce ==
    ASSUME NEW p \in Pages, OnceInv(p), Type(p)
    PROVE  OnceInv(p)'
<1> DEFINE w == [page[p] EXCEPT !.typed = @ + 1, !.queue = @ + 1]
           f == IF w.link = "ready" THEN Filled(w) ELSE w
           sent == relay[p] \o FramesOf(p, w.sequence + 1, f.sequence)
<1>1. /\ Becomes(p, f, sent) /\ replies' = replies
  BY DEF Type
<1>2. page[p] \in Writers /\ InWindow(page[p])
  BY OwnOnce
<1>3. w \in Writers
  <2> DEFINE v == [page[p] EXCEPT !.typed = page[p].typed + 1]
  <2>1. page[p].typed + 1 \in Nat /\ page[p].queue + 1 \in Nat
    BY <1>2 DEF Writers
  <2>2. v \in Writers
    BY <1>2, <2>1, Updates
  <2>3. [v EXCEPT !.queue = page[p].queue + 1] \in Writers
    BY <2>1, <2>2, Updates
  <2>4. w = [v EXCEPT !.queue = page[p].queue + 1]
    BY <1>2 DEF Writers
  <2> QED BY <2>3, <2>4
<1>4. /\ w.link = page[p].link /\ w.sequence = page[p].sequence /\ w.acked = page[p].acked
      /\ w.life = page[p].life /\ w.conn = page[p].conn /\ w.epoch = page[p].epoch
      /\ w.postClaimed = page[p].postClaimed /\ w.mode = page[p].mode
  BY <1>2 DEF Writers
<1>5. InWindow(w)
  BY <1>2, <1>4 DEF InWindow
<1> HIDE DEF w
<1>6. /\ f \in Writers /\ f.link = page[p].link /\ f.life = page[p].life
      /\ f.epoch = page[p].epoch /\ f.postClaimed = page[p].postClaimed
      /\ f.mode = page[p].mode /\ f.conn = page[p].conn /\ f.acked = page[p].acked
      /\ f.sequence \in Nat /\ f.sequence >= page[p].sequence
      /\ page[p].link # "ready" => f.sequence = page[p].sequence
  <2>1. CASE w.link = "ready"
    <3>1. /\ Filled(w) \in Writers /\ Filled(w).link = w.link /\ Filled(w).life = w.life
          /\ Filled(w).epoch = w.epoch /\ Filled(w).postClaimed = w.postClaimed
          /\ Filled(w).mode = w.mode /\ Filled(w).conn = w.conn
          /\ Filled(w).acked = w.acked /\ Filled(w).sequence >= w.sequence
      BY <1>3, <1>5, FilledKeeps
    <3>2. Filled(w).sequence \in Nat
      BY <3>1 DEF Writers
    <3> QED BY <1>4, <2>1, <3>1, <3>2
  <2>2. CASE w.link # "ready"
    <3>1. w.sequence \in Nat /\ w.sequence >= w.sequence
      BY <1>3 DEF Writers
    <3> QED BY <1>3, <1>4, <2>2, <3>1
  <2> QED BY <2>1, <2>2
<1> HIDE DEF f
<1>7. sent = relay[p] \o FramesOf(p, page[p].sequence + 1, f.sequence)
  BY <1>4
<1>8. /\ Len(sent) = Len(relay[p]) + (f.sequence - page[p].sequence)
      /\ (\A i \in 1..Len(relay[p]) : relay[p][i].seq > 0) => \A i \in 1..Len(sent) : sent[i].seq > 0
      /\ (\A i \in 1..Len(relay[p]) : relay[p][i].seq = page[p].sequence - Len(relay[p]) + i)
            => \A i \in 1..Len(sent) : sent[i].seq = page[p].sequence - Len(relay[p]) + i
  <2>1. TaskInv /\ f.sequence \in Nat /\ f.sequence >= page[p].sequence
    BY <1>6, OwnOnce
  <2> HIDE DEF sent
  <2> QED BY <1>7, <2>1, RelayFollows
<1>9. page[p].link # "ready" => sent = relay[p]
  <2>1. SUFFICES ASSUME page[p].link # "ready" PROVE sent = relay[p]
    OBVIOUS
  <2> DEFINE more == FramesOf(p, page[p].sequence + 1, f.sequence)
  <2>2. more \in Seq(AnyFrame) /\ Len(more) = f.sequence - page[p].sequence
    BY <1>6, OwnOnce, FramesInOrder
  <2>3. f.sequence - page[p].sequence = 0
    BY <1>6, <2>1, OwnOnce
  <2>4. more = <<>>
    <3> HIDE DEF more
    <3> QED BY <2>2, <2>3, EmptySeq
  <2>5. relay[p] \in Seq(AnyFrame)
    BY OwnOnce
  <2>6. relay[p] \o <<>> = relay[p]
    BY <2>5, ConcatEmptySeq
  <2>7. sent = relay[p] \o more
    BY <1>7
  <2> HIDE DEF sent, more
  <2> QED BY <2>4, <2>6, <2>7
<1> HIDE DEF sent
<1>10. page'[p] = f /\ relay'[p] = sent /\ UNCHANGED <<agentVars, taskHistory>>
  BY <1>1, OwnOnce DEF Becomes
<1>11. TaskInv'
  BY OwnOnce, TypeStep
<1>12. InAgent(p)' = InAgent(p)
  BY <1>6, <1>10, AgentRests
<1>13. Attempt(p)'
  <2>1. CASE page[p].link # "ready"
    BY <1>1, <1>6, <1>9, <1>10, <1>12, <2>1, OwnOnce DEF Attempt
  <2>2. CASE page[p].link = "ready"
    BY <1>1, <1>6, <1>8, <1>10, <1>12, <2>2, OwnOnce DEF Attempt
  <2> QED BY <2>1, <2>2
<1>14. Acks(p)' = Acks(p)
  BY <1>1 DEF Acks
<1>15. Passed(p)' = Passed(p)
  BY <1>6, <1>8, <1>10, OwnOnce DEF Passed
<1>16. ASSUME ~f.postClaimed, Once(p)
       PROVE  /\ f.mode = "duplex" /\ f.link \in {"down", "claiming"} => f.sequence = f.acked
              /\ Passed(p)' = Passed(p) /\ \A x \in Waiting : f.acked < x.frame.seq
              /\ f.link = "ready" =>
                   /\ f.acked <= Passed(p) /\ \A i \in 1..Len(sent) : sent[i].seq = Passed(p) + i
                   /\ page[p].link = "ready"
  <2>1. /\ page[p].mode = "duplex" /\ page[p].link \in {"down", "claiming"}
                => page[p].sequence = page[p].acked
        /\ \A x \in Waiting : page[p].acked < x.frame.seq
        /\ page[p].link = "ready" =>
              /\ page[p].acked <= Passed(p)
              /\ \A i \in 1..Len(relay[p]) : relay[p][i].seq = Passed(p) + i
    BY <1>6, <1>16 DEF Once, Single
  <2>2. page[p].link = "ready" => Passed(p) = page[p].sequence - Len(relay[p])
    BY DEF Passed
  <2>3. page[p].link = "ready" => \A i \in 1..Len(sent) : sent[i].seq = Passed(p) + i
    BY <1>8, <2>1, <2>2
  <2> QED BY <1>6, <1>15, <2>1, <2>3
<1> QED BY <1>1, <1>6, <1>11, <1>13, <1>14, <1>16, GoesOn

\* An acknowledged number is past; the frames behind it are those of the window.
LEMMA OnAckOnce ==
    ASSUME NEW p \in Pages, OnceInv(p), OnAck(p)
    PROVE  OnceInv(p)'
<1> DEFINE w == page[p]
           seq == Head(replies[p]).seq
           v == [w EXCEPT !.acked = seq, !.retries = 0]
           f == Filled(v)
           sent == relay[p] \o FramesOf(p, w.sequence + 1, f.sequence)
<1>0. TaskInv' /\ w.link = "ready" /\ replies[p] # <<>> /\ Head(replies[p]).type = "ack"
  BY OwnOnce, OnAckStep DEF OnAck
<1>1. CASE GivesUp(p, Stopped(w))
  BY <1>0, <1>1, EndsOnce
<1>2. CASE /\ Pending(p) > 0 /\ seq = w.acked + 1 /\ Becomes(p, f, sent)
           /\ replies' = [replies EXCEPT ![p] = Tail(@)]
  <2>1. w \in Writers /\ InWindow(w) /\ seq \in Nat /\ w.acked \in Nat /\ w.sequence \in Nat
    BY <1>2, OwnOnce
  <2>2. v \in Writers
    <3> DEFINE v1 == [w EXCEPT !.acked = seq]
    <3>1. v1 \in Writers
      BY <2>1, Updates
    <3>2. [v1 EXCEPT !.retries = 0] \in Writers
      BY <3>1, Updates
    <3> QED BY <3>2
  <2>3. /\ v.life = w.life /\ v.epoch = w.epoch /\ v.postClaimed = w.postClaimed
        /\ v.link = "ready" /\ v.mode = w.mode /\ v.acked = seq /\ v.sequence = w.sequence
        /\ v.conn = w.conn
    BY <1>0, <2>1 DEF Writers
  <2>4. InWindow(v)
    <3>1. w.sequence - w.acked > 0
      BY <1>2 DEF Pending
    <3> QED BY <1>2, <2>1, <2>3, <3>1, WindowAssumption DEF InWindow
  <2> HIDE DEF v
  <2>5. /\ f \in Writers /\ f.life = w.life /\ f.epoch = w.epoch
        /\ f.postClaimed = w.postClaimed /\ f.link = "ready" /\ f.mode = w.mode
        /\ f.sequence >= w.sequence /\ f.acked = seq /\ f.conn = w.conn
    BY <2>2, <2>3, <2>4, FilledKeeps
  <2> HIDE DEF f
  <2>6. f.sequence \in Nat
    BY <2>5 DEF Writers
  <2>7. /\ Len(sent) = Len(relay[p]) + (f.sequence - w.sequence)
        /\ (\A i \in 1..Len(relay[p]) : relay[p][i].seq > 0)
              => \A i \in 1..Len(sent) : sent[i].seq > 0
        /\ (\A i \in 1..Len(relay[p]) : relay[p][i].seq = w.sequence - Len(relay[p]) + i)
              => \A i \in 1..Len(sent) : sent[i].seq = w.sequence - Len(relay[p]) + i
    BY <2>5, <2>6, OwnOnce, RelayFollows
  <2> HIDE DEF sent
  <2>8. /\ page'[p] = f /\ relay'[p] = sent /\ UNCHANGED <<agentVars, taskHistory>>
        /\ replies'[p] = Tail(replies[p])
    BY <1>2, OwnOnce DEF Becomes
  <2>9. /\ Acks(p)' \subseteq Acks(p) /\ Head(replies[p]) \in Acks(p)
    BY <1>0, <2>8, OwnOnce, AcksAre
  <2>10. InAgent(p)' = InAgent(p)
    BY <2>5, <2>8, AgentRests
  <2>11. Attempt(p)'
    BY <1>0, <2>5, <2>7, <2>8, <2>10, OwnOnce DEF Attempt
  <2>12. ASSUME Once(p)
         PROVE  /\ Passed(p)' = Passed(p) /\ \A x \in Waiting : f.acked < x.frame.seq
                /\ f.acked <= Passed(p) /\ \A i \in 1..Len(sent) : sent[i].seq = Passed(p) + i
    <3>1. ~w.postClaimed
      BY <1>0, OwnOnce DEF Attempt
    <3>2. /\ \A x \in Waiting : w.acked < x.frame.seq
          /\ \A i \in 1..Len(relay[p]) : relay[p][i].seq = Passed(p) + i
          /\ seq <= Passed(p) /\ \A x \in Waiting : x.frame.seq # seq
      BY <1>0, <2>9, <2>12, <3>1 DEF Once, Single
    <3>3. \A x \in Waiting : x.frame.seq \in Nat
      BY OwnOnce, WaitingTypes
    <3>4. \A x \in Waiting : f.acked < x.frame.seq
      BY <1>2, <2>1, <2>5, <3>2, <3>3
    <3>5. Passed(p) = w.sequence - Len(relay[p]) /\ Passed(p)' = f.sequence - Len(sent)
      BY <1>0, <2>5, <2>8 DEF Passed
    <3>6. Passed(p)' = Passed(p)
      BY <2>1, <2>6, <2>7, <3>5, OwnOnce
    <3>7. \A i \in 1..Len(sent) : sent[i].seq = Passed(p) + i
      BY <2>7, <3>2, <3>5
    <3> QED BY <2>5, <3>2, <3>4, <3>6, <3>7
  <2> QED BY <1>0, <1>2, <2>5, <2>9, <2>11, <2>12, GoesOn
<1> QED BY <1>0, <1>1, <1>2 DEF OnAck

\* A claim accepted: the page is told of the sequencer that counts its frames,
\* or of which none has been read.
LEMMA AcceptBinds ==
    ASSUME NEW p \in Pages, OnceInv(p), Once(p), NEW r \in Acks(p), page[p].link = "claiming",
           AcceptEpoch(page[p], r.epoch), UNCHANGED <<agentVars, taskHistory>>, Acks(p)' = {},
           page'[p].life = page[p].life, page'[p].epoch = r.epoch, page'[p].link # "claiming"
    PROVE  Bound(p)' /\ r.epoch # 0
<1>1. UNCHANGED <<task, entry, created, sequencer, holder>> /\ Given' = Given
      /\ Stream(p)' = Stream(p)
  BY StreamIs DEF agentVars, taskHistory, Given
<1>2. r.epoch \in 1..created /\ created \in Nat /\ page[p].epoch \in {0, r.epoch}
  BY OwnOnce, EntryTypes DEF Once, Bound, AcceptEpoch
<1>3. Counted(Stream(p), entry)' = Counted(Stream(p), entry)
  BY <1>1 DEF Counted, HandedOn
<1>4. page[p].epoch = 0 => Counted(Stream(p), entry)
  BY DEF Once, Owns, Counted
<1>5. ASSUME entry # 0, task # "ended"
      PROVE  /\ entry = r.epoch => sequencer[entry].stream = Stream(p) /\ Counted(Stream(p), entry)
             /\ sequencer[entry].stream = Stream(p) => Counted(Stream(p), entry)
  <2>1. /\ IF r.epoch = entry THEN sequencer[entry].stream = Stream(p)
           ELSE page[p].epoch = 0 \/ sequencer[entry].stream # Stream(p)
        /\ entry = page[p].epoch => Counted(Stream(p), entry)
    BY <1>5 DEF Once, Bound
  <2> QED BY <1>2, <1>4, <2>1
<1>6. r.epoch # 0 /\ r.epoch <= created
  BY <1>2
<1> QED BY <1>1, <1>3, <1>5, <1>6 DEF Bound

\* The owner is lost while nothing is pending: another stream.
LEMMA OwnerLostOnce ==
    ASSUME NEW p \in Pages, OnceInv(p), TaskInv', page[p].link = "claiming",
           GivesUp(p, OwnerLost(page[p]))
    PROVE  OnceInv(p)'
<1>0. page[p] \in Writers /\ page[p].life \in Nat /\ page[p].sequence \in Nat
  BY OwnOnce DEF Writers
<1>1. CASE page[p].sequence > page[p].acked
  BY <1>1, EndsOnce DEF OwnerLost
<1>2. CASE ~(page[p].sequence > page[p].acked)
  <2> DEFINE v == [page[p] EXCEPT !.life = @ + 1, !.sequence = 0, !.acked = 0, !.epoch = 0,
                                  !.postClaimed = FALSE]
             w == Disconnected(v)
  <2>1. OwnerLost(page[p]) = w
    BY <1>2 DEF OwnerLost
  <2>2. v \in Writers
    <3> DEFINE v1 == [page[p] EXCEPT !.life = page[p].life + 1]
               v2 == [v1 EXCEPT !.sequence = 0]
               v3 == [v2 EXCEPT !.acked = 0]
               v4 == [v3 EXCEPT !.epoch = 0]
               v5 == [v4 EXCEPT !.postClaimed = FALSE]
    <3>0. page[p].life + 1 \in Nat
      BY <1>0
    <3>1. v1 \in Writers
      BY <1>0, <3>0, Updates
    <3>2. v2 \in Writers
      BY <3>1, Updates
    <3>3. v3 \in Writers
      BY <3>2, Updates
    <3>4. v4 \in Writers
      BY <3>3, Updates
    <3>5. v5 \in Writers
      BY <3>4, Updates
    <3>6. v = [[[[[page[p] EXCEPT !.life = page[p].life + 1] EXCEPT !.sequence = 0]
                  EXCEPT !.acked = 0] EXCEPT !.epoch = 0] EXCEPT !.postClaimed = FALSE]
      OBVIOUS
    <3> QED BY <3>5, <3>6
  <2>3. /\ v.sequence = 0 /\ v.acked = 0 /\ v.conn = page[p].conn /\ v.epoch = 0
        /\ v.life = page[p].life + 1 /\ v.postClaimed = FALSE
    BY <1>0 DEF Writers
  <2>4. InWindow(v)
    BY <2>3, WindowAssumption DEF InWindow
  <2> HIDE DEF v
  <2>5. /\ w \in Writers /\ w.life = page[p].life + 1 /\ ~w.postClaimed /\ w.epoch = 0
        /\ w.sequence = 0 /\ w.acked = 0 /\ w.link \in {"down", "stopped"}
        /\ w.link = "down" => w.conn > page[p].conn
    BY <2>2, <2>3, <2>4, DownFields
  <2>6. page[p].sequence = page[p].acked
    BY <1>0, <1>2, OwnOnce
  <2> HIDE DEF w
  <2> QED BY <2>1, <2>5, <2>6, NewLifeOnce
<1> QED BY <1>1, <1>2

\* The reply to a claim: the owner is lost, accepted for the first time, or known.
LEMMA OnClaimedOnce ==
    ASSUME NEW p \in Pages, OnceInv(p), OnClaimed(p)
    PROVE  OnceInv(p)'
<1> DEFINE w == page[p]
           r == Head(replies[p])
           e == r.epoch
           n == IF w.sequence = w.acked THEN 0 ELSE w.retries
           v == [w EXCEPT !.link = "ready", !.epoch = e, !.everReady = TRUE,
                          !.retries = IF w.sequence = w.acked THEN 0 ELSE @]
           ready == Filled(v)
           sent == FramesOf(p, w.acked + 1, ready.sequence)
           u == [w EXCEPT !.link = "down", !.epoch = e, !.postClaimed = TRUE]
<1>1. w.link = "claiming" /\ replies[p] # <<>> /\ r.type = "ack" /\ TaskInv'
  BY OwnOnce, OnClaimedStep DEF OnClaimed
<1>2. w \in Writers /\ InWindow(w) /\ w.retries \in Nat /\ w.acked \in Nat
  BY OwnOnce DEF Writers
<1>3. e \in Nat /\ r \in Acks(p)
  <2>1. e \in Nat
    BY <1>1, OwnOnce, HeadFits DEF AnyReply
  <2>2. r \in Acks(p)
    BY <1>1, OwnOnce, AcksAre
  <2> QED BY <2>1, <2>2
<1> HIDE DEF r
<1>4. ~w.postClaimed /\ InAgent(p) = {}
  BY <1>1, OwnOnce DEF Attempt
<1>5. CASE GivesUp(p, OwnerLost(w))
  BY <1>1, <1>5, OwnerLostOnce
<1>6. CASE AcceptEpoch(w, e) /\ w.mode = "duplex" /\ Becomes(p, ready, sent) /\ Silent(p)
  <2>1. v \in Writers
    <3> DEFINE v1 == [w EXCEPT !.link = "ready"]
               v2 == [v1 EXCEPT !.epoch = e]
               v3 == [v2 EXCEPT !.everReady = TRUE]
    <3>1. n \in Nat
      BY <1>2
    <3>2. v1 \in Writers
      BY <1>2, Updates
    <3>3. v2 \in Writers
      BY <1>3, <3>2, Updates
    <3>4. v3 \in Writers
      BY <3>3, Updates
    <3>5. [v3 EXCEPT !.retries = n] \in Writers
      BY <3>1, <3>4, Updates
    <3>6. v = [v3 EXCEPT !.retries = n]
      BY <1>2 DEF Writers
    <3> QED BY <3>5, <3>6
  <2>2. /\ v.link = "ready" /\ v.life = w.life /\ v.epoch = e /\ v.mode = w.mode
        /\ v.postClaimed = w.postClaimed /\ v.acked = w.acked /\ v.sequence = w.sequence
        /\ v.conn = w.conn
    BY <1>2 DEF Writers
  <2>3. InWindow(v)
    BY <1>2, <2>2 DEF InWindow
  <2> HIDE DEF v
  <2>4. /\ ready \in Writers /\ ready.link = "ready" /\ ready.life = w.life
        /\ ready.epoch = e /\ ready.mode = w.mode /\ ready.postClaimed = w.postClaimed
        /\ ready.acked = w.acked /\ ready.conn = w.conn /\ ready.sequence >= w.sequence
    BY <2>1, <2>2, <2>3, FilledKeeps
  <2> HIDE DEF ready
  <2>5. ready.sequence \in Nat /\ ready.sequence >= w.acked
    <3>1. ready.sequence \in Nat
      BY <2>4 DEF Writers
    <3> QED BY <2>4, <3>1, OwnOnce
  <2>6. Len(sent) = ready.sequence - w.acked /\ \A i \in 1..Len(sent) : sent[i].seq = w.acked + i
    BY <1>2, <2>5, OwnOnce, FramesInOrder
  <2> HIDE DEF sent
  <2>7. /\ page'[p] = ready /\ relay'[p] = sent /\ replies'[p] = <<>> /\ late' = late
        /\ UNCHANGED <<agentVars, taskHistory>>
    BY <1>6, OwnOnce DEF Becomes, Silent
  <2>8. Attempt(p)'
    <3>1. InAgent(p)' = {}
      BY <1>4, <2>4, <2>7, AgentRests
    <3>2. \A i \in 1..Len(sent) : sent[i].seq > 0
      BY <1>2, <2>5, <2>6
    <3> QED BY <1>4, <1>6, <2>4, <2>7, <3>1, <3>2 DEF Attempt
  <2>9. Acks(p)' = {}
    BY <1>1, <2>7, OwnOnce, AcksAre
  <2>10. ASSUME Once(p) PROVE Owns(p)' /\ Bound(p)' /\ Single(p)'
    <3>1. Bound(p)' /\ e # 0
      BY <1>1, <1>3, <1>6, <2>4, <2>7, <2>9, <2>10, AcceptBinds
    <3>2. w.sequence = w.acked
      BY <1>1, <1>4, <1>6, <2>10 DEF Once, Single
    <3>3. Waiting = {} /\ \A f \in Given : f.stream = Stream(p) => f.seq <= w.acked
      BY <1>1, <2>10, <3>2, OwnOnce, NothingWaits
    <3>4. Waiting' = Waiting /\ Given' = Given /\ Stream(p)' = Stream(p)
      BY <2>4, <2>7, StreamIs DEF Waiting, Given, agentVars, taskHistory
    <3>5. Owns(p)'
      BY <2>4, <2>7, <2>10, <3>1, <3>3, <3>4 DEF Once, Owns
    <3>6. Passed(p)' = w.acked
      BY <1>2, <2>4, <2>5, <2>6, <2>7 DEF Passed
    <3>7. Single(p)'
      BY <1>2, <2>4, <2>6, <2>7, <2>9, <3>3, <3>4, <3>6 DEF Single
    <3> QED BY <3>1, <3>5, <3>7
  <2> QED BY <1>1, <2>7, <2>8, <2>10, PageOnce
<1>7. CASE AcceptEpoch(w, e) /\ w.mode = "post" /\ Becomes(p, u, <<>>) /\ Silent(p)
  <2>1. /\ u.link = "down" /\ u.life = w.life /\ u.epoch = e /\ u.mode = w.mode
        /\ u.postClaimed = TRUE /\ u.conn = w.conn
    BY <1>2 DEF Writers
  <2> HIDE DEF u
  <2>2. /\ page'[p] = u /\ relay'[p] = <<>> /\ replies'[p] = <<>> /\ late' = late
        /\ UNCHANGED <<agentVars, taskHistory>>
    BY <1>7, OwnOnce DEF Becomes, Silent
  <2>3. Attempt(p)'
    <3>1. InAgent(p)' = {}
      BY <1>4, <2>1, <2>2, AgentRests
    <3> QED BY <1>7, <2>1, <2>2, <3>1 DEF Attempt
  <2>4. Acks(p)' = {}
    BY <1>1, <2>2, OwnOnce, AcksAre
  <2>5. ASSUME Once(p) PROVE Owns(p)' /\ Bound(p)' /\ Single(p)'
    <3>1. Bound(p)' /\ e # 0
      BY <1>1, <1>3, <1>7, <2>1, <2>2, <2>4, <2>5, AcceptBinds
    <3>2. Waiting' = Waiting /\ Given' = Given /\ Stream(p)' = Stream(p)
      BY <2>1, <2>2, StreamIs DEF Waiting, Given, agentVars, taskHistory
    <3>3. Owns(p)'
      BY <2>1, <2>2, <2>5, <3>1, <3>2 DEF Once, Owns
    <3>4. Single(p)'
      BY <2>1, <2>2 DEF Single
    <3> QED BY <3>1, <3>3, <3>4
  <2> QED BY <1>1, <2>2, <2>3, <2>5, PageOnce
<1> QED BY <1>5, <1>6, <1>7 DEF OnClaimed, r

-----------------------------------------------------------------------------
\* The invariant holds at first and is kept by every step.
LEMMA InitOnce ==
    ASSUME NEW p \in Pages, Pages = {p}, TaskInit
    PROVE  OnceInv(p)
<1>1. TaskInv
  BY TaskInitInv
<1>2. /\ task \in {"starting", "open"} /\ entry = 0 /\ created = 0 /\ late = {}
      /\ holder = [e \in Epochs |-> Nothing] /\ calls = {} /\ taken = <<>>
      /\ page[p] = NewPage /\ relay[p] = <<>> /\ replies[p] = <<>>
  BY DEF TaskInit
<1>3. InAgent(p) = {} /\ Waiting = {} /\ Len(<<>>) = 0
  BY <1>2 DEF InHand, InAgent, Waiting
<1>4. /\ NewPage.link = "down" /\ NewPage.life = 0 /\ NewPage.epoch = 0
      /\ ~NewPage.postClaimed /\ NewPage.sequence = 0 /\ NewPage.acked = 0
  BY DEF NewPage
<1>5. Given = {} /\ Acks(p) = {}
  BY <1>2, <1>3 DEF Given, Acks
<1> HIDE DEF NewPage
<1>6. Attempt(p)
  BY <1>2, <1>3, <1>4 DEF Attempt
<1>7. RegistryKnows /\ HeldRead
  BY <1>2 DEF RegistryKnows, HeldRead
<1>8. taken \in Seq(AnyFrame)
  BY <1>2
<1>9. ReadOnce
  BY <1>2, <1>3 DEF ReadOnce
<1>10. Owns(p) /\ Bound(p) /\ Single(p)
  <2>1. Owns(p)
    BY <1>2, <1>3, <1>4, <1>5 DEF Owns
  <2>2. Bound(p)
    BY <1>2, <1>4, <1>5 DEF Bound
  <2>3. Single(p)
    BY <1>2, <1>3, <1>4, <1>5 DEF Single
  <2> QED BY <2>1, <2>2, <2>3
<1> QED BY <1>1, <1>6, <1>7, <1>8, <1>9, <1>10 DEF OnceInv, Orderly, Once

LEMMA NextOnce ==
    ASSUME NEW p \in Pages, OnceInv(p), [TaskNext]_taskVars
    PROVE  OnceInv(p)'
<1>0. Pages = {p}
  BY DEF OnceInv, Orderly
<1>1. ASSUME Type(p) \/ PageStep(p) \/ Drop(p) \/ Close(p) PROVE OnceInv(p)'
  BY <1>1, TypeOnce, ConnectOnce, SendBatchOnce, DispatchOnce, OnClaimedOnce, OnAckOnce,
     OnBatchOnce, OnErrorOnce DEF PageStep
<1>2. ASSUME NEW c \in calls, Unavailable(c) PROVE OnceInv(p)'
  BY <1>2, UnavailableOnce
<1>3. ASSUME NEW l \in late, DispatchLate(l) PROVE OnceInv(p)'
  BY <1>3, DispatchLateOnce
<1>4. ASSUME AgentStep PROVE OnceInv(p)'
  BY <1>4, ClaimOnce, AnswerFrameOnce, StartWriteOnce, EndWriteOnce DEF AgentStep
<1>5. ASSUME AgentRestart PROVE OnceInv(p)'
  BY <1>5, AgentRestartOnce
<1>6. ASSUME TaskStep PROVE OnceInv(p)'
  BY <1>6, TaskOnce
<1>7. ASSUME UNCHANGED taskVars PROVE OnceInv(p)'
  BY <1>7, StutterOnce
<1> QED BY <1>0, <1>1, <1>2, <1>3, <1>4, <1>5, <1>6, <1>7 DEF TaskNext

(***************************************************************************)
(* A page that is alone at its task has no frame read twice by the job,    *)
(* through any number of drops, retries, restarts of the Agent and losses  *)
(* of its owner, and whatever the handlers of its earlier attempts still   *)
(* deliver, as long as none of their claims binds a sequencer of which the *)
(* page does not know.                                                     *)
(***************************************************************************)
THEOREM OnceForOnePage ==
    ASSUME NEW p \in Pages, Pages = {p}
    PROVE  TaskSpec => []OnceUnlessStray
<1>1. TaskInit => OnceInv(p)
  BY InitOnce
<1>2. OnceInv(p) /\ [TaskNext]_taskVars => OnceInv(p)'
  BY NextOnce
<1>3. OnceInv(p) => OnceUnlessStray
  BY DEF OnceInv, Once, OnceUnlessStray
<1> QED BY <1>1, <1>2, <1>3, PTL DEF TaskSpec
=============================================================================
