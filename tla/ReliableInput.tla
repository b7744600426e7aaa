--------------------------- MODULE ReliableInput ---------------------------
(***************************************************************************)
(* The input side of one PTY session (internal/terminal/input.go and       *)
(* Manager.InputContext): frames <stream, seq, data> reach the owner of    *)
(* the PTY over sockets, relays and HTTP batches that may repeat, delay    *)
(* and reorder them, from several pages at once; the owner decides which   *)
(* of them it writes, which it only acknowledges and which it refuses.     *)
(*                                                                         *)
(* Every frame may be offered at any time: that is all the network and the *)
(* browsers can do.  The PTY write runs outside the session's state lock,  *)
(* under inputGate alone, so the session may be closed meanwhile.          *)
(***************************************************************************)
EXTENDS Naturals, Sequences, FiniteSets

CONSTANTS
    Streams,      \* writer identities, one per page
    Data,         \* payloads of frames, told apart by their hashes
    None,         \* no stream, no payload, no write
    Retained,     \* session.retained: only such a session can be handed over
    InputWindow,  \* InputWindow
    MaxWriters,   \* maxRetainedWriters
    MaxSeq,       \* bound of the model: sequence numbers offered
    MaxBare       \* bound of the model: writes of the unsequenced route

ASSUME NoneAssumption == None \notin Streams \cup Data
ASSUME BoundsAssumption ==
    /\ Retained \in BOOLEAN
    /\ InputWindow \in Nat \ {0} /\ MaxWriters \in Nat
    /\ MaxSeq \in Nat /\ MaxBare \in Nat

VARIABLES
    life,     \* "live", "closing" (closeFailed) or "gone" (closed or exited)
    stream,   \* reliableInputState.stream
    acked,    \* reliableInputState.acked
    failed,   \* reliableInputState.failed
    retired,  \* reliableInputState.retired
    hashes,   \* reliableInputState.hashes
    writing,  \* the write that holds inputGate, None when the gate is free
    written,  \* history: the writes handed to the PTY, in order
    acks      \* history: the data frames acknowledged

history == <<written, acks>>
vars == <<life, stream, acked, failed, retired, hashes, writing, history>>

-----------------------------------------------------------------------------
Frames == [stream : Streams, seq : 1..MaxSeq, data : Data]

\* Bytes of the unsequenced route carry no sequence number.
Bare(d) == [stream |-> None, seq |-> 0, data |-> d]
BareFrames == {Bare(d) : d \in Data}

\* None is no write either.
ASSUME NoWriteAssumption == None \notin Frames \cup BareFrames

NoHashes == [i \in 0..(InputWindow - 1) |-> None]

Init ==
    /\ life = "live"
    /\ stream = None /\ acked = 0 /\ failed = FALSE
    /\ retired = {} /\ hashes = NoHashes
    /\ writing = None
    /\ written = <<>> /\ acks = {}

\* The gate is free and the session takes input: the common checks.
Admitting == writing = None /\ life = "live"

\* A claim, seq = 0, by the writer that has the session or by the first one.
Claim(s) ==
    /\ Admitting /\ ~failed
    /\ stream \in {None, s}
    /\ stream' = s
    /\ UNCHANGED <<life, acked, failed, retired, hashes, writing, history>>

\* Mutant: a fenced writer is not recognised.
MayTakeOverAgain(s) == Retained /\ ~failed

MayTakeOver(s) ==
    /\ Retained /\ ~failed
    /\ s \notin retired /\ Cardinality(retired) < MaxWriters

\* A claim by another writer takes a retained session over, fences the previous
\* writer for good and starts a new count.
Handoff(s) ==
    /\ Admitting
    /\ stream \notin {None, s}
    /\ MayTakeOver(s)
    /\ retired' = retired \cup {stream}
    /\ stream' = s
    /\ acked' = 0 /\ hashes' = NoHashes
    /\ UNCHANGED <<life, failed, writing, history>>

\* Mutants: a replay is accepted by its number alone; a gap is let through.
IsReplayByNumber(f) == f.seq <= acked
IsNextAfterGap(f) == f.seq > acked

\* Written before, still in the window, and with the same bytes.
IsReplay(f) ==
    /\ f.seq <= acked
    /\ acked - f.seq < InputWindow
    /\ hashes[f.seq % InputWindow] = f.data

IsNext(f) == f.seq = acked + 1

\* A frame that was written before is acknowledged again, not written again.
Replay(f) ==
    /\ Admitting /\ ~failed
    /\ stream \in {None, f.stream}
    /\ IsReplay(f)
    /\ acks' = acks \cup {f}
    /\ UNCHANGED <<life, stream, acked, failed, retired, hashes, writing, written>>

\* The next frame in order: the state lock is given up, the write begins.
BeginWrite(f) ==
    /\ Admitting /\ ~failed
    /\ stream \in {None, f.stream}
    /\ IsNext(f)
    /\ stream' = f.stream
    /\ writing' = f
    /\ written' = Append(written, f)
    /\ UNCHANGED <<life, acked, failed, retired, hashes, acks>>

\* All bytes were taken by the PTY; the frame counts even if the session has
\* been closed during the write.
WriteDone ==
    /\ writing \in Frames
    /\ hashes' = [hashes EXCEPT ![writing.seq % InputWindow] = writing.data]
    /\ acked' = writing.seq
    /\ acks' = acks \cup {writing}
    /\ writing' = None
    /\ UNCHANGED <<life, stream, failed, retired, written>>

\* Mutants: a failed write leaves the stream usable; a short write is taken
\* for a complete one.
FreezeOnError == UNCHANGED <<failed, acked>>
TakesShortWrite == UNCHANGED failed /\ acked' = writing.seq

Freeze == failed' = TRUE /\ UNCHANGED acked

\* An error or a short write: some bytes may have been taken.
WriteUncertain ==
    /\ writing \in Frames
    /\ Freeze
    /\ writing' = None
    /\ UNCHANGED <<life, stream, retired, hashes, history>>

\* InputContext does not look at failed, but refuses once a stream is claimed.
BareAllowed == Admitting /\ stream = None

BeginBare(d) ==
    /\ BareAllowed
    /\ Len(SelectSeq(written, LAMBDA w : w.stream = None)) < MaxBare
    /\ writing' = Bare(d)
    /\ written' = Append(written, Bare(d))
    /\ UNCHANGED <<life, stream, acked, failed, retired, hashes, acks>>

\* The unsequenced write ends, whatever its outcome.
EndBare ==
    /\ writing \in BareFrames
    /\ writing' = None
    /\ UNCHANGED <<life, stream, acked, failed, retired, hashes, history>>

\* Close and the capture goroutine, which do not wait for inputGate.
EndOfSession ==
    /\ \/ life = "live" /\ life' \in {"closing", "gone"}
       \/ life = "closing" /\ life' = "gone"
    /\ UNCHANGED <<stream, acked, failed, retired, hashes, writing, history>>

Next ==
    \/ \E s \in Streams : Claim(s) \/ Handoff(s)
    \/ \E f \in Frames : Replay(f) \/ BeginWrite(f)
    \/ \E d \in Data : BeginBare(d)
    \/ WriteDone \/ WriteUncertain \/ EndBare \/ EndOfSession

Spec == Init /\ [][Next]_vars

-----------------------------------------------------------------------------
TypeOK ==
    /\ life \in {"live", "closing", "gone"}
    /\ stream \in Streams \cup {None}
    /\ acked \in 0..MaxSeq /\ failed \in BOOLEAN
    /\ retired \subseteq Streams /\ Cardinality(retired) <= MaxWriters
    /\ hashes \in [0..(InputWindow - 1) -> Data \cup {None}]
    /\ writing \in Frames \cup BareFrames \cup {None}
    /\ written \in Seq(Frames \cup BareFrames)
    /\ acks \subseteq Frames

(***************************************************************************)
(* However frames are repeated, delayed or reordered, no frame of a writer *)
(* is handed to the PTY twice, not even with other bytes under the same    *)
(* number.                                                                 *)
(***************************************************************************)
AtMostOnce ==
    \A i, j \in 1..Len(written) :
        i < j /\ written[i].stream # None
            => <<written[i].stream, written[i].seq>> # <<written[j].stream, written[j].seq>>

(***************************************************************************)
(* The writes of one writer are its frames 1, 2, 3... in order, and no     *)
(* other writer and no bare input comes between them: a writer fenced by a *)
(* handoff never writes again.                                             *)
(***************************************************************************)
InOrder ==
    \A i \in 1..Len(written) :
        LET w == written[i]
        IN  w.stream # None /\ w.seq # 1
            => /\ i > 1
               /\ written[i-1].stream = w.stream /\ written[i-1].seq = w.seq - 1

(***************************************************************************)
(* An acknowledgement means that exactly these bytes were written under    *)
(* this number, completely: the frame is not the one being written, nor    *)
(* the one whose write failed.                                             *)
(***************************************************************************)
AckMeansWritten ==
    \A f \in acks : \E i \in 1..Len(written) :
        written[i] = f /\ (i = Len(written) => writing = None /\ ~failed)

(***************************************************************************)
(* A session that is not retained serves one writer for its whole life,    *)
(* and no bare input follows that writer's first frame.                    *)
(***************************************************************************)
OneWriter ==
    ~Retained => \A i, j \in 1..Len(written) :
        i < j /\ written[i].stream # None => written[j].stream = written[i].stream

(***************************************************************************)
(* An uncertain write is the last one of the session: neither a retry nor  *)
(* a handoff to another writer makes the owner write after it.             *)
(***************************************************************************)
FreezeIsFinal == [][failed => failed' /\ UNCHANGED written]_vars
=============================================================================
