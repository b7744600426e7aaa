----------------------------- MODULE TaskInput -----------------------------
(***************************************************************************)
(* Keyboard input of a task terminal, end to end: the writer in the page   *)
(* (terminalDuplexInput.ts), the relay in the Panel (terminal_input.go,    *)
(* terminal_input_batch.go, job_terminal_input.go) and the Agent's registry*)
(* of sequencers (job_input.go, terminal/sequencer.go), whose state a      *)
(* restart of the Agent or the end of the task throws away.                *)
(*                                                                         *)
(* A page keeps every frame until it is acknowledged.  It starts with a    *)
(* WebSocket ("duplex") and falls back to HTTP batches ("post"); a new     *)
(* attempt, numbered by conn, ends the page's part in the previous one, but*)
(* the Panel's handler goes on with what it has of that one, and a call    *)
(* that has reached the Agent may still be carried out there.              *)
(***************************************************************************)
EXTENDS Naturals, Sequences

CONSTANTS
    Pages,        \* writers, one per page
    Window,       \* terminalInputWindow
    MaxRetries,   \* attempts without an acknowledgement before a page gives up
    Nothing,      \* no stream, no call at a gate
    MaxTyped,     \* bound of the model: frames typed in one page
    MaxDrops,     \* bound of the model: attempts after which no idle link drops
    MaxLate,      \* bound of the model: the attempts, from the first on, of which
                  \* frames arrive after they were given up
    MaxEpochs     \* bound of the model: sequencers the Agents create, so that a
                  \* restart comes only while another one can follow

ASSUME WindowAssumption == Window \in Nat \ {0}
ASSUME TaskBounds == {MaxRetries, MaxTyped, MaxDrops, MaxLate, MaxEpochs} \subseteq Nat

VARIABLES
    task,       \* "starting", "open" or "ended": does the job take input
    entry,      \* jobInputRegistry.items: epoch of the job's sequencer, 0 if none
    created,    \* number of sequencers created, the last epoch given out
    sequencer,  \* per epoch: InputSequencer.state
    holder,     \* per epoch: the call inside write, which holds the gate
    calls,      \* requests that reached the Agent and wait for a gate
    page,       \* per page: its TerminalDuplexInput
    relay,      \* per page: frames of the attempt the Panel has not passed on
    replies,    \* per page: replies of the attempt on their way
    late,       \* frames of attempts given up that may still reach the Agent
    taken,      \* history: frames of which the job's FIFO took bytes, in order
    complete,   \* history: frames of which the FIFO took every byte
    stray       \* history: a claim of an attempt given up bound a sequencer that
                \* its page does not know

agentVars == <<task, entry, created, sequencer, holder, calls>>
pageVars == <<page, relay, replies, late>>
taskHistory == <<taken, complete, stray>>
taskVars == <<agentVars, pageVars, taskHistory>>

-----------------------------------------------------------------------------
Epochs == 1..MaxEpochs
\* newStream: a page takes a new identity after each loss of its owner.
TaskStreams == Pages \X (0..MaxEpochs)
TaskFrames == [stream : TaskStreams, seq : 0..MaxTyped]
Calls == [page : Pages, conn : Nat, frame : TaskFrames, at : Epochs]
Results == {"ok", "unwritten", "closed", "uncertain"}

\* Nothing is neither a stream nor what a gate holds.
ASSUME NoStreamAssumption == Nothing \notin Pages \X Nat
ASSUME NoCallAssumption ==
    Nothing \notin [call : [page : Pages, conn : Nat, at : Epochs,
                          frame : [stream : Pages \X Nat, seq : Nat]],
                  result : Results]

Fresh(s) == [stream |-> s, acked |-> 0, failed |-> FALSE]

NewPage == [link |-> "down", mode |-> "duplex", life |-> 0, epoch |-> 0,
            sequence |-> 0, acked |-> 0, queue |-> 0, typed |-> 0,
            postClaimed |-> FALSE, everReady |-> FALSE, retries |-> 0, conn |-> 0]

TaskInit ==
    /\ task \in {"starting", "open"}
    /\ entry = 0 /\ created = 0
    /\ sequencer = [e \in Epochs |-> Fresh(Nothing)]
    /\ holder = [e \in Epochs |-> Nothing]
    /\ calls = {}
    /\ page = [p \in Pages |-> NewPage]
    /\ relay = [p \in Pages |-> <<>>] /\ replies = [p \in Pages |-> <<>>]
    /\ late = {}
    /\ taken = <<>> /\ complete = {} /\ stray = FALSE

-----------------------------------------------------------------------------
(* The Panel's relay.                                                      *)

\* The stream a page writes now.
Stream(p) == <<p, page[p].life>>

\* The page still waits for what comes of the attempt.
Current(c) == page[c.page].conn = c.conn /\ page[c.page].link # "stopped"

\* What the page is told: an acknowledgement; an error it may retry; or one it
\* may not (sequence, uncertain, closed, not found).  A batch is answered once,
\* after its last frame or its first error, and stops there.
Answered(c, reply) ==
    IF ~Current(c) THEN UNCHANGED <<relay, replies>>
    ELSE LET p == c.page
             batch == page[p].mode = "post"
         IN  IF batch /\ reply.type = "ack" /\ relay[p] # <<>>
             THEN UNCHANGED <<relay, replies>>
             ELSE /\ replies' = [replies EXCEPT ![p] = Append(@, reply)]
                  /\ relay' = IF batch THEN [relay EXCEPT ![p] = <<>>] ELSE relay

Reply(type, seq, epoch) == [type |-> type, seq |-> seq, epoch |-> epoch]

\* Calls at the Agent, waiting or writing, and those of the page's attempt.
InHand == calls \cup {holder[e].call : e \in {e \in Epochs : holder[e] # Nothing}}

InAgent(p) == {c \in InHand : c.page = p /\ c.conn = page[p].conn}

\* The registry's answer to a frame is a sequencer e, 0 if there is none: claim
\* finds or creates one for a task that takes input and forgets it otherwise,
\* lookup only finds one.
Registry(f, e) ==
    \/ /\ f.seq = 0 /\ task # "open"
       /\ e = 0 /\ entry' = 0
       /\ UNCHANGED <<created, sequencer>>
    \/ /\ f.seq = 0 /\ task = "open" /\ entry = 0 /\ created < MaxEpochs
       /\ e = created + 1
       /\ created' = e /\ entry' = e
       /\ sequencer' = [sequencer EXCEPT ![e] = Fresh(Nothing)]
    \/ /\ e = entry
       /\ IF f.seq = 0 THEN entry # 0 /\ task = "open" ELSE TRUE
       /\ UNCHANGED <<entry, created, sequencer>>

\* The call for frame f reaches its sequencer.
Arrives(p, n, f, e) ==
    calls' = calls \cup {[page |-> p, conn |-> n, frame |-> f, at |-> e]}

\* The attempt's next frame; a batch stops at a refusal.
Dispatch(p) ==
    /\ relay[p] # <<>> /\ InAgent(p) = {}
    /\ \E e \in 0..MaxEpochs :
        LET f == Head(relay[p])
            rest == Tail(relay[p])
        IN  /\ Registry(f, e)
            /\ \/ /\ e # 0
                  /\ Arrives(p, page[p].conn, f, e)
                  /\ relay' = [relay EXCEPT ![p] = rest]
                  /\ UNCHANGED replies
               \/ /\ e = 0
                  /\ replies' = [replies EXCEPT ![p] = Append(@, Reply("fatal", f.seq, 0))]
                  /\ relay' = [relay EXCEPT ![p] = IF page[p].mode = "post" THEN <<>> ELSE rest]
                  /\ UNCHANGED calls
    /\ UNCHANGED <<task, holder, page, late, taskHistory>>

\* The handler of an attempt that was given up goes on in order with the frames
\* it has, and nobody hears the answers.  It may end with any of them, so what
\* is left need not be passed on.
DispatchLate(l) ==
    /\ \A m \in late : m.page = l.page /\ m.conn = l.conn => l.frame.seq <= m.frame.seq
    /\ \A c \in InHand : ~(c.page = l.page /\ c.conn = l.conn)
    /\ late' = late \ {l}
    /\ \E e \in 0..MaxEpochs :
        /\ Registry(l.frame, e)
        /\ IF e = 0 THEN UNCHANGED calls ELSE Arrives(l.page, l.conn, l.frame, e)
    /\ UNCHANGED <<task, holder, page, relay, replies, taskHistory>>

\* A call that never reaches its gate: no Agent, its deadline, its cancellation.
Unavailable(c) ==
    /\ c \in calls
    /\ calls' = calls \ {c}
    /\ Answered(c, Reply("retry", c.frame.seq, 0))
    /\ UNCHANGED <<task, entry, created, sequencer, holder, page, late, taskHistory>>

-----------------------------------------------------------------------------
(* InputSequencer.Admit, with the gate of c.at free.                       *)

GateFree(c) == c \in calls /\ holder[c.at] = Nothing

\* A claim binds its stream; another stream's state is thrown away whole.
AfterClaim(q, s) == IF q.stream = s THEN q ELSE Fresh(s)

\* A claim of an attempt given up binds a sequencer its page does not know of:
\* the page has an epoch already, or another stream.
Strays(c) ==
    /\ ~Current(c) /\ sequencer[c.at].stream # c.frame.stream
    /\ page[c.page].epoch # 0 \/ c.frame.stream # Stream(c.page)

AdmitClaim(c) ==
    /\ GateFree(c) /\ c.frame.seq = 0
    /\ LET q == AfterClaim(sequencer[c.at], c.frame.stream)
       IN  /\ sequencer' = [sequencer EXCEPT ![c.at] = q]
           /\ Answered(c, Reply(IF q.failed THEN "fatal" ELSE "ack", 0, c.at))
    /\ calls' = calls \ {c}
    /\ stray' = (stray \/ Strays(c))
    /\ UNCHANGED <<task, entry, created, holder, page, late, taken, complete>>

RepeatsFrame(q, f) ==
    /\ q.stream = f.stream /\ ~q.failed
    /\ f.seq <= q.acked /\ q.acked - f.seq < Window

NextInOrder(q, f) == q.stream = f.stream /\ ~q.failed /\ f.seq = q.acked + 1

\* A data frame that is answered at once, from the hashes or with an error.
AnswerFrame(c) ==
    /\ GateFree(c) /\ c.frame.seq # 0
    /\ LET q == sequencer[c.at]
       IN  /\ ~NextInOrder(q, c.frame)
           /\ Answered(c, Reply(IF RepeatsFrame(q, c.frame) THEN "ack" ELSE "fatal",
                                c.frame.seq, c.at))
    /\ calls' = calls \ {c}
    /\ UNCHANGED <<task, entry, created, sequencer, holder, page, late, taskHistory>>

\* The next frame is written, outside the state lock; whether the FIFO takes
\* bytes of it is decided here.
StartWrite(c) ==
    /\ GateFree(c) /\ c.frame.seq # 0
    /\ NextInOrder(sequencer[c.at], c.frame)
    /\ \E r \in Results :
        /\ r = "closed" <=> task # "open"
        /\ holder' = [holder EXCEPT ![c.at] = [call |-> c, result |-> r]]
        /\ taken' = IF r \in {"ok", "uncertain"} THEN Append(taken, c.frame) ELSE taken
    /\ calls' = calls \ {c}
    /\ UNCHANGED <<task, entry, created, sequencer, pageVars, complete, stray>>

\* Only a complete write counts, an uncertain one freezes the stream.
AfterWrite(q, f, r) ==
    [q EXCEPT !.acked = IF r = "ok" THEN f.seq ELSE @,
              !.failed = IF r = "uncertain" THEN TRUE ELSE @]

\* Mutant: an uncertain write is acknowledged.
WriteReplyOptimistic(r) ==
    IF r = "unwritten" THEN "retry" ELSE IF r = "closed" THEN "fatal" ELSE "ack"

WriteReply(r) ==
    CASE r = "ok" -> "ack"
      [] r = "unwritten" -> "retry"
      [] OTHER -> "fatal"

EndWrite(e) ==
    /\ holder[e] # Nothing
    /\ LET c == holder[e].call
           r == holder[e].result
       IN  /\ sequencer' = [sequencer EXCEPT ![e] = AfterWrite(@, c.frame, r)]
           /\ complete' = IF r = "ok" THEN complete \cup {c.frame} ELSE complete
           /\ entry' = IF r = "closed" THEN 0 ELSE entry
           /\ Answered(c, Reply(WriteReply(r), c.frame.seq, e))
    /\ holder' = [holder EXCEPT ![e] = Nothing]
    /\ UNCHANGED <<task, created, calls, page, late, taken, stray>>

\* The Agent stops in the middle of whatever it does: the registry is lost, and
\* the Panel sees its calls fail.
AgentRestart ==
    /\ created < MaxEpochs
    /\ entry' = 0 /\ calls' = {}
    /\ holder' = [e \in Epochs |-> Nothing]
    /\ LET Cut(p) == InAgent(p) # {} /\ page[p].link # "stopped"
       IN  /\ replies' = [p \in Pages |->
                 IF Cut(p) THEN Append(replies[p], Reply("retry", 0, 0)) ELSE replies[p]]
           /\ relay' = [p \in Pages |->
                 IF Cut(p) /\ page[p].mode = "post" THEN <<>> ELSE relay[p]]
    /\ UNCHANGED <<task, created, sequencer, page, late, taskHistory>>

TaskStep ==
    /\ \/ task = "starting" /\ task' = "open"
       \/ task = "open" /\ task' = "ended"
    /\ UNCHANGED <<entry, created, sequencer, holder, calls, pageVars, taskHistory>>

-----------------------------------------------------------------------------
(* The page.                                                               *)

Pending(p) == page[p].sequence - page[p].acked

\* fillWindow: typed text becomes pending frames while the window has room.
Filled(w) ==
    LET room == Window - (w.sequence - w.acked)
        n == IF w.queue < room THEN w.queue ELSE room
    IN  [w EXCEPT !.sequence = @ + n, !.queue = @ - n]

\* The frames from first on that a page has framed so far.
FramesOf(p, first, last) ==
    [i \in 1..(last + 1 - first) |-> [stream |-> Stream(p), seq |-> first + i - 1]]

\* The page's next state within an attempt, with what it sends now.
Becomes(p, w, sent) ==
    /\ page' = [page EXCEPT ![p] = w]
    /\ relay' = [relay EXCEPT ![p] = sent]
    /\ UNCHANGED <<agentVars, late, taskHistory>>

\* The page's next state without the attempt.  Nothing cancels the handler of a
\* socket while it waits for its claim, nor does it stop with frames it has read.
GivesUp(p, w) ==
    LET n == page[p].conn
        sent == {[page |-> p, conn |-> n, frame |-> relay[p][i]] : i \in 1..Len(relay[p])}
    IN  /\ page' = [page EXCEPT ![p] = w]
        /\ relay' = [relay EXCEPT ![p] = <<>>]
        /\ replies' = [replies EXCEPT ![p] = <<>>]
        /\ late' = IF n < MaxLate THEN late \cup sent ELSE late
        /\ UNCHANGED <<agentVars, taskHistory>>

Stopped(w) == [w EXCEPT !.link = "stopped", !.queue = 0]

\* Mutant: the last attempt ends without a word.
DisconnectedSilently(w) ==
    IF w.retries >= MaxRetries THEN [w EXCEPT !.conn = @ + 1]
    ELSE [w EXCEPT
            !.mode = IF @ = "duplex" /\ (w.sequence > w.acked \/ ~w.everReady) THEN "post" ELSE @,
            !.link = "down", !.retries = @ + 1, !.conn = @ + 1]

\* disconnect: another attempt, in post mode if the socket has not proved good.
Disconnected(w) ==
    IF w.retries >= MaxRetries THEN Stopped(w)
    ELSE [w EXCEPT
            !.mode = IF @ = "duplex" /\ (w.sequence > w.acked \/ ~w.everReady) THEN "post" ELSE @,
            !.link = "down", !.retries = @ + 1, !.conn = @ + 1]

\* Mutant: a page takes any epoch for the one it knows.
AcceptAnyEpoch(w, e) == TRUE

AcceptEpoch(w, e) == w.epoch \in {0, e}

\* ownerLost: frames that may have been applied are never replayed.
OwnerLost(w) ==
    IF w.sequence > w.acked THEN Stopped(w)
    ELSE Disconnected([w EXCEPT !.life = @ + 1, !.sequence = 0, !.acked = 0, !.epoch = 0,
                                !.postClaimed = FALSE])

Silent(p) == replies' = [replies EXCEPT ![p] = <<>>]

Type(p) ==
    /\ page[p].link # "stopped" /\ page[p].typed < MaxTyped
    /\ LET w == [page[p] EXCEPT !.typed = @ + 1, !.queue = @ + 1]
           f == IF w.link = "ready" THEN Filled(w) ELSE w
       IN  Becomes(p, f, relay[p] \o FramesOf(p, w.sequence + 1, f.sequence))
    /\ UNCHANGED replies

\* A new attempt opens with a claim; a batch writer claims once.
Connect(p) ==
    /\ page[p].link = "down"
    /\ page[p].mode = "duplex" \/ ~page[p].postClaimed
    /\ Becomes(p, [page[p] EXCEPT !.link = "claiming"],
               <<[stream |-> Stream(p), seq |-> 0]>>)
    /\ Silent(p)

SendBatch(p) ==
    /\ page[p].link = "down" /\ page[p].mode = "post" /\ page[p].postClaimed
    /\ LET w == Filled(page[p])
       IN  /\ w.sequence > w.acked
           /\ Becomes(p, [w EXCEPT !.link = "posting"], FramesOf(p, w.acked + 1, w.sequence))
    /\ Silent(p)

\* ready, or the reply to the claim of a batch writer.
OnClaimed(p) ==
    /\ page[p].link = "claiming" /\ replies[p] # <<>>
    /\ Head(replies[p]).type = "ack"
    /\ LET w == page[p]
           e == Head(replies[p]).epoch
           idle == w.sequence = w.acked
           ready == Filled([w EXCEPT !.link = "ready", !.epoch = e, !.everReady = TRUE,
                                     !.retries = IF idle THEN 0 ELSE @])
       IN  \/ /\ ~AcceptEpoch(w, e)
              /\ GivesUp(p, OwnerLost(w))
           \/ /\ AcceptEpoch(w, e) /\ w.mode = "duplex"
              /\ Becomes(p, ready, FramesOf(p, w.acked + 1, ready.sequence))
              /\ Silent(p)
           \/ /\ AcceptEpoch(w, e) /\ w.mode = "post"
              /\ Becomes(p, [w EXCEPT !.link = "down", !.epoch = e, !.postClaimed = TRUE], <<>>)
              /\ Silent(p)

\* An acknowledgement on the socket, for the oldest pending frame.
OnAck(p) ==
    /\ page[p].link = "ready" /\ replies[p] # <<>>
    /\ Head(replies[p]).type = "ack"
    /\ LET w == page[p]
           seq == Head(replies[p]).seq
           f == Filled([w EXCEPT !.acked = seq, !.retries = 0])
       IN  \/ /\ Pending(p) > 0 /\ seq = w.acked + 1
              /\ Becomes(p, f, relay[p] \o FramesOf(p, w.sequence + 1, f.sequence))
              /\ replies' = [replies EXCEPT ![p] = Tail(@)]
           \/ /\ ~(Pending(p) > 0 /\ seq = w.acked + 1)
              /\ GivesUp(p, Stopped(w))

\* The reply to a batch acknowledges all of it.
OnBatch(p) ==
    /\ page[p].link = "posting" /\ replies[p] # <<>>
    /\ Head(replies[p]).type = "ack"
    /\ LET w == page[p]
       IN  IF Head(replies[p]).seq = w.sequence
           THEN /\ Becomes(p, [w EXCEPT !.link = "down", !.acked = w.sequence, !.retries = 0], <<>>)
                /\ Silent(p)
           ELSE GivesUp(p, Stopped(w))

OnError(p) ==
    /\ page[p].link \in {"claiming", "ready", "posting"} /\ replies[p] # <<>>
    /\ \/ /\ Head(replies[p]).type = "retry"
          /\ GivesUp(p, Disconnected(page[p]))
       \/ /\ Head(replies[p]).type = "fatal"
          /\ GivesUp(p, Stopped(page[p]))

\* The connection breaks, or its deadline passes.
Drop(p) ==
    /\ page[p].link \in {"claiming", "ready", "posting"}
    /\ page[p].conn < MaxDrops
    /\ GivesUp(p, Disconnected(page[p]))

\* The page is closed or navigates away.
Close(p) ==
    /\ page[p].link # "stopped"
    /\ GivesUp(p, Stopped(page[p]))

-----------------------------------------------------------------------------
PageStep(p) == \/ Connect(p) \/ SendBatch(p) \/ Dispatch(p)
               \/ OnClaimed(p) \/ OnAck(p) \/ OnBatch(p) \/ OnError(p)

AgentStep == \/ \E c \in calls : AdmitClaim(c) \/ AnswerFrame(c) \/ StartWrite(c)
             \/ \E e \in Epochs : EndWrite(e)

TaskNext ==
    \/ \E p \in Pages : Type(p) \/ PageStep(p) \/ Drop(p) \/ Close(p)
    \/ \E c \in calls : Unavailable(c)
    \/ \E l \in late : DispatchLate(l)
    \/ AgentStep \/ AgentRestart \/ TaskStep

TaskSpec == TaskInit /\ [][TaskNext]_taskVars

\* The page's event loop, the relay's goroutines and the Agent's handlers run;
\* a FIFO write has a deadline of its own, so it ends.
FairSpec == TaskSpec /\ WF_taskVars(AgentStep) /\ \A p \in Pages : WF_taskVars(PageStep(p))

-----------------------------------------------------------------------------
TaskTypeOK ==
    /\ task \in {"starting", "open", "ended"}
    /\ created \in 0..MaxEpochs /\ entry \in 0..created
    /\ sequencer \in [Epochs -> [stream : TaskStreams \cup {Nothing}, acked : 0..MaxTyped,
                                 failed : BOOLEAN]]
    /\ holder \in [Epochs -> {Nothing} \cup [call : Calls, result : Results]]
    /\ calls \subseteq Calls
    /\ \A p \in Pages :
        LET w == page[p]
        IN  /\ w.link \in {"down", "claiming", "ready", "posting", "stopped"}
            /\ w.mode \in {"duplex", "post"}
            /\ w.acked <= w.sequence /\ w.sequence - w.acked <= Window
            /\ w.retries <= MaxRetries
            /\ relay[p] \in Seq(TaskFrames)
    /\ late \subseteq [page : Pages, conn : Nat, frame : TaskFrames]
    /\ taken \in Seq(TaskFrames) /\ complete \subseteq TaskFrames

(***************************************************************************)
(* "Frames it may already have applied must never be replayed"             *)
(* (terminalDuplexInput.ts): the job never reads bytes of one typed frame  *)
(* twice, whatever is dropped, retried, restarted or frozen on the way.    *)
(***************************************************************************)
ReadOnce == \A i, j \in 1..Len(taken) : i < j => taken[i] # taken[j]

(***************************************************************************)
(* The same of a page alone at its task, through every loss of its owner,  *)
(* as long as no claim of an attempt the page has given up binds the page's*)
(* streams once more: while that has not happened, a page that goes on in a*)
(* sequencer has been told so, and one that was not told keeps to the one  *)
(* that counts its frames.                                                 *)
(***************************************************************************)
OnceUnlessStray == ~stray => ReadOnce

(***************************************************************************)
(* A frame the page has dropped from its window, because it believes it    *)
(* acknowledged, was written completely: no typed text is lost silently.   *)
(***************************************************************************)
AckedIsComplete ==
    \A p \in Pages : \A n \in 1..page[p].acked :
        [stream |-> Stream(p), seq |-> n] \in complete

(***************************************************************************)
(* Nothing is skipped: the job is given bytes of a frame only when every   *)
(* earlier frame of its stream has been written completely, whatever was   *)
(* lost or came late; only frames that a page sent are given to it at all. *)
(***************************************************************************)
InTurn ==
    [][\/ taken' = taken
       \/ \E c \in calls :
            /\ taken' = Append(taken, c.frame)
            /\ \A n \in 1..(c.frame.seq - 1) :
                 [stream |-> c.frame.stream, seq |-> n] \in complete]_taskVars

(***************************************************************************)
(* What was typed is acknowledged, or the page stops and says so: no input *)
(* stays in the window or the queue for ever.                              *)
(***************************************************************************)
InputSettles ==
    \A p \in Pages : (page[p].queue > 0 \/ Pending(p) > 0)
        ~> (page[p].link = "stopped" \/ (page[p].queue = 0 /\ Pending(p) = 0))
=============================================================================
