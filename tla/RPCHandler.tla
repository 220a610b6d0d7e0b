----------------------------- MODULE RPCHandler -----------------------------
(***************************************************************************)
(* Remote procedure calls over a shared receive queue (SRQ): clients send  *)
(* a message and wait for the answer, one thread of the server polls the   *)
(* queue, handles the messages and posts their buffers again (src/RPC).    *)
(*                                                                         *)
(* RPCVoidHandlerThread finds a message by the number the card returns     *)
(* with its completion.  (RPCVoidHandlerThreadOld, which expects messages  *)
(* to complete in the order their buffers were posted, is left out.)       *)
(*                                                                         *)
(* The card gives each message that arrives the oldest buffer posted; of   *)
(* two messages that arrive at the same time either may complete first.    *)
(***************************************************************************)
EXTENDS Integers, Sequences, FiniteSets

CONSTANTS
  Clients,          \* each connected, with a thread that makes one call at a time
  NoClient,
  m_maxNumberMsgs,  \* buffers of the handler; RDMA_MAX_WR is not less
  MaxCalls,         \* bound: calls per client
  MaxStarts         \* bound: times startHandler creates a thread

ASSUME ClientsAssumption == IsFiniteSet(Clients) /\ NoClient \notin Clients
ASSUME BoundsAssumption == MaxCalls \in Nat /\ MaxStarts \in 0 .. 2

ASSUME BuffersAssumption == m_maxNumberMsgs \in Nat \ {0}

VARIABLES
  receives,     \* the SRQ: numbers of the buffers posted, oldest first
  arriving,     \* client -> the buffer the card writes its message to, or -1
  completions,  \* the completion queue of the SRQ: [from, index] records
  rpcBuffer,    \* number -> the message in that buffer of m_rpcBuffer
  rspBuffer,    \* the message the answer in m_intermediateRspBuffer is for
  responses,    \* clients the answers posted and not yet sent are for
  m_processing, m_poll, m_kill,
  handler,      \* where the handler thread is, and the message it is at
  app,          \* what the thread that starts and stops the handler is at
  starts,
  client,       \* client -> "idle", "sent", "arriving", "waiting" or "broken"
  calls,        \* client -> calls made
  answer        \* client -> the message its last answer is for

srq     == <<receives, arriving, completions>>
buffers == <<rpcBuffer, rspBuffer>>
flags   == <<m_processing, m_poll, m_kill>>
control == <<app, starts>>
rpcs    == <<client, calls, answer>>
vars == <<srq, buffers, responses, flags, handler, control, rpcs>>

Indexes == 0 .. (m_maxNumberMsgs - 1)

(* A message is known by its sender and the number of the call. *)
Message == (Clients \X (1 .. MaxCalls)) \cup {<<>>}
Completion == [from : Clients, index : Indexes]

(* Slip: the last buffer is not posted. *)
initMemoryShort == [i \in 1 .. (m_maxNumberMsgs - 1) |-> i - 1]

initMemory == [i \in 1 .. m_maxNumberMsgs |-> i - 1]

Init ==
  /\ receives = initMemory
  /\ arriving = [c \in Clients |-> -1]
  /\ completions = <<>>
  /\ rpcBuffer = [i \in Indexes |-> <<>>]
  /\ rspBuffer = <<>>
  /\ responses = <<>>
  /\ m_processing = FALSE /\ m_poll = TRUE /\ m_kill = FALSE
  /\ handler = [at |-> "none", from |-> NoClient, index |-> 0]
  /\ app = "idle" /\ starts = 0
  /\ client = [c \in Clients |-> "idle"]
  /\ calls = [c \in Clients |-> 0]
  /\ answer = [c \in Clients |-> <<>>]

-----------------------------------------------------------------------------
(* A client's call: receive for the answer, then send. *)
call(c) ==
  /\ client[c] = "idle"
  /\ calls[c] < MaxCalls
  /\ client' = [client EXCEPT ![c] = "sent"]
  /\ calls' = [calls EXCEPT ![c] = @ + 1]
  /\ UNCHANGED <<srq, buffers, responses, flags, handler, control, answer>>

Arrive(c) ==
  /\ client[c] = "sent"
  /\ receives # <<>>
  /\ arriving' = [arriving EXCEPT ![c] = Head(receives)]
  /\ receives' = Tail(receives)
  /\ client' = [client EXCEPT ![c] = "arriving"]
  /\ UNCHANGED <<completions, buffers, responses, flags, handler, control, calls, answer>>

(* No buffer is posted.  With rnr_retry = 0 the sender is not told to try  *)
(* again: its send fails and its queue pair stops.                         *)
ReceiverNotReady(c) ==
  /\ client[c] = "sent"
  /\ receives = <<>>
  /\ client' = [client EXCEPT ![c] = "broken"]
  /\ UNCHANGED <<srq, buffers, responses, flags, handler, control, calls, answer>>

(* The completion names the queue pair the message came in on, and the     *)
(* memoryIndex that receiveSRQ posted the buffer with.                     *)
workCompletion(c) == [from |-> c, index |-> arriving[c]]

Complete(c) ==
  /\ client[c] = "arriving"
  /\ rpcBuffer' = [rpcBuffer EXCEPT ![arriving[c]] = <<c, calls[c]>>]
  /\ completions' = Append(completions, workCompletion(c))
  /\ arriving' = [arriving EXCEPT ![c] = -1]
  /\ client' = [client EXCEPT ![c] = "waiting"]
  /\ UNCHANGED <<receives, rspBuffer, responses, flags, handler, control, calls,
                 answer>>

-----------------------------------------------------------------------------
startHandler ==
  /\ app = "idle"
  /\ ~ m_processing
  /\ starts < MaxStarts
  /\ handler' = [handler EXCEPT !.at = "start"]
  /\ app' = "starting"
  /\ starts' = starts + 1
  /\ UNCHANGED <<srq, buffers, responses, flags, rpcs>>

(* startHandler returns true, or false when it finds the thread killed. *)
HandlerStarted ==
  /\ app = "starting"
  /\ m_processing \/ m_kill
  /\ app' = "idle"
  /\ UNCHANGED <<srq, buffers, responses, flags, handler, starts, rpcs>>

(* Slip: a handler that polls is not woken up. *)
stopHandlerPolling ==
  /\ app = "idle"
  /\ m_processing
  /\ m_kill' = TRUE
  /\ app' = "joining"
  /\ UNCHANGED <<srq, buffers, responses, m_processing, m_poll, handler, starts, rpcs>>

stopHandler ==
  /\ app = "idle"
  /\ m_processing
  /\ m_kill' = TRUE /\ m_poll' = FALSE
  /\ app' = "joining"
  /\ UNCHANGED <<srq, buffers, responses, m_processing, handler, starts, rpcs>>

HandlerJoined ==
  /\ app = "joining"
  /\ handler.at = "ended"
  /\ m_poll' = TRUE
  /\ app' = "idle"
  /\ UNCHANGED <<srq, buffers, responses, m_processing, m_kill, handler, starts, rpcs>>

-----------------------------------------------------------------------------
run ==
  /\ handler.at = "start"
  /\ m_processing' = TRUE
  /\ handler' = [handler EXCEPT !.at = "loop"]
  /\ UNCHANGED <<srq, buffers, responses, m_poll, m_kill, control, rpcs>>

(* The head of the loop.  m_kill is never reset. *)
CheckKilled ==
  /\ handler.at = "loop"
  /\ handler' = [handler EXCEPT !.at = IF m_kill THEN "leave" ELSE "poll"]
  /\ UNCHANGED <<srq, buffers, responses, flags, control, rpcs>>

(* pollReceiveSRQ looks the sender up; the buffer has the number of the    *)
(* work request.                                                           *)
Handled(wc) == [at |-> "handle", from |-> wc.from, index |-> wc.index]

(* Slip: completions polled in a batch, the first one handled. *)
pollReceiveSRQBatch ==
  /\ handler.at = "poll"
  /\ completions # <<>>
  /\ handler' = Handled(Head(completions))
  /\ completions' = <<>>
  /\ UNCHANGED <<receives, arriving, rpcBuffer, rspBuffer, responses, flags, control, rpcs>>

pollReceiveSRQ ==
  /\ handler.at = "poll"
  /\ completions # <<>>
  /\ handler' = Handled(Head(completions))
  /\ completions' = Tail(completions)
  /\ UNCHANGED <<receives, arriving, rpcBuffer, rspBuffer, responses, flags, control, rpcs>>

(* Nothing completed, and stopHandler has ended the polling. *)
PollEnds ==
  /\ handler.at = "poll"
  /\ completions = <<>>
  /\ ~ m_poll
  /\ handler' = [handler EXCEPT !.at = "loop"]
  /\ UNCHANGED <<srq, buffers, responses, flags, control, rpcs>>

(* handleRDMARPC writes the answer to the one response buffer there is and *)
(* sends it.  (What a send to no connection does is not followed.)         *)
handleRDMARPC ==
  /\ handler.at = "handle"
  /\ handler.from # NoClient
  /\ rspBuffer' = rpcBuffer[handler.index]
  /\ responses' = Append(responses, handler.from)
  /\ handler' = [handler EXCEPT !.at = "sending"]
  /\ UNCHANGED <<srq, rpcBuffer, flags, control, rpcs>>

(* The card sends what is in the buffer by now.  (An answer to a client    *)
(* that has posted no receive for it breaks the connection: not followed.) *)
Respond ==
  /\ responses # <<>>
  /\ LET c == Head(responses)
     IN  /\ client[c] = "waiting"
         /\ answer' = [answer EXCEPT ![c] = rspBuffer]
         /\ client' = [client EXCEPT ![c] = "idle"]
  /\ responses' = Tail(responses)
  /\ UNCHANGED <<srq, buffers, flags, handler, control, calls>>

(* Slip: the answer is sent unsignaled. *)
SendReturnsAtOnce == TRUE

(* A signaled send returns when the card is done with it. *)
SendReturns == responses = <<>>

(* Slip: the buffer after the one that was handled is posted. *)
RepostedNext == handler.index + 1

Reposted == handler.index

(* The buffer is posted again. *)
receiveSRQ ==
  /\ handler.at = "sending"
  /\ SendReturns
  /\ receives' = Append(receives, Reposted)
  /\ handler' = [handler EXCEPT !.at = "loop"]
  /\ UNCHANGED <<arriving, completions, buffers, responses, flags, control, rpcs>>

Leave ==
  /\ handler.at = "leave"
  /\ m_processing' = FALSE
  /\ handler' = [handler EXCEPT !.at = "ended"]
  /\ UNCHANGED <<srq, buffers, responses, m_poll, m_kill, control, rpcs>>

-----------------------------------------------------------------------------
HandlerThread ==
  run \/ CheckKilled \/ pollReceiveSRQ \/ PollEnds \/ handleRDMARPC \/ receiveSRQ \/ Leave
InCall == HandlerStarted \/ HandlerJoined
Transport(c) == Arrive(c) \/ ReceiverNotReady(c) \/ Complete(c)

Next ==
  \/ \E c \in Clients : call(c) \/ Transport(c)
  \/ startHandler \/ stopHandler \/ InCall
  \/ HandlerThread \/ Respond

(* Threads in a call or a loop and the cards run on.  Nothing obliges      *)
(* clients to call, or the server to start or to stop its handler.         *)
Fairness ==
  /\ WF_vars(HandlerThread) /\ WF_vars(InCall) /\ WF_vars(Respond)
  /\ \A c \in Clients : WF_vars(Transport(c))

Spec == Init /\ [][Next]_vars
FairSpec == Spec /\ Fairness

-----------------------------------------------------------------------------
TypeOK ==
  /\ receives \in Seq(Indexes) /\ completions \in Seq(Completion)
  /\ arriving \in [Clients -> Indexes \cup {-1}]
  /\ rpcBuffer \in [Indexes -> Message]
  /\ rspBuffer \in Message /\ responses \in Seq(Clients)
  /\ m_processing \in BOOLEAN /\ m_poll \in BOOLEAN /\ m_kill \in BOOLEAN
  /\ handler \in [at : {"none", "start", "loop", "poll", "handle", "sending", "leave", "ended"},
                  from : Clients \cup {NoClient}, index : Indexes]
  /\ app \in {"idle", "starting", "joining"} /\ starts \in 0 .. MaxStarts
  /\ client \in [Clients -> {"idle", "sent", "arriving", "waiting", "broken"}]
  /\ calls \in [Clients -> 0 .. MaxCalls]
  /\ answer \in [Clients -> Message]

(* The places a buffer can be in: in the receive queue, under a message    *)
(* that arrives, in the completion queue, in the handler's hands.          *)
Posted    == {receives[i] : i \in DOMAIN receives}
Written   == {arriving[c] : c \in Clients} \ {-1}
Completed == {completions[i].index : i \in DOMAIN completions}
InHand    == IF handler.at \in {"handle", "sending"} THEN {handler.index} ELSE {}

(* Every buffer is in one of them, and in no two: none is lost, and the    *)
(* card never writes to one that the handler or the queue of completions   *)
(* still needs, or that is posted twice.                                   *)
BuffersAccounted ==
  /\ TypeOK
  /\ Posted \cup Written \cup Completed \cup InHand = Indexes
  /\ Len(receives) + Cardinality(Written) + Len(completions) + Cardinality(InHand)
       = m_maxNumberMsgs

(* What the handler is given is the message its sender waits for an answer *)
(* to: the right buffer, not overwritten, and the right sender, however    *)
(* the messages of several clients complete (RPCVoidHandlerThread::run).   *)
HandlesSendersMessage ==
  handler.at = "handle" =>
    /\ handler.from # NoClient
    /\ rpcBuffer[handler.index] = <<handler.from, calls[handler.from]>>
    /\ client[handler.from] = "waiting"

(* Nobody is answered with what was meant for another client or an earlier *)
(* call, although all answers go through one buffer.                       *)
AnswersMatch ==
  \A c \in Clients : client[c] = "idle" /\ calls[c] > 0 => answer[c] = <<c, calls[c]>>

(* Messages and answers reach those they are for. *)
MessagesMatch == HandlesSendersMessage /\ AnswersMatch

(* With a buffer per client, a message finds none posted (and breaks its   *)
(* connection) only in one window: the handler, which answers before it    *)
(* posts, has answered a message and not yet posted its buffer again.  It  *)
(* may be a second client that pays, when the answered one is back first.  *)
BreaksBeforeRepost ==
  [][\A c \in Clients : client[c] # "broken" /\ client'[c] = "broken" =>
       /\ handler.at = "sending"
       /\ answer[handler.from] = rpcBuffer[handler.index]]_vars

(* Every call that has arrived is answered, unless the handler is stopped, *)
(* also when the calls of other clients break on an empty queue.           *)
CallsAnswered ==
  \A c \in Clients :
    client[c] = "sent" /\ m_processing ~> client[c] \in {"idle", "broken"} \/ m_kill

(* startHandler and stopHandler return: a handler that waits for messages  *)
(* notices that it is stopped.                                             *)
ControlReturns == app # "idle" ~> app = "idle"
=============================================================================
