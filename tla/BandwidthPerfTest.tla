-------------------------- MODULE BandwidthPerfTest --------------------------
(***************************************************************************)
(* The flow control of the bandwidth test (and of the operations-count     *)
(* test, a copy of it): client threads send a given number of messages to  *)
(* every server over reliable connections, a thread per client answers at  *)
(* each server.  A client keeps at most max_rdma_wr_per_thread messages    *)
(* unacknowledged on a connection, and the server acknowledges them in     *)
(* packs of half as many.  A global barrier precedes the run, and another  *)
(* one follows it when there are several clients.                          *)
(*                                                                         *)
(* A message needs a receive that the other side has posted: rnr_retry is  *)
(* 0, so the connection breaks if there is none.  A posted receive keeps   *)
(* its place in the receive queue until its completion has been polled.    *)
(* Both failures throw in a thread that catches nothing, which ends the    *)
(* process; the model stops at the first one.                              *)
(*                                                                         *)
(* WRITE_OPERATION with immediate data and SEND_RECEIVE_OPERATION exchange *)
(* the same messages; the one-sided operations exchange none.  All clients *)
(* are connected to all servers (RDMAConnection), each client of its own   *)
(* process, and what a message carries is left out.                        *)
(***************************************************************************)
EXTENDS Integers, FiniteSets, Sequences

CONSTANTS
  Clients,             \* client threads
  ServerCount,         \* length of m_rdma_addresses
  RDMA_MAX_WR,         \* max_rdma_wr_per_thread, and max_recv_wr of createQP
  IterationsPerThread  \* m_iterations_per_thread, the same at both ends

ASSUME LimitAssumption == RDMA_MAX_WR \in Nat \ {0} /\ ServerCount \in Nat \ {0}
ASSUME IterationsAssumption == IterationsPerThread \in Nat \ {0}

Servers == 1 .. ServerCount
Connections == Clients \X Servers

client_count == Cardinality(Clients)

(* The smaller of the two, as the tests on the budgets compute it. *)
AtMost(n, limit) == IF n > limit THEN limit ELSE n

(* How many messages one acknowledgement stands for. *)
ackMsgPacking == IF RDMA_MAX_WR \div 2 < 1 THEN 1 ELSE RDMA_MAX_WR \div 2

None == -1  \* no acknowledgement on its way
Pong == 0   \* the immediate value of a barrier message

VARIABLES
  (* A client thread. *)
  pc,                 \* where run() is
  connIdx,            \* the connection its loop is at
  sent,               \* messages of the current round posted so far
  ackMsgCounter,      \* the loop's copy of ackMsgCounters[connIdx]
  workingConnections, \* connections it is not done with
  totalBudgets,       \* messages left to send
  pendingMessages,    \* messages sent and not acknowledged
  ackMsgCounters,     \* place in the current pack
  (* A server's thread for a client, and its main thread. *)
  serverPc,
  totalBudget,        \* receives left to post
  budgetR,            \* receives posted, messages not yet polled
  ackCounter,         \* messages polled and not acknowledged
  mainPc,
  (* The connection. *)
  inFlight,           \* messages on their way to the server
  ack,                \* the acknowledgement on its way to the client, or None
  recvAtServer,       \* receives posted and not consumed
  doneAtServer,       \* completions of receives, not polled
  recvAtClient,
  doneAtClient,       \* ... the immediate values they carry
  fault               \* what ended the run

round  == <<connIdx, sent, ackMsgCounter, workingConnections>>
counts == <<totalBudgets, pendingMessages, ackMsgCounters>>
server == <<serverPc, totalBudget, budgetR, ackCounter, mainPc>>
atServer == <<recvAtServer, doneAtServer>>
atClient == <<recvAtClient, doneAtClient>>
wire   == <<inFlight, ack>>
vars   == <<pc, round, counts, server, wire, atServer, atClient, fault>>

Init ==
  /\ pc = [c \in Clients |-> "enter"]
  /\ connIdx = [c \in Clients |-> 1]
  /\ sent = [c \in Clients |-> 0]
  /\ ackMsgCounter = [c \in Clients |-> 0]
  /\ workingConnections = [c \in Clients |-> ServerCount]
  /\ totalBudgets = [q \in Connections |-> IterationsPerThread]
  /\ pendingMessages = [q \in Connections |-> 0]
  /\ ackMsgCounters = [q \in Connections |-> 0]
  /\ serverPc = [q \in Connections |-> "ready"]
  /\ totalBudget = [q \in Connections |-> IterationsPerThread]
  /\ budgetR = [q \in Connections |-> 0]
  /\ ackCounter = [q \in Connections |-> 0]
  /\ mainPc = [s \in Servers |-> "prepare"]
  /\ inFlight = [q \in Connections |-> 0]
  /\ ack = [q \in Connections |-> None]
  /\ recvAtServer = [q \in Connections |-> 0]
  /\ doneAtServer = [q \in Connections |-> 0]
  /\ recvAtClient = [q \in Connections |-> 0]
  /\ doneAtClient = [q \in Connections |-> <<>>]
  /\ fault = "none"

Of(c) == {q \in Connections : q[1] = c}
At(s) == {q \in Connections : q[2] = s}

Plus(f, Q, n) == [q \in Connections |-> IF q \in Q THEN f[q] + n ELSE f[q]]

-----------------------------------------------------------------------------
(* The receive queues.                                                     *)

RoomAtServer(q) == recvAtServer[q] + doneAtServer[q] < RDMA_MAX_WR
RoomAtClient(q) == recvAtClient[q] + Len(doneAtClient[q]) < RDMA_MAX_WR

(* A message consumes the oldest receive of the server. *)
Arrive(q) ==
  /\ inFlight[q] > 0
  /\ IF recvAtServer[q] > 0
     THEN /\ inFlight' = [inFlight EXCEPT ![q] = @ - 1]
          /\ recvAtServer' = [recvAtServer EXCEPT ![q] = @ - 1]
          /\ doneAtServer' = [doneAtServer EXCEPT ![q] = @ + 1]
          /\ UNCHANGED fault
     ELSE /\ fault' = "messageRefused"
          /\ UNCHANGED <<inFlight, atServer>>
  /\ UNCHANGED <<pc, round, counts, server, ack, atClient>>

(* An acknowledgement consumes one of the client; writeImm at the server   *)
(* waits for that.                                                         *)
AckArrives(q) ==
  /\ ack[q] # None
  /\ IF recvAtClient[q] > 0
     THEN /\ ack' = [ack EXCEPT ![q] = None]
          /\ recvAtClient' = [recvAtClient EXCEPT ![q] = @ - 1]
          /\ doneAtClient' = [doneAtClient EXCEPT ![q] = Append(@, ack[q])]
          /\ serverPc' = [serverPc EXCEPT ![q] =
               IF totalBudget[q] > 0 \/ budgetR[q] > 0 THEN "poll" ELSE "ended"]
          /\ UNCHANGED fault
     ELSE /\ fault' = "ackRefused"
          /\ UNCHANGED <<ack, serverPc, atClient>>
  /\ UNCHANGED <<pc, round, counts, totalBudget, budgetR, ackCounter, mainPc,
                 inFlight, atServer>>

-----------------------------------------------------------------------------
(* global_barrier_client: post a receive for every server's answer, send   *)
(* to every server, wait for all answers.  A send that fails is tried      *)
(* again, and fails again: the connection is broken.                       *)

EnterBarrier(c) ==
  /\ pc[c] \in {"enter", "enterEnd"}
  /\ IF \A q \in Of(c) : RoomAtClient(q)
     THEN /\ recvAtClient' = Plus(recvAtClient, Of(c), 1)
          /\ pc' = [pc EXCEPT ![c] = IF @ = "enter" THEN "ping" ELSE "pingEnd"]
          /\ connIdx' = [connIdx EXCEPT ![c] = 1]
          /\ UNCHANGED fault
     ELSE /\ fault' = "postFailed"
          /\ UNCHANGED <<pc, connIdx, recvAtClient>>
  /\ UNCHANGED <<sent, ackMsgCounter, workingConnections, counts, server, wire,
                 atServer, doneAtClient>>

(* Timing: the client sleeps before it sends to a server for the first     *)
(* time, so that the server has posted its receives by then.               *)
Slept(c) == pc[c] = "ping" => mainPc[connIdx[c]] # "prepare"

Ping(c) ==
  LET q == <<c, connIdx[c]>>
      last == connIdx[c] = ServerCount
  IN /\ pc[c] \in {"ping", "pingEnd"}
     /\ Slept(c)
     /\ IF recvAtServer[q] > 0
        THEN /\ recvAtServer' = [recvAtServer EXCEPT ![q] = @ - 1]
             /\ doneAtServer' = [doneAtServer EXCEPT ![q] = @ + 1]
             /\ UNCHANGED fault
        ELSE /\ fault' = "messageRefused"
             /\ UNCHANGED atServer
     /\ connIdx' = [connIdx EXCEPT ![c] = IF last THEN 1 ELSE @ + 1]
     /\ pc' = [pc EXCEPT ![c] = IF ~ last THEN @
                                ELSE IF @ = "ping" THEN "pong" ELSE "pongEnd"]
     /\ UNCHANGED <<sent, ackMsgCounter, workingConnections, counts, server, wire,
                    atClient>>

LeaveBarrier(c) ==
  /\ pc[c] \in {"pong", "pongEnd"}
  /\ \A q \in Of(c) : doneAtClient[q] # <<>>
  /\ doneAtClient' = [q \in Connections |->
       IF q \in Of(c) THEN Tail(doneAtClient[q]) ELSE doneAtClient[q]]
  /\ pc' = [pc EXCEPT ![c] = IF @ = "pong" THEN "ready" ELSE "done"]
  /\ UNCHANGED <<round, counts, server, wire, atServer, recvAtClient, fault>>

-----------------------------------------------------------------------------
(* BandwidthPerfClientThread::run, after the barrier.                      *)

(* Timing: the process sleeps between the barrier and the start of its     *)
(* threads, so that the server's threads have posted their receives.       *)
Start(c) ==
  /\ pc[c] = "ready"
  /\ \A q \in Of(c) : serverPc[q] \notin {"ready", "post"}
  /\ pc' = [pc EXCEPT ![c] = "next"]
  /\ UNCHANGED <<round, counts, server, wire, atServer, atClient, fault>>

(* What the loop may send now: the unused part of the window.              *)
sendBudget(q) == AtMost(RDMA_MAX_WR - pendingMessages[q], totalBudgets[q])

DoneWith(q) == totalBudgets[q] = 0 /\ pendingMessages[q] = 0

(* Slip: no barrier at the end. *)
AfterRunAtOnce == "done"

AfterRun == IF client_count > 1 THEN "enterEnd" ELSE "done"

(* On to the next connection; after the last one, to the first again or to *)
(* the end.                                                                *)
Advance(c, working) ==
  /\ workingConnections' = [workingConnections EXCEPT ![c] = working]
  /\ connIdx' = [connIdx EXCEPT ![c] = IF @ = ServerCount THEN 1 ELSE @ + 1]
  /\ pc' = [pc EXCEPT ![c] =
       IF connIdx[c] < ServerCount \/ working > 0 THEN "next" ELSE AfterRun]

(* A round begins at the connection the loop is at, unless that one is     *)
(* done with.                                                              *)
BeginRound(c) ==
  LET q == <<c, connIdx[c]>>
  IN /\ pc[c] = "next"
     /\ IF DoneWith(q)
        THEN /\ Advance(c, workingConnections[c])
             /\ UNCHANGED ackMsgCounter
        ELSE /\ ackMsgCounter' = [ackMsgCounter EXCEPT ![c] = ackMsgCounters[q]]
             /\ pc' = [pc EXCEPT ![c] = IF sendBudget(q) > 0 THEN "send" ELSE "poll"]
             /\ UNCHANGED <<connIdx, workingConnections>>
     /\ UNCHANGED <<sent, counts, server, wire, atServer, atClient, fault>>

(* Slip: one receive a round.                                              *)
NeedsReceiveOnce(c) == ackMsgCounter[c] = 0 /\ sent[c] = 0

(* A receive for an acknowledgement comes first, when the loop's copy of   *)
(* the counter is 0.  The copy is not the counter that is updated.         *)
NeedsReceive(c) == ackMsgCounter[c] = 0

Send(c) ==
  LET q == <<c, connIdx[c]>>
      posts == NeedsReceive(c)
  IN /\ pc[c] = "send"
     /\ sent[c] < sendBudget(q)
     /\ IF posts /\ ~ RoomAtClient(q)
        THEN /\ fault' = "postFailed"
             /\ UNCHANGED <<sent, recvAtClient, ackMsgCounters, inFlight>>
        ELSE /\ recvAtClient' = Plus(recvAtClient, IF posts THEN {q} ELSE {}, 1)
             /\ ackMsgCounters' = [ackMsgCounters EXCEPT ![q] =
                  IF ackMsgCounter[c] + 1 < ackMsgPacking THEN ackMsgCounter[c] + 1 ELSE 0]
             /\ inFlight' = [inFlight EXCEPT ![q] = @ + 1]
             /\ sent' = [sent EXCEPT ![c] = @ + 1]
             /\ UNCHANGED fault
     /\ UNCHANGED <<pc, connIdx, ackMsgCounter, workingConnections, totalBudgets,
                    pendingMessages, server, ack, atServer, doneAtClient>>

(* The last message of the round asked for a completion, which comes when  *)
(* it and those before it have arrived.                                    *)
EndSending(c) ==
  LET q == <<c, connIdx[c]>>
  IN /\ pc[c] = "send"
     /\ sent[c] = sendBudget(q)
     /\ inFlight[q] = 0
     /\ totalBudgets' = [totalBudgets EXCEPT ![q] = @ - sent[c]]
     /\ pendingMessages' = [pendingMessages EXCEPT ![q] = @ + sent[c]]
     /\ sent' = [sent EXCEPT ![c] = 0]
     /\ pc' = [pc EXCEPT ![c] = "poll"]
     /\ UNCHANGED <<connIdx, ackMsgCounter, workingConnections, ackMsgCounters,
                    server, wire, atServer, atClient, fault>>

(* pollReceive waits when the window is used up.                           *)
PollAck(c) ==
  LET q == <<c, connIdx[c]>>
  IN /\ pc[c] = "poll"
     /\ doneAtClient[q] # <<>>
     /\ pendingMessages' = [pendingMessages EXCEPT ![q] = @ - Head(doneAtClient[q])]
     /\ doneAtClient' = [doneAtClient EXCEPT ![q] = Tail(@)]
     /\ UNCHANGED <<pc, round, totalBudgets, ackMsgCounters, server, wire, atServer,
                    recvAtClient, fault>>

EndRound(c) ==
  LET q == <<c, connIdx[c]>>
  IN /\ pc[c] = "poll"
     /\ doneAtClient[q] = <<>>
     /\ pendingMessages[q] # RDMA_MAX_WR
     /\ Advance(c, workingConnections[c] - (IF DoneWith(q) THEN 1 ELSE 0))
     /\ UNCHANGED <<sent, ackMsgCounter, counts, server, wire, atServer, atClient, fault>>

-----------------------------------------------------------------------------
(* A server's main thread: makeThreadsReady, runThreads and the barriers   *)
(* global_barrier_server in them.                                          *)

Prepare(s) ==
  /\ mainPc[s] = "prepare"
  /\ recvAtServer' = Plus(recvAtServer, At(s), 1)
  /\ mainPc' = [mainPc EXCEPT ![s] = "barrier"]
  /\ UNCHANGED <<pc, round, counts, serverPc, totalBudget, budgetR, ackCounter, wire,
                 doneAtServer, atClient, fault>>

(* All clients have sent; all are answered.  Their receives are posted.    *)
Barrier(s) ==
  /\ mainPc[s] \in {"barrier", "endBarrier"}
  /\ \A q \in At(s) : doneAtServer[q] > 0
  /\ doneAtServer' = Plus(doneAtServer, At(s), -1)
  /\ recvAtClient' = Plus(recvAtClient, At(s), -1)
  /\ doneAtClient' = [q \in Connections |->
       IF q \in At(s) THEN Append(doneAtClient[q], Pong) ELSE doneAtClient[q]]
  /\ \/ /\ mainPc[s] = "barrier"
        /\ mainPc' = [mainPc EXCEPT ![s] = "join"]
        /\ serverPc' = [q \in Connections |-> IF q \in At(s) THEN "post" ELSE serverPc[q]]
     \/ /\ mainPc[s] = "endBarrier"
        /\ mainPc' = [mainPc EXCEPT ![s] = "done"]
        /\ UNCHANGED serverPc
  /\ UNCHANGED <<pc, round, counts, totalBudget, budgetR, ackCounter, wire,
                 recvAtServer, fault>>

Join(s) ==
  /\ mainPc[s] = "join"
  /\ \A q \in At(s) : serverPc[q] = "ended"
  /\ mainPc' = [mainPc EXCEPT ![s] = IF client_count > 1 THEN "endBarrier" ELSE "done"]
  /\ UNCHANGED <<pc, round, counts, serverPc, totalBudget, budgetR, ackCounter, wire,
                 atServer, atClient, fault>>

-----------------------------------------------------------------------------
(* BandwidthPerfServerThread::run.                                         *)

Post(q) ==
  LET n == AtMost(IterationsPerThread, RDMA_MAX_WR)
  IN /\ serverPc[q] = "post"
     /\ recvAtServer' = Plus(recvAtServer, {q}, n)
     /\ budgetR' = [budgetR EXCEPT ![q] = n]
     /\ totalBudget' = [totalBudget EXCEPT ![q] = @ - n]
     /\ serverPc' = [serverPc EXCEPT ![q] = "poll"]
     /\ UNCHANGED <<pc, round, counts, ackCounter, mainPc, wire, doneAtServer,
                    atClient, fault>>

PollMessage(q) ==
  /\ serverPc[q] = "poll"
  /\ doneAtServer[q] > 0
  /\ doneAtServer' = [doneAtServer EXCEPT ![q] = @ - 1]
  /\ budgetR' = [budgetR EXCEPT ![q] = @ - 1]
  /\ serverPc' = [serverPc EXCEPT ![q] = "repost"]
  /\ UNCHANGED <<pc, round, counts, totalBudget, ackCounter, mainPc, wire,
                 recvAtServer, atClient, fault>>

(* A receive in place of the one used, if a message is to come for it.     *)
Repost(q) ==
  LET n == AtMost(totalBudget[q], 1)
  IN /\ serverPc[q] = "repost"
     /\ IF n = 1 /\ ~ RoomAtServer(q)
        THEN /\ fault' = "postFailed"
             /\ UNCHANGED <<recvAtServer, budgetR, totalBudget, ackCounter, serverPc>>
        ELSE /\ recvAtServer' = Plus(recvAtServer, {q}, n)
             /\ budgetR' = [budgetR EXCEPT ![q] = @ + n]
             /\ totalBudget' = [totalBudget EXCEPT ![q] = @ - n]
             /\ ackCounter' = [ackCounter EXCEPT ![q] = @ + 1]
             /\ serverPc' = [serverPc EXCEPT ![q] = "answer"]
             /\ UNCHANGED fault
     /\ UNCHANGED <<pc, round, counts, mainPc, wire, doneAtServer, atClient>>

LastMessage(q) == totalBudget[q] = 0 /\ budgetR[q] = 0

(* Slips: only full packs are acknowledged; always as a full pack.         *)
AckDueWhenFull(q) == ackCounter[q] = ackMsgPacking
AckedPack(q) == ackMsgPacking

AckDue(q) == ackCounter[q] = ackMsgPacking \/ LastMessage(q)
AckedMessages(q) == ackCounter[q]

(* Slip: the barrier's receive only with the last message of a full pack.  *)
PreparesBarrierWhenFull(q) ==
  LastMessage(q) /\ ackCounter[q] = ackMsgPacking /\ client_count > 1

PreparesBarrier(q) == LastMessage(q) /\ client_count > 1

(* A pack is full, or the last message came: acknowledge, with the receive *)
(* of the barrier that follows posted before.                              *)
Acknowledge(q) ==
  /\ serverPc[q] = "answer"
  /\ AckDue(q)
  /\ recvAtServer' = Plus(recvAtServer, IF PreparesBarrier(q) THEN {q} ELSE {}, 1)
  /\ ack' = [ack EXCEPT ![q] = AckedMessages(q)]
  /\ ackCounter' = [ackCounter EXCEPT ![q] = 0]
  /\ serverPc' = [serverPc EXCEPT ![q] = "acking"]
  /\ UNCHANGED <<pc, round, counts, totalBudget, budgetR, mainPc, inFlight,
                 doneAtServer, atClient, fault>>

Continue(q) ==
  /\ serverPc[q] = "answer"
  /\ ~ AckDue(q)
  /\ serverPc' = [serverPc EXCEPT ![q] = "poll"]
  /\ UNCHANGED <<pc, round, counts, totalBudget, budgetR, ackCounter, mainPc, wire,
                 atServer, atClient, fault>>

-----------------------------------------------------------------------------
ClientStep(c) ==
  \/ EnterBarrier(c) \/ Ping(c) \/ LeaveBarrier(c) \/ Start(c)
  \/ BeginRound(c) \/ Send(c) \/ EndSending(c) \/ PollAck(c) \/ EndRound(c)

ServerStep(q) ==
  \/ Post(q) \/ PollMessage(q) \/ Repost(q) \/ Acknowledge(q) \/ Continue(q)

MainStep(s) == Prepare(s) \/ Barrier(s) \/ Join(s)

NetworkStep(q) == Arrive(q) \/ AckArrives(q)

Finished == /\ \A c \in Clients : pc[c] = "done"
            /\ \A s \in Servers : mainPc[s] = "done"

Over == (Finished \/ fault # "none") /\ UNCHANGED vars

Next ==
  \/ /\ fault = "none"
     /\ \/ \E c \in Clients : ClientStep(c)
        \/ \E s \in Servers : MainStep(s)
        \/ \E q \in Connections : ServerStep(q) \/ NetworkStep(q)
  \/ Over

Fairness ==
  /\ \A c \in Clients : WF_vars(fault = "none" /\ ClientStep(c))
  /\ \A s \in Servers : WF_vars(fault = "none" /\ MainStep(s))
  /\ \A q \in Connections : /\ WF_vars(fault = "none" /\ ServerStep(q))
                            /\ WF_vars(fault = "none" /\ NetworkStep(q))

Spec == Init /\ [][Next]_vars /\ Fairness

-----------------------------------------------------------------------------
TypeOK ==
  /\ pc \in [Clients -> {"enter", "ping", "pong", "ready", "next", "send", "poll",
                         "enterEnd", "pingEnd", "pongEnd", "done"}]
  /\ connIdx \in [Clients -> Servers]
  /\ sent \in [Clients -> 0 .. RDMA_MAX_WR]
  /\ ackMsgCounter \in [Clients -> 0 .. ackMsgPacking]
  /\ workingConnections \in [Clients -> 0 .. ServerCount]
  /\ totalBudgets \in [Connections -> 0 .. IterationsPerThread]
  /\ pendingMessages \in [Connections -> 0 .. RDMA_MAX_WR]
  /\ ackMsgCounters \in [Connections -> 0 .. ackMsgPacking]
  /\ serverPc \in [Connections -> {"ready", "post", "poll", "repost", "answer",
                                   "acking", "ended"}]
  /\ totalBudget \in [Connections -> 0 .. IterationsPerThread]
  /\ budgetR \in [Connections -> 0 .. RDMA_MAX_WR]
  /\ ackCounter \in [Connections -> 0 .. ackMsgPacking]
  /\ mainPc \in [Servers -> {"prepare", "barrier", "join", "endBarrier", "done"}]
  /\ inFlight \in [Connections -> 0 .. RDMA_MAX_WR]
  /\ ack \in [Connections -> {None} \cup 1 .. ackMsgPacking]
  /\ recvAtServer \in [Connections -> 0 .. RDMA_MAX_WR]
  /\ doneAtServer \in [Connections -> 0 .. RDMA_MAX_WR]
  /\ recvAtClient \in [Connections -> 0 .. RDMA_MAX_WR]
  /\ doneAtClient \in [Connections -> Seq(0 .. ackMsgPacking)]
  /\ \A q \in Connections : Len(doneAtClient[q]) <= RDMA_MAX_WR
  /\ fault \in {"none", "postFailed", "messageRefused", "ackRefused"}

(* The messages that immediate values stand for, and how many the ones do  *)
(* that the client has not polled yet.                                     *)
Messages(imms) == UNION {{i} \X (1 .. imms[i]) : i \in DOMAIN imms}
Acked(q) == Cardinality(Messages(doneAtClient[q]))

Unacknowledged(q) ==
  pendingMessages[q] +
  (IF q[2] = connIdx[q[1]] /\ pc[q[1]] = "send" THEN sent[q[1]] ELSE 0)

(* No credit is lost or made: what a client counts as unacknowledged is    *)
(* exactly what is on its way to the server, waits there, was polled and   *)
(* not acknowledged, or is in an acknowledgement the client has not        *)
(* polled.  A credit lost at the end of a pack would stall the sender, one *)
(* too many would overrun the receiver.                                    *)
CreditsConserved ==
  /\ TypeOK
  /\ \A q \in Connections : pc[q[1]] \in {"next", "send", "poll"} =>
       Unacknowledged(q) = inFlight[q] + doneAtServer[q]
           + (IF serverPc[q] = "repost" THEN 1 ELSE 0) + ackCounter[q]
           + (IF ack[q] = None THEN 0 ELSE ack[q]) + Acked(q)

(* No message is sent that no receive waits for.  The window keeps within  *)
(* what the server posts: whatever the server has polled and re-posted,    *)
(* there is a receive for every message under way, and for those of the    *)
(* barriers.                                                               *)
MessagesAreReceived ==
  /\ fault # "messageRefused"
  /\ \A q \in Connections : inFlight[q] <= recvAtServer[q]

(* There is a receive for every acknowledgement, although the client posts *)
(* them before it knows how the server packs, and no receive queue         *)
(* overflows, as long as the first rounds carry all messages: over a long  *)
(* run they do overflow (Send).                                            *)
ReceivesArePosted ==
  /\ fault = "none"
  /\ \A q \in Connections : ack[q] # None => recvAtClient[q] > 0

(* With several clients nobody stops the clock before every message of     *)
(* every client has been received and acknowledged.                        *)
EndTogether ==
  client_count > 1 /\ (\E c \in Clients : pc[c] = "done") =>
    \A q \in Connections :
      totalBudgets[q] = 0 /\ pendingMessages[q] = 0 /\ serverPc[q] = "ended"

(* Every client and every server gets to the end: no blocking poll waits   *)
(* for an acknowledgement, a message or a barrier that does not come.      *)
AllFinish == <>Finished
=============================================================================
