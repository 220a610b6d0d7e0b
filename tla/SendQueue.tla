------------------------------ MODULE SendQueue -----------------------------
(***************************************************************************)
(* The requester's side of one reliable connection: the operations of      *)
(* ReliableRDMA (read, write, atomics, send), the counter that decides     *)
(* which of them ask for a completion, and the send and completion queues  *)
(* of the network card.                                                    *)
(*                                                                         *)
(* Work requests are numbered in the order they are posted.  The card      *)
(* executes them in that order, and completions come out of the completion *)
(* queue in that order.  A request occupies one of the RDMA_MAX_WR places  *)
(* of the send queue until the completion of it or of a later one has been *)
(* polled.  One thread uses the connection.                                *)
(***************************************************************************)
EXTENDS Integers

CONSTANTS
  RDMA_MAX_WR,  \* Config::RDMA_MAX_WR: max_send_wr of createQP
  MaxPosts,     \* bound: work requests posted
  PollsReads,   \* every requestRead is followed by its pollSend
  MayFail       \* a work request may fail

ASSUME LimitAssumption == RDMA_MAX_WR \in Nat \ {0} /\ MaxPosts \in Nat
ASSUME UsageAssumption == PollsReads \in BOOLEAN /\ MayFail \in BOOLEAN

VARIABLES
  m_countWR,   \* requests posted without a completion since the last with one
  posted,      \* the number of the last request posted
  executed,    \* ... of the last one the card is done with
  polled,      \* ... of the last one whose completion was polled
  signaledWRs, \* the requests posted with IBV_SEND_SIGNALED
  failedWR,    \* the request that failed and stopped the queue pair, or 0
  waiting,     \* what the thread polls for: "nothing", "operation", "pollSend"
  reads,       \* requestReads not yet followed by a pollSend
  result       \* how the last call ended

queue == <<posted, executed, polled, signaledWRs, failedWR>>
vars  == <<m_countWR, queue, waiting, reads, result>>

Results == {"none", "ok", "completed", "postFailed", "completionError", "pollFailed"}

Init ==
  /\ m_countWR = 0
  /\ posted = 0 /\ executed = 0 /\ polled = 0
  /\ signaledWRs = {}
  /\ failedWR = 0
  /\ waiting = "nothing"
  /\ reads = 0
  /\ result = "none"

-----------------------------------------------------------------------------
(* The card: a request completes, or fails and takes all later ones along. *)
Execute ==
  /\ executed < posted
  /\ executed' = executed + 1
  /\ UNCHANGED <<m_countWR, posted, polled, signaledWRs, failedWR, waiting, reads, result>>

Fail ==
  /\ MayFail
  /\ failedWR = 0
  /\ executed < posted
  /\ executed' = executed + 1
  /\ failedWR' = executed + 1
  /\ UNCHANGED <<m_countWR, posted, polled, signaledWRs, waiting, reads, result>>

Failed(w) == failedWR # 0 /\ failedWR <= w

(* What ibv_poll_cq can return: requests that asked for a completion, and  *)
(* all that failed.                                                        *)
Completions == {w \in (polled + 1) .. executed : w \in signaledWRs \/ Failed(w)}

First(W) == CHOOSE w \in W : \A v \in W : w <= v

-----------------------------------------------------------------------------
(* Slip: the counter is compared before it is incremented.                 *)
checkSignaledLate(signaled) == signaled \/ m_countWR = RDMA_MAX_WR

(* checkSignaled: every RDMA_MAX_WR-th request in a row that does not ask  *)
(* for a completion does so after all.                                     *)
checkSignaled(signaled) == signaled \/ m_countWR + 1 = RDMA_MAX_WR

CountWR(signaled) == IF checkSignaled(signaled) THEN 0 ELSE m_countWR + 1

(* Slip: polls although nothing was asked to complete.                     *)
PollsForAny(signaled, wait) == IF wait THEN "operation" ELSE "nothing"

PollsFor(signaled, wait) ==
  IF checkSignaled(signaled) /\ wait THEN "operation" ELSE "nothing"

(* remoteAccess: post, and poll if there will be a completion to wait for. *)
remoteAccess(signaled, wait) ==
  /\ waiting = "nothing"
  /\ posted < MaxPosts
  /\ m_countWR' = CountWR(signaled)
  /\ IF posted - polled < RDMA_MAX_WR
     THEN /\ posted' = posted + 1
          /\ signaledWRs' = IF checkSignaled(signaled)
                            THEN signaledWRs \cup {posted + 1} ELSE signaledWRs
          /\ waiting' = PollsFor(signaled, wait)
          /\ result' = "ok"
     ELSE /\ result' = "postFailed"
          /\ UNCHANGED <<posted, signaledWRs, waiting>>
  /\ UNCHANGED <<executed, polled, failedWR>>

(* write, writeImm, read; fetchAndAdd, compareAndSwap and sendImpl repeat  *)
(* these steps with other fields in the request.                           *)
operation(signaled) ==
  /\ PollsReads => reads = 0
  /\ remoteAccess(signaled, TRUE)
  /\ UNCHANGED reads

(* requestRead asks for a completion and leaves it to pollSend. *)
requestRead ==
  /\ PollsReads => reads = 0
  /\ remoteAccess(TRUE, FALSE)
  /\ reads' = IF posted' > posted THEN reads + 1 ELSE reads

(* One completion is taken out of the queue, whichever request it is of. *)
Poll(success) ==
  /\ Completions # {}
  /\ polled' = First(Completions)
  /\ result' = IF Failed(First(Completions)) THEN "completionError" ELSE success

(* Slip: the loop polls once. *)
CompletedOrNot ==
  /\ waiting = "operation"
  /\ \/ Poll("completed")
     \/ Completions = {} /\ result' = "completed" /\ UNCHANGED polled
  /\ waiting' = "nothing"
  /\ UNCHANGED <<m_countWR, posted, executed, signaledWRs, failedWR, reads>>

(* The loop at the end of an operation. *)
Completed ==
  /\ waiting = "operation"
  /\ Poll("completed")
  /\ waiting' = "nothing"
  /\ UNCHANGED <<m_countWR, posted, executed, signaledWRs, failedWR, reads>>

(* pollSend, which polls once or until there is something.  It is called   *)
(* for a requestRead.                                                      *)
pollSend(doPoll) ==
  /\ waiting = "nothing"
  /\ reads > 0
  /\ \/ /\ doPoll
        /\ waiting' = "pollSend"
        /\ UNCHANGED <<polled, reads, result>>
     \/ /\ ~ doPoll
        /\ Poll("ok")
        /\ reads' = reads - 1
        /\ UNCHANGED waiting
     \/ /\ ~ doPoll
        /\ Completions = {}
        /\ result' = "pollFailed"
        /\ UNCHANGED <<polled, reads, waiting>>
  /\ UNCHANGED <<m_countWR, posted, executed, signaledWRs, failedWR>>

SendPolled ==
  /\ waiting = "pollSend"
  /\ Poll("ok")
  /\ waiting' = "nothing"
  /\ reads' = reads - 1
  /\ UNCHANGED <<m_countWR, posted, executed, signaledWRs, failedWR>>

Next ==
  \/ Execute \/ Fail
  \/ \E signaled \in BOOLEAN : operation(signaled)
  \/ requestRead
  \/ \E doPoll \in BOOLEAN : pollSend(doPoll)
  \/ Completed \/ SendPolled

(* The card works its queue off; a thread that polls keeps polling. *)
Fairness == WF_vars(Execute) /\ WF_vars(Completed \/ SendPolled)

Spec == Init /\ [][Next]_vars
FairSpec == Spec /\ Fairness

-----------------------------------------------------------------------------
TypeOK ==
  /\ m_countWR \in 0 .. (RDMA_MAX_WR - 1)
  /\ posted \in 0 .. MaxPosts
  /\ executed \in 0 .. posted /\ polled \in 0 .. executed
  /\ signaledWRs \subseteq 1 .. posted
  /\ failedWR \in 0 .. executed
  /\ waiting \in {"nothing", "operation", "pollSend"}
  /\ reads \in 0 .. MaxPosts
  /\ result \in Results

(* The counting of checkSignaled is enough to keep a place in the send     *)
(* queue for every operation a program posts, whatever mix of signaled and *)
(* unsignaled ones it is: ibv_post_send never runs out of places.          *)
PostsSucceed == failedWR = 0 => result # "postFailed"

(* An operation that waited for a completion and returns has been          *)
(* executed, and so has every one before it: "if true the function blocks  *)
(* until the write request was processed by the NIC" (ReliableRDMA.h:55).  *)
SignaledMeansDone == result = "completed" => polled = posted /\ ~ Failed(posted)

(* Every call that waits for a completion returns: no loop polls for one   *)
(* that was not asked for or that somebody else has taken.                 *)
CallsReturn == waiting # "nothing" ~> waiting = "nothing"
=============================================================================
