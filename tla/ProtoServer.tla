----------------------------- MODULE ProtoServer ----------------------------
(***************************************************************************)
(* The life of a server: the application's thread starts, stops and        *)
(* destroys it, the server thread receives and answers requests            *)
(* (ProtoServer, Thread and ProtoSocket; RDMAServer and NodeIDSequencer    *)
(* are ProtoServers).                                                      *)
(*                                                                         *)
(* The threads share m_running, m_kill and the socket.  The context of a   *)
(* ZeroMQ socket cannot be deleted before the socket is closed: the call   *)
(* blocks, and a receive on the socket ends with ETERM meanwhile.          *)
(***************************************************************************)
EXTENDS Integers

CONSTANTS
  MaxRequests,  \* bound: requests clients send
  MaxStarts,    \* bound: times startServer creates a thread
  BindMayFail,  \* another process may hold the port
  MayGarble     \* a message may not parse

ASSUME BoundsAssumption == MaxRequests \in Nat /\ MaxStarts \in Nat
ASSUME FailuresAssumption == BindMayFail \in BOOLEAN /\ MayGarble \in BOOLEAN

VARIABLES
  m_running,  \* ProtoServer::m_running, not the one of Thread
  m_kill,     \* Thread::m_kill: never reset
  socket,     \* m_pSocket: "none", "new", "open", "closed" or "deleted"
  context,    \* its context: "none", "open", "terminating" or "deleted"
  portTaken,  \* some socket of this process is bound to the port
  thread,     \* where the server thread is
  joinable,   \* m_thread has been started and not joined
  app,        \* what the application's thread is at
  inbox,      \* requests not received yet
  sent,       \* requests sent by clients
  starts      \* threads created

flags   == <<m_running, m_kill>>
sockets == <<socket, context, portTaken>>
clients == <<inbox, sent>>
serverVars == <<flags, sockets, thread, joinable, app, clients, starts>>

ServerInit ==
  /\ m_running = FALSE /\ m_kill = FALSE
  /\ socket = "none" /\ context = "none" /\ portTaken = FALSE
  /\ thread = "none" /\ joinable = FALSE
  /\ app = "idle"
  /\ inbox = 0 /\ sent = 0 /\ starts = 0

(* A client's request reaches the bound socket. *)
Request ==
  /\ socket = "open" /\ context = "open"
  /\ sent < MaxRequests
  /\ inbox' = inbox + 1 /\ sent' = sent + 1
  /\ UNCHANGED <<flags, sockets, thread, joinable, app, starts>>

-----------------------------------------------------------------------------
(* startServer: a new socket, a new thread ... *)
startServer ==
  /\ app = "idle"
  /\ ~ m_running
  /\ starts < MaxStarts
  /\ socket' = "new" /\ context' = "open"
  /\ thread' = "bind" /\ joinable' = TRUE
  /\ inbox' = 0
  /\ app' = "starting"
  /\ starts' = starts + 1
  /\ UNCHANGED <<flags, portTaken, sent>>

(* ... and a loop that waits for the thread to run or to be killed. *)
Started ==
  /\ app = "starting"
  /\ m_running \/ m_kill
  /\ app' = "idle"
  /\ UNCHANGED <<flags, sockets, thread, joinable, clients, starts>>

(* stopServer, also when ~ProtoServer calls it: nothing if the server does *)
(* not run; stop(), closeContext() and join() otherwise.                   *)
stopServer ==
  /\ app = "idle"
  /\ m_running
  /\ m_kill' = TRUE
  /\ app' = "closing"
  /\ UNCHANGED <<m_running, sockets, thread, joinable, clients, starts>>

closeContext ==
  /\ app = "closing"
  /\ context = "open"
  /\ context' = "terminating"
  /\ UNCHANGED <<flags, socket, portTaken, thread, joinable, app, clients, starts>>

ContextClosed ==
  /\ app = "closing"
  /\ context = "terminating"
  /\ socket = "closed"
  /\ context' = "deleted"
  /\ app' = "joining"
  /\ UNCHANGED <<flags, socket, portTaken, thread, joinable, clients, starts>>

(* Slip: stopServer does not wait for the thread. *)
detach ==
  /\ app = "joining"
  /\ app' = "idle"
  /\ UNCHANGED <<flags, sockets, thread, joinable, clients, starts>>

join ==
  /\ app = "joining"
  /\ thread = "ended"
  /\ joinable' = FALSE
  /\ app' = "idle"
  /\ UNCHANGED <<flags, sockets, thread, clients, starts>>

(* Slip: the server is not stopped first. *)
MayDestroyAnyTime == TRUE

MayDestroy == ~ m_running

(* ~ProtoServer once the server does not run: the socket is deleted, and   *)
(* ~Thread deletes m_thread, which ends the process if it is joinable.     *)
Destroy ==
  /\ app = "idle"
  /\ MayDestroy
  /\ socket' = IF socket = "none" THEN "none" ELSE "deleted"
  /\ context' = IF context = "none" THEN "none" ELSE "deleted"
  /\ portTaken' = IF socket = "open" THEN FALSE ELSE portTaken
  /\ app' = IF joinable THEN "terminated" ELSE "destroyed"
  /\ UNCHANGED <<flags, thread, joinable, clients, starts>>

-----------------------------------------------------------------------------
(* run: bind, or give up.  (What happens when ~ProtoServer has deleted the *)
(* socket by then, after a second start, is undefined and not followed.)   *)
Bind ==
  /\ thread = "bind"
  /\ socket = "new" /\ ~ portTaken
  /\ socket' = "open" /\ portTaken' = TRUE
  /\ m_running' = TRUE
  /\ thread' = "loop"
  /\ UNCHANGED <<m_kill, context, joinable, app, clients, starts>>

BindFails ==
  /\ thread = "bind"
  /\ portTaken \/ BindMayFail
  /\ m_kill' = TRUE
  /\ thread' = "ended"
  /\ UNCHANGED <<m_running, sockets, joinable, app, clients, starts>>

(* The head of the loop. *)
CheckKilled ==
  /\ thread = "loop"
  /\ thread' = IF m_kill THEN "leave" ELSE "receive"
  /\ UNCHANGED <<flags, sockets, joinable, app, clients, starts>>

(* A message that does not parse ends the loop, with the socket open. *)
receive ==
  /\ thread = "receive"
  /\ context = "open"
  /\ inbox > 0
  /\ inbox' = inbox - 1
  /\ \/ thread' = "handle"
     \/ MayGarble /\ thread' = "leave"
  /\ UNCHANGED <<flags, sockets, joinable, app, sent, starts>>

(* Slip: the socket stays open when its context goes away. *)
ReceiveEnds ==
  /\ thread = "receive"
  /\ context = "terminating"
  /\ thread' = "leave"
  /\ UNCHANGED <<flags, sockets, joinable, app, clients, starts>>

(* recv() throws ETERM: the socket is closed, receive returns false. *)
ReceiveTerminated ==
  /\ thread = "receive"
  /\ context = "terminating"
  /\ socket' = "closed" /\ portTaken' = FALSE
  /\ thread' = "leave"
  /\ UNCHANGED <<flags, context, joinable, app, clients, starts>>

(* handle and the reply, which is lost if the context is going away. *)
handle ==
  /\ thread = "handle"
  /\ thread' = "loop"
  /\ UNCHANGED <<flags, sockets, joinable, app, clients, starts>>

Leave ==
  /\ thread = "leave"
  /\ m_running' = FALSE
  /\ thread' = "ended"
  /\ UNCHANGED <<m_kill, sockets, joinable, app, clients, starts>>

-----------------------------------------------------------------------------
InCall == Started \/ closeContext \/ ContextClosed \/ join
Application == startServer \/ stopServer \/ Destroy
ServerThread ==
  Bind \/ BindFails \/ CheckKilled \/ receive \/ ReceiveTerminated \/ handle \/ Leave

ServerNext == Request \/ Application \/ InCall \/ ServerThread

(* Both threads run on; nothing obliges the application to call anything. *)
ServerFairness == WF_serverVars(InCall) /\ WF_serverVars(ServerThread)

ServerSpec == ServerInit /\ [][ServerNext]_serverVars
FairServerSpec == ServerSpec /\ ServerFairness

-----------------------------------------------------------------------------
ServerTypeOK ==
  /\ m_running \in BOOLEAN /\ m_kill \in BOOLEAN
  /\ socket \in {"none", "new", "open", "closed", "deleted"}
  /\ context \in {"none", "open", "terminating", "deleted"}
  /\ portTaken \in BOOLEAN
  /\ thread \in {"none", "bind", "loop", "receive", "handle", "leave", "ended"}
  /\ joinable \in BOOLEAN
  /\ app \in {"idle", "starting", "closing", "joining", "destroyed", "terminated"}
  /\ sent \in 0 .. MaxRequests /\ inbox \in 0 .. sent
  /\ starts \in 0 .. MaxStarts

(* The server thread never uses a socket that is closed or deleted: it is  *)
(* m_running, set last and cleared last, that keeps ~ProtoServer away.     *)
(* (A second startServer returns at once, since m_kill is still set, and   *)
(* nothing keeps ~ProtoServer from a thread that has yet to bind.)         *)
NoUseAfterDelete ==
  /\ ServerTypeOK
  /\ starts <= 1 =>
       /\ thread = "bind" => socket = "new"
       /\ thread \in {"receive", "handle"} => socket = "open"

(* A server that has been stopped, which deletes its context, has joined   *)
(* its thread: to destroy it does not end the process, however it was      *)
(* started, stopped and started before.                                    *)
DestroyedJoined == [][Destroy /\ context = "deleted" => app' = "destroyed"]_serverVars

(* stopServer ends when the context it deletes finds the server thread     *)
(* waiting for a request: the thread wakes up and closes the socket that   *)
(* the deletion waits for.                                                 *)
WaitingServerStops == context = "terminating" /\ thread = "receive" ~> app = "idle"

(* startServer returns, whether or not the port could be bound, and also   *)
(* when the server has run before; unless the thread has run and ended in  *)
(* between, on a message that did not parse, which leaves the socket open. *)
StartReturns ==
  app = "starting" ~> app = "idle" \/ (thread = "ended" /\ socket = "open")

(* Starting a server, and stopping one that waits, end. *)
ControlReturns == StartReturns /\ WaitingServerStops

(* stopServer gets to "stopping done" (ProtoServer.cc:88), whatever the    *)
(* server thread is doing when it is called.                               *)
StopReturns == app = "closing" ~> app = "idle"
=============================================================================
