------------------------------ MODULE Service -------------------------------
(***************************************************************************)
(* The process that serves TuxDMX: main() (src/main.cpp), the HTTP server  *)
(* with its accept thread and one detached thread per connection           *)
(* (src/http/http_server.cpp, POSIX build), and the logger they write to.  *)
(* What AppController does when it is started, asked and shut down is in   *)
(* the other modules; here that is a step of the thread it happens in.     *)
(*                                                                         *)
(* A request is counted in units: the header is HeaderSize of them, and a  *)
(* connection knows how many its header declares for the body and how many *)
(* the client sends, which need not agree.  They arrive in arbitrary       *)
(* pieces of at most BufferSize, and sizes are added as size_t adds them.  *)
(*  The socket calls of the operating system are the           *)
(* environment, as on Linux: closing a listening socket does not end an    *)
(* accept() that waits on it.                                              *)
(***************************************************************************)
EXTENDS Integers, Sequences

CONSTANTS
  Clients,      \* connections
  HeaderSize,   \* size of a request header
  Lengths,      \* what a Content-Length may stand for, once it is a size_t
  Bodies,       \* sizes of the body a client may send
  SizeRange,    \* number of values of a size_t
  MaxRequest,   \* kMaxRequest
  BufferSize,   \* size of the receive buffer
  MaxRecent,    \* kMaxRecentLogs
  MaxFaults     \* bound on failures of the operating system

ASSUME SizesAssumption ==
  /\ HeaderSize \in Nat \ {0} /\ MaxRequest \in Nat \ {0} /\ BufferSize \in Nat \ {0}
  /\ SizeRange \in Nat /\ MaxRequest + BufferSize < SizeRange /\ HeaderSize < SizeRange
  /\ Lengths \subseteq 0 .. SizeRange - 1 /\ Bodies \subseteq Nat
  /\ MaxRecent \in Nat /\ MaxFaults \in Nat

VARIABLES
  pcMain,    \* where main() is
  pcAccept,  \* where the accept thread is
  running,   \* running_
  socket,    \* listenSocket_ is "open", "closed", or "cleared" to -1
  conn,      \* per connection: its thread, what it has received
  wire,      \* per connection, the client: what it declares and sends
  killed,    \* the process was ended by SIGPIPE
  faults,    \* environment: failures so far
  late,      \* history: connections accepted after stop() began
  fileOpen, file, recent, written, cleared   \* the logger

server == <<pcMain, pcAccept, running, socket, killed>>
logger == <<fileOpen, file, recent, written, cleared>>
vars == <<server, conn, wire, faults, late, logger>>

\* Who logs.
Messages == {"main", "request"}

Log == INSTANCE Logger

MainPc == {"initialize", "listen", "serve", "stop", "close", "clear", "join", "shutdown",
           "complete", "logger", "return", "exited"}

AcceptPc == {"off", "check", "socket", "call", "waiting", "failed", "exited"}

ConnState == {"none", "queued", "receive", "handle", "note", "send", "closed", "reset"}

Alive == pcMain # "exited" /\ ~killed

GotoMain(from, to) == ~killed /\ pcMain = from /\ pcMain' = to

GotoAccept(from, to) == Alive /\ pcAccept = from /\ pcAccept' = to

GotoConn(c, from, to) ==
  Alive /\ conn[c].at = from /\ conn' = [conn EXCEPT ![c].at = to]

\* What was received is a local of receiveHttpRequest(), and of the handler after it.
Discarding(c, from, to) ==
  Alive /\ conn[c].at = from /\ conn' = [conn EXCEPT ![c] = [at |-> to, raw |-> 0]]

Faulty == faults < MaxFaults /\ faults' = faults + 1

-----------------------------------------------------------------------------
(***************************************************************************)
(* main()                                                                  *)
(***************************************************************************)

\* app.initialize() brings the engines up, as its last steps, or fails before.
Initialize ==
  /\ GotoMain("initialize", "listen")
  /\ UNCHANGED <<pcAccept, running, socket, killed, conn, wire, faults, late, logger>>

InitializeFails ==
  /\ GotoMain("initialize", "logger")
  /\ Faulty
  /\ Log!LogMessage("main")
  /\ UNCHANGED <<pcAccept, running, socket, killed, conn, wire, late>>

\* HttpServer::start().
Listen ==
  /\ GotoMain("listen", "serve")
  /\ running' = TRUE
  /\ socket' = "open"
  /\ pcAccept' = "check"
  /\ UNCHANGED <<killed, conn, wire, faults, late, logger>>

\* The port is taken: app.shutdown() and shutdownLogger().
ListenFails ==
  /\ GotoMain("listen", "logger")
  /\ Faulty
  /\ Log!LogMessage("main")
  /\ UNCHANGED <<pcAccept, running, socket, killed, conn, wire, late>>

\* SIGINT or SIGTERM was handled, and main() has seen it.
StopRequested ==
  /\ GotoMain("serve", "stop")
  /\ Log!LogMessage("main")
  /\ UNCHANGED <<pcAccept, running, socket, killed, conn, wire, faults, late>>

\* Mutant: running_ is not cleared.
StopServerKeepsRunning ==
  /\ GotoMain("stop", "close")
  /\ UNCHANGED <<pcAccept, running, socket, killed, conn, wire, faults, late, logger>>

\* HttpServer::stop(): running_, the socket, listenSocket_, the accept thread.
StopServer ==
  /\ GotoMain("stop", "close")
  /\ running' = FALSE
  /\ UNCHANGED <<pcAccept, socket, killed, conn, wire, faults, late, logger>>

\* Connections nobody accepted are reset with the socket, which an accept() that
\* goes on waiting keeps.
Unaccepted ==
  [c \in Clients |-> [conn[c] EXCEPT !.at = IF @ = "queued" THEN "reset" ELSE @]]

CloseSocket ==
  /\ GotoMain("close", "clear")
  /\ socket' = "closed"
  /\ conn' = IF pcAccept = "waiting" THEN conn ELSE Unaccepted
  /\ UNCHANGED <<pcAccept, running, killed, wire, faults, late, logger>>

ClearSocket ==
  /\ GotoMain("clear", "join")
  /\ socket' = "cleared"
  /\ UNCHANGED <<pcAccept, running, killed, conn, wire, faults, late, logger>>

JoinAccept ==
  /\ pcAccept = "exited"
  /\ GotoMain("join", "shutdown")
  /\ UNCHANGED <<pcAccept, running, socket, killed, conn, wire, faults, late, logger>>

\* app.shutdown(): MIDI, audio, the stored blackout, DMX (LiveState, DmxTransport).
ShutdownApp ==
  /\ GotoMain("shutdown", "complete")
  /\ UNCHANGED <<pcAccept, running, socket, killed, conn, wire, faults, late, logger>>

ShutdownComplete ==
  /\ GotoMain("complete", "logger")
  /\ Log!LogMessage("main")
  /\ UNCHANGED <<pcAccept, running, socket, killed, conn, wire, faults, late>>

ShutdownLogger ==
  /\ GotoMain("logger", "return")
  /\ Log!Close
  /\ UNCHANGED <<pcAccept, running, socket, killed, conn, wire, faults, late>>

\* main() returns: its locals, server and app, are destroyed (~AppController()
\* calls shutdown() once more, see LiveState), and the process ends with whatever
\* connection threads are left.
Return ==
  /\ GotoMain("return", "exited")
  /\ UNCHANGED <<pcAccept, running, socket, killed, conn, wire, faults, late, logger>>

MainStep ==
  \/ StopServer \/ CloseSocket \/ ClearSocket \/ JoinAccept
  \/ ShutdownApp \/ ShutdownComplete \/ ShutdownLogger \/ Return

-----------------------------------------------------------------------------
(***************************************************************************)
(* HttpServer::acceptLoop()                                                *)
(***************************************************************************)

\* Mutant: the loop never looks at running_ again.
AcceptCheckOnce ==
  /\ GotoAccept("check", "socket")
  /\ UNCHANGED <<pcMain, running, socket, killed, conn, wire, faults, late, logger>>

AcceptCheck ==
  /\ GotoAccept("check", IF running THEN "socket" ELSE "exited")
  /\ UNCHANGED <<pcMain, running, socket, killed, conn, wire, faults, late, logger>>

\* listenSocket_ is read without synchronisation while stop() sets it to -1: the
\* thread may still see the old descriptor.
AcceptReadSocket ==
  /\ \/ GotoAccept("socket", "call")
     \/ socket = "cleared" /\ GotoAccept("socket", "exited")
  /\ UNCHANGED <<pcMain, running, socket, killed, conn, wire, faults, late, logger>>

\* accept() on a descriptor that was closed fails at once.
AcceptCall ==
  /\ GotoAccept("call", IF socket = "open" THEN "waiting" ELSE "failed")
  /\ UNCHANGED <<pcMain, running, socket, killed, conn, wire, faults, late, logger>>

\* A connection gets a detached thread of its own.
Accept(c) ==
  /\ conn[c].at = "queued"
  /\ GotoAccept("waiting", "check")
  /\ conn' = [IF socket = "open" THEN conn ELSE Unaccepted EXCEPT ![c].at = "receive"]
  /\ late' = IF running THEN late ELSE late + 1
  /\ UNCHANGED <<pcMain, running, socket, killed, wire, faults, logger>>

AcceptFails ==
  /\ Faulty
  /\ GotoAccept("waiting", "failed")
  /\ conn' = IF socket = "open" THEN conn ELSE Unaccepted
  /\ UNCHANGED <<pcMain, running, socket, killed, wire, late, logger>>

\* A failed accept() is repeated after 10 ms, unless the server stops.
AcceptRetry ==
  /\ GotoAccept("failed", IF running THEN "check" ELSE "exited")
  /\ UNCHANGED <<pcMain, running, socket, killed, conn, wire, faults, late, logger>>

AcceptStep ==
  \/ AcceptCheck \/ AcceptReadSocket \/ AcceptCall \/ AcceptRetry
  \/ \E c \in Clients : Accept(c)

-----------------------------------------------------------------------------
(***************************************************************************)
(* A connection thread: receiveHttpRequest(), handler_, sendHttpResponse() *)
(***************************************************************************)

Silent == [declares |-> 0, sent |-> 0, gone |-> FALSE]

Arrived(c) == wire[c].sent - conn[c].raw

\* expectedTotal, known once the header is complete: a sum of size_t.  stoul() makes
\* a negative Content-Length a large one.
Expected(c) == (HeaderSize + wire[c].declares) % SizeRange

\* The sum does not fit, and what is left of it is less than the header.
Wraps(c) == HeaderSize + wire[c].declares >= SizeRange

\* The body of the request that is handled: all that came after the header.
Body(c) == conn[c].raw - HeaderSize

\* Mutant: the loop ends with the header.
AfterReceiveEndsWithHeader(c, raw) ==
  IF raw >= HeaderSize THEN "handle"
  ELSE IF raw < MaxRequest THEN "receive"
  ELSE "send"

\* Mutant: the size limit is not looked at.
AfterReceiveUnlimited(c, raw) ==
  IF raw >= HeaderSize /\ raw >= Expected(c) THEN "handle" ELSE "receive"

\* Whether the loop goes on after a piece: the request is complete, or the limit
\* is reached and what arrived is taken for the request if it has a header.
AfterReceive(c, raw) ==
  IF raw >= HeaderSize /\ raw >= Expected(c) THEN "handle"
  ELSE IF raw < MaxRequest THEN "receive"
  ELSE IF raw >= HeaderSize THEN "handle" ELSE "send"

\* A header that has just become complete may turn out malformed: 400.
Refusal(c, raw) ==
  IF conn[c].raw < HeaderSize /\ raw >= HeaderSize THEN {"send"} ELSE {}

Receive(c) ==
  /\ Alive
  /\ conn[c].at = "receive"
  /\ \E n \in 1..BufferSize :
       /\ n <= Arrived(c)
       /\ \E next \in {AfterReceive(c, conn[c].raw + n)} \cup Refusal(c, conn[c].raw + n) :
            conn' = [conn EXCEPT ![c].raw = IF next = "send" THEN 0 ELSE @ + n,
                                 ![c].at = next]
  /\ UNCHANGED <<server, wire, faults, late, logger>>

\* Mutant: an end of the stream is taken for a pause.
ReceiveEndsNever(c) ==
  /\ GotoConn(c, "receive", "receive")
  /\ wire[c].gone /\ Arrived(c) = 0
  /\ UNCHANGED <<server, wire, faults, late, logger>>

\* The client closed its side or the connection broke: 400.
ReceiveEnds(c) ==
  /\ Discarding(c, "receive", "send")
  /\ wire[c].gone /\ Arrived(c) = 0
  /\ UNCHANGED <<server, wire, faults, late, logger>>

\* handler_(request): what it does is logged...
Handle(c) ==
  /\ Discarding(c, "handle", "send")
  /\ Log!LogMessage("request")
  /\ UNCHANGED <<server, wire, faults, late>>

\* ... and POST /api/logs/clear does it after it has cleared the list.
HandleClear(c) ==
  /\ Discarding(c, "handle", "note")
  /\ Log!ClearRecentLogs
  /\ UNCHANGED <<server, wire, faults, late>>

HandleNote(c) ==
  /\ GotoConn(c, "note", "send")
  /\ Log!LogMessage("request")
  /\ UNCHANGED <<server, wire, faults, late>>

\* sendHttpResponse() and close(); the thread ends, its locals with it.
Respond(c) ==
  /\ Discarding(c, "send", "closed")
  /\ wire' = [wire EXCEPT ![c] = Silent]
  /\ UNCHANGED <<server, faults, late, logger>>

\* The client is gone before a response of several pieces is out: send() may
\* raise SIGPIPE, which nothing handles.
RespondKilled(c) ==
  /\ Alive
  /\ conn[c].at = "send"
  /\ wire[c].gone
  /\ Faulty
  /\ killed' = TRUE
  /\ UNCHANGED <<pcMain, pcAccept, running, socket, conn, wire, late, logger>>

ConnStep(c) ==
  \/ Receive(c) \/ ReceiveEnds(c)
  \/ Handle(c) \/ HandleClear(c) \/ HandleNote(c)
  \/ Respond(c)

-----------------------------------------------------------------------------
(***************************************************************************)
(* The clients                                                             *)
(***************************************************************************)

\* The listening socket exists: open, or kept by an accept() that waits.
Listening == Alive /\ (socket = "open" \/ pcAccept = "waiting")

\* A client declares a body and means to send one.
Connect(c, declares, body) ==
  /\ Listening
  /\ conn[c].at = "none"
  /\ conn' = [conn EXCEPT ![c].at = "queued"]
  /\ wire' = [wire EXCEPT ![c] = [declares |-> declares, gone |-> FALSE,
                                  sent |-> HeaderSize + body]]
  /\ UNCHANGED <<server, faults, late, logger>>

\* A client goes away, having sent everything or nothing after what was received.
\* While its request is handled nobody looks at the socket: it may as well leave
\* after that.
Leave(c) ==
  /\ conn[c].at \in {"queued", "receive", "send"}
  /\ ~wire[c].gone
  /\ \E n \in {conn[c].raw, wire[c].sent} :
       wire' = [wire EXCEPT ![c].gone = TRUE, ![c].sent = n]
  /\ UNCHANGED <<server, conn, faults, late, logger>>

Ended == ~Alive /\ UNCHANGED vars

-----------------------------------------------------------------------------
\* main() has opened the log and is about to call initialize().
Init ==
  /\ pcMain = "initialize"
  /\ pcAccept = "off"
  /\ running = FALSE
  /\ socket = "cleared"
  /\ conn = [c \in Clients |-> [at |-> "none", raw |-> 0]]
  /\ wire = [c \in Clients |-> Silent]
  /\ killed = FALSE
  /\ faults = 0
  /\ late = 0
  /\ Log!LogInit

Next ==
  \/ Initialize \/ InitializeFails \/ Listen \/ ListenFails \/ StopRequested \/ MainStep
  \/ AcceptStep \/ AcceptFails
  \/ \E c \in Clients :
       \/ ConnStep(c) \/ RespondKilled(c)
       \/ \E declares \in Lengths, body \in Bodies : Connect(c, declares, body)
       \/ Leave(c)
  \/ Ended

Spec == Init /\ [][Next]_vars

\* The threads keep running.  Nobody has to connect, to send or to leave.
FairSpec ==
  /\ Spec
  /\ WF_vars(MainStep)
  /\ WF_vars(AcceptStep)
  /\ \A c \in Clients : WF_vars(ConnStep(c))

-----------------------------------------------------------------------------
(***************************************************************************)
(* Properties                                                              *)
(***************************************************************************)

TypeOK ==
  /\ pcMain \in MainPc
  /\ pcAccept \in AcceptPc
  /\ running \in BOOLEAN
  /\ socket \in {"open", "closed", "cleared"}
  /\ conn \in [Clients -> [at : ConnState, raw : 0..(MaxRequest + BufferSize - 1)]]
  /\ wire \in [Clients -> [declares : Lengths \cup {0}, sent : Nat, gone : BOOLEAN]]
  /\ killed \in BOOLEAN
  /\ faults \in 0..MaxFaults
  /\ late \in Nat
  /\ Log!LogTypeOK

\* However a request was cut into pieces, the handler gets a complete header and all of
\* the body it declares, unless the size limit cuts it short or the declared length
\* makes expectedTotal wrap around: then it gets what came with the header's last piece.
BodyIsWhole ==
  \A c \in Clients :
    conn[c].at = "handle" =>
      /\ Body(c) >= 0
      /\ Body(c) >= wire[c].declares \/ conn[c].raw >= MaxRequest \/ Wraps(c)

\* Once stop() has begun the accept thread takes at most one more connection,
\* the one its accept() was waiting for.
OneLateConnection == late <= 1

\* The list of recent lines and the file tell the same story, whatever was
\* cleared and closed in between.
RecentIsTailOfLog == Log!ListIsTail /\ Log!FileIsPrefix

\* What was sent ends the loop of receiveHttpRequest(), however it is cut.
Suffices(c) ==
  \/ wire[c].gone
  \/ wire[c].sent >= MaxRequest
  \/ wire[c].sent >= HeaderSize /\ wire[c].sent >= Expected(c)

\* A client that has sent what the server waits for, or as much as it takes, or has
\* left, is answered, also during a shutdown, unless the process ends first.
RequestsAnswered ==
  \A c \in Clients :
    conn[c].at = "receive" /\ Suffices(c) ~> conn[c].at = "closed" \/ ~Alive

\* Once a stopping server is contacted again, main() gets to its end.
StopsWhenContacted ==
  pcMain = "join" /\ (\E c \in Clients : conn[c].at = "queued") ~> ~Alive

-----------------------------------------------------------------------------
\* main.cpp:111: "Press Ctrl+C to stop".
StopReturns == pcMain = "stop" ~> ~Alive
=============================================================================
