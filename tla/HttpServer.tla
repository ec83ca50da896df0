----------------------------- MODULE HttpServer ------------------------------
(***************************************************************************)
(* The life cycle of HttpApiServer (http_api_server.cpp) inside the --web  *)
(* branch of main (main.cpp): main opens the database through              *)
(* LiveRuntime::initialize, starts the server, then the runtime, watches   *)
(* isRunning(), and tears everything down; the serve thread creates,       *)
(* binds and accepts on the socket; every client gets a detached thread    *)
(* that reads the runtime and the database.                                *)
(*                                                                         *)
(* What a handler does to the runtime is in LiveRuntime (its Clients);     *)
(* here it only matters that it uses the runtime and the database.         *)
(* Whether a port is taken and when clients come is up to the environment. *)
(* A process that is killed (Ctrl+C) simply stops; Invocations has what    *)
(* that leaves behind.                                                     *)
(***************************************************************************)
EXTENDS Naturals

CONSTANTS
  Handlers,   \* slots for handler threads; bound: clients served at a time
  MaxPolls    \* 50 in start()

ASSUME HttpAssumption == MaxPolls \in Nat

VARIABLES
  \* main: program counter, polls of start(), what start() returned ("none"
  \* before), the status main returns ("none" before)
  mainPc, polls, started, exitCode,
  \* LiveRuntime and DatabaseManager::db_ as main leaves them
  runtime, db,
  \* HttpApiServer: running_; whether server_fd_ holds the descriptor
  running, fd,
  \* the listening socket in the kernel; "failed" if serve() gave it up
  sock,
  \* the serve thread and the handler threads
  servePc, handler

mainVars == <<mainPc, polls, started, exitCode, runtime, db>>
vars == <<mainVars, running, fd, sock, servePc, handler>>

MainPcs ==
  {"initialize", "start", "poll", "report", "startRuntime", "watch", "stopRuntime",
   "closeDatabase", "stop", "stopCheck", "stopClose", "join", "destroyed", "exited"}
ServePcs ==
  {"none", "socket", "check", "bind", "unbind", "clear", "loop", "accept", "exited"}

\* Every variable keeps to its type; start() never polls beyond its limit.
HttpTypeOK ==
  /\ mainPc \in MainPcs
  /\ polls \in 0..MaxPolls
  /\ started \in {"none", "yes", "no"}
  /\ exitCode \in {"none", "0", "1"}
  /\ runtime \in {"new", "ready", "running", "stopped"}
  /\ db \in {"open", "closed"}
  /\ running \in BOOLEAN /\ fd \in BOOLEAN
  /\ sock \in {"none", "open", "listening", "failed", "closed"}
  /\ servePc \in ServePcs
  /\ handler \in [Handlers -> {"none", "receive", "query"}]

Init ==
  /\ mainPc = "initialize" /\ polls = 0
  /\ started = "none" /\ exitCode = "none"
  /\ runtime = "new" /\ db = "closed"
  /\ running = FALSE /\ fd = FALSE /\ sock = "none"
  /\ servePc = "none"
  /\ handler = [h \in Handlers |-> "none"]

-----------------------------------------------------------------------------
(* main up to the watching loop. *)

\* Initialisation may fail before or after the database is opened.
InitializeRuntime ==
  /\ mainPc = "initialize"
  /\ \/ db' = "open" /\ runtime' = "ready" /\ mainPc' = "start" /\ UNCHANGED exitCode
     \/ /\ db' \in {"open", "closed"}
        /\ mainPc' = "closeDatabase" /\ exitCode' = "1"
        /\ UNCHANGED runtime
  /\ UNCHANGED <<polls, started, running, servePc>>

StartServer ==
  /\ mainPc = "start"
  /\ running' = TRUE
  /\ servePc' = "socket"
  /\ mainPc' = "poll"
  /\ UNCHANGED <<polls, started, exitCode, runtime, db>>

\* Mutant: one poll too many.
PollOnceMore ==
  /\ mainPc = "poll"
  /\ IF polls <= MaxPolls /\ ~fd /\ running
     THEN polls' = polls + 1 /\ UNCHANGED mainPc
     ELSE mainPc' = "report" /\ UNCHANGED polls
  /\ UNCHANGED <<started, exitCode, runtime, db, running, servePc>>

\* start() waits until the descriptor exists; binding it comes later.
Poll ==
  /\ mainPc = "poll"
  /\ IF polls < MaxPolls /\ ~fd /\ running
     THEN polls' = polls + 1 /\ UNCHANGED mainPc
     ELSE mainPc' = "report" /\ UNCHANGED polls
  /\ UNCHANGED <<started, exitCode, runtime, db, running, servePc>>

\* The descriptor is read again for the result of start().
ReportStart ==
  /\ mainPc = "report"
  /\ IF fd
     THEN started' = "yes" /\ mainPc' = "startRuntime" /\ UNCHANGED exitCode
     ELSE started' = "no" /\ mainPc' = "stopRuntime" /\ exitCode' = "1"
  /\ UNCHANGED <<polls, runtime, db, running, servePc>>

StartRuntime ==
  /\ mainPc = "startRuntime"
  /\ runtime' = "running"
  /\ mainPc' = "watch"
  /\ UNCHANGED <<polls, started, exitCode, db, running, servePc>>

\* while (server.isRunning()) ends.
WatchEnds ==
  /\ mainPc = "watch" /\ ~running
  /\ exitCode' = "0"
  /\ mainPc' = "stopRuntime"
  /\ UNCHANGED <<polls, started, runtime, db, running, servePc>>

StartUp ==
  /\ \/ InitializeRuntime \/ StartServer \/ Poll \/ ReportStart
     \/ StartRuntime \/ WatchEnds
  /\ UNCHANGED <<fd, sock, handler>>

-----------------------------------------------------------------------------
(* Teardown: runtime->stop(), DatabaseManager::close(), ~HttpApiServer().  *)

StopRuntime ==
  /\ mainPc = "stopRuntime"
  /\ runtime' = "stopped"
  /\ mainPc' = "closeDatabase"
  /\ UNCHANGED <<db, running, fd, sock>>

\* When initialize() failed there is no server to destroy.
CloseDatabase ==
  /\ mainPc = "closeDatabase"
  /\ db' = "closed"
  /\ mainPc' = IF started = "none" THEN "exited" ELSE "stop"
  /\ UNCHANGED <<runtime, running, fd, sock>>

StopClearsFlag ==
  /\ mainPc = "stop"
  /\ running' = FALSE
  /\ mainPc' = "stopCheck"
  /\ UNCHANGED <<runtime, db, fd, sock>>

StopReadsDescriptor ==
  /\ mainPc = "stopCheck"
  /\ mainPc' = IF fd THEN "stopClose" ELSE "join"
  /\ UNCHANGED <<runtime, db, running, fd, sock>>

\* Mutant: the socket is neither shut down nor closed.
StopForgetsSocket ==
  /\ mainPc = "stopClose"
  /\ fd' = FALSE
  /\ mainPc' = "join"
  /\ UNCHANGED <<runtime, db, running, sock>>

\* Mutant: the descriptor that was looked at is closed, not the one exchanged.
StopClosesStale ==
  /\ mainPc = "stopClose"
  /\ fd' = FALSE
  /\ sock' = "closed"
  /\ mainPc' = "join"
  /\ UNCHANGED <<runtime, db, running>>

\* exchange(-1), shutdown, close; the serve thread may have been faster.
StopClosesSocket ==
  /\ mainPc = "stopClose"
  /\ fd' = FALSE
  /\ sock' = IF fd THEN "closed" ELSE sock
  /\ mainPc' = "join"
  /\ UNCHANGED <<runtime, db, running>>

StopJoins ==
  /\ mainPc = "join" /\ servePc = "exited"
  /\ mainPc' = "destroyed"
  /\ UNCHANGED <<runtime, db, running, fd, sock>>

\* The process ends, and with it every detached thread.
Exit ==
  /\ mainPc = "destroyed"
  /\ mainPc' = "exited"
  /\ UNCHANGED <<runtime, db, running, fd, sock>>

TearDown ==
  /\ \/ StopRuntime \/ CloseDatabase \/ StopClearsFlag \/ StopReadsDescriptor
     \/ StopClosesSocket \/ StopJoins \/ Exit
  /\ UNCHANGED <<polls, started, exitCode, servePc, handler>>

-----------------------------------------------------------------------------
(* serve(). *)

CreateSocket ==
  /\ servePc = "socket"
  /\ \/ fd' = TRUE /\ sock' = "open"
     \/ UNCHANGED <<fd, sock>>
  /\ servePc' = "check"
  /\ UNCHANGED <<running, handler>>

CheckSocket ==
  /\ servePc = "check"
  /\ IF fd THEN servePc' = "bind" /\ UNCHANGED running
           ELSE servePc' = "exited" /\ running' = FALSE
  /\ UNCHANGED <<fd, sock, handler>>

\* bind and listen fail if the port is taken, or if stop() has closed the
\* socket in the meantime.
BindSocket ==
  /\ servePc = "bind"
  /\ \/ sock = "open" /\ sock' = "listening" /\ servePc' = "loop"
     \/ servePc' = "unbind" /\ UNCHANGED sock
  /\ UNCHANGED <<running, fd, handler>>

GiveUpSocket ==
  /\ servePc = "unbind"
  /\ fd' = FALSE
  /\ sock' = IF fd THEN "failed" ELSE sock
  /\ servePc' = "clear"
  /\ UNCHANGED <<running, handler>>

\* Mutant: running_ stays set.
GiveUpQuietly ==
  /\ servePc = "clear"
  /\ servePc' = "exited"
  /\ UNCHANGED <<running, fd, sock, handler>>

GiveUpServing ==
  /\ servePc = "clear"
  /\ running' = FALSE
  /\ servePc' = "exited"
  /\ UNCHANGED <<fd, sock, handler>>

ServeLoop ==
  /\ servePc = "loop"
  /\ servePc' = IF running THEN "accept" ELSE "exited"
  /\ UNCHANGED <<running, fd, sock, handler>>

\* accept on a descriptor that stop() has closed fails.
AcceptFails ==
  /\ servePc = "accept" /\ sock # "listening"
  /\ servePc' = IF running THEN "loop" ELSE "exited"
  /\ UNCHANGED <<running, fd, sock, handler>>

Accept(h) ==
  /\ servePc = "accept" /\ sock = "listening"
  /\ handler[h] = "none"
  /\ handler' = [handler EXCEPT ![h] = "receive"]
  /\ servePc' = "loop"
  /\ UNCHANGED <<running, fd, sock>>

\* Mutant: an accept that fails ends the server.
AcceptErrorEndsServer ==
  /\ servePc = "accept" /\ sock = "listening"
  /\ servePc' = "exited" /\ running' = FALSE
  /\ UNCHANGED <<fd, sock, handler>>

\* A connection aborted, no descriptor left: accept fails on a good socket.
AcceptError ==
  /\ servePc = "accept" /\ sock = "listening"
  /\ servePc' = IF running THEN "loop" ELSE "exited"
  /\ UNCHANGED <<running, fd, sock, handler>>

ServeStep ==
  /\ \/ CreateSocket \/ CheckSocket \/ BindSocket \/ GiveUpSocket
     \/ GiveUpServing \/ ServeLoop \/ AcceptFails
  /\ mainPc # "exited"
  /\ UNCHANGED mainVars

ClientStep ==
  /\ AcceptError \/ \E h \in Handlers : Accept(h)
  /\ mainPc # "exited"
  /\ UNCHANGED mainVars

-----------------------------------------------------------------------------
(* handleClient(). *)

\* The request is complete and has a route; or the client is gone, the
\* request is malformed, a preflight, or has none.
Receive(h) ==
  /\ handler[h] = "receive"
  /\ \E next \in {"query", "none"} : handler' = [handler EXCEPT ![h] = next]

\* The route reads the runtime and the database, and replies.
Query(h) ==
  /\ handler[h] = "query"
  /\ handler' = [handler EXCEPT ![h] = "none"]

HandlerStep(h) ==
  /\ Receive(h) \/ Query(h)
  /\ mainPc # "exited"
  /\ UNCHANGED <<mainVars, running, fd, sock, servePc>>

Next == StartUp \/ TearDown \/ ServeStep \/ ClientStep \/ \E h \in Handlers : HandlerStep(h)

Spec == Init /\ [][Next]_vars

\* main and the serve thread run when they can; no client is obliged to come
\* and none to send its request.
FairSpec == Spec /\ WF_vars(StartUp \/ TearDown) /\ WF_vars(ServeStep)

-----------------------------------------------------------------------------

\* Once start() has reported success, no handler ever meets a closed database
\* or a destroyed server, although handlers are detached and teardown does not
\* wait for them: running_ can only fall before the first client is accepted.
HandlersServed ==
  started = "yes" => \A h \in Handlers :
    handler[h] # "none" => db = "open" /\ mainPc \notin {"destroyed", "exited"}

\* main --web returns 0 for one reason only: the bind failed after start()
\* had reported success, because start() looks at the descriptor, not at the
\* bind.
ZeroMeansBindFailed == exitCode = "0" => sock = "failed"

\* The listening socket is closed once and never reopened: stop() looks at the
\* descriptor and takes it in a second step, and serve() may have failed to
\* bind and closed it in between. A second close would hit whatever socket or
\* file the process has opened under that number since.
ClosedOnce ==
  [][(sock \in {"closed", "failed"}) => sock' = sock]_vars

\* If serve() gives up, main notices, whether it still waits in start(),
\* starts the runtime or watches, and the process ends.
GivingUpEndsMain == servePc = "clear" ~> mainPc = "exited"

\* The destructor returns: it never waits for a serve thread that is blocked
\* in accept.
DestructorReturns == mainPc = "stop" ~> mainPc = "exited"
=============================================================================
