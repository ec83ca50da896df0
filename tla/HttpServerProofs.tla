-------------------------- MODULE HttpServerProofs ---------------------------
(***************************************************************************)
(* Safety of the HTTP server's life cycle, for any number of handlers and  *)
(* any length of the polling window.                                       *)
(***************************************************************************)
EXTENDS HttpServer, TLAPS

\* main has not yet entered ~HttpApiServer().
BeforeStop ==
  mainPc \in {"initialize", "start", "poll", "report", "startRuntime", "watch",
              "stopRuntime", "closeDatabase", "stop"}

\* Until main starts the server there is no thread, and only a failed
\* initialisation lets main go on without one.
Unstarted ==
  /\ mainPc \in {"initialize", "start"} => servePc = "none"
  /\ servePc = "none" =>
       /\ ~running /\ ~fd /\ sock = "none" /\ started = "none"
       /\ mainPc \in {"initialize", "start", "closeDatabase", "exited"}

\* Until main stops the server the serve thread alone owns the descriptor,
\* and running_ is set exactly while the thread runs.
Descriptor ==
  BeforeStop =>
    /\ fd <=> sock \in {"open", "listening"}
    /\ servePc \in {"none", "socket"} => sock = "none"
    /\ servePc = "check" => sock \in {"none", "open"}
    /\ servePc \in {"bind", "unbind"} => sock = "open"
    /\ servePc = "clear" => sock = "failed"
    /\ servePc \in {"loop", "accept"} => sock = "listening"
    /\ servePc = "exited" => sock \in {"none", "failed"}
    /\ servePc \in {"none", "exited"} <=> ~running

\* After a successful start() main leaves the watching loop only if the
\* thread has given up its socket.
Reported ==
  /\ mainPc \in {"start", "poll", "report", "startRuntime", "watch"} => db = "open"
  /\ mainPc \in {"startRuntime", "watch"} => started = "yes"
  /\ started = "yes" =>
       /\ sock # "none"
       /\ \/ mainPc \in {"startRuntime", "watch"}
          \/ sock = "failed" /\ ~fd /\ servePc = "exited"
  /\ exitCode = "0" => started = "yes" /\ mainPc \notin {"startRuntime", "watch"}

\* A handler exists only once the socket was listening.
Accepted ==
  (\E h \in Handlers : handler[h] # "none") =>
    servePc \in {"loop", "accept", "exited"} /\ sock \in {"listening", "closed"}

\* A descriptor is the serve thread's until one side takes it back, and once
\* the socket is closed there is none to take.
Owned ==
  /\ fd => servePc \notin {"none", "socket"}
  /\ sock \in {"closed", "failed"} => ~fd /\ servePc \notin {"none", "socket"}

HttpInv ==
  HttpTypeOK /\ Unstarted /\ Descriptor /\ Reported /\ Accepted /\ Owned

\* The initial state satisfies the invariant.
LEMMA InitHttp == Init => HttpInv
<1> SUFFICES ASSUME Init PROVE HttpInv
  OBVIOUS
<1>1. ~running /\ ~fd /\ running \in BOOLEAN /\ fd \in BOOLEAN
  BY Zenon DEF Init
<1>2. /\ mainPc = "initialize" /\ polls = 0 /\ started = "none" /\ exitCode = "none"
      /\ runtime = "new" /\ db = "closed" /\ sock = "none" /\ servePc = "none"
      /\ handler = [h \in Handlers |-> "none"]
  BY Zenon DEF Init
<1> QED
  BY <1>1, <1>2, HttpAssumption
  DEF HttpInv, HttpTypeOK, MainPcs, ServePcs, Unstarted, Descriptor, BeforeStop,
      Reported, Accepted, Owned

\* main up to the watching loop keeps the invariant.
LEMMA StartUpStep == HttpInv /\ StartUp => HttpInv'
<1> USE HttpAssumption DEF HttpInv, HttpTypeOK, MainPcs, ServePcs, Unstarted,
      Descriptor, BeforeStop, Reported, Accepted, Owned
<1> SUFFICES ASSUME HttpInv, StartUp PROVE HttpInv'
  OBVIOUS
<1>1. CASE InitializeRuntime
  BY <1>1 DEF StartUp, InitializeRuntime
<1>2. CASE StartServer
  <2>1. running' /\ running' \in BOOLEAN
    BY <1>2, Zenon DEF StartServer
  <2>2. /\ mainPc = "start" /\ mainPc' = "poll" /\ servePc' = "socket"
        /\ UNCHANGED <<polls, started, exitCode, runtime, db, fd, sock, handler>>
    BY <1>2, Zenon DEF StartUp, StartServer
  <2> QED
    BY <2>1, <2>2
<1>3. CASE Poll
  BY <1>3 DEF StartUp, Poll
<1>4. CASE ReportStart
  BY <1>4 DEF StartUp, ReportStart
<1>5. CASE StartRuntime
  BY <1>5 DEF StartUp, StartRuntime
<1>6. CASE WatchEnds
  BY <1>6 DEF StartUp, WatchEnds
<1> QED
  BY <1>1, <1>2, <1>3, <1>4, <1>5, <1>6 DEF StartUp

\* Teardown keeps it, although the serve thread may still run.
LEMMA TearDownStep == HttpInv /\ TearDown => HttpInv'
<1> USE HttpAssumption DEF HttpInv, HttpTypeOK, MainPcs, ServePcs, Unstarted,
      Descriptor, BeforeStop, Reported, Accepted, Owned
<1> SUFFICES ASSUME HttpInv, TearDown PROVE HttpInv'
  OBVIOUS
<1>1. CASE StopRuntime
  BY <1>1 DEF TearDown, StopRuntime
<1>2. CASE CloseDatabase
  BY <1>2 DEF TearDown, CloseDatabase
<1>3. CASE StopClearsFlag
  <2>1. ~running' /\ running' \in BOOLEAN
    BY <1>3, Zenon DEF StopClearsFlag
  <2>2. /\ mainPc = "stop" /\ mainPc' = "stopCheck"
        /\ UNCHANGED <<polls, started, exitCode, runtime, db, servePc, fd, sock, handler>>
    BY <1>3, Zenon DEF TearDown, StopClearsFlag
  <2> QED
    BY <2>1, <2>2
<1>4. CASE StopReadsDescriptor
  BY <1>4 DEF TearDown, StopReadsDescriptor
<1>5. CASE StopClosesSocket
  <2>1. ~fd' /\ fd' \in BOOLEAN
    BY <1>5, Zenon DEF StopClosesSocket
  <2>2. /\ mainPc = "stopClose" /\ mainPc' = "join"
        /\ sock' = IF fd THEN "closed" ELSE sock
        /\ UNCHANGED <<polls, started, exitCode, runtime, db, servePc, running, handler>>
    BY <1>5, Zenon DEF TearDown, StopClosesSocket
  <2> QED
    BY <2>1, <2>2
<1>6. CASE StopJoins
  BY <1>6 DEF TearDown, StopJoins
<1>7. CASE Exit
  BY <1>7 DEF TearDown, Exit
<1> QED
  BY <1>1, <1>2, <1>3, <1>4, <1>5, <1>6, <1>7 DEF TearDown

\* The serve thread keeps it, before and after main closes its socket.
LEMMA ServeKeeps == HttpInv /\ ServeStep => HttpInv'
<1> USE HttpAssumption DEF HttpInv, HttpTypeOK, MainPcs, ServePcs, Unstarted,
      Descriptor, BeforeStop, Reported, Accepted, Owned, mainVars
<1> SUFFICES ASSUME HttpInv, ServeStep PROVE HttpInv'
  OBVIOUS
<1>1. CASE CreateSocket
  <2>1. /\ servePc = "socket" /\ servePc' = "check"
        /\ UNCHANGED <<mainVars, running, handler>>
    BY <1>1, Zenon DEF ServeStep, CreateSocket
  <2>2. CASE fd' = TRUE /\ sock' = "open"
    <3>1. fd' /\ fd' \in BOOLEAN
      BY <2>2, Zenon
    <3> QED
      BY <2>1, <2>2, <3>1
  <2>3. CASE UNCHANGED <<fd, sock>>
    BY <2>1, <2>3
  <2> QED
    BY <1>1, <2>2, <2>3, Zenon DEF CreateSocket
<1>2. CASE CheckSocket
  <2>1. /\ servePc = "check"
        /\ UNCHANGED <<mainVars, fd, sock, handler>>
    BY <1>2, Zenon DEF ServeStep, CheckSocket
  <2>2. CASE fd
    BY <1>2, <2>1, <2>2 DEF CheckSocket
  <2>3. CASE ~fd
    <3>1. ~running' /\ running' \in BOOLEAN /\ servePc' = "exited"
      BY <1>2, <2>3, Zenon DEF CheckSocket
    <3> QED
      BY <2>1, <2>3, <3>1
  <2> QED
    BY <2>2, <2>3, Zenon
<1>3. CASE BindSocket
  BY <1>3 DEF ServeStep, BindSocket
<1>4. CASE GiveUpSocket
  <2>1. ~fd' /\ fd' \in BOOLEAN
    BY <1>4, Zenon DEF GiveUpSocket
  <2>2. /\ servePc = "unbind" /\ servePc' = "clear"
        /\ sock' = IF fd THEN "failed" ELSE sock
        /\ UNCHANGED <<mainVars, running, handler>>
    BY <1>4, Zenon DEF ServeStep, GiveUpSocket
  <2> QED
    BY <2>1, <2>2
<1>5. CASE GiveUpServing
  <2>1. ~running' /\ running' \in BOOLEAN
    BY <1>5, Zenon DEF GiveUpServing
  <2>2. /\ servePc = "clear" /\ servePc' = "exited"
        /\ UNCHANGED <<mainVars, fd, sock, handler>>
    BY <1>5, Zenon DEF ServeStep, GiveUpServing
  <2> QED
    BY <2>1, <2>2
<1>6. CASE ServeLoop
  BY <1>6 DEF ServeStep, ServeLoop
<1>7. CASE AcceptFails
  BY <1>7 DEF ServeStep, AcceptFails
<1> QED
  BY <1>1, <1>2, <1>3, <1>4, <1>5, <1>6, <1>7 DEF ServeStep

\* So do clients and handlers.
LEMMA ClientsKeep ==
  ASSUME HttpInv, ClientStep \/ \E h \in Handlers : HandlerStep(h)
  PROVE  HttpInv'
<1> USE HttpAssumption DEF HttpInv, HttpTypeOK, MainPcs, ServePcs, Unstarted,
      Descriptor, BeforeStop, Reported, Accepted, Owned, mainVars
<1>1. CASE ClientStep /\ AcceptError
  BY <1>1 DEF ClientStep, AcceptError
<1>2. CASE ClientStep /\ \E h \in Handlers : Accept(h)
  BY <1>2 DEF ClientStep, Accept
<1>3. ASSUME NEW h \in Handlers, HandlerStep(h)
      PROVE  HttpInv'
  BY <1>3 DEF HandlerStep, Receive, Query
<1> QED
  BY <1>1, <1>2, <1>3 DEF ClientStep

\* The invariant holds in every reachable state.
THEOREM HttpInvariance == Spec => []HttpInv
<1>1. HttpInv /\ UNCHANGED vars => HttpInv'
  BY DEF HttpInv, HttpTypeOK, MainPcs, ServePcs, Unstarted, Descriptor,
         BeforeStop, Reported, Accepted, Owned, vars, mainVars
<1>2. HttpInv /\ [Next]_vars => HttpInv'
  BY <1>1, StartUpStep, TearDownStep, ServeKeeps, ClientsKeep DEF Next
<1> QED
  BY <1>2, InitHttp, PTL DEF Spec

\* Every step of main, of the serve thread and of the clients keeps the types
\* of the server's state: the descriptor, the flags and the program counters.
THEOREM HttpTyped == Spec => []HttpTypeOK
<1>1. HttpInv => HttpTypeOK
  BY DEF HttpInv
<1> QED
  BY <1>1, HttpInvariance, PTL

\* Once start() has reported success, no handler meets a closed database or
\* a destroyed server.
THEOREM HandlersAreServed == Spec => []HandlersServed
<1>1. HttpInv => HandlersServed
  BY DEF HttpInv, Reported, Accepted, HandlersServed
<1> QED
  BY <1>1, HttpInvariance, PTL

\* main --web returns 0 only after a bind that failed behind start()'s back.
THEOREM ZeroExit == Spec => []ZeroMeansBindFailed
<1>1. HttpInv => ZeroMeansBindFailed
  BY DEF HttpInv, Reported, ZeroMeansBindFailed
<1> QED
  BY <1>1, HttpInvariance, PTL

\* No step of main, of the serve thread or of a client closes the listening
\* socket a second time or opens it again.
THEOREM SocketClosesOnce == Spec => ClosedOnce
<1>1. HttpInv /\ [Next]_vars => [(sock \in {"closed", "failed"}) => sock' = sock]_vars
  <2> SUFFICES ASSUME HttpInv, Next, sock \in {"closed", "failed"} PROVE sock' = sock
    BY DEF vars
  <2>1. ~fd /\ servePc # "socket"
    BY DEF HttpInv, Owned
  <2>2. CASE StartUp
    BY <2>2 DEF StartUp
  <2>3. CASE TearDown
    BY <2>1, <2>3 DEF TearDown, StopRuntime, CloseDatabase, StopClearsFlag,
       StopReadsDescriptor, StopClosesSocket, StopJoins, Exit
  <2>4. CASE ServeStep
    BY <2>1, <2>4 DEF ServeStep, CreateSocket, CheckSocket, BindSocket, GiveUpSocket,
       GiveUpServing, ServeLoop, AcceptFails
  <2>5. CASE ClientStep \/ \E h \in Handlers : HandlerStep(h)
    BY <2>5 DEF ClientStep, AcceptError, Accept, HandlerStep
  <2> QED
    BY <2>2, <2>3, <2>4, <2>5 DEF Next
<1> QED
  BY <1>1, HttpInvariance, PTL DEF ClosedOnce, Spec
=============================================================================
