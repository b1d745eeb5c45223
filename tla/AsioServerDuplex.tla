--------------------------- MODULE AsioServerDuplex ---------------------------
(***************************************************************************)
(* Two TCP servers in one, include/asio/AsioServerDuplex.h, over the one   *)
(* AsioService.  Start detaches a thread for each server; each thread runs *)
(* AsioServer::Start and in it the BeforeStart callbacks of both servers,  *)
(* so every acceptor is opened by two threads at a time, call by call as   *)
(* in AsioAcceptor.  The life of RunService is taken from AsioService, cut *)
(* down to what the two servers tell apart.                                *)
(***************************************************************************)
EXTENDS AsioAcceptor, FiniteSets, Sequences

CONSTANTS
  MaxCalls    \* bound: calls of AsioServerDuplex::Start and AsioService::Stop together

ASSUME DuplexAssumption == MaxCalls \in Nat /\ Acceptors = {"in", "out"}

VARIABLES
  active,      \* AsioService::m_Active
  work,        \* AsioService::m_WorkPtr holds the service at work
  thread,      \* [Openers -> where the detached thread is]
  duplex,      \* the thread that calls AsioServerDuplex::Start: [at, k, retval]
  result,      \* what Start returned last: none, true or false
  stopper,     \* the thread that calls AsioService::Stop
  calls,       \* calls of Start and of AsioService::Stop so far
  ended        \* history: a RunService has ended since Start was called

serviceVars == <<active, work, ended>>
acceptorVars == <<openVars, closeVars>>
duplexVars == <<acceptorVars, serviceVars, thread, duplex, result, stopper, calls>>

\* m_Servers, in the order of construction and of the registered callbacks; a server
\* is known by its acceptor.
m_Servers == <<"in", "out">>

\* RunServiceCallbacks goes through the callbacks from the last to the first.
Callback(k) == m_Servers[3 - k]

NoThread == [at |-> "none", k |-> 1, spawns |-> FALSE]

DuplexTypeOK ==
  /\ AcceptorTypeOK
  /\ active \in BOOLEAN /\ work \in BOOLEAN /\ ended \in BOOLEAN
  /\ thread \in [Openers ->
       [ at : {"none", "server", "start", "try", "spawn", "check", "activate", "running"},
         k : 1 .. 2, spawns : BOOLEAN ]]
  /\ duplex \in [at : {"idle", "server", "asks"}, k : 1 .. 3, retval : BOOLEAN]
  /\ result \in {"none", "true", "false"}
  /\ stopper \in [at : {"idle", "callback", "check", "stop", "flag"}, k : 1 .. 2]
  /\ calls \in 0 .. MaxCalls

DuplexInit ==
  /\ AcceptorInit
  /\ active = FALSE /\ work = FALSE /\ ended = FALSE
  /\ thread = [t \in Openers |-> NoThread]
  /\ duplex = [at |-> "idle", k |-> 1, retval |-> TRUE] /\ result = "none"
  /\ stopper = [at |-> "idle", k |-> 1] /\ calls = 0

-----------------------------------------------------------------------------
(* AsioServerDuplex::Start, with two servers that are valid.               *)

Start ==
  /\ duplex.at = "idle" /\ calls < MaxCalls
  /\ calls' = calls + 1
  /\ duplex' = [at |-> "server", k |-> 1, retval |-> TRUE]
  /\ result' = "none" /\ ended' = FALSE
  /\ UNCHANGED <<acceptorVars, active, work, thread, stopper>>

\* IsActive of a server is the m_Active of the one service.
StartServer ==
  /\ duplex.at = "server" /\ duplex.k <= Len(m_Servers)
  /\ IF active
       THEN duplex' = [duplex EXCEPT !.k = @ + 1] /\ UNCHANGED thread
       ELSE /\ duplex' = [duplex EXCEPT !.at = "asks"]
            /\ \E t \in Openers :
                 /\ thread[t].at = "none"
                 /\ thread' = [thread EXCEPT ![t] = [NoThread EXCEPT !.at = "server"]]
  /\ UNCHANGED <<acceptorVars, serviceVars, result, stopper, calls>>

\* A Start that does not ask the server it has just started.
StartAsksNothing ==
  /\ duplex.at = "asks"
  /\ duplex' = [duplex EXCEPT !.at = "server", !.k = @ + 1]
  /\ UNCHANGED <<acceptorVars, serviceVars, thread, result, stopper, calls>>

\* The thread has been detached; whether it is active is asked right behind that.
StartAsks ==
  /\ duplex.at = "asks"
  /\ duplex' = [at |-> "server", k |-> duplex.k + 1, retval |-> duplex.retval /\ active]
  /\ UNCHANGED <<acceptorVars, serviceVars, thread, result, stopper, calls>>

StartReturns ==
  /\ duplex.at = "server" /\ duplex.k > Len(m_Servers)
  /\ result' = IF duplex.retval THEN "true" ELSE "false"
  /\ duplex' = [duplex EXCEPT !.at = "idle", !.k = 1]
  /\ UNCHANGED <<acceptorVars, serviceVars, thread, stopper, calls>>

-----------------------------------------------------------------------------
(* The detached threads.                                                   *)

ThreadTo(t, to) ==
  /\ thread' = [thread EXCEPT ![t] = to]
  /\ UNCHANGED <<duplex, result, stopper, calls>>

\* AsioServer::Start asks IsActive first.
ServerStart(t) ==
  /\ thread[t].at = "server"
  /\ ThreadTo(t, IF active THEN NoThread ELSE [thread[t] EXCEPT !.at = "start"])
  /\ UNCHANGED <<acceptorVars, serviceVars>>

\* AsioService::Start asks again, keeps the answer and runs the callbacks.
ServiceStart(t) ==
  /\ thread[t].at = "start"
  /\ ThreadTo(t, [thread[t] EXCEPT !.at = "try", !.k = 1, !.spawns = ~active])
  /\ UNCHANGED <<acceptorVars, serviceVars>>

\* The callback of the k-th server, as far as StartAcceptor calls TryOpen.
CallbackOpens(t) ==
  /\ thread[t].at = "try"
  /\ TryOpen(t, Callback(thread[t].k))
  /\ UNCHANGED <<closeVars, serviceVars, thread, duplex, result, stopper, calls>>

\* Where a thread goes after the callback of its k-th server.
AfterCallback(r) ==
  IF r.k < Len(m_Servers) THEN [r EXCEPT !.k = @ + 1]
  ELSE IF r.spawns THEN [r EXCEPT !.at = "spawn"]
  ELSE NoThread

CallbackReturns(t) ==
  /\ thread[t].at = "try"
  /\ \/ \E inTime \in BOOLEAN : TryOpenReturns(t, inTime)
     \/ SocketsRefused(t, Callback(thread[t].k))
  /\ ThreadTo(t, AfterCallback(thread[t]))
  /\ UNCHANGED <<closeVars, serviceVars>>

Opens(t) ==
  /\ Task(t)
  /\ UNCHANGED <<closeVars, serviceVars, thread, duplex, result, stopper, calls>>

\* RunThreadService; the identity goes on as the thread of RunService.
Spawn(t) ==
  /\ thread[t].at = "spawn"
  /\ ThreadTo(t, IF active THEN NoThread ELSE [thread[t] EXCEPT !.at = "check"])
  /\ UNCHANGED <<acceptorVars, serviceVars>>

RunChecks(t) ==
  /\ thread[t].at = "check"
  /\ ThreadTo(t, IF active THEN NoThread ELSE [thread[t] EXCEPT !.at = "activate"])
  /\ UNCHANGED <<acceptorVars, serviceVars>>

RunActivates(t) ==
  /\ thread[t].at = "activate"
  /\ ThreadTo(t, [thread[t] EXCEPT !.at = "running"])
  /\ active' = TRUE /\ work' = TRUE
  /\ UNCHANGED <<acceptorVars, ended>>

\* A handler run by the service stores its error in the cell.
RunHandles(t) ==
  /\ thread[t].at = "running"
  /\ HandlerWrites
  /\ UNCHANGED <<closeVars, serviceVars, thread, duplex, result, stopper, calls>>

\* run() returns: it sees the stop flag before Stop resets it, or nothing holds it.
RunEnds(t) ==
  /\ thread[t].at = "running" /\ (stopper.at = "flag" \/ ~work)
  /\ ThreadTo(t, NoThread)
  /\ active' = FALSE /\ ended' = TRUE
  /\ UNCHANGED <<acceptorVars, work>>

\* An exception of a handler leaves run().
RunThrows(t) ==
  /\ thread[t].at = "running" /\ spawned # {}
  /\ ThreadTo(t, NoThread)
  /\ active' = FALSE /\ work' = FALSE /\ ended' = TRUE
  /\ UNCHANGED acceptorVars

-----------------------------------------------------------------------------
(* AsioService::Stop by another thread, in the way every server stops:     *)
(* the BeforeStop callbacks close one acceptor after the other, then the   *)
(* service is stopped.                                                     *)

stopVars == <<thread, duplex, result>>

StopCalled ==
  /\ stopper.at = "idle" /\ calls < MaxCalls
  /\ stopper' = [at |-> "callback", k |-> 1] /\ calls' = calls + 1
  /\ StopAcceptor(Callback(1))
  /\ UNCHANGED <<serviceVars, stopVars>>

StopCloses ==
  /\ stopper.at = "callback" /\ CloseStep
  /\ UNCHANGED <<serviceVars, stopVars, stopper, calls>>

StopGoesOn ==
  /\ stopper.at = "callback" /\ closing.at = "idle"
  /\ IF stopper.k < Len(m_Servers)
       THEN StopAcceptor(Callback(stopper.k + 1)) /\ stopper' = [stopper EXCEPT !.k = @ + 1]
       ELSE UNCHANGED acceptorVars /\ stopper' = [at |-> "check", k |-> 1]
  /\ UNCHANGED <<serviceVars, stopVars, calls>>

StopChecks ==
  /\ stopper.at = "check"
  /\ IF active THEN stopper' = [stopper EXCEPT !.at = "stop"] /\ work' = FALSE
               ELSE stopper' = [stopper EXCEPT !.at = "idle"] /\ UNCHANGED work
  /\ UNCHANGED <<acceptorVars, active, ended, stopVars, calls>>

StopService ==
  /\ stopper.at = "stop"
  /\ stopper' = [stopper EXCEPT !.at = "flag"]
  /\ UNCHANGED <<acceptorVars, serviceVars, stopVars, calls>>

StopReturns ==
  /\ stopper.at = "flag"
  /\ stopper' = [stopper EXCEPT !.at = "idle"]
  /\ UNCHANGED <<acceptorVars, serviceVars, stopVars, calls>>

-----------------------------------------------------------------------------
StartCall == StartServer \/ StartAsks \/ StartReturns

ThreadStep(t) ==
  \/ ServerStart(t) \/ ServiceStart(t) \/ CallbackOpens(t) \/ CallbackReturns(t)
  \/ Spawn(t) \/ RunChecks(t) \/ RunActivates(t)

StopCall == StopCloses \/ StopGoesOn \/ StopChecks \/ StopService \/ StopReturns

DuplexNext ==
  \/ Start \/ StartCall \/ StopCalled \/ StopCall
  \/ \E t \in Openers :
       ThreadStep(t) \/ Opens(t) \/ RunHandles(t) \/ RunEnds(t) \/ RunThrows(t)

\* Threads run, the tasks of TryOpen as well.  Nothing is asked of the calls of Start
\* and Stop, of handlers and of the end of run().
DuplexFairness ==
  /\ WF_duplexVars(StartCall) /\ WF_duplexVars(StopCall)
  /\ \A t \in Openers : WF_duplexVars(ThreadStep(t)) /\ WF_duplexVars(Opens(t))

DuplexSpec == DuplexInit /\ [][DuplexNext]_duplexVars /\ DuplexFairness

-----------------------------------------------------------------------------
(* Properties.                                                             *)

\* An acceptor that was started: no failed or repeated call was taken for success
\* unless the system refused one, and a coroutine accepts unless a TryOpen was late.
Serves(a) ==
  /\ IsOpen(a)
  /\ a \notin refused => socket[a] = "listening"
  /\ a \notin refused \cup late => a \in spawned

\* The service is active only when every acceptor that no Stop has reached serves,
\* although two threads at a time open it and read one another's errors: whichever
\* of them gets through has been through the callbacks of both servers
\* (AsioService::Start, TryOpen, IsError).
ActiveMeansServing == active => \A a \in Acceptors \ stopped : Serves(a)

\* A Start that returned true found both acceptors serving, or stopped since, and has
\* left the service active unless its run() has ended (AsioServerDuplex::Start).
TrueMeansServing ==
  result = "true" => (active \/ ended) /\ \A a \in Acceptors \ stopped : Serves(a)

\* Start is documented to bring the servers up: unless somebody stops them, the
\* service becomes active (AsioServerDuplex::Start).
StartComesThrough == duplex.at = "server" ~> active \/ stopped # {} \/ refused # {}
=============================================================================
