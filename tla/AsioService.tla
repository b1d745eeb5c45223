----------------------------- MODULE AsioService -----------------------------
(***************************************************************************)
(* The life of the one io_service of the program: AsioService::Start,      *)
(* Poll, Stop and RunService of tools/asio/src/AsioService.cpp, called by  *)
(* any thread, and the signal handlers of AsioSignals.cpp, which call      *)
(* Start and Stop from inside the service.  m_Active, m_WorkPtr and the    *)
(* stop flag of the io_service are read and written one at a time.         *)
(* Of the callbacks a server registers, only what they leave in the        *)
(* io_service is kept: the accept that is pending while its acceptor is    *)
(* open.                                                                   *)
(***************************************************************************)
EXTENDS Naturals, FiniteSets

CONSTANTS
  Callers,    \* threads of the program that call Start, Stop and Poll
  Threads,    \* identities of detached threads that execute RunService
  Acceptor,   \* whether a server has registered its acceptor
  Signals,    \* whether SetSignalsDefault has been called
  Polls       \* whether the program calls Poll

ASSUME ServiceAssumption ==
  /\ Callers \cap Threads = {}
  /\ Acceptor \in BOOLEAN /\ Signals \in BOOLEAN /\ Polls \in BOOLEAN

VARIABLES
  active,    \* m_Active
  work,      \* m_WorkPtr holds a work object
  stopped,   \* the io_service is in the stopped state
  accept,    \* the acceptor's operation: none, pending, or aborted and ready to run
  run,       \* run[t]: where the thread t is in RunService
  call,      \* call[c]: where c is in Start, Poll or Stop
  restart,   \* restart[t]: the signal handler run by t goes on with Start
  asked      \* asked[t]: some Stop has been under way since t was spawned

vars == <<active, work, stopped, accept, run, call, restart, asked>>

Actors == Callers \cup Threads

RunPlaces == {"none", "check", "activate", "work", "enter", "running", "handler",
              "reset", "inactive", "failed"}
CallPlaces == {"idle", "start", "prepare", "prepareOnly", "preparePoll", "spawn",
               "hung", "poll", "pollRun",
               "stop", "stopCheck", "stopWork", "stopFlag", "stopClear"}

\* A Stop between its callbacks and its return.
Stopping(c) == call[c] \in {"stopCheck", "stopWork", "stopFlag", "stopClear"}

TypeOK ==
  /\ active \in BOOLEAN /\ work \in BOOLEAN /\ stopped \in BOOLEAN
  /\ accept \in {"none", "pending", "ready"}
  /\ run \in [Threads -> RunPlaces]
  /\ call \in [Actors -> CallPlaces]
  /\ restart \in [Threads -> BOOLEAN]
  /\ asked \in [Threads -> BOOLEAN]
  /\ \A t \in Threads : call[t] # "idle" \/ restart[t] => run[t] = "handler"

Init ==
  /\ active = FALSE /\ work = FALSE /\ stopped = FALSE /\ accept = "none"
  /\ run = [t \in Threads |-> "none"]
  /\ call = [c \in Actors |-> "idle"]
  /\ restart = [t \in Threads |-> FALSE]
  /\ asked = [t \in Threads |-> FALSE]

\* The io_service has something to wait for: the work object, the accept, or the
\* wait for a signal, which SignalHandler always begins anew.
Outstanding(w, a) == w \/ a # "none" \/ Signals

\* The io_service stops itself when the last of it ends.
StopsItself(w, a) == stopped' = (stopped \/ ~Outstanding(w, a))

Goto(c, place) == call' = [call EXCEPT ![c] = place]
RunTo(t, place) == run' = [run EXCEPT ![t] = place]

\* A thread of the program calls a method; a signal handler is called by RunSignal.
Call(c) ==
  /\ c \in Callers
  /\ call[c] = "idle"
  /\ \E m \in {"start", "stop"} \cup (IF Polls THEN {"poll"} ELSE {}) : Goto(c, m)
  /\ UNCHANGED <<active, work, stopped, accept, run, restart, asked>>

-----------------------------------------------------------------------------
(* Start.                                                                  *)

\* retval is read before the callbacks run and decides on what follows them.
StartReads(c) ==
  /\ call[c] = "start"
  /\ Goto(c, IF active THEN "prepareOnly" ELSE "prepare")
  /\ UNCHANGED <<active, work, stopped, accept, run, restart, asked>>

\* The BeforeStart callbacks run in any case.  StartAcceptor opens a closed
\* acceptor; of an open one TryOpen never returns (AsioAcceptor).
Prepare(c) ==
  /\ call[c] \in {"prepare", "prepareOnly", "preparePoll"}
  /\ IF Acceptor /\ accept = "pending"
       THEN Goto(c, "hung") /\ UNCHANGED accept
       ELSE /\ Goto(c, CASE call[c] = "prepare"     -> "spawn"
                         [] call[c] = "prepareOnly" -> "idle"
                         [] call[c] = "preparePoll" -> "pollRun")
            /\ accept' = IF Acceptor THEN "pending" ELSE accept
  /\ UNCHANGED <<active, work, stopped, run, restart, asked>>

\* RunThreadService asks IsActive again and detaches a thread.
Spawn(c) ==
  /\ call[c] = "spawn"
  /\ Goto(c, "idle")
  /\ IF active
       THEN UNCHANGED <<run, asked>>
       ELSE \E t \in Threads :
              /\ run[t] = "none"
              /\ RunTo(t, "check")
              /\ asked' = [asked EXCEPT ![t] = \E d \in Actors : Stopping(d)]
  /\ UNCHANGED <<active, work, stopped, accept, restart>>

-----------------------------------------------------------------------------
(* Stop.                                                                   *)

\* The BeforeStop callbacks: StopAcceptor closes, the accept is aborted.
StopPrepares(c) ==
  /\ call[c] = "stop"
  /\ Goto(c, "stopCheck")
  /\ accept' = IF accept = "pending" THEN "ready" ELSE accept
  /\ asked' = [t \in Threads |-> TRUE]
  /\ UNCHANGED <<active, work, stopped, run, restart>>

\* Where the method returns to: a restart goes on with Start.
Returns(c) == Goto(c, IF c \in Threads /\ restart[c] THEN "start" ELSE "idle")
ForgetRestart(c) == restart' = [t \in Threads |-> IF t = c THEN FALSE ELSE restart[t]]

StopChecks(c) ==
  /\ call[c] = "stopCheck"
  /\ IF active THEN Goto(c, "stopWork") /\ UNCHANGED restart
               ELSE Returns(c) /\ ForgetRestart(c)
  /\ UNCHANGED <<active, work, stopped, accept, run, asked>>

StopReleasesWork(c) ==
  /\ call[c] = "stopWork"
  /\ Goto(c, "stopFlag")
  /\ work' = FALSE
  /\ StopsItself(FALSE, accept)
  /\ UNCHANGED <<active, accept, run, restart, asked>>

\* m_Service.stop() on a thread of its own, for which the caller waits.
StopSetsFlag(c) ==
  /\ call[c] = "stopFlag"
  /\ Goto(c, "stopClear")
  /\ stopped' = TRUE
  /\ UNCHANGED <<active, work, accept, run, restart, asked>>

\* A Stop without m_Service.reset().
StopKeepsFlag(c) ==
  /\ call[c] = "stopClear"
  /\ Returns(c) /\ ForgetRestart(c)
  /\ UNCHANGED <<active, work, stopped, accept, run, asked>>

\* m_Service.reset() right behind it.
StopClearsFlag(c) ==
  /\ call[c] = "stopClear"
  /\ Returns(c) /\ ForgetRestart(c)
  /\ stopped' = FALSE
  /\ UNCHANGED <<active, work, accept, run, asked>>

-----------------------------------------------------------------------------
(* Poll.                                                                   *)

PollChecks(c) ==
  /\ call[c] = "poll"
  /\ Goto(c, IF active THEN "idle" ELSE "preparePoll")
  /\ UNCHANGED <<active, work, stopped, accept, run, restart, asked>>

\* poll() executes the handlers that are ready, unless the io_service is stopped,
\* and leaves an io_service without anything to wait for stopped.
PollRuns(c) ==
  /\ call[c] = "pollRun"
  /\ Goto(c, "idle")
  /\ accept' = IF accept = "ready" /\ ~stopped THEN "none" ELSE accept
  /\ StopsItself(work, accept')
  /\ UNCHANGED <<active, work, run, restart, asked>>

-----------------------------------------------------------------------------
(* RunService, on a detached thread.                                       *)

RunChecks(t) ==
  /\ run[t] = "check"
  /\ RunTo(t, IF active THEN "none" ELSE "activate")
  /\ UNCHANGED <<active, work, stopped, accept, call, restart, asked>>

\* A RunService that does not set m_Active.
RunForgetsActive(t) ==
  /\ run[t] = "activate"
  /\ RunTo(t, "work")
  /\ UNCHANGED <<active, work, stopped, accept, call, restart, asked>>

\* m_Active is set.
RunActivates(t) ==
  /\ run[t] = "activate"
  /\ RunTo(t, "work")
  /\ active' = TRUE
  /\ UNCHANGED <<work, stopped, accept, call, restart, asked>>

\* A new work object replaces any other.
RunMakesWork(t) ==
  /\ run[t] = "work"
  /\ RunTo(t, "enter")
  /\ work' = TRUE
  /\ UNCHANGED <<active, stopped, accept, call, restart, asked>>

\* run() begins; without anything to wait for it stops the io_service at once.
RunEnters(t) ==
  /\ run[t] = "enter"
  /\ RunTo(t, "running")
  /\ StopsItself(work, accept)
  /\ UNCHANGED <<active, work, accept, call, restart, asked>>

\* run() finds the io_service stopped and returns.
RunReturns(t) ==
  /\ run[t] = "running" /\ stopped
  /\ RunTo(t, "reset")
  /\ UNCHANGED <<active, work, stopped, accept, call, restart, asked>>

\* run() executes the handler of the aborted accept, which ends the coroutine.
RunHandler(t) ==
  /\ run[t] = "running" /\ ~stopped
  /\ accept = "ready"
  /\ accept' = "none"
  /\ StopsItself(work, "none")
  /\ UNCHANGED <<active, work, run, call, restart, asked>>

\* run() executes SignalHandler, which calls Stop, Start, or one after the other.
RunSignal(t) ==
  /\ Signals
  /\ run[t] = "running" /\ ~stopped
  /\ RunTo(t, "handler")
  /\ \E m \in {"start", "stop"}, again \in BOOLEAN :
       /\ again => m = "stop"
       /\ Goto(t, m)
       /\ restart' = [restart EXCEPT ![t] = again]
  /\ UNCHANGED <<active, work, stopped, accept, asked>>

\* The handler ends with the wait for the next signal.
RunSignalEnds(t) ==
  /\ run[t] = "handler" /\ call[t] = "idle"
  /\ RunTo(t, "running")
  /\ UNCHANGED <<active, work, stopped, accept, call, restart, asked>>

\* A handler of a server throws out of run(): the set_option calls of a session's
\* SetSocketOptions and the std::async of its Stop stand outside any try.
RunThrows(t) ==
  /\ run[t] = "running" /\ ~stopped
  /\ accept = "pending"
  /\ RunTo(t, "failed")
  /\ UNCHANGED <<active, work, stopped, accept, call, restart, asked>>

RunFails(t) ==
  /\ run[t] = "failed"
  /\ RunTo(t, "inactive")
  /\ work' = FALSE
  /\ StopsItself(FALSE, accept)
  /\ UNCHANGED <<active, accept, call, restart, asked>>

\* The io_service is made ready for another run().
RunResets(t) ==
  /\ run[t] = "reset"
  /\ RunTo(t, "inactive")
  /\ stopped' = FALSE
  /\ UNCHANGED <<active, work, accept, call, restart, asked>>

\* A RunService that leaves m_Active set.
RunStaysActive(t) ==
  /\ run[t] = "inactive"
  /\ RunTo(t, "none")
  /\ UNCHANGED <<active, work, stopped, accept, call, restart, asked>>

\* m_Active is cleared, after run() has returned the AfterStop callbacks run, and
\* the thread ends.
RunEnds(t) ==
  /\ run[t] = "inactive"
  /\ RunTo(t, "none")
  /\ active' = FALSE
  /\ UNCHANGED <<work, stopped, accept, call, restart, asked>>

-----------------------------------------------------------------------------
\* The steps of a method that has been called.
Proceed(c) ==
  \/ StartReads(c) \/ Prepare(c) \/ Spawn(c)
  \/ StopPrepares(c) \/ StopChecks(c) \/ StopReleasesWork(c)
  \/ StopSetsFlag(c) \/ StopClearsFlag(c)
  \/ PollChecks(c) \/ PollRuns(c)

\* The steps of RunService that do not wait for anything outside.
RunService(t) ==
  \/ RunChecks(t) \/ RunActivates(t) \/ RunMakesWork(t) \/ RunEnters(t)
  \/ RunReturns(t) \/ RunHandler(t) \/ RunSignalEnds(t)
  \/ RunFails(t) \/ RunResets(t) \/ RunEnds(t)

Next ==
  \/ \E c \in Callers : Call(c)
  \/ \E c \in Actors : Proceed(c)
  \/ \E t \in Threads : RunService(t) \/ RunSignal(t) \/ RunThrows(t)

\* Threads are scheduled; nobody owes a call or a signal.
Fairness ==
  /\ \A c \in Actors : WF_vars(Proceed(c))
  /\ \A t \in Threads : WF_vars(RunService(t))

Spec == Init /\ [][Next]_vars
FairSpec == Spec /\ Fairness

-----------------------------------------------------------------------------
(* Properties.                                                             *)

\* m_Active never outlives the thread that set it: whatever threads overlap in
\* RunService, an active service has one that is going to clear the flag, so no
\* Start is turned away for good (RunService).
ActiveHasThread ==
  active => \E t \in Threads : run[t] \notin {"none", "check", "activate"}

\* run() returns only to a thread that some Stop has been under way for since it
\* was spawned: no end of an earlier run, failed or stopped, leaves the io_service
\* stopped for the next one (RunService, Stop).  It holds while threads do not
\* overlap in RunService and nobody polls, or a wait for signals is registered.
EndsOnlyByStop ==
  [][\A t \in Threads : run[t] = "running" /\ run'[t] = "reset" => asked[t]]_vars

\* A Start that goes on to spawn leads to an active service (RunThreadService,
\* RunService).
StartActivates == \A c \in Actors : call[c] = "spawn" ~> active

\* Stop is documented to end the work of the server: when it has released the
\* work, no accept is pending and nothing is called any more, no thread stays in
\* run().
StopEnds ==
  <>[](~work /\ accept # "pending" /\ \A c \in Actors : call[c] = "idle") =>
    \A t \in Threads : []<>(run[t] # "running")

(***************************************************************************)
(* The inductive invariant behind TypeOK and ActiveHasThread: only a Stop  *)
(* is followed by the Start of a restart, so a signal handler that is done *)
(* with its calls has none left.                                           *)
(***************************************************************************)
RestartStops ==
  \A t \in Threads :
    restart[t] => call[t] \in {"stop", "stopCheck", "stopWork", "stopFlag", "stopClear"}

ServiceInv == TypeOK /\ RestartStops /\ ActiveHasThread
=============================================================================
