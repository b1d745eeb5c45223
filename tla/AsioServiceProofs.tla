-------------------------- MODULE AsioServiceProofs --------------------------
(***************************************************************************)
(* That the activity flag of AsioService never outlives the threads of     *)
(* RunService, for any number of callers and threads, with or without an   *)
(* acceptor, signal handlers and calls of Poll; and when it is true that   *)
(* run() ends only because of a Stop.                                      *)
(***************************************************************************)
EXTENDS AsioService, TLAPS

\* Nothing runs before the first call.
LEMMA ServiceInitHolds == Init => ServiceInv
BY ServiceAssumption
DEF Init, ServiceInv, TypeOK, RestartStops, ActiveHasThread, Actors, RunPlaces, CallPlaces

\* A step of Start, Stop or Poll moves one actor and leaves the threads of
\* RunService where they are, but for the one that Spawn detaches.
LEMMA ProceedKeeps ==
  ASSUME ServiceInv, NEW c \in Actors, Proceed(c)
  PROVE  ServiceInv'
<1> USE ServiceAssumption
    DEF ServiceInv, TypeOK, RestartStops, ActiveHasThread, Actors, RunPlaces, CallPlaces,
        Goto
<1>1. CASE StartReads(c)
  BY <1>1 DEF StartReads
<1>2. CASE Prepare(c)
  BY <1>2 DEF Prepare
<1>3. CASE Spawn(c)
  BY <1>3 DEF Spawn, RunTo
<1>4. CASE StopPrepares(c)
  BY <1>4 DEF StopPrepares
<1>5. CASE StopChecks(c)
  <2>1. CASE active
    BY <1>5, <2>1 DEF StopChecks
  <2>2. CASE ~active
    <3>1. /\ call[c] = "stopCheck"
          /\ Returns(c) /\ ForgetRestart(c)
          /\ UNCHANGED <<active, work, stopped, accept, run, asked>>
      BY <1>5, <2>2 DEF StopChecks
    <3> QED
      BY <3>1 DEF Returns, ForgetRestart
  <2> QED
    BY <2>1, <2>2
<1>6. CASE StopReleasesWork(c)
  BY <1>6 DEF StopReleasesWork, StopsItself, Outstanding
<1>7. CASE StopSetsFlag(c)
  BY <1>7 DEF StopSetsFlag
<1>8. CASE StopClearsFlag(c)
  BY <1>8 DEF StopClearsFlag, Returns, ForgetRestart
<1>9. CASE PollChecks(c)
  BY <1>9 DEF PollChecks
<1>10. CASE PollRuns(c)
  BY <1>10 DEF PollRuns, StopsItself, Outstanding
<1> QED
  BY <1>1, <1>2, <1>3, <1>4, <1>5, <1>6, <1>7, <1>8, <1>9, <1>10 DEF Proceed

\* A step of RunService: a thread that sets the flag is one that will clear it.
LEMMA RunKeeps ==
  ASSUME ServiceInv, NEW t \in Threads, RunService(t) \/ RunSignal(t) \/ RunThrows(t)
  PROVE  ServiceInv'
<1> USE ServiceAssumption
    DEF ServiceInv, TypeOK, RestartStops, ActiveHasThread, Actors, RunPlaces, CallPlaces,
        RunTo, StopsItself, Outstanding
<1>1. CASE RunChecks(t)
  BY <1>1 DEF RunChecks
<1>2. CASE RunActivates(t)
  BY <1>2 DEF RunActivates
<1>3. CASE RunMakesWork(t)
  BY <1>3 DEF RunMakesWork
<1>4. CASE RunEnters(t)
  BY <1>4 DEF RunEnters
<1>5. CASE RunReturns(t)
  BY <1>5 DEF RunReturns
<1>6. CASE RunHandler(t)
  BY <1>6 DEF RunHandler
<1>7. CASE RunSignalEnds(t)
  BY <1>7 DEF RunSignalEnds
<1>8. CASE RunFails(t)
  BY <1>8 DEF RunFails
<1>9. CASE RunResets(t)
  BY <1>9 DEF RunResets
<1>10. CASE RunEnds(t)
  BY <1>10 DEF RunEnds
<1>11. CASE RunSignal(t)
  BY <1>11 DEF RunSignal, Goto
<1>12. CASE RunThrows(t)
  BY <1>12 DEF RunThrows
<1> QED
  BY <1>1, <1>2, <1>3, <1>4, <1>5, <1>6, <1>7, <1>8, <1>9, <1>10, <1>11, <1>12
  DEF RunService

\* A call of a thread of the program.
LEMMA CallKeeps ==
  ASSUME ServiceInv, NEW c \in Callers, Call(c)
  PROVE  ServiceInv'
BY ServiceAssumption
DEF ServiceInv, TypeOK, RestartStops, ActiveHasThread, Actors, RunPlaces, CallPlaces,
    Call, Goto

\* Every step of the service keeps ServiceInv.
LEMMA ServiceNext == ServiceInv /\ [Next]_vars => ServiceInv'
<1> SUFFICES ASSUME ServiceInv, [Next]_vars PROVE ServiceInv'
  OBVIOUS
<1>1. ASSUME NEW c \in Callers, Call(c) PROVE ServiceInv'
  BY <1>1, CallKeeps
<1>2. ASSUME NEW c \in Actors, Proceed(c) PROVE ServiceInv'
  BY <1>2, ProceedKeeps
<1>3. ASSUME NEW t \in Threads, RunService(t) \/ RunSignal(t) \/ RunThrows(t)
      PROVE  ServiceInv'
  BY <1>3, RunKeeps
<1>4. CASE UNCHANGED vars
  BY <1>4 DEF vars, ServiceInv, TypeOK, RestartStops, ActiveHasThread
<1> QED
  BY <1>1, <1>2, <1>3, <1>4 DEF Next

\* Of AsioService::RunService: m_Active is set only while a thread is between
\* setting and clearing it, whatever calls, signals and exceptions overlap.
THEOREM ServiceSafety == Spec => [](TypeOK /\ ActiveHasThread)
<1>1. ServiceInv => TypeOK /\ ActiveHasThread
  BY DEF ServiceInv
<1> QED
  BY ServiceInitHolds, ServiceNext, <1>1, PTL DEF Spec

\* The flags, the calls and the threads of the service stay within their types.
THEOREM ServiceTypes == Spec => []TypeOK
  BY ServiceSafety, PTL

(***************************************************************************)
(* run() ends only because of a Stop.                                      *)
(***************************************************************************)

\* Inside RunService, behind its first test.
Inside(t) == run[t] \notin {"none", "check"}

\* The io_service waits for signals, or is left to one thread of RunService at a time.
Quiet == Signals \/ (~Polls /\ \A s, t \in Threads : Inside(s) /\ Inside(t) => s = t)

\* A Stop is about to set or to clear the stop flag.
FlagInHand == \E c \in Actors : call[c] \in {"stopFlag", "stopClear"}

\* Who lives while a Stop is under way has been asked to end.
StopAsksAll == (\E c \in Actors : Stopping(c)) => \A t \in Threads : run[t] # "none" => asked[t]

\* Without a wait for signals: a run() that has lost its work object has been asked to
\* end; a thread that failed leaves the accept behind; nobody polls; and the flag is in
\* the hand of a Stop, or of a run() that was asked to end and resets it behind itself.
StoppedInHand ==
  /\ \A t \in Threads : run[t] \in {"enter", "running", "handler"} /\ ~work => asked[t]
  /\ \A t \in Threads : run[t] = "failed" => accept # "none"
  /\ \A c \in Actors : call[c] \notin {"poll", "preparePoll", "pollRun"}
  /\ stopped => \/ FlagInHand
                \/ \E t \in Threads : run[t] \in {"running", "handler", "reset"} /\ asked[t]

EndInv ==
  /\ ServiceInv /\ StopAsksAll
  /\ Signals => (stopped => FlagInHand)
  /\ ~Signals => StoppedInHand

\* Nothing is stopped, nobody stops before the first call.
LEMMA EndInit == Init => EndInv
<1> SUFFICES ASSUME Init PROVE EndInv
  OBVIOUS
<1>1. ServiceInv
  BY ServiceInitHolds
<1>2. /\ ~stopped
      /\ \A c \in Actors : call[c] = "idle"
      /\ \A t \in Threads : run[t] = "none"
  BY DEF Init
<1> QED
  BY <1>1, <1>2 DEF EndInv, StopAsksAll, Stopping, StoppedInHand, FlagInHand

\* A step of Start, Stop or Poll leaves every other actor where it is.
LEMMA ProceedMovesOne ==
  ASSUME TypeOK, NEW c \in Actors, Proceed(c)
  PROVE  /\ \A d \in Actors \ {c} : call'[d] = call[d]
         /\ c \in Actors /\ call' \in [Actors -> CallPlaces]
<1>1. \E place \in CallPlaces : Goto(c, place)
  BY DEF Proceed, StartReads, Prepare, Spawn, StopPrepares, StopChecks, StopReleasesWork,
         StopSetsFlag, StopClearsFlag, PollChecks, PollRuns, Returns, CallPlaces
<1> QED
  BY <1>1 DEF Goto, TypeOK

\* A Stop under way has asked everybody who lives: a step of an actor.
LEMMA ProceedAsks ==
  ASSUME TypeOK, StopAsksAll, NEW c \in Actors, Proceed(c)
  PROVE  StopAsksAll'
<1>m. \A d \in Actors \ {c} : call'[d] = call[d]
  BY ProceedMovesOne
<1>1. CASE Spawn(c)
  <2>1. call[c] = "spawn" /\ call'[c] = "idle" /\ ~Stopping(c)'
    BY <1>1 DEF Spawn, Goto, TypeOK, Stopping
  <2>2. \A d \in Actors : Stopping(d)' => Stopping(d)
    BY <1>m, <2>1 DEF Stopping
  <2>3. CASE active
    BY <1>1, <2>2, <2>3 DEF Spawn, StopAsksAll
  <2>4. CASE ~active
    <3>1. PICK t \in Threads : /\ run' = [run EXCEPT ![t] = "check"]
                              /\ asked' = [asked EXCEPT ![t] = \E d \in Actors : Stopping(d)]
      BY <1>1, <2>4 DEF Spawn, RunTo
    <3>2. \A s \in Threads \ {t} : run'[s] = run[s] /\ asked'[s] = asked[s]
      BY <3>1 DEF TypeOK
    <3>3. asked'[t] = \E d \in Actors : Stopping(d)
      BY <3>1 DEF TypeOK
    <3> QED
      BY <2>2, <3>2, <3>3 DEF StopAsksAll
  <2> QED
    BY <2>3, <2>4
<1>2. CASE StopPrepares(c)
  BY <1>2 DEF StopPrepares, StopAsksAll
<1>3. CASE ~Spawn(c) /\ ~StopPrepares(c)
  <2>1. UNCHANGED <<run, asked>>
    BY <1>3 DEF Proceed, StartReads, Prepare, StopChecks, StopReleasesWork,
                StopSetsFlag, StopClearsFlag, PollChecks, PollRuns
  <2>2. Stopping(c)' => Stopping(c)
    BY <1>3 DEF Proceed, StartReads, Prepare, StopChecks, StopReleasesWork, StopSetsFlag,
                StopClearsFlag, PollChecks, PollRuns, Returns, Goto, TypeOK, Stopping
  <2> QED
    BY <1>m, <2>1, <2>2 DEF StopAsksAll, Stopping
<1> QED
  BY <1>1, <1>2, <1>3

\* ... and a step of RunService or a call: nobody begins to stop, nobody is born.
LEMMA RunAsks ==
  ASSUME TypeOK, StopAsksAll,
         \/ \E t \in Threads : RunService(t) \/ RunSignal(t) \/ RunThrows(t)
         \/ \E c \in Callers : Call(c)
         \/ UNCHANGED vars
  PROVE  /\ StopAsksAll' /\ UNCHANGED asked
         /\ \A c \in Actors : Stopping(c)' => Stopping(c)
         /\ \A t \in Threads : run'[t] # "none" => run[t] # "none"
<1>1. UNCHANGED asked
  BY DEF RunService, RunChecks, RunActivates, RunMakesWork, RunEnters, RunReturns, RunHandler,
         RunSignalEnds, RunFails, RunResets, RunEnds, RunSignal, RunThrows, Call, vars
<1>2. \A c \in Actors : Stopping(c)' => Stopping(c)
  BY DEF RunService, RunChecks, RunActivates, RunMakesWork, RunEnters, RunReturns, RunHandler,
         RunSignalEnds, RunFails, RunResets, RunEnds, RunSignal, RunThrows, Call, vars,
         Goto, Stopping, TypeOK
<1>3. \A t \in Threads : run'[t] # "none" => run[t] # "none"
  BY DEF RunService, RunChecks, RunActivates, RunMakesWork, RunEnters, RunReturns, RunHandler,
         RunSignalEnds, RunFails, RunResets, RunEnds, RunSignal, RunThrows, Call, vars,
         RunTo, TypeOK
<1> QED
  BY <1>1, <1>2, <1>3 DEF StopAsksAll

\* With a wait for signals the io_service never stops itself: the flag is set by a
\* Stop, and whoever leaves the place behind that clears it.
LEMMA SignalsStop ==
  ASSUME Signals, TypeOK, stopped => FlagInHand, [Next]_vars
  PROVE  stopped' => FlagInHand'
<1>s. ASSUME NEW w, NEW a, StopsItself(w, a) PROVE stopped' = stopped
  BY <1>s DEF StopsItself, Outstanding, TypeOK
<1>1. ASSUME NEW c \in Actors, Proceed(c) PROVE stopped' => FlagInHand'
  <2>m. \A d \in Actors \ {c} : call'[d] = call[d]
    BY <1>1, ProceedMovesOne
  <2>1. CASE StopReleasesWork(c) \/ StopSetsFlag(c)
    <3>1. call'[c] \in {"stopFlag", "stopClear"}
      BY <2>1 DEF StopReleasesWork, StopSetsFlag, Goto, TypeOK
    <3> QED
      BY <3>1 DEF FlagInHand
  <2>2. CASE StopClearsFlag(c)
    BY <2>2 DEF StopClearsFlag
  <2>3. CASE ~StopReleasesWork(c) /\ ~StopSetsFlag(c) /\ ~StopClearsFlag(c)
    <3>1. stopped' = stopped
      BY <1>1, <1>s, <2>3 DEF Proceed, StartReads, Prepare, Spawn, StopPrepares, StopChecks,
                              PollChecks, PollRuns
    <3>2. call[c] \notin {"stopFlag", "stopClear"}
      BY <1>1, <2>3 DEF Proceed, StartReads, Prepare, Spawn, StopPrepares, StopChecks,
                        PollChecks, PollRuns
    <3> QED
      BY <2>m, <3>1, <3>2 DEF FlagInHand
  <2> QED
    BY <2>1, <2>2, <2>3
<1>2. ASSUME NEW t \in Threads, RunService(t) \/ RunSignal(t) \/ RunThrows(t)
      PROVE  stopped' => FlagInHand'
  <2>1. CASE RunResets(t)
    BY <2>1 DEF RunResets
  <2>2. CASE ~RunResets(t)
    <3>1. stopped' = stopped
      BY <1>2, <1>s, <2>2 DEF RunService, RunChecks, RunActivates, RunMakesWork, RunEnters,
                RunReturns, RunHandler, RunSignalEnds, RunFails, RunEnds, RunSignal, RunThrows
    <3>2. \A c \in Actors : call[c] \in {"stopFlag", "stopClear"} => call'[c] = call[c]
      <4>1. CASE RunSignal(t)
        <5>1. call[t] = "idle" \/ run[t] = "handler"
          BY ServiceAssumption DEF TypeOK
        <5>2. run[t] = "running"
          BY <4>1 DEF RunSignal
        <5> QED
          BY <4>1, <5>1, <5>2 DEF RunSignal, Goto, TypeOK
      <4>2. CASE ~RunSignal(t)
        BY <1>2, <4>2 DEF RunService, RunChecks, RunActivates, RunMakesWork, RunEnters,
                RunReturns, RunHandler, RunSignalEnds, RunFails, RunResets, RunEnds, RunThrows
      <4> QED
        BY <4>1, <4>2
    <3> QED
      BY <3>1, <3>2 DEF FlagInHand
  <2> QED
    BY <2>1, <2>2
<1>3. ASSUME NEW c \in Callers, Call(c) PROVE stopped' => FlagInHand'
  BY <1>3 DEF Call, Goto, TypeOK, FlagInHand, Actors
<1>4. CASE UNCHANGED vars
  BY <1>4 DEF vars, FlagInHand
<1> QED
  BY <1>1, <1>2, <1>3, <1>4 DEF Next

\* Without one, and with one thread of RunService at a time: a step of an actor.
LEMMA ProceedInHand ==
  ASSUME ~Signals, Quiet, TypeOK, StopAsksAll, StoppedInHand, NEW c \in Actors, Proceed(c)
  PROVE  StoppedInHand'
<1>m. /\ \A d \in Actors \ {c} : call'[d] = call[d]
      /\ call[c] \notin {"poll", "preparePoll", "pollRun"}
  BY ProceedMovesOne DEF StoppedInHand
<1>p. call'[c] \notin {"poll", "preparePoll", "pollRun"}
  BY <1>m DEF Proceed, StartReads, Prepare, Spawn, StopPrepares, StopChecks, StopReleasesWork,
              StopSetsFlag, StopClearsFlag, PollChecks, PollRuns, Returns, Goto, TypeOK
<1>q. \A d \in Actors : call'[d] \notin {"poll", "preparePoll", "pollRun"}
  BY <1>m, <1>p DEF StoppedInHand
<1>1. CASE Spawn(c)
  <2>1. UNCHANGED <<work, stopped, accept>> /\ call[c] = "spawn"
    BY <1>1 DEF Spawn
  <2>2. FlagInHand => FlagInHand'
    BY <1>m, <2>1 DEF FlagInHand
  <2>3. \A t \in Threads : \/ run'[t] = run[t] /\ asked'[t] = asked[t]
                           \/ run[t] = "none" /\ run'[t] = "check"
    BY <1>1 DEF Spawn, RunTo, TypeOK
  <2> QED
    BY <1>q, <2>1, <2>2, <2>3 DEF StoppedInHand
<1>2. CASE StopPrepares(c)
  <2>1. UNCHANGED <<work, stopped, run>> /\ call[c] = "stop" /\ \A t \in Threads : asked'[t]
    BY <1>2 DEF StopPrepares
  <2>2. FlagInHand => FlagInHand'
    BY <1>m, <2>1 DEF FlagInHand
  <2>3. accept # "none" => accept' # "none"
    BY <1>2 DEF StopPrepares
  <2> QED
    BY <1>q, <2>1, <2>2, <2>3 DEF StoppedInHand
<1>3. CASE StopReleasesWork(c) \/ StopSetsFlag(c)
  <2>1. /\ UNCHANGED <<accept, run, asked>>
        /\ call[c] \in {"stopWork", "stopFlag"} /\ call'[c] \in {"stopFlag", "stopClear"}
    BY <1>3 DEF StopReleasesWork, StopSetsFlag, Goto, TypeOK
  <2>2. \A t \in Threads : run[t] # "none" => asked[t]
    BY <2>1 DEF StopAsksAll, Stopping
  <2>3. FlagInHand'
    BY <2>1 DEF FlagInHand
  <2> QED
    BY <1>q, <2>1, <2>2, <2>3 DEF StoppedInHand
<1>4. CASE StopClearsFlag(c)
  <2>1. ~stopped' /\ UNCHANGED <<work, accept, run, asked>>
    BY <1>4 DEF StopClearsFlag
  <2> QED
    BY <1>q, <2>1 DEF StoppedInHand
<1>5. CASE StartReads(c) \/ Prepare(c) \/ StopChecks(c)
  <2>1. /\ UNCHANGED <<work, stopped, run, asked>>
        /\ call[c] \notin {"stopFlag", "stopClear"}
        /\ accept # "none" => accept' # "none"
    BY <1>5 DEF StartReads, Prepare, StopChecks
  <2>2. FlagInHand => FlagInHand'
    BY <1>m, <2>1 DEF FlagInHand
  <2> QED
    BY <1>q, <2>1, <2>2 DEF StoppedInHand
<1>6. ~PollChecks(c) /\ ~PollRuns(c)
  BY <1>m DEF PollChecks, PollRuns
<1> QED
  BY <1>1, <1>2, <1>3, <1>4, <1>5, <1>6 DEF Proceed

\* ... a step of RunService.
LEMMA RunInHand ==
  ASSUME ~Signals, Quiet, TypeOK, StopAsksAll, StoppedInHand,
         NEW t \in Threads, RunService(t) \/ RunSignal(t) \/ RunThrows(t)
  PROVE  StoppedInHand'
<1>1. /\ UNCHANGED <<asked, call>>
      /\ \A s \in Threads \ {t} : run'[s] = run[s]
  BY DEF RunService, RunChecks, RunActivates, RunMakesWork, RunEnters, RunReturns, RunHandler,
         RunSignalEnds, RunFails, RunResets, RunEnds, RunSignal, RunThrows, RunTo, TypeOK
<1>2. FlagInHand' <=> FlagInHand
  BY <1>1 DEF FlagInHand
<1>3. \A c \in Actors : call'[c] \notin {"poll", "preparePoll", "pollRun"}
  BY <1>1 DEF StoppedInHand
<1>4. Inside(t) => \A s \in Threads \ {t} : run[s] \in {"none", "check"}
  BY DEF Quiet, Inside
<1>5. CASE RunChecks(t) \/ RunActivates(t) \/ RunMakesWork(t)
  <2>1. /\ UNCHANGED <<stopped, accept>> /\ run[t] \in {"check", "activate", "work"}
        /\ run'[t] \in {"none", "activate", "work", "enter"}
        /\ run'[t] = "enter" => work'
        /\ work => work'
    BY <1>5 DEF RunChecks, RunActivates, RunMakesWork, RunTo, TypeOK
  <2> QED
    BY <1>1, <1>2, <1>3, <2>1 DEF StoppedInHand
<1>6. CASE RunEnters(t)
  <2>1. /\ UNCHANGED <<work, accept>> /\ run[t] = "enter" /\ run'[t] = "running"
        /\ stopped' => stopped \/ ~work
    BY <1>6 DEF RunEnters, RunTo, TypeOK, StopsItself, Outstanding
  <2> QED
    BY <1>1, <1>2, <1>3, <2>1 DEF StoppedInHand
<1>7. CASE RunReturns(t)
  <2>1. UNCHANGED <<work, accept, stopped>> /\ run[t] = "running" /\ run'[t] = "reset"
    BY <1>7 DEF RunReturns, RunTo, TypeOK
  <2> QED
    BY <1>1, <1>2, <1>3, <2>1 DEF StoppedInHand
<1>8. CASE RunHandler(t)
  <2>1. /\ UNCHANGED <<work, run>> /\ run[t] = "running" /\ ~stopped
        /\ stopped' => ~work
    BY <1>8 DEF RunHandler, StopsItself, Outstanding
  <2>2. \A s \in Threads : run[s] # "failed"
    BY <1>4, <2>1 DEF Inside
  <2> QED
    BY <1>1, <1>2, <1>3, <2>1, <2>2 DEF StoppedInHand
<1>9. CASE RunSignalEnds(t)
  <2>1. UNCHANGED <<work, accept, stopped>> /\ run[t] = "handler" /\ run'[t] = "running"
    BY <1>9 DEF RunSignalEnds, RunTo, TypeOK
  <2> QED
    BY <1>1, <1>2, <1>3, <2>1 DEF StoppedInHand
<1>10. CASE RunThrows(t)
  <2>1. /\ UNCHANGED <<work, accept, stopped>> /\ run[t] = "running" /\ run'[t] = "failed"
        /\ ~stopped /\ accept = "pending"
    BY <1>10 DEF RunThrows, RunTo, TypeOK
  <2> QED
    BY <1>1, <1>2, <1>3, <2>1 DEF StoppedInHand
<1>11. CASE RunFails(t)
  <2>1. /\ UNCHANGED accept /\ run[t] = "failed" /\ run'[t] = "inactive"
        /\ accept # "none" => stopped' = stopped
    BY <1>11 DEF RunFails, RunTo, TypeOK, StopsItself, Outstanding
  <2>2. accept # "none" /\ \A s \in Threads \ {t} : run[s] \in {"none", "check"}
    BY <1>4, <2>1 DEF StoppedInHand, Inside
  <2> QED
    BY <1>1, <1>2, <1>3, <2>1, <2>2 DEF StoppedInHand
<1>12. CASE RunResets(t) \/ RunEnds(t)
  <2>1. /\ UNCHANGED <<work, accept>> /\ run'[t] \in {"inactive", "none"}
        /\ run[t] = "inactive" => stopped' = stopped
        /\ run[t] # "inactive" => ~stopped'
    BY <1>12 DEF RunResets, RunEnds, RunTo, TypeOK
  <2> QED
    BY <1>1, <1>2, <1>3, <2>1 DEF StoppedInHand
<1>13. ~RunSignal(t)
  BY DEF RunSignal
<1> QED
  BY <1>5, <1>6, <1>7, <1>8, <1>9, <1>10, <1>11, <1>12, <1>13 DEF RunService

\* Every step keeps what is known of the flag.
LEMMA EndNext == EndInv /\ Quiet /\ [Next]_vars => EndInv'
<1> SUFFICES ASSUME EndInv, Quiet, [Next]_vars PROVE EndInv'
  OBVIOUS
<1>1. ServiceInv' /\ TypeOK
  BY ServiceNext DEF EndInv, ServiceInv
<1>2. StopAsksAll'
  BY <1>1, ProceedAsks, RunAsks DEF Next, EndInv
<1>3. CASE Signals
  BY <1>1, <1>2, <1>3, SignalsStop DEF EndInv
<1>4. CASE ~Signals
  <2>1. ASSUME NEW c \in Callers, Call(c) PROVE StoppedInHand'
    <3>1. ~Polls
      BY <1>4 DEF Quiet
    <3>2. /\ UNCHANGED <<work, stopped, accept, run, asked>> /\ call[c] = "idle"
          /\ c \in Actors /\ call'[c] \in {"start", "stop"}
          /\ \A d \in Actors \ {c} : call'[d] = call[d]
      BY <1>1, <2>1, <3>1 DEF Call, Goto, TypeOK, Actors
    <3>3. FlagInHand => FlagInHand'
      BY <3>2 DEF FlagInHand
    <3> QED
      BY <1>4, <3>2, <3>3 DEF EndInv, StoppedInHand
  <2>2. ASSUME UNCHANGED vars PROVE StoppedInHand'
    <3>1. UNCHANGED <<work, stopped, accept, run, asked, call>>
      BY <2>2 DEF vars
    <3>2. FlagInHand' <=> FlagInHand
      BY <3>1 DEF FlagInHand
    <3> QED
      BY <1>4, <3>1, <3>2 DEF EndInv, StoppedInHand
  <2>3. StoppedInHand'
    BY <1>1, <1>4, <2>1, <2>2, ProceedInHand, RunInHand DEF Next, EndInv
  <2> QED
    BY <1>1, <1>2, <1>4, <2>3 DEF EndInv
<1> QED
  BY <1>3, <1>4

\* Of RunService and Stop, for any callers and threads: while there is a wait for
\* signals, or one thread at a time inside RunService and no Poll, run() returns only
\* to a thread that a Stop has been under way for since it was spawned.  No earlier
\* run, failed or stopped, leaves the io_service stopped for the next.
THEOREM RunEndsByStop == Spec /\ []Quiet => EndsOnlyByStop
<1> DEFINE Step == \A t \in Threads : run[t] = "running" /\ run'[t] = "reset" => asked[t]
<1>1. EndInv /\ Quiet /\ [Next]_vars => [Step]_vars
  <2> SUFFICES ASSUME EndInv, Quiet, [Next]_vars, NEW t \in Threads,
                      run[t] = "running", run'[t] = "reset"
               PROVE  asked[t]
    BY DEF vars
  <2>1. RunReturns(t)
    BY DEF Next, Call, Proceed, StartReads, Prepare, Spawn, StopPrepares, StopChecks,
           StopReleasesWork, StopSetsFlag, StopClearsFlag, PollChecks, PollRuns,
           RunService, RunChecks, RunActivates, RunMakesWork, RunEnters, RunReturns, RunHandler,
           RunSignalEnds, RunFails, RunResets, RunEnds, RunSignal, RunThrows, RunTo, vars,
           EndInv, ServiceInv, TypeOK
  <2>2. stopped
    BY <2>1 DEF RunReturns
  <2>3. CASE FlagInHand
    BY <2>3 DEF FlagInHand, EndInv, StopAsksAll, Stopping
  <2>4. CASE ~FlagInHand
    <3>1. PICK s \in Threads : run[s] \in {"running", "handler", "reset"} /\ asked[s]
      BY <2>2, <2>4 DEF EndInv, StoppedInHand
    <3>2. s = t
      BY <2>2, <2>4, <3>1 DEF Quiet, EndInv, Inside
    <3> QED
      BY <3>1, <3>2
  <2> QED
    BY <2>3, <2>4
<1>2. Init /\ [][Next]_vars /\ []Quiet => []EndInv
  BY EndInit, EndNext, PTL
<1> QED
  BY <1>1, <1>2, PTL DEF Spec, EndsOnlyByStop
=============================================================================
