------------------------ MODULE AsioServerDuplexProofs ------------------------
(***************************************************************************)
(* Proofs about AsioServerDuplex for any number of threads and of calls,   *)
(* with TryOpen taken call by call and the error cell written by all.      *)
(***************************************************************************)
EXTENDS AsioServerDuplex, TLAPS

Sockets == {"closed", "open", "bound", "listening"}

TaskPlaces ==
  {"none", "head", "open", "openRead", "bind", "bindRead", "listen", "listenRead", "done"}

TaskStates == [at : TaskPlaces, success : BOOLEAN]

ThreadStates ==
  [ at : {"none", "server", "start", "try", "spawn", "check", "activate", "running"},
    k : 1 .. 2, spawns : BOOLEAN ]

-----------------------------------------------------------------------------
(* Acceptors.                                                              *)

\* What a task has behind it, by where it is, when no Stop has reached its acceptor:
\* success is told falsely only by a call the system refused, for a call that came too
\* early or too late leaves an acceptor open that another task opened.
Truth(c) ==
  call[c] \notin stopped =>
    /\ task[c].at \in {"openRead", "bind", "bindRead", "listen"} /\ call[c] \notin refused =>
         IsOpen(call[c])
    /\ \/ task[c].at = "listenRead"
       \/ task[c].at = "head" /\ task[c].success
       \/ task[c].at = "done"
       => (call[c] \notin refused => socket[call[c]] = "listening")
    /\ task[c].at = "done" => IsOpen(call[c]) /\ task[c].success

AcceptorInv ==
  /\ AcceptorTypeOK
  /\ \A c \in Openers : task[c].at # "none" => Truth(c)
  /\ closing.at # "idle" => closing.of \in stopped

\* What no step takes back from an acceptor that no Stop has reached.
Stays ==
  /\ spawned \subseteq spawned' /\ refused \subseteq refused'
  /\ late \subseteq late' /\ stopped \subseteq stopped'
  /\ \A a \in Acceptors \ stopped' :
       /\ socket[a] # "closed" => socket'[a] # "closed"
       /\ socket[a] = "listening" => socket'[a] = "listening"

LEMMA ServesStays ==
  ASSUME AcceptorTypeOK, Stays, NEW a \in Acceptors \ stopped', Serves(a)
  PROVE  Serves(a)'
BY DEF Serves, Stays, IsOpen

\* A task that does not move keeps what it has behind it.
LEMMA TruthStays ==
  ASSUME AcceptorTypeOK, Stays, NEW c \in Openers, task[c].at # "none", Truth(c),
         call'[c] = call[c], task'[c] = task[c]
  PROVE  Truth(c)'
<1>1. call[c] \in Acceptors
  BY DEF AcceptorTypeOK
<1> QED
  BY <1>1 DEF Truth, Stays, IsOpen

\* A step of the task of one thread, told by what it does to the acceptor.
OneTask(c, at, success) ==
  /\ task' = [task EXCEPT ![c] = [at |-> at, success |-> success]]
  /\ at \in TaskPlaces \ {"none"} /\ success \in BOOLEAN
  /\ task[c].at # "none" /\ AcceptorTypeOK'
  /\ UNCHANGED <<call, closeVars>> /\ Stays /\ Truth(c)'

LEMMA TaskMoves ==
  ASSUME AcceptorInv, NEW c \in Openers, NEW at, NEW success, OneTask(c, at, success)
  PROVE  AcceptorInv'
<1>1. ASSUME NEW d \in Openers, task'[d].at # "none" PROVE Truth(d)'
  <2>1. CASE d = c
    BY <2>1 DEF OneTask
  <2>2. CASE d # c
    <3>1. task'[d] = task[d] /\ call'[d] = call[d]
      BY <2>2 DEF OneTask, AcceptorInv, AcceptorTypeOK
    <3> QED
      BY <1>1, <3>1, TruthStays DEF AcceptorInv, OneTask
  <2> QED
    BY <2>1, <2>2
<1> QED
  BY <1>1 DEF AcceptorInv, OneTask, closeVars

\* What a task is, and what becomes of the types when it moves.
LEMMA TaskTypes ==
  ASSUME AcceptorTypeOK, NEW c \in Openers, task[c].at # "none",
         NEW at \in TaskPlaces \ {"none"}, NEW success \in BOOLEAN,
         task' = [task EXCEPT ![c] = [at |-> at, success |-> success]],
         socket' \in [Acceptors -> Sockets], cell' \in BOOLEAN, refused' \subseteq Acceptors,
         UNCHANGED <<call, closeVars, spawned, late>>
  PROVE  /\ AcceptorTypeOK' /\ task'[c] = [at |-> at, success |-> success]
         /\ call[c] \in Acceptors
<1>1. task \in [Openers -> TaskStates] /\ [at |-> at, success |-> success] \in TaskStates
  BY DEF AcceptorTypeOK, TaskStates, TaskPlaces
<1>2. task' \in [Openers -> TaskStates]
  BY <1>1
<1>3. \A d \in Openers : task'[d].at # "none" <=> task[d].at # "none"
  BY <1>1
<1>4. \A d \in Openers : call'[d] = "none" <=> task'[d].at = "none"
  BY <1>3 DEF AcceptorTypeOK
<1>5. call[c] \in Acceptors
  BY DEF AcceptorTypeOK
<1>6. AcceptorTypeOK'
  BY <1>2, <1>4 DEF AcceptorTypeOK, TaskStates, TaskPlaces, Sockets, closeVars
<1> QED
  BY <1>1, <1>5, <1>6

\* The three ways a call of the task ends.
LEMMA CallEnds ==
  ASSUME AcceptorTypeOK, NEW a \in Acceptors, NEW before, NEW after \in Sockets \ {"closed"},
         "listening" \in before => after = "listening",
         Call(a, before, after), UNCHANGED <<spawned, late, stopped>>
  PROVE  /\ socket' \in [Acceptors -> Sockets] /\ cell' \in BOOLEAN
         /\ refused' \subseteq Acceptors /\ Stays
         /\ a \notin refused' /\ socket[a] \in before => socket'[a] = after
         /\ a \notin refused' /\ socket[a] \notin before => socket'[a] = socket[a]
<1>1. /\ socket' \in [Acceptors -> Sockets] /\ cell' \in BOOLEAN
      /\ refused' \subseteq Acceptors /\ refused \subseteq refused'
  <2>1. socket \in [Acceptors -> Sockets] /\ refused \subseteq Acceptors
    BY DEF AcceptorTypeOK, Sockets
  <2>2. socket' = socket \/ socket' = [socket EXCEPT ![a] = after]
    BY DEF Call
  <2>3. cell' \in BOOLEAN
    BY DEF Call
  <2>4. refused' = refused \/ refused' = refused \cup {a}
    BY DEF Call
  <2>5. socket' \in [Acceptors -> Sockets]
    BY <2>1, <2>2
  <2> QED
    BY <2>1, <2>3, <2>4, <2>5
<1>2. \A b \in Acceptors : /\ socket[b] # "closed" => socket'[b] # "closed"
                           /\ socket[b] = "listening" => socket'[b] = "listening"
  BY DEF Call, AcceptorTypeOK, Sockets
<1>3. Stays
  BY <1>1, <1>2 DEF Stays
<1>4. /\ a \notin refused' /\ socket[a] \in before => socket'[a] = after
      /\ a \notin refused' /\ socket[a] \notin before => socket'[a] = socket[a]
  BY DEF Call, AcceptorTypeOK
<1> QED
  BY <1>1, <1>3, <1>4

\* Steps of the task.
LEMMA TaskKeeps ==
  ASSUME AcceptorInv, NEW c \in Openers, Task(c), UNCHANGED closeVars
  PROVE  AcceptorInv' /\ Stays /\ UNCHANGED call
<1> DEFINE a == call[c]
<1>1. AcceptorTypeOK /\ task[c] \in TaskStates /\ UNCHANGED <<stopped, closing, call, late, spawned>>
  BY DEF AcceptorInv, AcceptorTypeOK, TaskStates, TaskPlaces, closeVars, Task, TaskHead, TaskOpen,
         TaskBind, TaskListen, TaskReads
<1>2. task[c].at # "none"
  BY <1>1 DEF Task, TaskHead, TaskOpen, TaskBind, TaskListen, TaskReads
<1>3. a \in Acceptors /\ Truth(c)
  BY <1>1, <1>2 DEF AcceptorInv, AcceptorTypeOK
<1>4. \A at : Step(c, at) =>
        task' = [task EXCEPT ![c] = [at |-> at, success |-> task[c].success]]
  <2>1. \A at : [task[c] EXCEPT !.at = at] = [at |-> at, success |-> task[c].success]
    BY <1>1 DEF TaskStates
  <2> QED
    BY <2>1 DEF Step
<1>5. task[c].success \in BOOLEAN
  BY <1>1 DEF TaskStates
<1>6. ASSUME TaskHead(c) PROVE AcceptorInv' /\ Stays
  <2>1. PICK at : at = IF IsOpen(a) /\ task[c].success THEN "done" ELSE "open"
    OBVIOUS
  <2>2. /\ task' = [task EXCEPT ![c] = [at |-> at, success |-> task[c].success]]
        /\ at \in TaskPlaces \ {"none"} /\ UNCHANGED <<socket, cell, spawned, refused, late>>
    BY <1>4, <1>6, <2>1 DEF TaskHead, TaskPlaces
  <2>3. Stays
    BY <1>1, <2>2 DEF Stays
  <2>4. AcceptorTypeOK' /\ task'[c] = [at |-> at, success |-> task[c].success]
    <3>1. socket' \in [Acceptors -> Sockets] /\ cell' \in BOOLEAN /\ refused' \subseteq Acceptors
      BY <1>1, <2>2 DEF AcceptorTypeOK, Sockets
    <3>2. UNCHANGED <<call, closeVars, spawned, late>>
      BY <1>1, <2>2 DEF closeVars
    <3> QED
      BY <1>1, <1>2, <1>5, <2>2, <3>1, <3>2, TaskTypes
  <2>5. Truth(c)'
    BY <1>1, <1>3, <1>6, <2>1, <2>2, <2>4 DEF Truth, IsOpen, TaskHead
  <2>6. OneTask(c, at, task[c].success)
    BY <1>1, <1>2, <1>5, <2>2, <2>3, <2>4, <2>5 DEF OneTask, closeVars
  <2> QED
    BY <2>3, <2>6, TaskMoves
<1>7. ASSUME NEW before, NEW after \in Sockets \ {"closed"}, NEW at \in TaskPlaces \ {"none"},
             "listening" \in before => after = "listening", Call(a, before, after), Step(c, at),
             a \notin stopped /\ a \notin refused' =>
               \/ at \in {"openRead", "bindRead"} /\ socket'[a] # "closed"
               \/ at = "listenRead" /\ socket'[a] = "listening",
             at \in {"openRead", "bindRead", "listenRead"}
      PROVE  AcceptorInv' /\ Stays
  <2>1. /\ socket' \in [Acceptors -> Sockets] /\ cell' \in BOOLEAN
        /\ refused' \subseteq Acceptors /\ Stays
    BY <1>1, <1>3, <1>7, CallEnds
  <2>2. task' = [task EXCEPT ![c] = [at |-> at, success |-> task[c].success]]
    BY <1>4, <1>7
  <2>3. UNCHANGED <<call, closeVars, spawned, late>>
    BY <1>1
  <2>4. AcceptorTypeOK' /\ task'[c] = [at |-> at, success |-> task[c].success]
    BY <1>1, <1>2, <1>5, <1>7, <2>1, <2>2, <2>3, TaskTypes
  <2>5. Truth(c)'
    BY <1>1, <1>7, <2>4 DEF Truth, IsOpen
  <2>6. OneTask(c, at, task[c].success)
    BY <1>2, <1>5, <1>7, <2>1, <2>2, <2>3, <2>4, <2>5 DEF OneTask
  <2> QED
    BY <2>1, <2>6, TaskMoves
<1>8. ASSUME TaskOpen(c) PROVE AcceptorInv' /\ Stays
  <2>1. Call(a, {"closed"}, "open") /\ Step(c, "openRead")
    BY <1>8 DEF TaskOpen
  <2>2. "open" \in Sockets \ {"closed"} /\ "openRead" \in TaskPlaces \ {"none"}
    BY DEF Sockets, TaskPlaces
  <2>3. a \notin refused' => socket'[a] # "closed"
    BY <1>1, <1>3, <2>1, <2>2, CallEnds
  <2> QED
    BY <1>7, <2>1, <2>2, <2>3
<1>9. ASSUME TaskBind(c) PROVE AcceptorInv' /\ Stays
  <2>1. Call(a, {"open"}, "bound") /\ Step(c, "bindRead") /\ task[c].at = "bind"
    BY <1>9 DEF TaskBind
  <2>2. "bound" \in Sockets \ {"closed"} /\ "bindRead" \in TaskPlaces \ {"none"}
    BY DEF Sockets, TaskPlaces
  <2>3. /\ a \notin refused' /\ socket[a] \in {"open"} => socket'[a] = "bound"
        /\ a \notin refused' /\ socket[a] \notin {"open"} => socket'[a] = socket[a]
        /\ Stays
    BY <1>1, <1>3, <2>1, <2>2, CallEnds
  <2>4. a \notin stopped /\ a \notin refused' => socket'[a] # "closed"
    BY <1>3, <2>1, <2>3 DEF Truth, IsOpen, Stays
  <2> QED
    BY <1>7, <2>1, <2>2, <2>4
<1>10. ASSUME TaskListen(c) PROVE AcceptorInv' /\ Stays
  <2>1. Call(a, {"open", "bound", "listening"}, "listening") /\ Step(c, "listenRead")
        /\ task[c].at = "listen"
    BY <1>10 DEF TaskListen
  <2>2. "listening" \in Sockets \ {"closed"} /\ "listenRead" \in TaskPlaces \ {"none"}
    BY DEF Sockets, TaskPlaces
  <2>3. /\ a \notin refused' /\ socket[a] \in {"open", "bound", "listening"} =>
             socket'[a] = "listening"
        /\ Stays
    BY <1>1, <1>3, <2>1, <2>2, CallEnds
  <2>4. a \notin stopped /\ a \notin refused' => socket[a] \in {"open", "bound", "listening"}
    BY <1>1, <1>3, <2>1, <2>3 DEF Truth, IsOpen, Stays, AcceptorTypeOK
  <2> QED
    BY <1>7, <2>1, <2>2, <2>3, <2>4
<1>11. ASSUME TaskReads(c) PROVE AcceptorInv' /\ Stays
  <2>1. PICK at : at = IF cell THEN "head"
                       ELSE CASE task[c].at = "openRead"   -> "bind"
                              [] task[c].at = "bindRead"   -> "listen"
                              [] task[c].at = "listenRead" -> "head"
    OBVIOUS
  <2>2. PICK success : success = ~cell
    OBVIOUS
  <2>3. /\ task' = [task EXCEPT ![c] = [at |-> at, success |-> success]]
        /\ task[c].at \in {"openRead", "bindRead", "listenRead"}
        /\ UNCHANGED <<socket, cell, spawned, refused, late>>
    BY <1>11, <2>1, <2>2 DEF TaskReads
  <2>4. at \in TaskPlaces \ {"none"} /\ success \in BOOLEAN
    BY <1>1, <2>1, <2>2, <2>3 DEF TaskPlaces, AcceptorTypeOK
  <2>5. Stays
    BY <1>1, <2>3 DEF Stays
  <2>6. AcceptorTypeOK' /\ task'[c] = [at |-> at, success |-> success]
    <3>1. socket' \in [Acceptors -> Sockets] /\ cell' \in BOOLEAN /\ refused' \subseteq Acceptors
      BY <1>1, <2>3 DEF AcceptorTypeOK, Sockets
    <3>2. UNCHANGED <<call, closeVars, spawned, late>>
      BY <1>1, <2>3 DEF closeVars
    <3> QED
      BY <1>1, <1>2, <2>3, <2>4, <3>1, <3>2, TaskTypes
  <2>7. Truth(c)'
    <3>1. /\ at \in {"head", "bind", "listen"}
          /\ at \in {"bind", "listen"} => task[c].at \in {"openRead", "bindRead"}
          /\ at = "head" /\ success => task[c].at = "listenRead"
      BY <2>1, <2>2, <2>3
    <3> QED
      BY <1>1, <1>3, <2>3, <2>6, <3>1 DEF Truth, IsOpen
  <2>8. OneTask(c, at, success)
    BY <1>1, <1>2, <2>3, <2>4, <2>5, <2>6, <2>7 DEF OneTask, closeVars
  <2> QED
    BY <2>5, <2>8, TaskMoves
<1> QED
  BY <1>1, <1>6, <1>8, <1>9, <1>10, <1>11 DEF Task

\* A thread enters TryOpen: its task is at the head of the loop.
LEMMA TryOpenKeeps ==
  ASSUME AcceptorInv, NEW c \in Openers, NEW a \in Acceptors, TryOpen(c, a),
         UNCHANGED closeVars
  PROVE  AcceptorInv' /\ Stays /\ call' = [call EXCEPT ![c] = a]
<1>1. PICK new : new = [at |-> "head", success |-> FALSE]
  OBVIOUS
<1>2. /\ call' = [call EXCEPT ![c] = a] /\ task' = [task EXCEPT ![c] = new]
      /\ UNCHANGED <<socket, cell, spawned, refused, late, closing, stopped>>
  BY <1>1 DEF TryOpen, closeVars
<1>3. new \in TaskStates /\ new.at = "head" /\ ~new.success
  BY <1>1 DEF TaskStates, TaskPlaces
<1>4. task \in [Openers -> TaskStates] /\ call \in [Openers -> Acceptors \cup {"none"}]
  BY DEF AcceptorInv, AcceptorTypeOK, TaskStates, TaskPlaces
<1>5. task' \in [Openers -> TaskStates] /\ call' \in [Openers -> Acceptors \cup {"none"}]
  BY <1>2, <1>3, <1>4
<1>6. \A d \in Openers : call'[d] = "none" <=> task'[d].at = "none"
  BY <1>2, <1>3, <1>4, AcceptorAssumption DEF AcceptorInv, AcceptorTypeOK
<1>7. AcceptorTypeOK'
  BY <1>2, <1>5, <1>6 DEF AcceptorInv, AcceptorTypeOK, TaskStates, TaskPlaces
<1>8. Stays
  BY <1>2 DEF Stays
<1>9. ASSUME NEW d \in Openers, task'[d].at # "none" PROVE Truth(d)'
  <2>1. CASE d = c
    BY <1>2, <1>3, <1>4, <2>1 DEF Truth
  <2>2. CASE d # c
    BY <1>2, <1>4, <1>8, <1>9, <2>2, TruthStays DEF AcceptorInv
  <2> QED
    BY <2>1, <2>2
<1> QED
  BY <1>2, <1>7, <1>8, <1>9 DEF AcceptorInv

\* A thread leaves TryOpen: its acceptor serves unless a Stop has reached it.
LEMMA TryOpenLeaves ==
  ASSUME AcceptorInv, NEW c \in Openers, NEW inTime \in BOOLEAN, TryOpenReturns(c, inTime),
         UNCHANGED closeVars
  PROVE  /\ AcceptorInv' /\ Stays /\ call' = [call EXCEPT ![c] = "none"]
         /\ call[c] \in Acceptors
         /\ \A a \in Acceptors : a = call[c] /\ a \notin stopped => Serves(a)'
<1>1. /\ call' = [call EXCEPT ![c] = "none"] /\ task' = [task EXCEPT ![c] = NoTask]
      /\ task[c].at = "done"
      /\ UNCHANGED <<socket, cell, refused, closing, stopped>>
      /\ spawned \subseteq spawned' /\ spawned' \subseteq spawned \cup {call[c]}
      /\ late \subseteq late' /\ late' \subseteq late \cup {call[c]}
  BY DEF TryOpenReturns, closeVars
<1>2. task \in [Openers -> TaskStates] /\ call \in [Openers -> Acceptors \cup {"none"}]
  BY DEF AcceptorInv, AcceptorTypeOK, TaskStates, TaskPlaces
<1>3. call[c] \in Acceptors /\ Truth(c)
  BY <1>1, <1>2 DEF AcceptorInv, AcceptorTypeOK
<1>4. NoTask \in TaskStates /\ NoTask.at = "none"
  BY DEF NoTask, TaskStates, TaskPlaces
<1>5. task' \in [Openers -> TaskStates] /\ call' \in [Openers -> Acceptors \cup {"none"}]
  BY <1>1, <1>2, <1>4
<1>6. \A d \in Openers : call'[d] = "none" <=> task'[d].at = "none"
  BY <1>1, <1>2, <1>4 DEF AcceptorInv, AcceptorTypeOK
<1>7. AcceptorTypeOK'
  BY <1>1, <1>3, <1>5, <1>6 DEF AcceptorInv, AcceptorTypeOK, TaskStates, TaskPlaces
<1>8. Stays
  BY <1>1 DEF Stays
<1>9. ASSUME NEW d \in Openers, task'[d].at # "none" PROVE Truth(d)'
  <2>1. d # c
    BY <1>1, <1>2, <1>4, <1>9
  <2> QED
    BY <1>1, <1>2, <1>8, <1>9, <2>1, TruthStays DEF AcceptorInv
<1>10. ASSUME NEW a \in Acceptors, a = call[c], a \notin stopped PROVE Serves(a)'
  <2>1. socket[a] # "closed" /\ task[c].success /\ (a \notin refused => socket[a] = "listening")
    BY <1>1, <1>3, <1>10 DEF Truth, IsOpen
  <2>2. a \in spawned' \/ a \in late'
    BY <1>10, <2>1 DEF TryOpenReturns
  <2> QED
    BY <1>1, <2>1, <2>2 DEF Serves, IsOpen
<1> QED
  BY <1>1, <1>3, <1>7, <1>8, <1>9, <1>10 DEF AcceptorInv

\* A handler changes nothing but the error cell.
LEMMA HandlerKeeps ==
  ASSUME AcceptorInv, HandlerWrites, UNCHANGED closeVars
  PROVE  AcceptorInv' /\ Stays /\ UNCHANGED call
<1>1. UNCHANGED <<socket, call, task, spawned, refused, late, closing, stopped>> /\ cell' \in BOOLEAN
  BY DEF HandlerWrites, closeVars
<1>2. AcceptorTypeOK' /\ Stays
  BY <1>1 DEF AcceptorInv, AcceptorTypeOK, Stays
<1>3. \A d \in Openers : Truth(d) => Truth(d)'
  BY <1>1 DEF Truth, IsOpen
<1> QED
  BY <1>1, <1>2, <1>3 DEF AcceptorInv

\* StopAcceptor touches one acceptor, which is among the stopped from the first.
CloseInv == closing.at # "idle" => closing.of \in stopped

LEMMA CloseKeeps ==
  ASSUME AcceptorInv, CloseStep \/ \E a \in Acceptors : StopAcceptor(a)
  PROVE  AcceptorInv' /\ Stays /\ UNCHANGED call
<1>1. UNCHANGED <<cell, call, task, spawned, refused, late>> /\ stopped \subseteq stopped'
  BY DEF CloseStep, StopTests, TryClose, StopAcceptor, openVars
<1>2. /\ closing' \in [at : {"idle", "test", "close"}, of : Acceptors \cup {"none"},
                       tries : 0 .. TryStopCount]
      /\ CloseInv' /\ stopped' \subseteq Acceptors
  <2>1. ASSUME NEW a \in Acceptors, StopAcceptor(a)
        PROVE  /\ closing' \in [at : {"idle", "test", "close"}, of : Acceptors \cup {"none"},
                                tries : 0 .. TryStopCount]
               /\ CloseInv' /\ stopped' \subseteq Acceptors
    BY <2>1 DEF StopAcceptor, CloseInv, AcceptorInv, AcceptorTypeOK, TryStopCount
  <2>2. CASE StopTests
    <3>1. closing.at = "test" /\ closing.of \in stopped /\ UNCHANGED stopped
      BY <2>2 DEF StopTests, AcceptorInv
    <3>2. \/ closing' = [closing EXCEPT !.at = "close", !.tries = @ - 1] /\ closing.tries > 0
          \/ closing' = [closing EXCEPT !.at = "idle"]
      BY <2>2 DEF StopTests
    <3>3. closing.tries > 0 => closing.tries - 1 \in 0 .. TryStopCount
      BY DEF AcceptorInv, AcceptorTypeOK, TryStopCount
    <3>4. closing' \in [at : {"idle", "test", "close"}, of : Acceptors \cup {"none"},
                        tries : 0 .. TryStopCount]
      BY <3>2, <3>3 DEF AcceptorInv, AcceptorTypeOK
    <3>5. closing'.of = closing.of
      BY <3>2 DEF AcceptorInv, AcceptorTypeOK
    <3> QED
      BY <3>1, <3>4, <3>5 DEF CloseInv, AcceptorInv, AcceptorTypeOK
  <2>3. CASE TryClose
    <3>1. closing.at = "close" /\ closing.of \in stopped /\ UNCHANGED stopped
      BY <2>3 DEF TryClose, AcceptorInv
    <3>2. closing' = closing \/ closing' = [closing EXCEPT !.at = "test"]
      BY <2>3 DEF TryClose
    <3> QED
      BY <3>1, <3>2 DEF CloseInv, AcceptorInv, AcceptorTypeOK, TryStopCount
  <2> QED
    BY <2>1, <2>2, <2>3 DEF CloseStep
<1>3. /\ socket' \in [Acceptors -> Sockets]
      /\ \A a \in Acceptors \ stopped : socket'[a] = socket[a]
  BY DEF CloseStep, StopTests, TryClose, StopAcceptor, openVars, AcceptorInv, AcceptorTypeOK, Sockets
<1>4. Stays
  BY <1>1, <1>3 DEF Stays
<1>5. AcceptorTypeOK'
  BY <1>1, <1>2, <1>3 DEF AcceptorInv, AcceptorTypeOK, Sockets
<1>6. \A d \in Openers : task'[d].at # "none" => Truth(d)'
  BY <1>1, <1>4, TruthStays DEF AcceptorInv
<1> QED
  BY <1>1, <1>2, <1>4, <1>5, <1>6 DEF AcceptorInv, CloseInv

-----------------------------------------------------------------------------
(* The two servers.                                                        *)

\* A thread of this place has been through the callback that opens the acceptor.
Passed(r, a) ==
  \/ r.at \in {"spawn", "check", "activate", "running"}
  \/ r.at = "try" /\ r.k = 2 /\ a = "out"

PassedServe ==
  \A t \in Openers : \A a \in Acceptors \ stopped : Passed(thread[t], a) => Serves(a)

AllServe == \A a \in Acceptors \ stopped : Serves(a)

\* Only the callback of a thread is in TryOpen, and of its own acceptor.
CallsFit ==
  \A t \in Openers :
    call[t] # "none" => thread[t].at = "try" /\ call[t] = Callback(thread[t].k)

\* retval stays true only when each server asked so far was active.
RetvalMeansServing ==
  duplex.at # "idle" /\ duplex.k > 1 /\ duplex.retval => (active \/ ended) /\ AllServe

\* The variables of the duplex that hold no acceptor.
OwnTypes ==
  /\ active \in BOOLEAN /\ work \in BOOLEAN /\ ended \in BOOLEAN
  /\ thread \in [Openers -> ThreadStates]
  /\ duplex \in [at : {"idle", "server", "asks"}, k : 1 .. 3, retval : BOOLEAN]
  /\ result \in {"none", "true", "false"}
  /\ stopper \in [at : {"idle", "callback", "check", "stop", "flag"}, k : 1 .. 2]
  /\ calls \in 0 .. MaxCalls

DuplexInv ==
  /\ AcceptorInv /\ OwnTypes
  /\ duplex.at = "asks" => duplex.k <= 2
  /\ CallsFit /\ PassedServe
  /\ active => AllServe
  /\ RetvalMeansServing
  /\ result = "true" => (active \/ ended) /\ AllServe

LEMMA CallbackIs ==
  /\ Len(m_Servers) = 2 /\ Callback(1) = "out" /\ Callback(2) = "in"
  /\ \A k \in 1 .. 2 : Callback(k) \in Acceptors
BY DuplexAssumption DEF Callback, m_Servers

LEMMA NoThreadIs == NoThread \in ThreadStates /\ NoThread.at = "none"
BY DEF NoThread, ThreadStates

LEMMA AllServeStays == AcceptorTypeOK /\ Stays /\ AllServe => AllServe'
<1> SUFFICES ASSUME AcceptorTypeOK, Stays, AllServe PROVE AllServe'
  OBVIOUS
<1>1. \A a \in Acceptors \ stopped' : a \in Acceptors \ stopped
  BY DEF Stays
<1>2. \A a \in Acceptors \ stopped' : Serves(a)'
  BY <1>1, ServesStays DEF AllServe
<1> QED
  BY <1>2 DEF AllServe

LEMMA PassedStays ==
  ASSUME AcceptorTypeOK, Stays, PassedServe, NEW t \in Openers,
         NEW a \in Acceptors \ stopped', Passed(thread[t], a)
  PROVE  Serves(a)'
<1>1. a \in Acceptors \ stopped
  BY DEF Stays
<1> QED
  BY <1>1, ServesStays DEF PassedServe

\* What a step does to the service: it is made active only when every acceptor
\* serves, and what was active is active or has ended.
ServiceMoves ==
  /\ active' \in BOOLEAN /\ work' \in BOOLEAN /\ ended' \in BOOLEAN
  /\ active' => active \/ AllServe'
  /\ active \/ ended => active' \/ ended'

\* A step that leaves the caller of Start alone.
LEMMA OthersMove ==
  ASSUME DuplexInv, AcceptorInv', Stays, ServiceMoves, OwnTypes', CallsFit', PassedServe',
         UNCHANGED <<duplex, result>>
  PROVE  DuplexInv'
<1>1. AllServe => AllServe'
  BY AllServeStays DEF DuplexInv, AcceptorInv
<1> QED
  BY <1>1 DEF DuplexInv, ServiceMoves, RetvalMeansServing

\* A thread moves: what it is behind of there must serve.
LEMMA ThreadMoves ==
  ASSUME DuplexInv, NEW t \in Openers, NEW to \in ThreadStates, ThreadTo(t, to),
         AcceptorInv', Stays, ServiceMoves,
         \A u \in Openers \ {t} : call'[u] = call[u],
         call'[t] = "none",
         \A a \in Acceptors \ stopped' : Passed(to, a) => Serves(a)'
  PROVE  DuplexInv'
<1>1. /\ thread' = [thread EXCEPT ![t] = to] /\ thread \in [Openers -> ThreadStates]
      /\ UNCHANGED <<duplex, result, stopper, calls>>
  BY DEF ThreadTo, DuplexInv, OwnTypes
<1>2. thread' \in [Openers -> ThreadStates] /\ thread'[t] = to
  BY <1>1
<1>3. \A u \in Openers \ {t} : thread'[u] = thread[u]
  BY <1>1
<1>4. OwnTypes'
  BY <1>1, <1>2 DEF OwnTypes, DuplexInv, ServiceMoves
<1>5. CallsFit'
  BY <1>3 DEF CallsFit, DuplexInv
<1>6. ASSUME NEW u \in Openers, NEW a \in Acceptors \ stopped', Passed(thread'[u], a)
      PROVE  Serves(a)'
  <2>1. CASE u = t
    BY <1>2, <1>6, <2>1
  <2>2. CASE u # t
    <3>1. Passed(thread[u], a)
      BY <1>3, <1>6, <2>2
    <3> QED
      BY <3>1, PassedStays DEF DuplexInv, AcceptorInv
  <2> QED
    BY <2>1, <2>2
<1>7. PassedServe'
  BY <1>6 DEF PassedServe, Passed
<1> QED
  BY <1>1, <1>4, <1>5, <1>7, OthersMove

\* No thread moves, and a thread in TryOpen stays there.
LEMMA ThreadsStand ==
  ASSUME DuplexInv, AcceptorInv', Stays, ServiceMoves, CallsFit',
         UNCHANGED <<thread, duplex, result>>,
         stopper' \in [at : {"idle", "callback", "check", "stop", "flag"}, k : 1 .. 2],
         calls' \in 0 .. MaxCalls
  PROVE  DuplexInv'
<1>1. OwnTypes'
  BY DEF OwnTypes, DuplexInv, ServiceMoves
<1>2. ASSUME NEW u \in Openers, NEW a \in Acceptors \ stopped', Passed(thread[u], a)
      PROVE  Serves(a)'
  BY <1>2, PassedStays DEF DuplexInv, AcceptorInv
<1>3. PassedServe'
  BY <1>2 DEF PassedServe, Passed
<1> QED
  BY <1>1, <1>3, OthersMove

LEMMA AcceptorStands ==
  ASSUME AcceptorInv, UNCHANGED acceptorVars
  PROVE  AcceptorInv' /\ Stays /\ UNCHANGED call
<1>1. UNCHANGED <<socket, cell, call, task, spawned, refused, late, closing, stopped>>
  BY DEF acceptorVars, openVars, closeVars
<1>2. \A c \in Openers : Truth(c) => Truth(c)'
  BY <1>1 DEF Truth, IsOpen
<1> QED
  BY <1>1, <1>2 DEF AcceptorInv, AcceptorTypeOK, Stays

LEMMA DuplexInitInv == DuplexInit => DuplexInv
<1> SUFFICES ASSUME DuplexInit PROVE DuplexInv
  OBVIOUS
<1>1. AcceptorInv
  <2>1. NoTask \in TaskStates /\ NoTask.at = "none"
    BY DEF NoTask, TaskStates, TaskPlaces
  <2>2. NoClosing \in [at : {"idle", "test", "close"}, of : Acceptors \cup {"none"},
                       tries : 0 .. TryStopCount] /\ NoClosing.at = "idle"
    BY DEF NoClosing, TryStopCount
  <2>3. task \in [Openers -> TaskStates] /\ \A c \in Openers : task[c].at = "none"
    BY <2>1 DEF DuplexInit, AcceptorInit
  <2> QED
    BY <2>2, <2>3
    DEF DuplexInit, AcceptorInit, AcceptorInv, AcceptorTypeOK, TaskStates, TaskPlaces
<1>2. thread \in [Openers -> ThreadStates] /\ \A t \in Openers : thread[t].at = "none"
  BY NoThreadIs DEF DuplexInit
<1>3. OwnTypes
  <2>1. /\ duplex \in [at : {"idle", "server", "asks"}, k : 1 .. 3, retval : BOOLEAN]
        /\ stopper \in [at : {"idle", "callback", "check", "stop", "flag"}, k : 1 .. 2]
    BY DEF DuplexInit
  <2>2. calls \in 0 .. MaxCalls
    BY DuplexAssumption DEF DuplexInit
  <2> QED
    BY <1>2, <2>1, <2>2 DEF DuplexInit, OwnTypes
<1>4. /\ \A c \in Openers : call[c] = "none"
      /\ ~active /\ duplex.at = "idle" /\ result = "none"
  BY DEF DuplexInit, AcceptorInit
<1>5. CallsFit /\ RetvalMeansServing
  BY <1>4 DEF CallsFit, RetvalMeansServing
<1>6. PassedServe
  BY <1>2 DEF PassedServe, Passed
<1> QED
  BY <1>1, <1>3, <1>4, <1>5, <1>6 DEF DuplexInv

\* Steps of the thread that calls AsioServerDuplex::Start.
LEMMA StartKeeps ==
  ASSUME DuplexInv, Start \/ StartCall PROVE DuplexInv'
<1> USE CallbackIs
<1>1. UNCHANGED <<acceptorVars, active, work, stopper>>
  BY DEF Start, StartCall, StartServer, StartAsks, StartReturns, serviceVars
<1>2. AcceptorInv' /\ Stays /\ UNCHANGED call /\ stopped' = stopped
  BY <1>1, AcceptorStands DEF DuplexInv, acceptorVars, closeVars
<1>3. AllServe => AllServe'
  BY <1>2, AllServeStays DEF DuplexInv, AcceptorInv
<1>4. ASSUME UNCHANGED thread PROVE CallsFit' /\ PassedServe'
  <2>1. CallsFit'
    BY <1>2, <1>4 DEF CallsFit, DuplexInv
  <2>2. \A u \in Openers : \A a \in Acceptors \ stopped' : Passed(thread[u], a) => Serves(a)'
    BY <1>2, PassedStays DEF DuplexInv, AcceptorInv
  <2> QED
    BY <1>4, <2>1, <2>2 DEF PassedServe, Passed
<1>5. CASE Start
  <2>1. /\ duplex' = [at |-> "server", k |-> 1, retval |-> TRUE] /\ result' = "none"
        /\ calls' = calls + 1 /\ calls < MaxCalls /\ ended' = FALSE /\ UNCHANGED thread
    BY <1>5 DEF Start
  <2>2. calls' \in 0 .. MaxCalls
    BY <2>1, DuplexAssumption DEF DuplexInv, OwnTypes
  <2>3. /\ duplex' \in [at : {"idle", "server", "asks"}, k : 1 .. 3, retval : BOOLEAN]
        /\ duplex'.at = "server" /\ duplex'.k = 1
    BY <2>1
  <2>4. OwnTypes'
    BY <1>1, <2>1, <2>2, <2>3 DEF DuplexInv, OwnTypes
  <2> QED
    BY <1>1, <1>2, <1>3, <1>4, <2>1, <2>3, <2>4 DEF DuplexInv, RetvalMeansServing
<1>6. CASE StartServer /\ active
  <2>1. /\ duplex' = [duplex EXCEPT !.k = @ + 1] /\ duplex.k \in 1 .. 2 /\ duplex.at = "server"
        /\ UNCHANGED <<thread, ended, result, calls>>
    BY <1>6 DEF StartServer, DuplexInv, OwnTypes, serviceVars
  <2>2. OwnTypes' /\ duplex'.at = "server"
    BY <1>1, <2>1 DEF DuplexInv, OwnTypes
  <2> QED
    BY <1>1, <1>2, <1>3, <1>4, <1>6, <2>1, <2>2 DEF DuplexInv, RetvalMeansServing
<1>7. CASE StartServer /\ ~active
  <2> DEFINE new == [NoThread EXCEPT !.at = "server"]
  <2>1. PICK t \in Openers : thread[t].at = "none" /\ thread' = [thread EXCEPT ![t] = new]
    BY <1>7 DEF StartServer
  <2>2. new \in ThreadStates /\ new.at = "server"
    BY NoThreadIs DEF ThreadStates
  <2> HIDE DEF new
  <2>3. /\ duplex' = [duplex EXCEPT !.at = "asks"] /\ duplex.k \in 1 .. 2 /\ duplex.at = "server"
        /\ UNCHANGED <<ended, result, calls>>
    BY <1>7 DEF StartServer, DuplexInv, OwnTypes, serviceVars
  <2>4. thread \in [Openers -> ThreadStates]
    BY DEF DuplexInv, OwnTypes
  <2>5. thread' \in [Openers -> ThreadStates] /\ \A u \in Openers : thread'[u] = new \/ thread'[u] = thread[u]
    BY <2>1, <2>2, <2>4
  <2>6. OwnTypes' /\ duplex'.at = "asks" /\ duplex'.k = duplex.k /\ duplex'.retval = duplex.retval
    BY <1>1, <2>3, <2>5 DEF DuplexInv, OwnTypes
  <2>7. CallsFit'
    <3>1. call[t] = "none"
      BY <2>1 DEF DuplexInv, CallsFit
    <3>2. \A u \in Openers : u # t => thread'[u] = thread[u]
      BY <2>1, <2>4
    <3> QED
      BY <1>2, <3>1, <3>2 DEF DuplexInv, CallsFit
  <2>8. PassedServe'
    <3>1. ASSUME NEW u \in Openers, NEW a \in Acceptors \ stopped', Passed(thread'[u], a)
          PROVE  Serves(a)'
      <4>1. thread'[u] = thread[u]
        BY <2>2, <2>5, <3>1 DEF Passed
      <4>2. Passed(thread[u], a)
        BY <3>1, <4>1
      <4> QED
        BY <1>2, <4>2, PassedStays DEF DuplexInv, AcceptorInv
    <3> QED
      BY <3>1 DEF PassedServe, Passed
  <2> QED
    BY <1>1, <1>2, <1>3, <2>3, <2>6, <2>7, <2>8 DEF DuplexInv, RetvalMeansServing
<1>8. CASE StartAsks
  <2>1. /\ duplex' = [at |-> "server", k |-> duplex.k + 1, retval |-> duplex.retval /\ active]
        /\ duplex.at = "asks" /\ duplex.k \in 1 .. 2
        /\ UNCHANGED <<thread, ended, result, calls>>
    BY <1>8 DEF StartAsks, DuplexInv, OwnTypes, serviceVars
  <2>2. (duplex.retval /\ active) \in BOOLEAN /\ duplex.k + 1 \in 1 .. 3
    BY <2>1
  <2>3. OwnTypes' /\ duplex'.at = "server" /\ (duplex'.retval => active)
    BY <1>1, <2>1, <2>2 DEF DuplexInv, OwnTypes
  <2> QED
    BY <1>1, <1>2, <1>3, <1>4, <2>1, <2>3 DEF DuplexInv, RetvalMeansServing
<1>9. CASE StartReturns
  <2>1. /\ duplex' = [duplex EXCEPT !.at = "idle", !.k = 1]
        /\ duplex.at = "server" /\ duplex.k > 1
        /\ result' = IF duplex.retval THEN "true" ELSE "false"
        /\ UNCHANGED <<thread, ended, calls>>
    BY <1>9 DEF StartReturns, DuplexInv, OwnTypes, serviceVars
  <2>2. /\ duplex' \in [at : {"idle", "server", "asks"}, k : 1 .. 3, retval : BOOLEAN]
        /\ duplex'.at = "idle"
    <3>1. duplex' = [at |-> "idle", k |-> 1, retval |-> duplex.retval]
      BY <2>1 DEF DuplexInv, OwnTypes
    <3>2. duplex.retval \in BOOLEAN
      BY DEF DuplexInv, OwnTypes
    <3> QED
      BY <3>1, <3>2
  <2>3. OwnTypes'
    BY <1>1, <2>1, <2>2 DEF DuplexInv, OwnTypes
  <2>4. result' = "true" => (active \/ ended) /\ AllServe
    BY <2>1 DEF DuplexInv, RetvalMeansServing
  <2> QED
    BY <1>1, <1>2, <1>3, <1>4, <2>1, <2>2, <2>3, <2>4 DEF DuplexInv, RetvalMeansServing
<1> QED
  BY <1>5, <1>6, <1>7, <1>8, <1>9 DEF StartCall

\* Where a thread goes after a callback.
LEMMA AfterCallbackIs ==
  ASSUME NEW r \in ThreadStates, r.at = "try"
  PROVE  /\ AfterCallback(r) \in ThreadStates
         /\ r.k = 1 => AfterCallback(r).at = "try" /\ AfterCallback(r).k = 2
         /\ r.k = 2 => AfterCallback(r).at \in {"spawn", "none"}
<1>1. CASE r.k = 1
  <2>1. AfterCallback(r) = [r EXCEPT !.k = 2]
    BY <1>1, CallbackIs DEF AfterCallback, ThreadStates
  <2> QED
    BY <1>1, <2>1 DEF ThreadStates
<1>2. CASE r.k = 2
  <2>1. AfterCallback(r) = [r EXCEPT !.at = "spawn"] \/ AfterCallback(r) = NoThread
    BY <1>2, CallbackIs DEF AfterCallback
  <2>2. [r EXCEPT !.at = "spawn"] \in ThreadStates /\ [r EXCEPT !.at = "spawn"].at = "spawn"
    BY DEF ThreadStates
  <2>3. AfterCallback(r) \in ThreadStates /\ AfterCallback(r).at \in {"spawn", "none"}
    BY <2>1, <2>2, NoThreadIs
  <2> QED
    BY <1>2, <2>3
<1> QED
  BY <1>1, <1>2 DEF ThreadStates

\* A step of a thread outside the callbacks.
LEMMA ThreadGoesOn ==
  ASSUME DuplexInv, NEW t \in Openers, NEW to \in ThreadStates, ThreadTo(t, to),
         UNCHANGED acceptorVars, ServiceMoves, thread[t].at # "try",
         \A a \in Acceptors : Passed(to, a) => Passed(thread[t], a)
  PROVE  DuplexInv'
<1>1. AcceptorInv' /\ Stays /\ UNCHANGED call
  BY AcceptorStands DEF DuplexInv
<1>2. call'[t] = "none"
  BY <1>1 DEF DuplexInv, CallsFit
<1>3. \A a \in Acceptors \ stopped' : Passed(to, a) => Serves(a)'
  <2>1. ASSUME NEW a \in Acceptors \ stopped', Passed(to, a) PROVE Serves(a)'
    <3>1. Passed(thread[t], a)
      BY <2>1
    <3> QED
      BY <1>1, <3>1, PassedStays DEF DuplexInv, AcceptorInv
  <2> QED
    BY <2>1
<1> QED
  BY <1>1, <1>2, <1>3, ThreadMoves

\* The moves of a thread that leave the service alone.
LEMMA ThreadSteps ==
  ASSUME DuplexInv, NEW t \in Openers,
         ServerStart(t) \/ ServiceStart(t) \/ Spawn(t) \/ RunChecks(t)
  PROVE  DuplexInv'
<1>1. UNCHANGED <<acceptorVars, serviceVars>> /\ thread[t].at # "try"
  BY DEF ServerStart, ServiceStart, Spawn, RunChecks
<1>2. ServiceMoves
  BY <1>1 DEF ServiceMoves, serviceVars, DuplexInv, OwnTypes
<1>3. thread[t] \in ThreadStates
  BY DEF DuplexInv, OwnTypes
<1>4. ASSUME ThreadTo(t, NoThread) PROVE DuplexInv'
  <2>1. \A a \in Acceptors : ~Passed(NoThread, a)
    BY NoThreadIs DEF Passed
  <2> QED
    BY <1>1, <1>2, <1>4, <2>1, NoThreadIs, ThreadGoesOn
<1>5. CASE ServerStart(t)
  <2>1. PICK to : to = [thread[t] EXCEPT !.at = "start"]
    OBVIOUS
  <2>2. to \in ThreadStates /\ \A a \in Acceptors : ~Passed(to, a)
    BY <1>3, <2>1 DEF ThreadStates, Passed
  <2> QED
    BY <1>1, <1>2, <1>4, <1>5, <2>1, <2>2, ThreadGoesOn DEF ServerStart
<1>6. CASE ServiceStart(t)
  <2>1. PICK b : b = ~active
    OBVIOUS
  <2>2. PICK to : to = [thread[t] EXCEPT !.at = "try", !.k = 1, !.spawns = b]
    OBVIOUS
  <2>3. to = [at |-> "try", k |-> 1, spawns |-> b] /\ b \in BOOLEAN
    BY <1>3, <2>1, <2>2 DEF ThreadStates
  <2>4. to \in ThreadStates /\ \A a \in Acceptors : ~Passed(to, a)
    BY <2>3 DEF ThreadStates, Passed
  <2>5. ThreadTo(t, to)
    BY <1>6, <2>1, <2>2 DEF ServiceStart
  <2> QED
    BY <1>1, <1>2, <2>4, <2>5, ThreadGoesOn
<1>7. CASE Spawn(t)
  <2>1. PICK to : to = [thread[t] EXCEPT !.at = "check"]
    OBVIOUS
  <2>2. to \in ThreadStates /\ thread[t].at = "spawn"
    BY <1>3, <1>7, <2>1 DEF ThreadStates, Spawn
  <2>3. \A a \in Acceptors : Passed(thread[t], a)
    BY <2>2 DEF Passed
  <2> QED
    BY <1>1, <1>2, <1>4, <1>7, <2>1, <2>2, <2>3, ThreadGoesOn DEF Spawn
<1>8. CASE RunChecks(t)
  <2>1. PICK to : to = [thread[t] EXCEPT !.at = "activate"]
    OBVIOUS
  <2>2. to \in ThreadStates /\ thread[t].at = "check"
    BY <1>3, <1>8, <2>1 DEF ThreadStates, RunChecks
  <2>3. \A a \in Acceptors : Passed(thread[t], a)
    BY <2>2 DEF Passed
  <2> QED
    BY <1>1, <1>2, <1>4, <1>8, <2>1, <2>2, <2>3, ThreadGoesOn DEF RunChecks
<1> QED
  BY <1>5, <1>6, <1>7, <1>8

\* RunService begins and ends: it begins behind the callbacks.
LEMMA RunSteps ==
  ASSUME DuplexInv, NEW t \in Openers, RunActivates(t) \/ RunEnds(t) \/ RunThrows(t)
  PROVE  DuplexInv'
<1>1. UNCHANGED acceptorVars /\ thread[t].at \in {"activate", "running"}
  BY DEF RunActivates, RunEnds, RunThrows
<1>2. thread[t] \in ThreadStates /\ work \in BOOLEAN /\ active \in BOOLEAN /\ ended \in BOOLEAN
  BY DEF DuplexInv, OwnTypes
<1>3. AllServe
  BY <1>1 DEF DuplexInv, PassedServe, Passed, AllServe
<1>4. AllServe'
  BY <1>1, <1>3, AcceptorStands, AllServeStays DEF DuplexInv, AcceptorInv
<1>5. ServiceMoves
  BY <1>2, <1>4 DEF ServiceMoves, RunActivates, RunEnds, RunThrows
<1>6. \A a \in Acceptors : Passed(thread[t], a)
  BY <1>1 DEF Passed, RunActivates, RunEnds, RunThrows
<1>7. PICK to : to = [thread[t] EXCEPT !.at = "running"]
  OBVIOUS
<1>8. to \in ThreadStates
  BY <1>2, <1>7 DEF ThreadStates
<1>9. ThreadTo(t, to) \/ ThreadTo(t, NoThread)
  BY <1>7 DEF RunActivates, RunEnds, RunThrows
<1> QED
  BY <1>1, <1>5, <1>6, <1>8, <1>9, NoThreadIs, ThreadGoesOn

\* The callback of a thread.
LEMMA CallbackSteps ==
  ASSUME DuplexInv, NEW t \in Openers, CallbackOpens(t) \/ CallbackReturns(t)
  PROVE  DuplexInv'
<1> DEFINE a == Callback(thread[t].k)
<1>1. UNCHANGED <<closeVars, serviceVars>> /\ thread[t].at = "try" /\ thread[t] \in ThreadStates
  BY DEF CallbackOpens, CallbackReturns, DuplexInv, OwnTypes
<1>2. thread[t].k \in 1 .. 2 /\ a \in Acceptors /\ call \in [Openers -> Acceptors \cup {"none"}]
  BY <1>1, CallbackIs DEF ThreadStates, DuplexInv, AcceptorInv, AcceptorTypeOK
<1>3. ServiceMoves
  BY <1>1 DEF ServiceMoves, serviceVars, DuplexInv, OwnTypes
<1>4. CASE CallbackOpens(t)
  <2>1. AcceptorInv' /\ Stays /\ call' = [call EXCEPT ![t] = a]
    BY <1>1, <1>2, <1>4, TryOpenKeeps DEF CallbackOpens, DuplexInv
  <2>2. UNCHANGED <<thread, duplex, result, stopper, calls>>
    BY <1>4 DEF CallbackOpens
  <2>3. CallsFit'
    BY <1>1, <1>2, <2>1, <2>2 DEF CallsFit, DuplexInv
  <2> QED
    BY <1>3, <2>1, <2>2, <2>3, ThreadsStand DEF DuplexInv, OwnTypes
<1>5. CASE CallbackReturns(t)
  <2>1. PICK to : to = AfterCallback(thread[t])
    OBVIOUS
  <2>2. /\ to \in ThreadStates /\ ThreadTo(t, to)
        /\ thread[t].k = 1 => to.at = "try" /\ to.k = 2
        /\ thread[t].k = 2 => to.at \in {"spawn", "none"}
    BY <1>1, <1>5, <2>1, AfterCallbackIs DEF CallbackReturns
  <2>3. /\ AcceptorInv' /\ Stays /\ call' = [call EXCEPT ![t] = "none"]
        /\ \A b \in Acceptors \ stopped' : b = a => Serves(b)'
    <3>1. CASE SocketsRefused(t, a)
      <4>1. UNCHANGED acceptorVars /\ call[t] = "none" /\ a \in stopped
        BY <1>1, <3>1 DEF SocketsRefused, acceptorVars
      <4>2. AcceptorInv' /\ Stays /\ UNCHANGED <<call, stopped>>
        BY <4>1, AcceptorStands DEF DuplexInv, acceptorVars, closeVars
      <4> QED
        BY <1>2, <4>1, <4>2
    <3>2. CASE \E inTime \in BOOLEAN : TryOpenReturns(t, inTime)
      <4>1. /\ AcceptorInv' /\ Stays /\ call' = [call EXCEPT ![t] = "none"]
            /\ call[t] \in Acceptors
            /\ \A b \in Acceptors : b = call[t] /\ b \notin stopped => Serves(b)'
        BY <1>1, <3>2, TryOpenLeaves DEF DuplexInv
      <4>2. call[t] = a
        BY <4>1, AcceptorAssumption DEF DuplexInv, CallsFit
      <4>3. stopped' = stopped
        BY <1>1 DEF closeVars
      <4> QED
        BY <4>1, <4>2, <4>3
    <3> QED
      BY <1>5, <3>1, <3>2 DEF CallbackReturns
  <2> HIDE DEF a
  <2>4. ASSUME NEW b \in Acceptors \ stopped', Passed(to, b) PROVE Serves(b)'
    <3>1. b = "in" \/ b = "out"
      BY DuplexAssumption
    <3>2. CASE thread[t].k = 1
      <4>1. b = a
        BY <2>2, <2>4, <3>2, CallbackIs DEF Passed, a
      <4> QED
        BY <2>3, <2>4, <4>1
    <3>3. CASE thread[t].k = 2
      <4>1. a = "in"
        BY <3>3, CallbackIs DEF a
      <4>2. CASE b = "in"
        BY <2>3, <2>4, <4>1, <4>2
      <4>3. CASE b = "out"
        <5>1. Passed(thread[t], b)
          BY <1>1, <3>3, <4>3 DEF Passed
        <5> QED
          BY <2>3, <2>4, <5>1, PassedStays DEF DuplexInv, AcceptorInv
      <4> QED
        BY <3>1, <4>2, <4>3
    <3> QED
      BY <1>2, <3>2, <3>3
  <2>5. call'[t] = "none" /\ \A u \in Openers \ {t} : call'[u] = call[u]
    BY <1>2, <2>3
  <2> QED
    BY <1>3, <2>2, <2>3, <2>4, <2>5, ThreadMoves
<1> QED
  BY <1>4, <1>5

\* A task or a handler: the threads stand where they are.
LEMMA OpenSteps ==
  ASSUME DuplexInv, NEW t \in Openers, Opens(t) \/ RunHandles(t)
  PROVE  DuplexInv'
<1>1. UNCHANGED <<closeVars, serviceVars, thread, duplex, result, stopper, calls>>
  BY DEF Opens, RunHandles
<1>2. AcceptorInv' /\ Stays /\ UNCHANGED call
  BY <1>1, TaskKeeps, HandlerKeeps DEF Opens, RunHandles, DuplexInv
<1>3. ServiceMoves
  BY <1>1 DEF ServiceMoves, serviceVars, DuplexInv, OwnTypes
<1>4. CallsFit'
  BY <1>1, <1>2 DEF CallsFit, DuplexInv
<1> QED
  BY <1>1, <1>2, <1>3, <1>4, ThreadsStand DEF DuplexInv, OwnTypes

\* Steps of the thread that calls Stop.
LEMMA StopKeeps ==
  ASSUME DuplexInv, StopCalled \/ StopCall PROVE DuplexInv'
<1>1. UNCHANGED <<active, ended, thread, duplex, result>> /\ work' \in BOOLEAN
  BY DEF StopCalled, StopCall, StopCloses, StopGoesOn, StopChecks, StopService, StopReturns,
         serviceVars, stopVars, DuplexInv, OwnTypes
<1>2. ServiceMoves
  BY <1>1 DEF ServiceMoves, DuplexInv, OwnTypes
<1>3. \/ CloseStep \/ \E a \in Acceptors : StopAcceptor(a)
      \/ UNCHANGED acceptorVars
  <2>1. CASE StopCalled
    BY <2>1, CallbackIs DEF StopCalled
  <2>2. CASE StopCloses
    BY <2>2 DEF StopCloses
  <2>3. CASE StopGoesOn
    <3>1. stopper.k < 2 => stopper.k + 1 \in 1 .. 2
      BY DEF DuplexInv, OwnTypes
    <3> QED
      BY <2>3, <3>1, CallbackIs DEF StopGoesOn
  <2>4. CASE StopChecks \/ StopService \/ StopReturns
    BY <2>4 DEF StopChecks, StopService, StopReturns
  <2> QED
    BY <2>1, <2>2, <2>3, <2>4 DEF StopCall
<1>4. AcceptorInv' /\ Stays /\ UNCHANGED call
  BY <1>3, CloseKeeps, AcceptorStands DEF DuplexInv
<1>5. CallsFit'
  BY <1>1, <1>4 DEF CallsFit, DuplexInv
<1>6. calls' \in 0 .. MaxCalls
  <2>1. calls' = calls \/ (calls < MaxCalls /\ calls' = calls + 1)
    <3>1. CASE StopCalled
      BY <3>1 DEF StopCalled
    <3>2. StopCloses \/ StopGoesOn => UNCHANGED calls
      BY DEF StopCloses, StopGoesOn
    <3>3. StopChecks \/ StopService \/ StopReturns => UNCHANGED calls
      BY DEF StopChecks, StopService, StopReturns
    <3> QED
      BY <3>1, <3>2, <3>3 DEF StopCall
  <2> QED
    BY <2>1, DuplexAssumption DEF DuplexInv, OwnTypes
<1>7. stopper' \in [at : {"idle", "callback", "check", "stop", "flag"}, k : 1 .. 2]
  <2>1. stopper.k < 2 => stopper.k + 1 \in 1 .. 2
    BY DEF DuplexInv, OwnTypes
  <2> QED
    BY <2>1, CallbackIs
    DEF StopCalled, StopCall, StopCloses, StopGoesOn, StopChecks, StopService, StopReturns,
        DuplexInv, OwnTypes
<1> QED
  BY <1>1, <1>2, <1>4, <1>5, <1>6, <1>7, ThreadsStand

LEMMA DuplexNextInv == DuplexInv /\ [DuplexNext]_duplexVars => DuplexInv'
<1> SUFFICES ASSUME DuplexInv, [DuplexNext]_duplexVars PROVE DuplexInv'
  OBVIOUS
<1>1. CASE UNCHANGED duplexVars
  <2>1. UNCHANGED <<acceptorVars, serviceVars, thread, duplex, result, stopper, calls>>
    BY <1>1 DEF duplexVars
  <2>2. AcceptorInv' /\ Stays /\ UNCHANGED call
    BY <2>1, AcceptorStands DEF DuplexInv
  <2>3. ServiceMoves
    BY <2>1 DEF ServiceMoves, serviceVars, DuplexInv, OwnTypes
  <2>4. CallsFit'
    BY <2>1, <2>2 DEF CallsFit, DuplexInv
  <2> QED
    BY <2>1, <2>2, <2>3, <2>4, ThreadsStand DEF DuplexInv, OwnTypes
<1>2. ASSUME NEW t \in Openers,
             ThreadStep(t) \/ Opens(t) \/ RunHandles(t) \/ RunEnds(t) \/ RunThrows(t)
      PROVE  DuplexInv'
  BY <1>2, ThreadSteps, RunSteps, CallbackSteps, OpenSteps DEF ThreadStep
<1> QED
  BY <1>1, <1>2, StartKeeps, StopKeeps DEF DuplexNext

LEMMA DuplexSafety == DuplexSpec => []DuplexInv
BY DuplexInitInv, DuplexNextInv, PTL DEF DuplexSpec

\* The variables stay in their types, however the threads, tasks and stops overlap.
THEOREM DuplexTypes == DuplexSpec => []DuplexTypeOK
<1>1. DuplexInv => DuplexTypeOK
  BY DEF DuplexInv, AcceptorInv, OwnTypes, DuplexTypeOK, ThreadStates
<1> QED
  BY <1>1, DuplexSafety, PTL

\* With any number of threads and of calls the service is active only when both
\* acceptors serve, unless a Stop has reached them (AsioService::Start, TryOpen, IsError).
THEOREM DuplexServes == DuplexSpec => []ActiveMeansServing
<1>1. DuplexInv => ActiveMeansServing
  BY DEF DuplexInv, AllServe, ActiveMeansServing
<1> QED
  BY <1>1, DuplexSafety, PTL

\* A Start that returned true leaves the service active, or run() has ended since, with
\* both acceptors serving, or stopped since (AsioServerDuplex::Start).
THEOREM TrueServes == DuplexSpec => []TrueMeansServing
<1>1. DuplexInv => TrueMeansServing
  BY DEF DuplexInv, AllServe, TrueMeansServing
<1> QED
  BY <1>1, DuplexSafety, PTL
=============================================================================
