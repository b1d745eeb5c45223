----------------------------- MODULE AsioAcceptor -----------------------------
(***************************************************************************)
(* StartAcceptor and StopAcceptor of include/asio/AsioAcceptor.h in        *)
(* detail, where AsioTCPServer takes only what comes of them: the task on  *)
(* a std::async thread that opens, binds and listens, the timed wait for   *)
(* it, the wait of the future's destructor behind that, and the error cell *)
(* m_Error of AsioService, which IsError writes and then reads back.       *)
(* Several threads open several acceptors; all share the one cell.         *)
(***************************************************************************)
EXTENDS Naturals

CONSTANTS
  Openers,    \* threads that run the callback StartAcceptor
  Acceptors,
  Failures    \* acceptors of which the system refuses open, bind or listen at times

ASSUME AcceptorAssumption == Failures \subseteq Acceptors /\ "none" \notin Acceptors

VARIABLES
  socket,   \* [Acceptors -> the state of m_Acceptor: closed, open, bound or listening]
  cell,     \* m_Error of the AsioService holds an error
  call,     \* [Openers -> the acceptor the thread is in TryOpen of, or none]
  task,     \* [Openers -> the task TryOpen has started]
  closing,  \* the StopAcceptor under way: of which acceptor, where, attempts left
  spawned,  \* history: acceptors a coroutine was spawned for
  refused,  \* history: acceptors the system refused a call
  late,     \* history: acceptors of which a TryOpen took longer than its time
  stopped   \* history: acceptors StopAcceptor was called for

openVars == <<socket, cell, call, task, spawned, refused, late>>
closeVars == <<closing, stopped>>

NoTask == [at |-> "none", success |-> FALSE]
NoClosing == [at |-> "idle", of |-> "none", tries |-> 0]

TryStopCount == 3   \* the default of tryStopCount

\* A task lives exactly as long as its caller is in TryOpen.
AcceptorTypeOK ==
  /\ socket \in [Acceptors -> {"closed", "open", "bound", "listening"}]
  /\ cell \in BOOLEAN
  /\ call \in [Openers -> Acceptors \cup {"none"}]
  /\ task \in [Openers ->
       [ at : {"none", "head", "open", "openRead", "bind", "bindRead",
               "listen", "listenRead", "done"},
         success : BOOLEAN ]]
  /\ \A c \in Openers : call[c] = "none" <=> task[c].at = "none"
  /\ closing \in [at : {"idle", "test", "close"}, of : Acceptors \cup {"none"},
                  tries : 0 .. TryStopCount]
  /\ spawned \subseteq Acceptors /\ refused \subseteq Acceptors
  /\ late \subseteq Acceptors /\ stopped \subseteq Acceptors

AcceptorInit ==
  /\ socket = [a \in Acceptors |-> "closed"] /\ cell = FALSE
  /\ call = [c \in Openers |-> "none"] /\ task = [c \in Openers |-> NoTask]
  /\ closing = NoClosing
  /\ spawned = {} /\ refused = {} /\ late = {} /\ stopped = {}

IsOpen(a) == socket[a] # "closed"

-----------------------------------------------------------------------------
(* A thread in StartAcceptor.                                              *)

\* An acceptor that is open already is tried as well.
TryOpen(c, a) ==
  /\ call[c] = "none"
  /\ call' = [call EXCEPT ![c] = a]
  /\ task' = [task EXCEPT ![c] = [at |-> "head", success |-> FALSE]]
  /\ UNCHANGED <<socket, cell, spawned, refused, late>>

\* Of a closed one the count of sockets decides, which can be at its limit only when
\* there were connections, so that StopAcceptor must have closed it since.
SocketsRefused(c, a) ==
  /\ call[c] = "none" /\ ~IsOpen(a) /\ a \in stopped
  /\ UNCHANGED openVars

\* The task has ended and TryOpen returns: with what the task tells if wait_for saw
\* it end within TimeoutMs, with false behind the destructor of the future, which
\* waits on, if not.  With true the coroutine is spawned.
TryOpenReturns(c, inTime) ==
  /\ task[c].at = "done"
  /\ call' = [call EXCEPT ![c] = "none"] /\ task' = [task EXCEPT ![c] = NoTask]
  /\ spawned' = IF inTime /\ task[c].success THEN spawned \cup {call[c]} ELSE spawned
  /\ late' = IF inTime THEN late ELSE late \cup {call[c]}
  /\ UNCHANGED <<socket, cell, refused>>

-----------------------------------------------------------------------------
(* The task.  Each call passes its error to IsError, which stores it and   *)
(* then looks at what is stored.                                           *)

Step(c, at) == task' = [task EXCEPT ![c].at = at]

\* A loop that ends as soon as the acceptor is open.
TaskHeadIgnoresSuccess(c) ==
  /\ task[c].at = "head"
  /\ task' = [task EXCEPT ![c] = IF IsOpen(call[c]) THEN [at |-> "done", success |-> TRUE]
                                 ELSE [@ EXCEPT !.at = "open"]]
  /\ UNCHANGED <<socket, cell, call, spawned, refused, late>>

\* The condition of the loop.
TaskHead(c) ==
  /\ task[c].at = "head"
  /\ Step(c, IF IsOpen(call[c]) /\ task[c].success THEN "done" ELSE "open")
  /\ UNCHANGED <<socket, cell, call, spawned, refused, late>>

\* A call that takes the acceptor from one of the states before to after, and
\* fails in any other.
Call(a, before, after) ==
  \/ /\ socket[a] \in before
     /\ socket' = [socket EXCEPT ![a] = after] /\ cell' = FALSE
     /\ UNCHANGED refused
  \/ /\ socket[a] \notin before
     /\ cell' = TRUE
     /\ UNCHANGED <<socket, refused>>
  \/ /\ a \in Failures /\ socket[a] \in before
     /\ cell' = TRUE
     /\ refused' = refused \cup {a}
     /\ UNCHANGED socket

TaskOpen(c) ==
  /\ task[c].at = "open"
  /\ Call(call[c], {"closed"}, "open")
  /\ Step(c, "openRead")
  /\ UNCHANGED <<call, spawned, late>>

TaskBind(c) ==
  /\ task[c].at = "bind"
  /\ Call(call[c], {"open"}, "bound")
  /\ Step(c, "bindRead")
  /\ UNCHANGED <<call, spawned, late>>

\* listen() of a socket that is not bound lets the system choose a port.
TaskListen(c) ==
  /\ task[c].at = "listen"
  /\ Call(call[c], {"open", "bound", "listening"}, "listening")
  /\ Step(c, "listenRead")
  /\ UNCHANGED <<call, spawned, late>>

\* IsError returns what the cell holds now: on to the next call, or to the head.
TaskReads(c) ==
  /\ task[c].at \in {"openRead", "bindRead", "listenRead"}
  /\ task' = [task EXCEPT ![c] =
       [ at |-> IF cell THEN "head"
                ELSE CASE task[c].at = "openRead"   -> "bind"
                       [] task[c].at = "bindRead"   -> "listen"
                       [] task[c].at = "listenRead" -> "head",
         success |-> ~cell ]]
  /\ UNCHANGED <<socket, cell, call, spawned, refused, late>>

Task(c) ==
  \/ TaskHead(c) \/ TaskOpen(c) \/ TaskBind(c) \/ TaskListen(c) \/ TaskReads(c)

\* A handler that the service runs, as AcceptorAction, passes its own error to IsError.
HandlerWrites ==
  /\ spawned # {}
  /\ cell' \in BOOLEAN
  /\ UNCHANGED <<socket, call, task, spawned, refused, late>>

-----------------------------------------------------------------------------
(* StopAcceptor, with the task of TryClose.                                *)

StopAcceptor(a) ==
  /\ closing' = [at |-> "test", of |-> a, tries |-> TryStopCount]
  /\ stopped' = stopped \cup {a}
  /\ UNCHANGED openVars

\* The head of the loop over the attempts.
StopTests ==
  /\ closing.at = "test"
  /\ closing' = IF IsOpen(closing.of) /\ closing.tries > 0
                  THEN [closing EXCEPT !.at = "close", !.tries = @ - 1]
                  ELSE [closing EXCEPT !.at = "idle"]
  /\ UNCHANGED <<stopped, openVars>>

\* The task closes the acceptor until it finds it closed, whoever opens it meanwhile.
TryClose ==
  /\ closing.at = "close"
  /\ IF IsOpen(closing.of)
       THEN socket' = [socket EXCEPT ![closing.of] = "closed"] /\ UNCHANGED closing
       ELSE closing' = [closing EXCEPT !.at = "test"] /\ UNCHANGED socket
  /\ UNCHANGED <<stopped, cell, call, task, spawned, refused, late>>

CloseStep == StopTests \/ TryClose
=============================================================================
