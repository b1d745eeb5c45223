-------------------------- MODULE AsioSocketSession --------------------------
(***************************************************************************)
(* Sessions of include/asio/AsioSocketSession.h: each owns one connected   *)
(* socket, a SteadyTimer and two coroutines, the transfer coroutine        *)
(* (Receive, Send, or both in turn) and the watching one (CheckTimeout).   *)
(* Both run on the one thread that runs the io_service, so the code        *)
(* between two suspensions is one action.  The coroutines share the        *)
(* ownership of the session: when both have ended the destructor runs, in  *)
(* the same action.                                                        *)
(***************************************************************************)
EXTENDS Naturals, FiniteSets

CONSTANTS
  Sessions,       \* identities of session objects, used again after destruction
  TransferTypes   \* the modes a session may be created with

ASSUME TransferTypesAssumption ==
  TransferTypes \subseteq {"SimplexIn", "SimplexOut", "HalfDuplexIn", "HalfDuplexOut"}

ASSUME SessionsAssumption == IsFiniteSet(Sessions)

VARIABLE session   \* session[s] is the state of the object s

Pending == {"reading", "writing"}
Completed == {"read", "readFailed", "written", "writeFailed"}

(***************************************************************************)
(* stage  "free": no object; "posted": Start is queued; "running".         *)
(* open   m_Socket.is_open()                                               *)
(* io     the transfer coroutine: not started, suspended in a pending      *)
(*        operation, about to resume with its outcome, or ended.           *)
(* watch  the coroutine CheckTimeout: waiting on the timer, about to       *)
(*        resume because the deadline passed or the wait was cancelled.    *)
(* timer  SteadyTimer: inactive, active, or active with the deadline gone. *)
(* stops  how often m_AfterStop has been run for this object.              *)
(***************************************************************************)
SessionRecord ==
  [ stage : {"free", "posted", "running"},
    type  : TransferTypes \cup {"none"},
    open  : BOOLEAN,
    io    : {"none", "done"} \cup Pending \cup Completed,
    watch : {"none", "waiting", "fired", "cancelled", "done"},
    timer : {"off", "running", "due"},
    stops : Nat ]

NoSession ==
  [ stage |-> "free", type |-> "none", open |-> FALSE, io |-> "done",
    watch |-> "done", timer |-> "off", stops |-> 0 ]

OpenSockets == {s \in Sessions : session[s].open}

SessionInit == session = [s \in Sessions |-> NoSession]

-----------------------------------------------------------------------------
(* The methods a handler calls, as functions from session to session.      *)

\* A StopTimer that clears the flag and forgets m_Timer.cancel().
StopTimerWithoutCancel(r) == [r EXCEPT !.timer = "off"]

\* SteadyTimer::Stop cancels the wait of CheckTimeout, unless that wait has
\* already expired and its handler is queued.
StopTimer(r) ==
  [r EXCEPT !.timer = "off",
            !.watch = IF @ = "waiting" THEN "cancelled" ELSE @]

\* A StartTimer called from nowhere.
NoStartTimer(r) == r

\* SteadyTimer::Start leaves an active timer alone.
StartTimer(r) == [r EXCEPT !.timer = IF @ = "off" THEN "running" ELSE @]

\* close() makes the pending operation of the socket complete with an error;
\* an outcome already queued stays what it was.
Aborted(io) ==
  CASE io = "reading" -> "readFailed"
    [] io = "writing" -> "writeFailed"
    [] OTHER          -> io

\* A Stop whose m_AfterStop is not called.
StopWithoutCallback(r) ==
  [StopTimer(r) EXCEPT !.open = FALSE, !.io = Aborted(@)]

\* Stop has no test for a session that is stopped already.
Stop(r) ==
  [StopTimer(r) EXCEPT !.open = FALSE, !.io = Aborted(@), !.stops = @ + 1]

ReceivesFirst(r) == r.type \in {"SimplexIn", "HalfDuplexIn"}

\* Receive up to its suspension: bytes says that available() > 0, without
\* which it returns at once and its caller has nothing to go on with.
Receive(r, bytes) ==
  IF r.open /\ bytes
    THEN [StartTimer(r) EXCEPT !.io = "reading"]
    ELSE [r EXCEPT !.io = "done"]

\* A Send that does not ask whether the socket is still open.
SendUnguarded(r, bytes) ==
  IF bytes THEN [StartTimer(r) EXCEPT !.io = "writing"]
           ELSE [r EXCEPT !.io = "done"]

\* Send up to its suspension: bytes says that the channel has an action and
\* that running it left something in the buffer.
Send(r, bytes) ==
  IF r.open /\ bytes
    THEN [StartTimer(r) EXCEPT !.io = "writing"]
    ELSE [r EXCEPT !.io = "done"]

\* The coroutine that Start spawns for the mode of the session.
Transfer(r, bytes) == IF ReceivesFirst(r) THEN Receive(r, bytes) ELSE Send(r, bytes)

\* CheckTimeout up to its suspension.
CheckTimeout(r) ==
  [r EXCEPT !.watch = IF r.open /\ r.timer # "off" THEN "waiting" ELSE "done"]

\* SteadyTimer::IsExpired for the error code the wait ended with: an inactive
\* timer counts as expired.
IsExpired(r) == r.timer = "off" \/ (r.timer = "due" /\ r.watch = "fired")

\* The end of a handler: without a coroutine left nobody owns the session and
\* its destructor stops it, whether or not it was stopped before.
Released(r) ==
  IF r.io = "done" /\ r.watch = "done"
    THEN [Stop(r) EXCEPT !.stage = "free"]
    ELSE [r EXCEPT !.stage = "running"]

Become(s, r) == session' = [session EXCEPT ![s] = Released(r)]

-----------------------------------------------------------------------------
(* Handlers run by the service thread.                                     *)

\* MakeSocketSession, called by an acceptor or a client that has a connection
\* and then posts Start.
MakeSocketSession(s, type) ==
  /\ session[s].stage = "free"
  /\ session' = [session EXCEPT ![s] =
       [ stage |-> "posted", type |-> type, open |-> TRUE, io |-> "none",
         watch |-> "none", timer |-> "off", stops |-> 0 ]]

\* Start runs the transfer coroutine to its first suspension, then CheckTimeout
\* to its own.  With a closed socket it only stops the session.
Start(s, bytes) ==
  LET r == session[s]
  IN  /\ r.stage = "posted"
      /\ Become(s, IF r.open THEN CheckTimeout(Transfer(r, bytes))
                   ELSE [Stop(r) EXCEPT !.io = "done", !.watch = "done"])

\* Receive resumes with bytes; HalfDuplexIn goes on to Send.
Received(s, bytes) ==
  LET r == StopTimer(session[s])
  IN  /\ session[s].io = "read"
      /\ Become(s, IF r.type = "HalfDuplexIn" THEN Send(r, bytes)
                   ELSE [r EXCEPT !.io = "done"])

\* Send resumes without error; HalfDuplexOut goes on to Receive.
Sent(s, bytes) ==
  LET r == StopTimer(session[s])
  IN  /\ session[s].io = "written"
      /\ Become(s, IF r.type = "HalfDuplexOut" THEN Receive(r, bytes)
                   ELSE [r EXCEPT !.io = "done"])

\* A failed transfer that is followed by the other one.
TransferFailedGoesOn(s) ==
  /\ session[s].io \in {"readFailed", "writeFailed"}
  /\ Become(s, IF session[s].io = "readFailed" THEN Send(session[s], TRUE)
               ELSE [session[s] EXCEPT !.io = "done"])

\* Receive or Send resumes with an error: the timer keeps running and nothing
\* was transferred, so no second transfer follows.
TransferFailed(s) ==
  /\ session[s].io \in {"readFailed", "writeFailed"}
  /\ Become(s, [session[s] EXCEPT !.io = "done"])

\* CheckTimeout resumes, stops the session if the time is over, and ends.
CheckedTimeout(s) ==
  LET r == session[s]
  IN  /\ r.watch \in {"fired", "cancelled"}
      /\ Become(s, [(IF IsExpired(r) THEN Stop(r) ELSE r) EXCEPT !.watch = "done"])

-----------------------------------------------------------------------------
(* The peer, the kernel and the clock.                                     *)

\* The pending operation finishes and its handler is queued.
TransferCompletes(s) ==
  /\ session[s].io \in Pending
  /\ session' = [session EXCEPT ![s].io = IF @ = "reading" THEN "read" ELSE "written"]

\* The peer closes or resets the connection under a pending operation.
TransferBreaks(s) ==
  /\ session[s].io \in Pending
  /\ session' = [session EXCEPT ![s].io = Aborted(@)]

\* The deadline of an active timer passes; a wait for it is queued as expired.
DeadlinePasses(s) ==
  /\ session[s].timer = "running"
  /\ session' = [session EXCEPT ![s].timer = "due",
                                ![s].watch = IF @ = "waiting" THEN "fired" ELSE @]

-----------------------------------------------------------------------------
Handler(s) ==
  \/ \E bytes \in BOOLEAN : Start(s, bytes) \/ Received(s, bytes) \/ Sent(s, bytes)
  \/ TransferFailed(s)
  \/ CheckedTimeout(s)

Environment(s) == TransferCompletes(s) \/ TransferBreaks(s) \/ DeadlinePasses(s)

SessionNext ==
  \E s \in Sessions :
    \/ \E type \in TransferTypes : MakeSocketSession(s, type)
    \/ Handler(s)
    \/ Environment(s)

\* The service thread runs every queued handler and time passes; a peer owes
\* nothing, and new connections need not come.
SessionFairness ==
  \A s \in Sessions : WF_session(Handler(s)) /\ WF_session(DeadlinePasses(s))

SessionSpec == SessionInit /\ [][SessionNext]_session
FairSessionSpec == SessionSpec /\ SessionFairness
-----------------------------------------------------------------------------
(* Properties.                                                             *)

\* The transfer the session was created for, as opposed to the one that
\* follows it in a half-duplex mode.
InFirstTransfer(r) ==
  r.io \in (IF ReceivesFirst(r) THEN {"reading", "read", "readFailed"}
                                ELSE {"writing", "written", "writeFailed"})

\* Type invariant of the state of AsioSocketSession.
SessionTypeOK == session \in [Sessions -> SessionRecord]

\* Once Stop has closed the socket no coroutine stays suspended: each has its
\* completion queued or has ended, so the object is going to be destroyed.  It
\* rests on close() and cancel() in Stop and on the IsOpen tests of Receive and
\* Send, which keep a resumed coroutine from suspending again.
StoppedSessionDrains ==
  \A s \in Sessions : ~session[s].open =>
    session[s].io \notin Pending /\ session[s].watch # "waiting"

\* The first transfer never pends without its deadline: the timer is active and
\* CheckTimeout waits for it or is about to stop the session (Start, StartTimer,
\* CheckTimeout).
FirstTransferIsWatched ==
  \A s \in Sessions :
    session[s].io \in Pending /\ InFirstTransfer(session[s]) =>
      \/ session[s].timer = "running" /\ session[s].watch = "waiting"
      \/ session[s].timer = "due" /\ session[s].watch = "fired"

\* m_AfterStop, which gives the connection back to the server's count, has not
\* run while the socket is open, has run once while a stopped object waits for
\* its coroutines, and has run once or twice when the object is gone.
AfterStopRuns ==
  \A s \in Sessions :
    LET r == session[s] IN
    CASE r.stage = "free" -> r.type # "none" => r.stops \in 1..2
      [] r.stage # "free" -> r.stops = (IF r.open THEN 0 ELSE 1)

\* No step begins a transfer on a session that is stopped already, and none
\* begins one while another of the same session is pending or unread.
TransferBegins(s) ==
  session[s].io \notin Pending /\ session'[s].io \in Pending

OneTransferAtATime ==
  [][ \A s \in Sessions : TransferBegins(s) =>
        /\ session[s].stops = 0
        /\ session'[s].stops = 0
        /\ session[s].io \in {"none", "read", "written"} ]_session

\* The end the deadline of the first transfer brings about: a peer that falls
\* silent in it does not hold the connection (CheckTimeout).
FirstTransferEnds ==
  \A s \in Sessions :
    session[s].io \in Pending /\ InFirstTransfer(session[s])
      ~> ~(session[s].io \in Pending /\ InFirstTransfer(session[s]))

\* A one-way session is destroyed whatever its peer does: no silent peer, and no
\* order of outcome, cancellation and deadline, leaves it behind.
OneWaySessionEnds ==
  \A s \in Sessions :
    session[s].type \in {"SimplexIn", "SimplexOut"} /\ session[s].stage # "free"
      ~> session[s].stage = "free"

(***************************************************************************)
(* The inductive invariant behind the safety properties.                   *)
(***************************************************************************)
\* An object whose coroutines have been started, its handler done or about to
\* release it.
Running(r) ==
  /\ r.type \in TransferTypes
  /\ r.io # "none" /\ r.watch # "none"
  /\ r.stops = (IF r.open THEN 0 ELSE 1)
  /\ ~r.open => r.io \notin Pending /\ r.timer = "off" /\ r.watch = "done"
  /\ r.watch = "waiting" => r.timer = "running"
  /\ r.io \in Pending /\ InFirstTransfer(r) =>
       \/ r.timer = "running" /\ r.watch = "waiting"
       \/ r.timer = "due" /\ r.watch = "fired"

Posted(r) ==
  /\ r.type \in TransferTypes
  /\ r.open /\ r.io = "none" /\ r.watch = "none" /\ r.timer = "off" /\ r.stops = 0

Gone(r) ==
  /\ ~r.open /\ r.io = "done" /\ r.watch = "done" /\ r.timer = "off"
  /\ r.type # "none" => r.stops \in 1..2

Consistent(r) ==
  /\ r.stage = "free" => Gone(r)
  /\ r.stage = "posted" => Posted(r)
  /\ r.stage = "running" => Running(r) /\ ~(r.io = "done" /\ r.watch = "done")

\* Every object is in a state its handlers can leave it in: not started, running
\* with a coroutine left, or destroyed.  In particular a stopped object waits
\* for its transfer coroutine alone, so it is stopped no third time.
SessionInv == SessionTypeOK /\ \A s \in Sessions : Consistent(session[s])

(***************************************************************************)
(* Refinement: the session keeps the promise of ConnectionService.         *)
(***************************************************************************)
PhaseOf(r) ==
  CASE r.stage = "free"   -> "free"
    [] r.stage = "posted" -> "accepted"
    [] r.stage = "running" /\ ~r.open -> "closed"
    [] r.stage = "running" /\ r.open /\ r.io = "done" -> "idle"
    [] r.stage = "running" /\ r.open /\ r.io # "done" /\ ~InFirstTransfer(r) -> "second"
    [] r.stage = "running" /\ r.open /\ InFirstTransfer(r) /\ r.io \in Pending -> "first"
    [] r.stage = "running" /\ r.open /\ InFirstTransfer(r) /\ r.io \in {"read", "written"} -> "answered"
    [] OTHER -> "failed"

Promise == INSTANCE ConnectionService WITH
  phase  <- [s \in Sessions |-> PhaseOf(session[s])],
  twoWay <- [s \in Sessions |-> session[s].type \in {"HalfDuplexIn", "HalfDuplexOut"}]

\* Receive, Send and CheckTimeout together serve a connection as
\* ConnectionService allows.
ServesConnection == Promise!Spec
=============================================================================
