---------------------------- MODULE AsioTCPServer ----------------------------
(***************************************************************************)
(* A TCP server: the acceptor of include/asio/AsioAcceptor.h, the sessions *)
(* it creates (AsioSocketSession) and the count they share                 *)
(* (ClientServerBase).  One service thread runs every handler and every    *)
(* coroutine; the thread that calls Start and Stop of the io_service, the  *)
(* caller, reaches the acceptor and the count through the BeforeStart and  *)
(* BeforeStop callbacks at any time.                                       *)
(***************************************************************************)
EXTENDS AsioSocketSession, ClientServerBase, FiniteSets

CONSTANT Loops   \* identities of AcceptorAction coroutines, used again when ended

ASSUME LoopsAssumption == IsFiniteSet(Loops) /\ Loops # {}

VARIABLES
  acceptorOpen,   \* m_Acceptor.is_open()
  loop,           \* loop[l]: the coroutine l, and the outcome it will resume with
  caller,         \* the caller: idle, between closing and resetting, or in TryOpen
  tryOpen,        \* what TryOpen returned last
  state           \* AsioService::m_State

acceptorVars == <<acceptorOpen, loop, caller, tryOpen, state>>
serverVars == <<session, countVars, acceptorVars>>

ServerTypeOK ==
  /\ SessionTypeOK
  /\ CountTypeOK
  /\ acceptorOpen \in BOOLEAN
  /\ loop \in [Loops -> {"none", "posted", "accepting", "connected", "failed"}]
  /\ caller \in {"idle", "closed", "spinning"}
  /\ tryOpen \in BOOLEAN
  /\ state \in {"Ok", "ErrSocketCount"}

ServerInit ==
  /\ SessionInit
  /\ CountInit
  /\ acceptorOpen = FALSE
  /\ loop = [l \in Loops |-> "none"]
  /\ caller = "idle"
  /\ tryOpen = FALSE
  /\ state = "Ok"

-----------------------------------------------------------------------------
(* The caller.                                                             *)

\* StartAcceptor: TryOpen opens, binds and listens in time, and the coroutine
\* AcceptorAction is spawned.
StartAcceptor(l) ==
  /\ caller = "idle"
  /\ ~acceptorOpen /\ SocketsValid
  /\ loop[l] = "none"
  /\ acceptorOpen' = TRUE
  /\ loop' = [loop EXCEPT ![l] = "posted"]
  /\ tryOpen' = TRUE
  /\ UNCHANGED <<session, countVars, caller, state>>

\* The wait of TryOpen ends before its task: the task is waited for all the
\* same, but TryOpen returns false and no coroutine is spawned.
StartAcceptorLate ==
  /\ caller = "idle"
  /\ ~acceptorOpen /\ SocketsValid
  /\ acceptorOpen' = TRUE
  /\ tryOpen' = FALSE
  /\ UNCHANGED <<session, countVars, loop, caller, state>>

\* The acceptor is open already, or it opens and then bind or listen fails: from
\* then on open() reports already_open and the task of TryOpen never ends.
StartAcceptorSpins ==
  /\ caller = "idle"
  /\ acceptorOpen \/ SocketsValid
  /\ acceptorOpen' = TRUE
  /\ caller' = "spinning"
  /\ UNCHANGED <<session, countVars, loop, tryOpen, state>>

\* The acceptor is closed and the count is at its limit: TryOpen returns false.
StartAcceptorRefused ==
  /\ caller = "idle"
  /\ ~acceptorOpen /\ ~SocketsValid
  /\ tryOpen' = FALSE
  /\ UNCHANGED <<session, countVars, acceptorOpen, loop, caller, state>>

\* StopAcceptor up to the end of TryClose: pending accepts complete with an
\* error, accepted connections in the queue do not.
StopAcceptor ==
  /\ caller = "idle"
  /\ acceptorOpen' = FALSE
  /\ loop' = [l \in Loops |-> IF loop[l] = "accepting" THEN "failed" ELSE loop[l]]
  /\ caller' = "closed"
  /\ UNCHANGED <<session, countVars, tryOpen, state>>

\* StopAcceptor after it: the count is set to zero, whatever the sessions do.
StopAcceptorResets ==
  /\ caller = "closed"
  /\ caller' = "idle"
  /\ SetSocketsCount(0)
  /\ UNCHANGED <<session, acceptorOpen, loop, tryOpen, state>>

Caller ==
  \/ \E l \in Loops : StartAcceptor(l)
  \/ StartAcceptorLate \/ StartAcceptorSpins \/ StartAcceptorRefused
  \/ StopAcceptor \/ StopAcceptorResets

-----------------------------------------------------------------------------
(* AcceptorAction on the service thread.                                   *)

\* A head that does not ask SocketsValid before it accepts again.
LoopHeadWithoutLimit(l, count) ==
  /\ loop' = [loop EXCEPT ![l] = IF acceptorOpen THEN "accepting" ELSE "none"]
  /\ UNCHANGED <<acceptorOpen, caller, tryOpen, state>>

\* A head that leaves the state of the service alone when it gives up.
LoopHeadWithoutState(l, count) ==
  /\ loop' = [loop EXCEPT ![l] =
       IF acceptorOpen /\ count < SocketsLimit THEN "accepting" ELSE "none"]
  /\ UNCHANGED <<acceptorOpen, caller, tryOpen, state>>

\* The head of the loop with count sockets counted: accept again, or end for
\* good, at the limit with an error state.
LoopHead(l, count) ==
  /\ loop' = [loop EXCEPT ![l] =
       IF acceptorOpen /\ count < SocketsLimit THEN "accepting" ELSE "none"]
  /\ state' = IF acceptorOpen /\ count >= SocketsLimit THEN "ErrSocketCount" ELSE state
  /\ UNCHANGED <<acceptorOpen, caller, tryOpen>>

LoopBegins(l) ==
  /\ ServiceThreadFree
  /\ loop[l] = "posted"
  /\ LoopHead(l, socketsCount)
  /\ UNCHANGED <<session, countVars>>

\* The loop resumes with a connection: it is counted, a session is made and its
\* Start posted.
LoopAccepts(l, s, type) ==
  /\ ServiceThreadFree
  /\ loop[l] = "connected"
  /\ IncSocketsCount
  /\ MakeSocketSession(s, type)
  /\ LoopHead(l, socketsCount')
  /\ UNCHANGED <<owed, dec>>

LoopFails(l) ==
  /\ ServiceThreadFree
  /\ loop[l] = "failed"
  /\ LoopHead(l, socketsCount)
  /\ UNCHANGED <<session, countVars>>

AcceptorAction(l) ==
  \/ LoopBegins(l)
  \/ \E s \in Sessions, type \in TransferTypes : LoopAccepts(l, s, type)
  \/ LoopFails(l)

\* A pending accept completes.  The pool Sessions bounds the connections: one
\* arrives only when an object is left for it.
ConnectionArrives(l) ==
  /\ loop[l] = "accepting"
  /\ Cardinality({s \in Sessions : session[s].stage = "free"})
       > Cardinality({k \in Loops : loop[k] = "connected"})
  /\ loop' = [loop EXCEPT ![l] = "connected"]
  /\ UNCHANGED <<session, countVars, acceptorOpen, caller, tryOpen, state>>

AcceptBreaks(l) ==
  /\ loop[l] = "accepting"
  /\ loop' = [loop EXCEPT ![l] = "failed"]
  /\ UNCHANGED <<session, countVars, acceptorOpen, caller, tryOpen, state>>

-----------------------------------------------------------------------------
(* Sessions.                                                               *)

\* A handler of a session; the callbacks of the stops in it follow.
SessionHandler(s) ==
  /\ ServiceThreadFree
  /\ Handler(s)
  /\ RunAfterStop(session'[s].stops - session[s].stops)
  /\ UNCHANGED acceptorVars

SessionEnvironment(s) ==
  /\ Environment(s)
  /\ UNCHANGED <<countVars, acceptorVars>>

AfterStop == DecSocketsCount /\ UNCHANGED <<session, acceptorVars>>

Serving ==
  \/ \E l \in Loops : AcceptorAction(l) \/ ConnectionArrives(l) \/ AcceptBreaks(l)
  \/ \E s \in Sessions : SessionHandler(s) \/ SessionEnvironment(s)
  \/ AfterStop

ServerNext == Serving \/ Caller

ServerSpec == ServerInit /\ [][ServerNext]_serverVars
\* The service runs its handlers in the order they were queued, so one that is
\* ready again and again between the callbacks is run; the callbacks are threads of
\* their own; deadlines pass.  Nothing is asked of the caller or of the peers.
ServerFairness ==
  /\ \A s \in Sessions : SF_serverVars(SessionHandler(s))
  /\ \A s \in Sessions : WF_serverVars(DeadlinePasses(s) /\ UNCHANGED <<countVars, acceptorVars>>)
  /\ WF_serverVars(AfterStop)

FairServerSpec == ServerSpec /\ ServerFairness

\* A server that was started once, in time, and is not started or stopped again.
ServingInit ==
  /\ SessionInit
  /\ CountInit
  /\ acceptorOpen = TRUE
  /\ \E first \in Loops : loop = [l \in Loops |-> IF l = first THEN "posted" ELSE "none"]
  /\ caller = "idle"
  /\ tryOpen = TRUE
  /\ state = "Ok"

ServingSpec == ServingInit /\ [][Serving]_serverVars

-----------------------------------------------------------------------------
(* Properties.                                                             *)

\* Coroutines that have found the count below the limit and have not yet used
\* what they found.
Admitting == {l \in Loops : loop[l] \in {"accepting", "connected", "failed"}}

\* The count never reports more sockets than are open, but for the callbacks the
\* service thread is still waiting for: no order of accepts, stops, doubled
\* stops, clamped decrements and resets makes a connection cost a slot after its
\* session is gone (IncSocketsCount, DecSocketsCount, SetSocketsCount).
CountNeverOverReports == socketsCount <= Cardinality(OpenSockets) + owed

\* The count passes the limit by at most one for every accepting coroutine
\* beyond the first: the test of SocketsValid is made before async_accept and
\* used after it (AcceptorAction), and a stop and a start in quick succession
\* leave the old coroutine accepting on the reopened acceptor.
AdmissionBound == socketsCount <= SocketsLimit + Cardinality(Loops) - 1

\* A decrement that overlaps the reset of StopAcceptor goes at most one below
\* zero, and does not go on from there.
CountAtLeastMinusOne == socketsCount >= -1

\* A server whose acceptor is open, whose last TryOpen succeeded and whose state
\* is Ok has a coroutine that accepts: none ends without closing or reporting.
OpenMeansAccepting ==
  acceptorOpen /\ caller = "idle" /\ tryOpen /\ state = "Ok" =>
    \E l \in Loops : loop[l] # "none"

\* SocketsLimit is documented as the greatest number of sockets served at once.
ServedWithinLimit == Cardinality(OpenSockets) <= SocketsLimit

-----------------------------------------------------------------------------
(***************************************************************************)
(* The inductive invariant behind the bounds on the count.  A value that   *)
(* DecSocketsCount is about to store obeys the bounds the count will have  *)
(* to obey when it is stored, and a coroutine that was let in has a place  *)
(* reserved for it.                                                        *)
(***************************************************************************)
Places == SocketsLimit - 1 + Cardinality(Loops)

CountInv ==
  /\ socketsCount >= -1
  /\ socketsCount <= Cardinality(OpenSockets) + owed
  /\ socketsCount + Cardinality(Admitting) <= Places
  /\ dec.pc # "test" => owed > 0
  /\ dec.pc = "read" => socketsCount >= 0
  /\ dec.pc = "store" =>
       /\ dec.value >= -1
       /\ dec.value <= Cardinality(OpenSockets) + owed - 1
       /\ dec.value + Cardinality(Admitting) <= Places

ServerInv == ServerTypeOK /\ SessionInv /\ CountInv
=============================================================================
