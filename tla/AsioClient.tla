------------------------------ MODULE AsioClient ------------------------------
(***************************************************************************)
(* A client of include/asio/AsioClient.h: the coroutine Connect, which     *)
(* goes on connecting while m_KeepAlive is set, the list of endpoints of   *)
(* AsioResolver it reads and TryConnect scans anew, the sessions it makes  *)
(* (AsioSocketSession) and the count they share (ClientServerBase).        *)
(* TryConnect is run by the thread that calls Start of the io_service, the *)
(* caller, SetKeepAlive by one other thread.                               *)
(***************************************************************************)
EXTENDS AsioSocketSession, ClientServerBase, FiniteSets

CONSTANT Connects   \* identities of Connect coroutines, used again when ended

ASSUME ConnectsAssumption == IsFiniteSet(Connects)

VARIABLES
  keepAlive,    \* m_KeepAlive
  afterStop,    \* m_SessionAfterStop holds DecSocketsCount
  setter,       \* SetKeepAlive: not called, or its next step
  endpoints,    \* m_Endpoints is not empty
  connect,      \* connect[l]: the coroutine l, and the outcome it will resume with
  caller,       \* the caller: idle, or in Scan between clear and push_back
  counted,      \* counted[s]: the session got DecSocketsCount as its m_AfterStop
  state,        \* AsioService::m_State
  reliable      \* the host never fails to resolve: what the network is like

keepVars == <<keepAlive, afterStop, setter>>
clientVars == <<keepVars, endpoints, connect, caller, counted, state, reliable>>
vars == <<session, countVars, clientVars>>

ClientTypeOK ==
  /\ SessionTypeOK
  /\ CountTypeOK
  /\ {keepAlive, afterStop, endpoints} \subseteq BOOLEAN
  /\ setter \in {"idle", "clear", "set"}
  /\ connect \in [Connects -> {"none", "posted", "connecting", "connected",
                               "failed", "spinning"}]
  /\ caller \in {"idle", "scanning"}
  /\ counted \in [Sessions -> BOOLEAN]
  /\ state \in {"Ok", "ErrSocketCount", "ErrConnection"}
  /\ reliable \in BOOLEAN
  /\ \A s \in Sessions : counted[s] => session[s].stage # "free"

Init ==
  /\ SessionInit
  /\ CountInit
  /\ keepAlive \in BOOLEAN /\ afterStop = keepAlive /\ setter = "idle"
  /\ endpoints = FALSE
  /\ connect = [l \in Connects |-> "none"]
  /\ caller = "idle"
  /\ counted = [s \in Sessions |-> FALSE]
  /\ state = "Ok"
  /\ reliable \in BOOLEAN

-----------------------------------------------------------------------------
(* The caller.                                                             *)

\* TryConnect gives up at the limit, or begins to scan.  The pool Connects bounds
\* the coroutines: it is called only when an identity is left for one.
TryConnect ==
  /\ caller = "idle"
  /\ \E l \in Connects : connect[l] = "none"
  /\ IF SocketsValid
       THEN /\ caller' = "scanning"
            /\ endpoints' = FALSE
            /\ UNCHANGED state
       ELSE /\ state' = "ErrSocketCount"
            /\ UNCHANGED <<caller, endpoints>>
  /\ UNCHANGED <<session, countVars, keepVars, connect, counted, reliable>>

\* A Scan that does not fill the list.
ScanWithoutResult(l) ==
  /\ caller = "scanning"
  /\ connect[l] = "none"
  /\ caller' = "idle"
  /\ connect' = [connect EXCEPT ![l] = "posted"]
  /\ UNCHANGED <<session, countVars, keepVars, endpoints, counted, state, reliable>>

\* The host resolves and Connect is spawned.
Scan(l) ==
  /\ caller = "scanning"
  /\ connect[l] = "none"
  /\ caller' = "idle"
  /\ endpoints' = TRUE
  /\ connect' = [connect EXCEPT ![l] = "posted"]
  /\ UNCHANGED <<session, countVars, keepVars, counted, state, reliable>>

\* It does not: the list stays empty and nothing is spawned.
ScanFails ==
  /\ ~reliable
  /\ caller = "scanning"
  /\ caller' = "idle"
  /\ UNCHANGED <<session, countVars, keepVars, endpoints, connect, counted, state, reliable>>

\* SetKeepAlive stores the flag, then clears the callback that later sessions get,
\* then sets it if the flag is set.
SetKeepAlive(value) ==
  /\ setter = "idle" /\ setter' = "clear"
  /\ keepAlive' = value
  /\ UNCHANGED <<session, countVars, afterStop, endpoints, connect, caller, counted, state, reliable>>

ClearSessionAfterStop ==
  /\ setter = "clear" /\ setter' = "set"
  /\ afterStop' = FALSE
  /\ UNCHANGED <<session, countVars, keepAlive, endpoints, connect, caller, counted, state, reliable>>

SetSessionAfterStop ==
  /\ setter = "set" /\ setter' = "idle"
  /\ afterStop' = keepAlive
  /\ UNCHANGED <<session, countVars, keepAlive, endpoints, connect, caller, counted, state, reliable>>

-----------------------------------------------------------------------------
(* Connect on the service thread.                                          *)

\* The service thread is neither waiting for a callback nor held by a Connect
\* that has nowhere to connect to.
ThreadFree == ServiceThreadFree /\ \A l \in Connects : connect[l] # "spinning"

\* The head of the loops: with the list empty the outer one goes round and round
\* without suspending the coroutine.
Head(l) ==
  connect' = [connect EXCEPT ![l] =
    CASE ~keepAlive              -> "none"
      [] keepAlive /\ endpoints  -> "connecting"
      [] keepAlive /\ ~endpoints -> "spinning"]

\* A Connect that counts a socket for every endpoint.
ConnectCountsTwice(l) ==
  /\ ThreadFree
  /\ connect[l] = "posted"
  /\ socketsCount' = socketsCount + 2
  /\ Head(l)
  /\ UNCHANGED <<session, owed, dec, keepVars, endpoints, caller, counted, state, reliable>>

\* The one socket the coroutine counts.
ConnectBegins(l) ==
  /\ ThreadFree
  /\ connect[l] = "posted"
  /\ IncSocketsCount
  /\ Head(l)
  /\ UNCHANGED <<session, owed, dec, keepVars, endpoints, caller, counted, state, reliable>>

\* The list is filled, or m_KeepAlive cleared, under a loop that goes round.
ConnectSpins(l) ==
  /\ connect[l] = "spinning"
  /\ endpoints \/ ~keepAlive
  /\ Head(l)
  /\ UNCHANGED <<session, countVars, keepVars, endpoints, caller, counted, state, reliable>>

\* Every failure lowers the count, which was raised once; then it tries again.
ConnectFails(l) ==
  /\ ThreadFree
  /\ connect[l] = "failed"
  /\ state' = "ErrConnection"
  /\ RunAfterStop(1)
  /\ Head(l)
  /\ UNCHANGED <<session, keepVars, endpoints, caller, counted, reliable>>

\* A connection: a session is made and posted, and the loop connects the next.
ConnectSucceeds(l, s, type) ==
  /\ ThreadFree
  /\ connect[l] = "connected"
  /\ MakeSocketSession(s, type)
  /\ counted' = [counted EXCEPT ![s] = afterStop]
  /\ Head(l)
  /\ UNCHANGED <<countVars, keepVars, endpoints, caller, state, reliable>>

Connect(l) ==
  \/ ConnectBegins(l)
  \/ ConnectFails(l)
  \/ \E s \in Sessions, type \in TransferTypes : ConnectSucceeds(l, s, type)

\* The server answers or refuses.  The pool Sessions bounds the connections.
ConnectionMade(l) ==
  /\ connect[l] = "connecting"
  /\ Cardinality({s \in Sessions : session[s].stage = "free"})
       > Cardinality({k \in Connects : connect[k] = "connected"})
  /\ connect' = [connect EXCEPT ![l] = "connected"]
  /\ UNCHANGED <<session, countVars, keepVars, endpoints, caller, counted, state, reliable>>

ConnectionRefused(l) ==
  /\ connect[l] = "connecting"
  /\ connect' = [connect EXCEPT ![l] = "failed"]
  /\ UNCHANGED <<session, countVars, keepVars, endpoints, caller, counted, state, reliable>>

-----------------------------------------------------------------------------
(* Sessions.                                                               *)

\* A handler of a session; the callbacks of the stops in it follow.
SessionHandler(s) ==
  /\ ThreadFree
  /\ Handler(s)
  /\ RunAfterStop(IF counted[s] THEN session'[s].stops - session[s].stops ELSE 0)
  /\ counted' = [counted EXCEPT ![s] = @ /\ session'[s].stage # "free"]
  /\ UNCHANGED <<keepVars, endpoints, connect, caller, state, reliable>>

SessionEnvironment(s) ==
  /\ Environment(s)
  /\ UNCHANGED <<countVars, clientVars>>

AfterStop == DecSocketsCount /\ UNCHANGED <<session, clientVars>>

Next ==
  \/ TryConnect \/ ScanFails
  \/ \E l \in Connects : Scan(l)
  \/ \E value \in BOOLEAN : SetKeepAlive(value)
  \/ ClearSessionAfterStop \/ SetSessionAfterStop
  \/ \E l \in Connects :
       Connect(l) \/ ConnectSpins(l) \/ ConnectionMade(l) \/ ConnectionRefused(l)
  \/ \E s \in Sessions : SessionHandler(s) \/ SessionEnvironment(s)
  \/ AfterStop

\* The threads of the caller and of the callbacks run, the service runs its
\* handlers in the order they were queued, and deadlines pass.
Fairness ==
  /\ WF_vars(\E l \in Connects : Scan(l))
  /\ WF_vars(AfterStop)
  /\ \A l \in Connects : SF_vars(Connect(l)) /\ WF_vars(ConnectSpins(l))
  /\ \A s \in Sessions : SF_vars(SessionHandler(s))
  /\ \A s \in Sessions : WF_vars(DeadlinePasses(s) /\ UNCHANGED <<countVars, clientVars>>)

Spec == Init /\ [][Next]_vars
FairSpec == Spec /\ Fairness

-----------------------------------------------------------------------------
(* Properties.                                                             *)

\* The count passes the limit by at most one for every Connect but the first:
\* TryConnect tests SocketsValid on one thread, Connect counts on another.
ClientAdmissionBound == socketsCount <= SocketsLimit + Cardinality(Connects) - 1

\* No order of refused connections, sessions stopped once or twice, and changes
\* of m_KeepAlive takes the count below zero (DecSocketsCount).
ClientCountNotNegative == socketsCount >= 0

\* While the host resolves and TryConnect is not called over and over, a Connect
\* that finds the list of endpoints empty in the middle of a Scan does not hold the
\* service thread for good.
SpinningEnds ==
  reliable /\ <>[](caller = "idle") =>
    \A l \in Connects : connect[l] = "spinning" ~> connect[l] # "spinning"

\* The state of the client is well typed and its count within both bounds (Connect,
\* DecSocketsCount).
ClientSafe == ClientTypeOK /\ ClientAdmissionBound /\ ClientCountNotNegative

-----------------------------------------------------------------------------
(***************************************************************************)
(* The inductive invariant behind both bounds.  Every coroutine that is    *)
(* posted, or about to be by a Scan under way, has a place reserved for    *)
(* the socket it will count; only TryConnect reserves one.                 *)
(***************************************************************************)
Places == SocketsLimit - 1 + Cardinality(Connects)

PostedConnects == {l \in Connects : connect[l] = "posted"}

Reserved == Cardinality(PostedConnects) + (IF caller = "scanning" THEN 1 ELSE 0)

ClientCountInv ==
  /\ socketsCount >= 0
  /\ socketsCount + Reserved <= Places
  /\ caller = "scanning" => \E l \in Connects : connect[l] = "none"
  /\ dec.pc # "test" => owed > 0
  /\ dec.pc = "read" => socketsCount > 0
  /\ dec.pc = "store" => dec.value \in 0 .. socketsCount

ClientInv == ClientTypeOK /\ SessionInv /\ ClientCountInv
=============================================================================
