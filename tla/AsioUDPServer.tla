----------------------------- MODULE AsioUDPServer -----------------------------
(***************************************************************************)
(* A UDP server, include/asio/AsioUDPServer.h: every start of the service  *)
(* spawns a Listen coroutine, which opens a socket of its own, makes one   *)
(* session over it and ends.  The session's m_AfterStop gets the address   *)
(* of an object on the stack of that coroutine, which is gone when it is   *)
(* called.                                                                 *)
(***************************************************************************)
EXTENDS AsioSocketSession, ClientServerBase, FiniteSets

CONSTANTS
  Listeners,   \* identities of Listen coroutines, used again when ended
  MaxLost      \* bound: callbacks that find something else at their address

ASSUME ListenersAssumption == IsFiniteSet(Listeners) /\ MaxLost \in Nat

VARIABLES
  listener,   \* [Listeners -> "none" or "posted"]
  lost,       \* history: callbacks that did not reach the server
  state       \* AsioService::m_State

udpVars == <<session, countVars, listener, lost, state>>

UdpTypeOK ==
  /\ SessionTypeOK
  /\ CountTypeOK
  /\ listener \in [Listeners -> {"none", "posted"}]
  /\ lost \in 0 .. MaxLost
  /\ state \in {"Ok", "ErrSocketCount"}

UdpInit ==
  /\ SessionInit
  /\ CountInit
  /\ listener = [l \in Listeners |-> "none"]
  /\ lost = 0
  /\ state = "Ok"

\* The callback that Init registers for every start of the service.
BeforeStart(l) ==
  /\ listener[l] = "none"
  /\ listener' = [listener EXCEPT ![l] = "posted"]
  /\ UNCHANGED <<session, countVars, lost, state>>

-----------------------------------------------------------------------------
(* Listen on the service thread: it never suspends.                        *)

Listens(l) ==
  /\ ServiceThreadFree
  /\ listener[l] = "posted"
  /\ listener' = [listener EXCEPT ![l] = "none"]

ListenRefused(l) ==
  /\ Listens(l)
  /\ ~SocketsValid
  /\ state' = "ErrSocketCount"
  /\ UNCHANGED <<session, countVars, lost>>

\* TryOpen cannot open or bind, closes the socket and returns the error.
ListenFails(l) ==
  /\ Listens(l)
  /\ SocketsValid
  /\ UNCHANGED <<session, countVars, lost, state>>

\* TryOpen has a socket, bound or, after an exception of SetSocketOptions, not; it
\* is counted, a session is made and its Start posted.
ListenServes(l) ==
  /\ Listens(l)
  /\ SocketsValid
  /\ IncSocketsCount
  /\ \E s \in Sessions, type \in TransferTypes : MakeSocketSession(s, type)
  /\ UNCHANGED <<owed, dec, lost, state>>

Listen(l) == ListenRefused(l) \/ ListenFails(l) \/ ListenServes(l)

-----------------------------------------------------------------------------
(* Sessions and their callbacks.                                           *)

\* A handler that runs the callback of its session only where the deadline stops it.
UdpHandlerOnce(s) ==
  /\ ServiceThreadFree
  /\ Handler(s)
  /\ RunAfterStop(IF session'[s].stage = "free" THEN 0 ELSE session'[s].stops - session[s].stops)
  /\ UNCHANGED <<listener, lost, state>>

UdpHandler(s) ==
  /\ ServiceThreadFree
  /\ Handler(s)
  /\ RunAfterStop(session'[s].stops - session[s].stops)
  /\ UNCHANGED <<listener, lost, state>>

UdpEnvironment(s) ==
  /\ Environment(s)
  /\ UNCHANGED <<countVars, listener, lost, state>>

\* The memory still holds the object and the pointer to the server.
CallbackReaches == DecSocketsCount /\ UNCHANGED <<session, listener, lost, state>>

\* The memory holds something else: some other word is lowered, or none.
CallbackStrays ==
  /\ owed > 0 /\ dec.pc = "test"
  /\ lost < MaxLost
  /\ lost' = lost + 1
  /\ owed' = owed - 1
  /\ UNCHANGED <<session, socketsCount, dec, listener, state>>

UdpNext ==
  \/ \E l \in Listeners : BeforeStart(l) \/ Listen(l)
  \/ \E s \in Sessions : UdpHandler(s) \/ UdpEnvironment(s)
  \/ CallbackReaches \/ CallbackStrays

UdpSpec == UdpInit /\ [][UdpNext]_udpVars

-----------------------------------------------------------------------------
(* Properties.                                                             *)

\* The count of a UDP server stays within its bounds, however starts, doubled stops
\* and stray callbacks overlap: Listen tests and counts without a suspension, and
\* nothing resets the count behind a decrement (Listen, DecSocketsCount).
UdpCountInRange == socketsCount \in 0 .. SocketsLimit

\* Every place that is taken has an open socket, a callback under way, or a callback
\* that strayed: none gets lost in any other way (Listen, DecSocketsCount).
UdpPlacesAccounted == socketsCount <= Cardinality(OpenSockets) + owed + lost

\* Both: what the count of a UDP server can be (Listen, DecSocketsCount).
UdpCountReports == UdpCountInRange /\ UdpPlacesAccounted

-----------------------------------------------------------------------------
(***************************************************************************)
(* The inductive invariant: what DecSocketsCount is about to store obeys   *)
(* the bounds the count will have to obey when it is stored.               *)
(***************************************************************************)
UdpCountInv ==
  /\ UdpCountReports
  /\ dec.pc # "test" => owed > 0
  /\ dec.pc = "read" => socketsCount > 0
  /\ dec.pc = "store" =>
       /\ dec.value \in 0 .. SocketsLimit
       /\ dec.value <= Cardinality(OpenSockets) + owed - 1 + lost

UdpInv == UdpTypeOK /\ SessionInv /\ UdpCountInv
=============================================================================
