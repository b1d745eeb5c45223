------------------------- MODULE AsioTCPServerProofs -------------------------
(***************************************************************************)
(* The bounds on the count of sockets hold for any number of sessions, any *)
(* limit and any number of accepting coroutines: ServerInv is inductive.   *)
(* One lemma per group of actions says how the three quantities the bounds *)
(* relate, the count, the open sockets and the coroutines let in, change.  *)
(***************************************************************************)
EXTENDS AsioTCPServer, AsioSocketSessionProofs

LEMMA AdmittingFinite ==
  /\ IsFiniteSet(Admitting) /\ Cardinality(Admitting) \in Nat
  /\ IsFiniteSet(Admitting') /\ Cardinality(Admitting') \in Nat
  /\ Cardinality(Loops) \in Nat
  /\ Cardinality(Admitting) <= Cardinality(Loops)
  /\ Cardinality(Admitting') <= Cardinality(Loops)
<1>1. Admitting \in SUBSET Loops /\ Admitting' \in SUBSET Loops
  BY DEF Admitting
<1> QED
  BY <1>1, LoopsAssumption, FS_Subset, FS_CardinalityType

\* The head of the loop lets the coroutine in below the limit, or out.
LEMMA LoopHeadCounts ==
  ASSUME ServerTypeOK, NEW l \in Loops, NEW count \in Int, LoopHead(l, count)
  PROVE  /\ loop' \in [Loops -> {"none", "posted", "accepting", "connected", "failed"}]
         /\ state' \in {"Ok", "ErrSocketCount"}
         /\ \/ count < SocketsLimit
            \/ /\ Cardinality(Admitting') <= Cardinality(Admitting)
               /\ l \in Admitting => Cardinality(Admitting') = Cardinality(Admitting) - 1
<1>1. /\ loop' \in [Loops -> {"none", "posted", "accepting", "connected", "failed"}]
      /\ state' \in {"Ok", "ErrSocketCount"}
  BY DEF LoopHead, ServerTypeOK
<1>2. ASSUME ~(count < SocketsLimit)
      PROVE  Admitting' = Admitting \ {l}
  BY <1>2, SocketsLimitAssumption DEF LoopHead, ServerTypeOK, Admitting
<1> QED
  BY <1>1, <1>2, AdmittingFinite, FS_RemoveElement

\* A step that leaves the count and its callbacks alone, closes no socket and
\* lets nobody in keeps the bounds.
LEMMA QuietKeeps ==
  ASSUME ServerInv, UNCHANGED countVars,
         Cardinality(OpenSockets') = Cardinality(OpenSockets),
         Cardinality(Admitting') <= Cardinality(Admitting)
  PROVE  CountInv'
<1>1. CountInv /\ CountTypeOK
  BY DEF ServerInv, ServerTypeOK
<1>2. socketsCount' = socketsCount /\ owed' = owed /\ dec' = dec
  BY DEF countVars
<1>3. dec.value \in Int /\ socketsCount \in Int /\ owed \in Nat
  BY <1>1 DEF CountTypeOK
<1> QED
  BY <1>1, <1>2, <1>3, OpenFinite, AdmittingFinite, SocketsLimitAssumption
  DEF CountInv, Places

LEMMA PlacesType == Places \in Nat /\ Cardinality(Loops) <= Places /\ SocketsLimit <= Places
<1>1. Loops # {} => Cardinality(Loops) # 0
  BY LoopsAssumption, FS_EmptySet
<1> QED
  BY <1>1, LoopsAssumption, SocketsLimitAssumption, AdmittingFinite DEF Places

\* The caller's steps.
LEMMA CallerKeeps == ASSUME ServerInv, Caller PROVE ServerInv'
<1> USE DEF ServerInv, ServerTypeOK
<1>1. UNCHANGED session
  BY DEF Caller, StartAcceptor, StartAcceptorLate, StartAcceptorSpins,
         StartAcceptorRefused, StopAcceptor, StopAcceptorResets
<1>2. SessionInv' /\ OpenSockets' = OpenSockets
  BY <1>1 DEF SessionInv, SessionTypeOK, OpenSockets
<1>3. ASSUME NEW l \in Loops, StartAcceptor(l) PROVE ServerInv'
  <2>1. Admitting' = Admitting
    BY <1>3 DEF StartAcceptor, Admitting
  <2>2. CountInv'
    BY <1>2, <1>3, <2>1, AdmittingFinite, QuietKeeps DEF StartAcceptor
  <2> QED
    BY <1>2, <1>3, <2>2 DEF StartAcceptor, CountTypeOK, countVars, SessionInv
<1>4. ASSUME StartAcceptorLate \/ StartAcceptorSpins \/ StartAcceptorRefused PROVE ServerInv'
  <2>1. UNCHANGED <<loop, countVars, state>>
    BY <1>4 DEF StartAcceptorLate, StartAcceptorSpins, StartAcceptorRefused
  <2>2. Admitting' = Admitting
    BY <2>1 DEF Admitting
  <2>3. CountInv'
    BY <1>2, <2>1, <2>2, AdmittingFinite, QuietKeeps
  <2> QED
    BY <1>2, <1>4, <2>1, <2>3
    DEF StartAcceptorLate, StartAcceptorSpins, StartAcceptorRefused,
        CountTypeOK, countVars, SessionInv
<1>5. ASSUME StopAcceptor PROVE ServerInv'
  <2>1. Admitting' = Admitting
    BY <1>5 DEF StopAcceptor, Admitting
  <2>2. CountInv'
    BY <1>2, <1>5, <2>1, AdmittingFinite, QuietKeeps DEF StopAcceptor
  <2> QED
    BY <1>2, <1>5, <2>2 DEF StopAcceptor, CountTypeOK, countVars, SessionInv
<1>6. ASSUME StopAcceptorResets PROVE ServerInv'
  <2>1. socketsCount' = 0 /\ owed' = owed /\ dec' = dec /\ loop' = loop
    BY <1>6 DEF StopAcceptorResets, SetSocketsCount
  <2>2. Admitting' = Admitting
    BY <2>1 DEF Admitting
  <2>3. CountInv'
    BY <1>2, <2>1, <2>2, OpenFinite, AdmittingFinite, PlacesType DEF CountInv, CountTypeOK, Places
  <2> QED
    BY <1>2, <1>6, <2>1, <2>3 DEF StopAcceptorResets, CountTypeOK, SessionInv
<1> QED
  BY <1>3, <1>4, <1>5, <1>6 DEF Caller

\* The steps of the accepting coroutines.
LEMMA AcceptorKeeps ==
  ASSUME ServerInv, NEW l \in Loops, AcceptorAction(l) PROVE ServerInv'
<1> USE DEF ServerInv, ServerTypeOK
<1>1. /\ socketsCount \in Int /\ owed = 0 /\ dec.pc = "test" /\ CountInv
      /\ owed' = owed /\ dec' = dec
  BY DEF AcceptorAction, LoopBegins, LoopAccepts, LoopFails, ServiceThreadFree,
         CountInv, CountTypeOK, countVars
<1>2. ASSUME LoopBegins(l) \/ LoopFails(l) PROVE ServerInv'
  <2>1. /\ LoopHead(l, socketsCount) /\ UNCHANGED <<session, countVars>>
        /\ UNCHANGED <<acceptorOpen, caller, tryOpen>>
    BY <1>2 DEF LoopBegins, LoopFails, LoopHead
  <2>2. SessionInv' /\ OpenSockets' = OpenSockets /\ socketsCount' = socketsCount
    BY <2>1 DEF SessionInv, SessionTypeOK, OpenSockets, countVars
  <2>3. /\ loop' \in [Loops -> {"none", "posted", "accepting", "connected", "failed"}]
        /\ state' \in {"Ok", "ErrSocketCount"}
        /\ \/ socketsCount < SocketsLimit
           \/ Cardinality(Admitting') <= Cardinality(Admitting)
    BY <1>1, <2>1, LoopHeadCounts
  <2>4. CountInv'
    BY <1>1, <2>2, <2>3, OpenFinite, AdmittingFinite, SocketsLimitAssumption
    DEF CountInv, Places
  <2> QED
    BY <2>1, <2>2, <2>3, <2>4 DEF CountTypeOK, countVars, SessionInv
<1>3. ASSUME NEW s \in Sessions, NEW type \in TransferTypes, LoopAccepts(l, s, type)
      PROVE  ServerInv'
  <2>1. /\ LoopHead(l, socketsCount + 1) /\ MakeSocketSession(s, type)
        /\ socketsCount' = socketsCount + 1 /\ l \in Admitting
        /\ UNCHANGED <<acceptorOpen, caller, tryOpen>>
    BY <1>3 DEF LoopAccepts, IncSocketsCount, LoopHead, Admitting
  <2>2. PICK r \in SessionRecord : /\ session' = [session EXCEPT ![s] = r]
                                   /\ Consistent(r) /\ r.open
    BY <2>1, MakeKeeps
  <2>3. ~session[s].open
    BY <2>1 DEF MakeSocketSession, SessionInv, Consistent, Gone
  <2>4. SessionInv' /\ Cardinality(OpenSockets') = Cardinality(OpenSockets) + 1
    BY <2>2, <2>3, ReplaceKeeps, OpenChange
  <2>5. /\ loop' \in [Loops -> {"none", "posted", "accepting", "connected", "failed"}]
        /\ state' \in {"Ok", "ErrSocketCount"}
        /\ \/ socketsCount + 1 < SocketsLimit
           \/ Cardinality(Admitting') = Cardinality(Admitting) - 1
    BY <1>1, <2>1, LoopHeadCounts
  <2>6. CountInv'
    BY <1>1, <2>1, <2>4, <2>5, OpenFinite, AdmittingFinite, SocketsLimitAssumption
    DEF CountInv, Places
  <2> QED
    BY <1>1, <2>1, <2>4, <2>5, <2>6 DEF CountTypeOK, SessionInv
<1> QED
  BY <1>2, <1>3 DEF AcceptorAction

\* Accepted connections and broken accepts change the outcome a coroutine will
\* resume with, not its place.
LEMMA ArrivalKeeps ==
  ASSUME ServerInv, NEW l \in Loops, ConnectionArrives(l) \/ AcceptBreaks(l)
  PROVE  ServerInv'
<1> USE DEF ServerInv, ServerTypeOK
<1>1. UNCHANGED <<session, countVars, acceptorOpen, caller, tryOpen, state>>
  BY DEF ConnectionArrives, AcceptBreaks
<1>2. SessionInv' /\ OpenSockets' = OpenSockets
  BY <1>1 DEF SessionInv, SessionTypeOK, OpenSockets
<1>3. Admitting' = Admitting
  BY DEF ConnectionArrives, AcceptBreaks, Admitting
<1>4. CountInv'
  BY <1>1, <1>2, <1>3, AdmittingFinite, QuietKeeps
<1>5. loop' \in [Loops -> {"none", "posted", "accepting", "connected", "failed"}]
  BY DEF ConnectionArrives, AcceptBreaks
<1> QED
  BY <1>1, <1>2, <1>4, <1>5 DEF CountTypeOK, countVars, SessionInv

\* A session handler owes a callback for every socket it closes.
LEMMA SessionHandlerKeeps ==
  ASSUME ServerInv, NEW s \in Sessions, SessionHandler(s) PROVE ServerInv'
<1> USE DEF ServerInv, ServerTypeOK
<1> DEFINE k == session'[s].stops - session[s].stops
<1>1. /\ Handler(s) /\ owed = 0 /\ owed' = owed + k
      /\ socketsCount' = socketsCount /\ dec' = dec /\ UNCHANGED acceptorVars
  BY DEF SessionHandler, ServiceThreadFree, RunAfterStop
<1>2. /\ SessionInv' /\ k \in Nat
      /\ Cardinality(OpenSockets) <= Cardinality(OpenSockets') + k
  BY <1>1, HandlerCounts
<1>3. Admitting' = Admitting
  BY <1>1 DEF Admitting, acceptorVars
<1>4. socketsCount \in Int /\ CountInv
  BY DEF CountTypeOK
<1> HIDE DEF k
<1>5. CountInv'
  BY <1>1, <1>2, <1>3, <1>4, OpenFinite, AdmittingFinite DEF CountInv, Places
<1> QED
  BY <1>1, <1>2, <1>5 DEF CountTypeOK, acceptorVars, SessionInv

\* The peer and the clock touch no quantity of the bounds.
LEMMA SessionEnvironmentKeeps ==
  ASSUME ServerInv, NEW s \in Sessions, SessionEnvironment(s) PROVE ServerInv'
<1> USE DEF ServerInv, ServerTypeOK
<1>1. Environment(s) /\ UNCHANGED <<countVars, acceptorVars>>
  BY DEF SessionEnvironment
<1>2. PICK r \in SessionRecord : /\ session' = [session EXCEPT ![s] = r]
                                 /\ Consistent(r) /\ r.open = session[s].open
  BY <1>1, EnvironmentResult
<1>3. SessionInv' /\ Cardinality(OpenSockets') = Cardinality(OpenSockets)
  BY <1>2, ReplaceKeeps, OpenChange
<1>4. Admitting' = Admitting
  BY <1>1 DEF Admitting, acceptorVars
<1>5. CountInv'
  BY <1>1, <1>3, <1>4, AdmittingFinite, QuietKeeps
<1> QED
  BY <1>1, <1>3, <1>5 DEF CountTypeOK, countVars, acceptorVars, SessionInv

\* The three steps of DecSocketsCount.
LEMMA AfterStopKeeps == ASSUME ServerInv, AfterStop PROVE ServerInv'
<1> USE DEF ServerInv, ServerTypeOK
<1>1. DecSocketsCount /\ UNCHANGED <<session, acceptorVars>>
  BY DEF AfterStop
<1>2. SessionInv' /\ OpenSockets' = OpenSockets /\ Admitting' = Admitting
  BY <1>1 DEF SessionInv, SessionTypeOK, OpenSockets, Admitting, acceptorVars
<1>3. /\ CountInv /\ socketsCount \in Int /\ owed \in Nat
      /\ dec \in [pc : {"test", "read", "store"}, value : Int]
  BY DEF CountTypeOK
<1>4. CASE DecTest
  <2>1. /\ owed > 0 /\ socketsCount' = socketsCount /\ owed' = owed
        /\ \/ dec' = [dec EXCEPT !.pc = "read"] /\ socketsCount > 0
           \/ dec' = [pc |-> "store", value |-> 0]
    BY <1>3, <1>4 DEF DecTest
  <2>2. CountTypeOK'
    BY <1>3, <2>1 DEF CountTypeOK
  <2>3. \/ dec'.pc = "read" /\ socketsCount > 0
        \/ dec'.pc = "store" /\ dec'.value = 0
    BY <1>3, <2>1
  <2>4. /\ Places' = Places /\ Cardinality(Admitting) <= Places
        /\ Cardinality(OpenSockets') = Cardinality(OpenSockets)
        /\ Cardinality(Admitting') = Cardinality(Admitting)
    BY <1>2, AdmittingFinite, PlacesType DEF Places
  <2>5. CountInv'
    <3>1. owed' = owed /\ owed > 0 /\ socketsCount' = socketsCount
      BY <2>1
    <3>2. CASE dec'.pc = "read" /\ socketsCount > 0
      BY <1>3, <3>1, <2>4, <3>2, OpenFinite, AdmittingFinite, PlacesType DEF CountInv
    <3>3. CASE dec'.pc = "store" /\ dec'.value = 0
      BY <1>3, <3>1, <2>4, <3>3, OpenFinite, AdmittingFinite, PlacesType DEF CountInv
    <3> QED
      BY <2>3, <3>2, <3>3
  <2> QED
    BY <1>1, <1>2, <2>2, <2>5 DEF acceptorVars, SessionInv
<1>5. CASE DecRead
  <2>1. /\ dec.pc = "read" /\ socketsCount' = socketsCount /\ owed' = owed
        /\ dec' = [pc |-> "store", value |-> socketsCount - 1]
    BY <1>5 DEF DecRead
  <2>2. CountTypeOK'
    BY <1>3, <2>1 DEF CountTypeOK
  <2>3. /\ Places' = Places
        /\ Cardinality(OpenSockets') = Cardinality(OpenSockets)
        /\ Cardinality(Admitting') = Cardinality(Admitting)
    BY <1>2 DEF Places
  <2>4. dec'.pc = "store" /\ dec'.value = socketsCount - 1 /\ owed > 0 /\ socketsCount >= 0
    BY <1>3, <2>1 DEF CountInv
  <2>5. CountInv'
    BY <1>3, <2>1, <2>3, <2>4, OpenFinite, AdmittingFinite, PlacesType DEF CountInv
  <2> QED
    BY <1>1, <1>2, <2>2, <2>5 DEF acceptorVars, SessionInv
<1>6. CASE DecStore
  <2>1. /\ dec.pc = "store" /\ socketsCount' = dec.value /\ owed' = owed - 1
        /\ dec' = NoDec
    BY <1>6 DEF DecStore
  <2>2. owed > 0
    BY <1>3, <2>1 DEF CountInv
  <2>3. CountTypeOK'
    BY <1>3, <2>1, <2>2 DEF CountTypeOK, NoDec
  <2>4. CountInv'
    BY <1>2, <1>3, <2>1, <2>2, OpenFinite, AdmittingFinite DEF CountInv, Places, NoDec
  <2> QED
    BY <1>1, <1>2, <2>3, <2>4 DEF acceptorVars, SessionInv
<1> QED
  BY <1>1, <1>4, <1>5, <1>6 DEF DecSocketsCount

LEMMA ServerInitHolds == ASSUME ServerInit PROVE ServerInv
<1>1. SessionInv /\ SessionTypeOK
  BY SessionInitHolds DEF ServerInit, SessionInv
<1>2. OpenSockets = {} /\ Admitting = {}
  BY DEF ServerInit, SessionInit, NoSession, OpenSockets, Admitting
<1>3. CountInv /\ CountTypeOK
  BY <1>2, PlacesType, FS_EmptySet DEF ServerInit, CountInit, NoDec, CountInv, CountTypeOK
<1> QED
  BY <1>1, <1>3 DEF ServerInv, ServerTypeOK, ServerInit

\* Type correctness, and the bounds of the count: it never reports more sockets
\* than are open and being given back, never more than the limit and one for each
\* further accepting coroutine, and never less than minus one.
THEOREM ServerSafety ==
  ServerSpec => [](/\ ServerTypeOK /\ CountNeverOverReports
                   /\ AdmissionBound /\ CountAtLeastMinusOne)
<1>1. ServerInit => ServerInv
  BY ServerInitHolds
<1>2. ServerInv /\ [ServerNext]_serverVars => ServerInv'
  <2>1. ServerInv /\ UNCHANGED serverVars => ServerInv'
    BY DEF ServerInv, ServerTypeOK, SessionInv, SessionTypeOK, CountTypeOK, CountInv,
           OpenSockets, Admitting, Places, serverVars, countVars, acceptorVars
  <2>2. ServerInv /\ Serving => ServerInv'
    BY AcceptorKeeps, ArrivalKeeps, SessionHandlerKeeps, SessionEnvironmentKeeps,
       AfterStopKeeps DEF Serving
  <2> QED
    BY <2>1, <2>2, CallerKeeps DEF ServerNext
<1>3. ServerInv => /\ ServerTypeOK /\ CountNeverOverReports
                   /\ AdmissionBound /\ CountAtLeastMinusOne
  <2> SUFFICES ASSUME ServerInv PROVE CountNeverOverReports /\ AdmissionBound /\ CountAtLeastMinusOne
    BY DEF ServerInv
  <2>1. CountInv /\ socketsCount \in Int
    BY DEF ServerInv, ServerTypeOK, CountTypeOK
  <2> QED
    BY <2>1, AdmittingFinite, SocketsLimitAssumption
    DEF CountInv, CountNeverOverReports, AdmissionBound, CountAtLeastMinusOne, Places
<1> QED
  BY <1>1, <1>2, <1>3, PTL DEF ServerSpec

-----------------------------------------------------------------------------
(* Whoever ends as the last accepting coroutine says so.                   *)

\* Between the two halves of StopAcceptor the acceptor is closed, which is what the
\* second one has to hand on.
AcceptingInv == OpenMeansAccepting /\ (caller = "closed" => ~acceptorOpen)

\* A coroutine at the head of its loop goes on, or reports, or found it closed.
LEMMA LoopHeadReports ==
  ASSUME ServerTypeOK, AcceptingInv, NEW l \in Loops, NEW count \in Int, LoopHead(l, count)
  PROVE  AcceptingInv'
<1>1. loop \in [Loops -> {"none", "posted", "accepting", "connected", "failed"}]
  BY DEF ServerTypeOK
<1>2. CASE acceptorOpen /\ count < SocketsLimit
  <2>1. loop'[l] = "accepting"
    BY <1>1, <1>2 DEF LoopHead
  <2> QED
    BY <2>1 DEF AcceptingInv, OpenMeansAccepting, LoopHead
<1>3. CASE acceptorOpen /\ ~(count < SocketsLimit)
  <2>1. state' = "ErrSocketCount"
    BY <1>3, SocketsLimitAssumption DEF LoopHead
  <2> QED
    BY <2>1 DEF AcceptingInv, OpenMeansAccepting, LoopHead
<1>4. CASE ~acceptorOpen
  BY <1>4 DEF AcceptingInv, OpenMeansAccepting, LoopHead
<1> QED
  BY <1>2, <1>3, <1>4

LEMMA AcceptingKeeps ==
  ASSUME ServerTypeOK, AcceptingInv, ServerNext PROVE AcceptingInv'
<1>1. loop \in [Loops -> {"none", "posted", "accepting", "connected", "failed"}]
      /\ socketsCount \in Int
  BY DEF ServerTypeOK, CountTypeOK
<1>2. ASSUME NEW l \in Loops, AcceptorAction(l) PROVE AcceptingInv'
  <2>1. PICK count \in Int : LoopHead(l, count)
    BY <1>1, <1>2 DEF AcceptorAction, LoopBegins, LoopAccepts, LoopFails, IncSocketsCount
  <2> QED
    BY <2>1, LoopHeadReports
<1>3. ASSUME NEW l \in Loops, ConnectionArrives(l) \/ AcceptBreaks(l) PROVE AcceptingInv'
  <2>1. loop'[l] \in {"connected", "failed"}
    BY <1>1, <1>3 DEF ConnectionArrives, AcceptBreaks
  <2> QED
    BY <1>3, <2>1 DEF ConnectionArrives, AcceptBreaks, AcceptingInv, OpenMeansAccepting
<1>4. ASSUME UNCHANGED acceptorVars PROVE AcceptingInv'
  BY <1>4 DEF acceptorVars, AcceptingInv, OpenMeansAccepting
<1>5. CASE Serving
  BY <1>2, <1>3, <1>4, <1>5 DEF Serving, SessionHandler, SessionEnvironment, AfterStop
<1>6. CASE Caller
  <2>1. ASSUME NEW l \in Loops, StartAcceptor(l) PROVE AcceptingInv'
    <3>1. loop'[l] = "posted"
      BY <1>1, <2>1 DEF StartAcceptor
    <3> QED
      BY <2>1, <3>1 DEF StartAcceptor, AcceptingInv, OpenMeansAccepting
  <2>2. CASE StartAcceptorLate \/ StartAcceptorSpins \/ StartAcceptorRefused
    BY <2>2 DEF StartAcceptorLate, StartAcceptorSpins, StartAcceptorRefused, AcceptingInv,
                OpenMeansAccepting
  <2>3. CASE StopAcceptor \/ StopAcceptorResets
    BY <2>3 DEF StopAcceptor, StopAcceptorResets, AcceptingInv, OpenMeansAccepting
  <2> QED
    BY <1>6, <2>1, <2>2, <2>3 DEF Caller
<1> QED
  BY <1>5, <1>6 DEF ServerNext

\* A server that is open, whose last TryOpen succeeded and whose state is Ok has a
\* coroutine that accepts, for any limit and any number of them (AcceptorAction).
THEOREM OpenAccepts == ServerSpec => []OpenMeansAccepting
<1>1. ServerInit => AcceptingInv
  BY DEF ServerInit, AcceptingInv, OpenMeansAccepting
<1>2. ServerTypeOK /\ AcceptingInv /\ [ServerNext]_serverVars => AcceptingInv'
  <2>1. AcceptingInv /\ UNCHANGED serverVars => AcceptingInv'
    BY DEF AcceptingInv, OpenMeansAccepting, serverVars, acceptorVars
  <2> QED
    BY <2>1, AcceptingKeeps
<1>3. AcceptingInv => OpenMeansAccepting
  BY DEF AcceptingInv
<1>4. ServerSpec => []ServerTypeOK
  BY ServerSafety, PTL
<1> QED
  BY <1>1, <1>2, <1>3, <1>4, PTL DEF ServerSpec

-----------------------------------------------------------------------------
(* The properties of ServerSafety one by one.                              *)

\* The server, its sessions and its count stay within their types.
THEOREM ServerTypes == ServerSpec => []ServerTypeOK
  BY ServerSafety, PTL

\* The count reports no more sockets than are open or being given back
\* (IncSocketsCount, DecSocketsCount, SetSocketsCount).
THEOREM CountReports == ServerSpec => []CountNeverOverReports
  BY ServerSafety, PTL

\* The count passes the limit by one for every accepting coroutine but the first.
THEOREM AdmissionIsBound == ServerSpec => []AdmissionBound
  BY ServerSafety, PTL

\* Resets beside decrements leave the count at minus one at worst.
THEOREM CountNearZero == ServerSpec => []CountAtLeastMinusOne
  BY ServerSafety, PTL
=============================================================================
