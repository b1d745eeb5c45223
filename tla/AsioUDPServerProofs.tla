------------------------- MODULE AsioUDPServerProofs --------------------------
(***************************************************************************)
(* Proofs about AsioUDPServer.  The count of a UDP server keeps its bounds *)
(* for any limit, any number of sessions and listeners and any number of   *)
(* callbacks that stray: UdpInv is inductive.  One lemma per group of      *)
(* actions.                                                                *)
(***************************************************************************)
EXTENDS AsioUDPServer, AsioSocketSessionProofs

\* A step that leaves the count and its callbacks alone and closes no socket keeps
\* the bounds.
LEMMA UdpQuietKeeps ==
  ASSUME UdpInv, UNCHANGED <<countVars, lost>>,
         Cardinality(OpenSockets') = Cardinality(OpenSockets)
  PROVE  UdpCountInv'
<1>1. UdpCountInv
  BY DEF UdpInv
<1>2. socketsCount' = socketsCount /\ owed' = owed /\ dec' = dec /\ lost' = lost
  BY DEF countVars
<1> QED
  BY <1>1, <1>2
  DEF UdpCountInv, UdpCountReports, UdpCountInRange, UdpPlacesAccounted

\* The coroutine Listen, and the callback of Init that spawns it.
LEMMA ListenKeeps ==
  ASSUME UdpInv, NEW l \in Listeners, BeforeStart(l) \/ Listen(l) PROVE UdpInv'
<1> USE DEF UdpInv, UdpTypeOK
<1>1. /\ socketsCount \in Int /\ owed \in Nat /\ lost \in 0 .. MaxLost
      /\ dec \in [pc : {"test", "read", "store"}, value : Int]
      /\ listener' \in [Listeners -> {"none", "posted"}]
  BY DEF CountTypeOK, BeforeStart, Listen, ListenRefused, ListenFails, ListenServes, Listens
<1>2. CASE BeforeStart(l) \/ ListenRefused(l) \/ ListenFails(l)
  <2>1. UNCHANGED <<session, countVars, lost>> /\ state' \in {"Ok", "ErrSocketCount"}
    BY <1>2 DEF BeforeStart, ListenRefused, ListenFails
  <2>2. SessionInv' /\ OpenSockets' = OpenSockets
    BY <2>1 DEF SessionInv, SessionTypeOK, OpenSockets
  <2>3. UdpCountInv'
    BY <2>1, <2>2, UdpQuietKeeps
  <2> QED
    BY <1>1, <2>1, <2>2, <2>3 DEF CountTypeOK, countVars, SessionInv
<1>3. CASE ListenServes(l)
  <2>1. PICK s \in Sessions, type \in TransferTypes : MakeSocketSession(s, type)
    BY <1>3 DEF ListenServes
  <2>2. /\ socketsCount' = socketsCount + 1 /\ socketsCount < SocketsLimit
        /\ owed = 0 /\ UNCHANGED <<owed, dec, lost, state>>
    BY <1>3 DEF ListenServes, Listens, SocketsValid, IncSocketsCount, ServiceThreadFree
  <2>3. PICK r \in SessionRecord : /\ session' = [session EXCEPT ![s] = r]
                                   /\ Consistent(r) /\ r.open
    BY <2>1, MakeKeeps
  <2>4. ~session[s].open
    BY <2>1 DEF MakeSocketSession, SessionInv, Consistent, Gone
  <2>5. SessionInv' /\ Cardinality(OpenSockets') = Cardinality(OpenSockets) + 1
    BY <2>3, <2>4, ReplaceKeeps, OpenChange
  <2>6. UdpCountInv'
    BY <1>1, <2>2, <2>5, OpenFinite, SocketsLimitAssumption
    DEF UdpCountInv, UdpCountReports, UdpCountInRange, UdpPlacesAccounted
  <2> QED
    BY <1>1, <2>2, <2>5, <2>6 DEF CountTypeOK, SessionInv
<1> QED
  BY <1>2, <1>3 DEF Listen

\* A session handler owes a callback for every socket it closes.
LEMMA UdpHandlerKeeps ==
  ASSUME UdpInv, NEW s \in Sessions, UdpHandler(s) PROVE UdpInv'
<1> USE DEF UdpInv, UdpTypeOK
<1> DEFINE k == session'[s].stops - session[s].stops
<1>1. /\ Handler(s) /\ owed = 0 /\ owed' = owed + k
      /\ UNCHANGED <<socketsCount, dec, listener, lost, state>>
  BY DEF UdpHandler, ServiceThreadFree, RunAfterStop
<1>2. /\ SessionInv' /\ k \in Nat
      /\ Cardinality(OpenSockets) <= Cardinality(OpenSockets') + k
  BY <1>1, HandlerCounts
<1>3. socketsCount \in Int /\ lost \in 0 .. MaxLost /\ UdpCountInv
  BY DEF CountTypeOK
<1> HIDE DEF k
<1>4. UdpCountInv'
  BY <1>1, <1>2, <1>3, OpenFinite, ListenersAssumption
  DEF UdpCountInv, UdpCountReports, UdpCountInRange, UdpPlacesAccounted
<1> QED
  BY <1>1, <1>2, <1>4 DEF CountTypeOK, SessionInv

\* The peer and the clock open and close nothing.
LEMMA UdpEnvironmentKeeps ==
  ASSUME UdpInv, NEW s \in Sessions, UdpEnvironment(s) PROVE UdpInv'
<1> USE DEF UdpInv, UdpTypeOK
<1>1. Environment(s) /\ UNCHANGED <<countVars, listener, lost, state>>
  BY DEF UdpEnvironment
<1>2. PICK r \in SessionRecord : /\ session' = [session EXCEPT ![s] = r]
                                 /\ Consistent(r) /\ r.open = session[s].open
  BY <1>1, EnvironmentResult
<1>3. SessionInv' /\ Cardinality(OpenSockets') = Cardinality(OpenSockets)
  BY <1>2, ReplaceKeeps, OpenChange
<1>4. UdpCountInv'
  BY <1>1, <1>3, UdpQuietKeeps
<1> QED
  BY <1>1, <1>3, <1>4 DEF CountTypeOK, countVars, SessionInv

\* The three steps of DecSocketsCount, and the callback that finds no server.
LEMMA UdpCallbackKeeps ==
  ASSUME UdpInv, CallbackReaches \/ CallbackStrays PROVE UdpInv'
<1> USE DEF UdpInv, UdpTypeOK
<1>1. UNCHANGED <<session, listener, state>>
  BY DEF CallbackReaches, CallbackStrays
<1>2. SessionInv' /\ OpenSockets' = OpenSockets
  BY <1>1 DEF SessionInv, SessionTypeOK, OpenSockets
<1>3. /\ UdpCountInv /\ socketsCount \in Int /\ owed \in Nat /\ lost \in 0 .. MaxLost
      /\ dec \in [pc : {"test", "read", "store"}, value : Int] /\ MaxLost \in Nat
      /\ SocketsLimit \in Nat
  BY ListenersAssumption, SocketsLimitAssumption DEF CountTypeOK
<1> USE DEF UdpCountInv, UdpCountReports, UdpCountInRange, UdpPlacesAccounted
<1>4. CASE CallbackReaches /\ DecTest
  <2>1. /\ owed > 0 /\ UNCHANGED <<socketsCount, owed, lost>>
        /\ \/ dec' = [dec EXCEPT !.pc = "read"] /\ socketsCount > 0
           \/ dec' = [pc |-> "store", value |-> 0]
    BY <1>3, <1>4 DEF DecTest, CallbackReaches
  <2>2. CountTypeOK'
    BY <1>3, <2>1 DEF CountTypeOK
  <2>3. \/ dec'.pc = "read" /\ socketsCount > 0
        \/ dec'.pc = "store" /\ dec'.value = 0
    BY <1>3, <2>1
  <2>4. UdpCountInv'
    BY <1>2, <1>3, <2>1, <2>3, OpenFinite
  <2> QED
    BY <1>1, <1>2, <1>3, <2>1, <2>2, <2>4 DEF SessionInv
<1>5. CASE CallbackReaches /\ DecRead
  <2>1. /\ dec.pc = "read" /\ UNCHANGED <<socketsCount, owed, lost>>
        /\ dec' = [pc |-> "store", value |-> socketsCount - 1]
    BY <1>5 DEF DecRead, CallbackReaches
  <2>2. CountTypeOK'
    BY <1>3, <2>1 DEF CountTypeOK
  <2>3. dec'.pc = "store" /\ dec'.value = socketsCount - 1 /\ owed > 0 /\ socketsCount > 0
    BY <1>3, <2>1
  <2>4. UdpCountInv'
    BY <1>2, <1>3, <2>1, <2>3, OpenFinite
  <2> QED
    BY <1>1, <1>2, <1>3, <2>1, <2>2, <2>4 DEF SessionInv
<1>6. CASE CallbackReaches /\ DecStore
  <2>1. /\ dec.pc = "store" /\ socketsCount' = dec.value /\ owed' = owed - 1
        /\ dec' = NoDec /\ lost' = lost
    BY <1>6 DEF DecStore, CallbackReaches
  <2>2. owed > 0
    BY <1>3, <2>1
  <2>3. CountTypeOK'
    BY <1>3, <2>1, <2>2 DEF CountTypeOK, NoDec
  <2>4. UdpCountInv'
    BY <1>2, <1>3, <2>1, <2>2, OpenFinite DEF NoDec
  <2> QED
    BY <1>1, <1>2, <1>3, <2>1, <2>3, <2>4 DEF SessionInv
<1>7. CASE CallbackStrays
  <2>1. /\ owed > 0 /\ dec.pc = "test" /\ lost < MaxLost
        /\ lost' = lost + 1 /\ owed' = owed - 1 /\ UNCHANGED <<socketsCount, dec>>
    BY <1>7 DEF CallbackStrays
  <2>2. CountTypeOK' /\ lost' \in 0 .. MaxLost
    BY <1>3, <2>1 DEF CountTypeOK
  <2>3. UdpCountInv'
    BY <1>2, <1>3, <2>1, OpenFinite
  <2> QED
    BY <1>1, <1>2, <2>2, <2>3 DEF SessionInv
<1> QED
  BY <1>4, <1>5, <1>6, <1>7 DEF CallbackReaches, DecSocketsCount

LEMMA UdpInitHolds == ASSUME UdpInit PROVE UdpInv
<1>1. SessionInv /\ SessionTypeOK
  BY SessionInitHolds DEF UdpInit, SessionInv
<1>2. OpenSockets = {}
  BY DEF UdpInit, SessionInit, NoSession, OpenSockets
<1>3. UdpCountInv /\ CountTypeOK
  BY <1>2, FS_EmptySet, SocketsLimitAssumption
  DEF UdpInit, CountInit, NoDec, CountTypeOK, UdpCountInv, UdpCountReports, UdpCountInRange,
      UdpPlacesAccounted
<1> QED
  BY <1>1, <1>3, ListenersAssumption DEF UdpInv, UdpTypeOK, UdpInit

\* The count of a UDP server is never below zero or above the limit, and no more
\* than its open sockets, the callbacks under way and those that strayed, for any
\* number of listeners and sessions (Listen, DecSocketsCount).
THEOREM UdpSafety == UdpSpec => []UdpCountReports
<1>1. UdpInit => UdpInv
  BY UdpInitHolds
<1>2. UdpInv /\ [UdpNext]_udpVars => UdpInv'
  <2>1. UdpInv /\ UNCHANGED udpVars => UdpInv'
    BY DEF UdpInv, UdpTypeOK, SessionInv, SessionTypeOK, CountTypeOK, UdpCountInv,
           UdpCountReports, UdpCountInRange, UdpPlacesAccounted, OpenSockets, udpVars, countVars
  <2>2. UdpInv /\ UdpNext => UdpInv'
    BY ListenKeeps, UdpHandlerKeeps, UdpEnvironmentKeeps, UdpCallbackKeeps DEF UdpNext
  <2> QED
    BY <2>1, <2>2
<1>3. UdpInv => UdpCountReports
  BY DEF UdpInv, UdpCountInv
<1> QED
  BY <1>1, <1>2, <1>3, PTL DEF UdpSpec
=============================================================================
