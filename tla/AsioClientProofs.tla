--------------------------- MODULE AsioClientProofs ---------------------------
(***************************************************************************)
(* The count of a client keeps its bounds for any limit, any number of     *)
(* sessions and coroutines: ClientInv is inductive.  One lemma per group   *)
(* of actions; what they do to the places reserved is said before.         *)
(***************************************************************************)
EXTENDS AsioClient, AsioSocketSessionProofs

ConnectStates == {"none", "posted", "connecting", "connected", "failed", "spinning"}

LEMMA SumBound ==
  ASSUME NEW a \in Int, NEW b \in Int, NEW c \in Int, NEW p \in Int, a + b <= p, c <= b
  PROVE  a + c <= p
<1> QED
  OBVIOUS

LEMMA PostedFinite ==
  /\ IsFiniteSet(PostedConnects) /\ Cardinality(PostedConnects) \in Nat
  /\ IsFiniteSet(PostedConnects') /\ Cardinality(PostedConnects') \in Nat
  /\ Cardinality(Connects) \in Nat
  /\ Cardinality(PostedConnects) <= Cardinality(Connects)
<1>1. PostedConnects \in SUBSET Connects /\ PostedConnects' \in SUBSET Connects
  BY DEF PostedConnects
<1> QED
  BY <1>1, ConnectsAssumption, FS_Subset, FS_CardinalityType

\* An identity that is left for a coroutine is not posted.
LEMMA PostedBelow ==
  ASSUME NEW l \in Connects, connect[l] = "none"
  PROVE  Cardinality(PostedConnects) + 1 <= Cardinality(Connects)
<1>1. PostedConnects \subseteq Connects \ {l}
  BY DEF PostedConnects
<1>2. IsFiniteSet(Connects \ {l}) /\ Cardinality(Connects \ {l}) = Cardinality(Connects) - 1
  BY ConnectsAssumption, FS_RemoveElement
<1>3. Cardinality(PostedConnects) <= Cardinality(Connects \ {l})
  BY <1>1, <1>2, FS_Subset
<1> QED
  BY <1>2, <1>3, PostedFinite

LEMMA ReservedType ==
  ASSUME ClientCountInv
  PROVE  Reserved \in Nat /\ Reserved <= Places /\ Places \in Nat
<1>1. CASE caller = "scanning"
  <2>1. PICK l \in Connects : connect[l] = "none"
    BY <1>1 DEF ClientCountInv
  <2> QED
    BY <1>1, <2>1, PostedBelow, PostedFinite, SocketsLimitAssumption DEF Reserved, Places
<1>2. CASE caller # "scanning"
  <2>1. Reserved = Cardinality(PostedConnects)
    BY <1>2, PostedFinite DEF Reserved
  <2> QED
    BY <2>1, PostedFinite, SocketsLimitAssumption DEF Places
<1> QED
  BY <1>1, <1>2

\* A coroutine at the head of its loops is not posted and not ended, or not posted
\* and gone; the others stay where they were.
LEMMA HeadEffect ==
  ASSUME ClientTypeOK, NEW l \in Connects, Head(l)
  PROVE  /\ connect' \in [Connects -> ConnectStates]
         /\ PostedConnects' = PostedConnects \ {l}
         /\ \A k \in Connects \ {l} : connect'[k] = connect[k]
<1>1. connect \in [Connects -> ConnectStates]
  BY DEF ClientTypeOK, ConnectStates
<1>2. PICK at \in {"none", "connecting", "spinning"} : connect' = [connect EXCEPT ![l] = at]
  <2>1. CASE ~keepAlive
    BY <2>1 DEF Head
  <2>2. CASE keepAlive /\ endpoints
    BY <2>2 DEF Head
  <2>3. CASE keepAlive /\ ~endpoints
    BY <2>3 DEF Head
  <2> QED
    BY <2>1, <2>2, <2>3
<1> QED
  BY <1>1, <1>2 DEF ConnectStates, PostedConnects

\* The count obeys its invariant after a step that leaves it and its callbacks
\* alone and reserves nothing.
LEMMA ClientQuietKeeps ==
  ASSUME ClientInv, UNCHANGED countVars, Reserved' <= Reserved, Reserved' \in Nat,
         (caller = "scanning" => \E l \in Connects : connect[l] = "none")
           => (caller' = "scanning" => \E l \in Connects : connect'[l] = "none")
  PROVE  ClientCountInv'
<1>1. ClientCountInv /\ socketsCount \in Int
  BY DEF ClientInv, ClientTypeOK, CountTypeOK
<1>2. socketsCount' = socketsCount /\ owed' = owed /\ dec' = dec /\ Places' = Places
  BY DEF countVars, Places
<1>3. Reserved \in Nat /\ Places \in Nat
  BY <1>1, ReservedType
<1>4. caller' = "scanning" => \E l \in Connects : connect'[l] = "none"
  BY <1>1 DEF ClientCountInv
<1>5. socketsCount + Reserved <= Places
  BY <1>1 DEF ClientCountInv
<1>6. socketsCount' + Reserved' <= Places'
  BY <1>1, <1>2, <1>3, <1>5
<1> QED
  BY <1>1, <1>2, <1>4, <1>6 DEF ClientCountInv

\* The places reserved depend on the coroutines and the caller.
LEMMA ReservedChange ==
  /\ Reserved \in Nat /\ Reserved' \in Nat
  /\ PostedConnects' = PostedConnects /\ caller' = caller => Reserved' = Reserved
<1>1. Reserved \in Nat
  BY PostedFinite DEF Reserved
<1>2. Reserved' \in Nat
  BY PostedFinite DEF Reserved
<1>3. ASSUME PostedConnects' = PostedConnects, caller' = caller PROVE Reserved' = Reserved
  BY <1>3 DEF Reserved
<1> QED
  BY <1>1, <1>2, <1>3

-----------------------------------------------------------------------------
(* One lemma per group of actions.                                         *)

LEMMA CallerKeeps ==
  ASSUME ClientInv, TryConnect \/ ScanFails \/ \E l \in Connects : Scan(l)
  PROVE  ClientInv'
<1> USE DEF ClientInv
<1>1. UNCHANGED <<session, countVars, keepVars, counted, reliable>>
  BY DEF TryConnect, ScanFails, Scan
<1>2. SessionInv' /\ SessionTypeOK' /\ CountTypeOK' /\ ClientCountInv
  BY <1>1 DEF SessionInv, SessionTypeOK, ClientTypeOK, CountTypeOK, countVars
<1>3. socketsCount \in Int /\ SocketsLimit \in Nat
  BY SocketsLimitAssumption DEF ClientTypeOK, CountTypeOK
<1>4. CASE TryConnect
  <2>1. ClientTypeOK'
    BY <1>1, <1>2, <1>4 DEF TryConnect, ClientTypeOK, keepVars
  <2>2. PostedConnects' = PostedConnects /\ connect' = connect
    BY <1>4 DEF TryConnect, PostedConnects
  <2>3. CASE ~SocketsValid
    <3>1. caller' = caller
      BY <1>4, <2>3 DEF TryConnect
    <3>2. Reserved' <= Reserved /\ Reserved' \in Nat
      BY <2>2, <3>1, ReservedChange
    <3>3. ClientCountInv'
      BY <1>1, <2>2, <3>1, <3>2, ClientQuietKeeps
    <3> QED
      BY <1>2, <2>1, <3>3
  <2>4. CASE SocketsValid
    <3>1. PICK l \in Connects : connect[l] = "none"
      BY <1>4 DEF TryConnect
    <3>2. Reserved' = Cardinality(PostedConnects) + 1 /\ caller' = "scanning"
      BY <1>4, <2>2, <2>4 DEF TryConnect, Reserved
    <3>3. socketsCount' = socketsCount /\ owed' = owed /\ dec' = dec /\ Places' = Places
      BY <1>1 DEF countVars, Places
    <3>4. socketsCount + Reserved' <= Places
      BY <1>3, <2>4, <3>1, <3>2, PostedBelow, PostedFinite DEF SocketsValid, Places
    <3>5. ClientCountInv'
      BY <1>2, <2>2, <3>1, <3>2, <3>3, <3>4 DEF ClientCountInv
    <3> QED
      BY <1>2, <2>1, <3>5
  <2> QED
    BY <2>3, <2>4
<1>5. CASE ScanFails
  <2>1. ClientTypeOK'
    BY <1>1, <1>2, <1>5 DEF ScanFails, ClientTypeOK, keepVars
  <2>2. PostedConnects' = PostedConnects /\ caller' = "idle" /\ caller = "scanning"
    BY <1>5 DEF ScanFails, PostedConnects
  <2>3. Reserved' = Cardinality(PostedConnects) /\ Reserved = Cardinality(PostedConnects) + 1
    BY <2>2, PostedFinite DEF Reserved
  <2>4. Reserved' <= Reserved
    BY <2>3, PostedFinite
  <2> QED
    BY <1>1, <1>2, <2>1, <2>2, <2>4, ReservedChange, ClientQuietKeeps
<1>6. ASSUME NEW l \in Connects, Scan(l) PROVE ClientInv'
  <2>1. ClientTypeOK'
    BY <1>1, <1>2, <1>6 DEF Scan, ClientTypeOK, keepVars
  <2>2. /\ PostedConnects' = PostedConnects \cup {l} /\ l \notin PostedConnects
        /\ caller' = "idle" /\ caller = "scanning"
    BY <1>6 DEF Scan, PostedConnects, ClientTypeOK
  <2>3. Cardinality(PostedConnects') = Cardinality(PostedConnects) + 1
    BY <2>2, PostedFinite, FS_AddElement
  <2>4. Reserved' <= Reserved
    BY <2>2, <2>3, PostedFinite DEF Reserved
  <2> QED
    BY <1>1, <1>2, <2>1, <2>2, <2>4, ReservedChange, ClientQuietKeeps
<1> QED
  BY <1>4, <1>5, <1>6

LEMMA SetterKeeps ==
  ASSUME ClientInv,
         (\E value \in BOOLEAN : SetKeepAlive(value))
           \/ ClearSessionAfterStop \/ SetSessionAfterStop
  PROVE  ClientInv'
<1>1. UNCHANGED <<session, countVars, endpoints, connect, caller, counted, state, reliable>>
  BY DEF SetKeepAlive, ClearSessionAfterStop, SetSessionAfterStop
<1>2. SessionInv' /\ SessionTypeOK' /\ CountTypeOK'
  BY <1>1 DEF ClientInv, SessionInv, SessionTypeOK, ClientTypeOK, CountTypeOK, countVars
<1>3. keepAlive' \in BOOLEAN /\ afterStop' \in BOOLEAN /\ setter' \in {"idle", "clear", "set"}
  BY DEF SetKeepAlive, ClearSessionAfterStop, SetSessionAfterStop, ClientInv, ClientTypeOK
<1>4. ClientTypeOK'
  BY <1>1, <1>2, <1>3 DEF ClientInv, ClientTypeOK
<1>5. PostedConnects' = PostedConnects
  BY <1>1 DEF PostedConnects
<1>6. Reserved' <= Reserved /\ Reserved' \in Nat
  BY <1>1, <1>5, ReservedChange
<1>7. ClientCountInv'
  BY <1>1, <1>6, ClientQuietKeeps
<1> QED
  BY <1>2, <1>4, <1>7 DEF ClientInv

\* The coroutine Connect.
LEMMA ConnectKeeps ==
  ASSUME ClientInv, NEW l \in Connects, Connect(l) PROVE ClientInv'
<1> USE DEF ClientInv
<1>1. /\ ClientTypeOK /\ ClientCountInv /\ Head(l) /\ owed = 0 /\ dec.pc = "test"
      /\ UNCHANGED <<keepVars, endpoints, caller, reliable, dec>>
      /\ state' \in {"Ok", "ErrSocketCount", "ErrConnection"}
  BY DEF Connect, ConnectBegins, ConnectFails, ConnectSucceeds, ThreadFree, ServiceThreadFree,
         ClientTypeOK, ClientCountInv, IncSocketsCount, RunAfterStop, countVars
<1>2. /\ connect' \in [Connects -> ConnectStates]
      /\ PostedConnects' = PostedConnects \ {l}
      /\ \A k \in Connects \ {l} : connect'[k] = connect[k]
  BY <1>1, HeadEffect
<1>3. socketsCount \in Int /\ dec \in [pc : {"test", "read", "store"}, value : Int]
  BY DEF ClientTypeOK, CountTypeOK
<1>4. connect[l] # "none"
  BY DEF Connect, ConnectBegins, ConnectFails, ConnectSucceeds
<1>5. (caller = "scanning" => \E k \in Connects : connect[k] = "none")
        => (caller' = "scanning" => \E k \in Connects : connect'[k] = "none")
  BY <1>1, <1>2, <1>4
<1>6. Reserved' <= Reserved /\ Reserved' \in Nat /\ Reserved \in Nat
  <2>1. Cardinality(PostedConnects') <= Cardinality(PostedConnects)
    BY <1>2, PostedFinite, FS_Subset
  <2>2. caller' = caller
    BY <1>1
  <2>3. CASE caller = "scanning"
    BY <2>1, <2>2, <2>3, PostedFinite DEF Reserved
  <2>4. CASE caller # "scanning"
    BY <2>1, <2>2, <2>4, PostedFinite DEF Reserved
  <2> QED
    BY <2>3, <2>4
<1>7. CASE ConnectBegins(l)
  <2>1. UNCHANGED <<session, owed, counted, state>> /\ socketsCount' = socketsCount + 1
    BY <1>7 DEF ConnectBegins, IncSocketsCount
  <2>2. l \in PostedConnects
    BY <1>7 DEF ConnectBegins, PostedConnects
  <2>3. Cardinality(PostedConnects') = Cardinality(PostedConnects) - 1
    BY <1>2, <2>2, PostedFinite, FS_RemoveElement
  <2>4. Reserved' = Reserved - 1
    <3>1. CASE caller = "scanning"
      BY <1>1, <2>3, <3>1, PostedFinite DEF Reserved
    <3>2. CASE caller # "scanning"
      BY <1>1, <2>3, <3>2, PostedFinite DEF Reserved
    <3> QED
      BY <3>1, <3>2
  <2>5. Places' = Places /\ Places \in Nat
    BY <1>1, ReservedType DEF Places
  <2>6. ClientCountInv'
    BY <1>1, <1>3, <1>5, <1>6, <2>1, <2>4, <2>5 DEF ClientCountInv
  <2>7. SessionInv' /\ SessionTypeOK' /\ CountTypeOK'
    BY <1>1, <1>3, <2>1 DEF SessionInv, SessionTypeOK, ClientTypeOK, CountTypeOK
  <2>8. ClientTypeOK'
    BY <1>1, <1>2, <2>1, <2>7 DEF ClientTypeOK, ConnectStates, keepVars
  <2> QED
    BY <2>6, <2>7, <2>8
<1>8. CASE ConnectFails(l)
  <2>1. session' = session /\ socketsCount' = socketsCount /\ counted' = counted /\ owed' = 1
    BY <1>1, <1>8 DEF ConnectFails, RunAfterStop
  <2>2. Places' = Places /\ Places \in Nat
    BY <1>1, ReservedType DEF Places
  <2>3. ClientCountInv'
    <3>1. caller' = "scanning" => \E k \in Connects : connect'[k] = "none"
      BY <1>1, <1>5 DEF ClientCountInv
    <3>2. socketsCount + Reserved <= Places /\ socketsCount \in Int
      BY <1>1, <1>3 DEF ClientCountInv
    <3>3. socketsCount' + Reserved' <= Places'
      <4>1. socketsCount' = socketsCount
        BY <2>1
      <4>2. Reserved' <= Reserved /\ Reserved' \in Int /\ Reserved \in Int
        BY <1>6
      <4>3. Places' = Places /\ Places \in Int
        BY <2>2
      <4>4. socketsCount + Reserved' <= Places
        BY <3>2, <4>2, <4>3, SumBound
      <4> QED
        BY <4>1, <4>3, <4>4
    <3>4. dec'.pc = "test" /\ socketsCount' >= 0
      BY <1>1, <2>1 DEF ClientCountInv
    <3> QED
      BY <3>1, <3>3, <3>4 DEF ClientCountInv
  <2>4. SessionInv' /\ SessionTypeOK' /\ CountTypeOK'
    BY <1>1, <1>3, <2>1 DEF SessionInv, SessionTypeOK, ClientTypeOK, CountTypeOK
  <2>5. ClientTypeOK'
    BY <1>1, <1>2, <2>1, <2>4 DEF ClientTypeOK, ConnectStates, keepVars
  <2> QED
    BY <2>3, <2>4, <2>5
<1>9. ASSUME NEW s \in Sessions, NEW type \in TransferTypes, ConnectSucceeds(l, s, type)
      PROVE  ClientInv'
  <2>1. /\ MakeSocketSession(s, type) /\ UNCHANGED <<countVars, state>>
        /\ counted' = [counted EXCEPT ![s] = afterStop]
    BY <1>9 DEF ConnectSucceeds
  <2>2. ClientCountInv'
    BY <1>5, <1>6, <2>1, ClientQuietKeeps
  <2>3. PICK r \in SessionRecord : session' = [session EXCEPT ![s] = r] /\ Consistent(r)
    BY <2>1, MakeKeeps
  <2>4. SessionInv' /\ SessionTypeOK' /\ CountTypeOK'
    BY <2>1, <2>3, ReplaceKeeps DEF SessionInv, ClientTypeOK, CountTypeOK, countVars
  <2>5. counted' \in [Sessions -> BOOLEAN]
    BY <1>1, <2>1 DEF ClientTypeOK
  <2>6. \A q \in Sessions : counted'[q] => session'[q].stage # "free"
    <3>1. session'[s].stage # "free"
      BY <2>1 DEF MakeSocketSession, SessionInv, SessionTypeOK
    <3>2. \A q \in Sessions \ {s} : counted'[q] = counted[q] /\ session'[q] = session[q]
      BY <1>1, <2>1, <2>3 DEF ClientTypeOK, SessionTypeOK
    <3> QED
      BY <1>1, <3>1, <3>2 DEF ClientTypeOK
  <2>7. ClientTypeOK'
    BY <1>1, <1>2, <2>1, <2>4, <2>5, <2>6 DEF ClientTypeOK, ConnectStates, keepVars
  <2> QED
    BY <2>2, <2>4, <2>7
<1> QED
  BY <1>7, <1>8, <1>9 DEF Connect

\* A coroutine that goes round, and the answers of the server.
LEMMA AnswerKeeps ==
  ASSUME ClientInv, NEW l \in Connects,
         ConnectSpins(l) \/ ConnectionMade(l) \/ ConnectionRefused(l)
  PROVE  ClientInv'
<1> USE DEF ClientInv
<1>1. UNCHANGED <<session, countVars, keepVars, endpoints, caller, counted, state, reliable>>
  BY DEF ConnectSpins, ConnectionMade, ConnectionRefused
<1>2. connect[l] \in {"spinning", "connecting"}
  BY DEF ConnectSpins, ConnectionMade, ConnectionRefused
<1>3. /\ connect' \in [Connects -> ConnectStates]
      /\ PostedConnects' = PostedConnects
      /\ \A k \in Connects \ {l} : connect'[k] = connect[k]
  <2>1. CASE ConnectSpins(l)
    <3>1. l \notin PostedConnects
      BY <1>2 DEF PostedConnects
    <3> QED
      BY <2>1, <3>1, HeadEffect DEF ConnectSpins
  <2>2. CASE ConnectionMade(l) \/ ConnectionRefused(l)
    BY <1>2, <2>2
    DEF ConnectionMade, ConnectionRefused, ClientTypeOK, ConnectStates, PostedConnects
  <2> QED
    BY <2>1, <2>2
<1>4. SessionInv' /\ SessionTypeOK' /\ CountTypeOK'
  BY <1>1 DEF SessionInv, SessionTypeOK, ClientTypeOK, CountTypeOK, countVars
<1>5. ClientTypeOK'
  BY <1>1, <1>3, <1>4 DEF ClientTypeOK, ConnectStates, keepVars
<1>6. Reserved' <= Reserved /\ Reserved' \in Nat
  BY <1>1, <1>3, ReservedChange
<1>7. ClientCountInv'
  BY <1>1, <1>2, <1>3, <1>6, ClientQuietKeeps
<1> QED
  BY <1>4, <1>5, <1>7

\* A session handler owes callbacks, if its session was given any.
LEMMA ClientHandlerKeeps ==
  ASSUME ClientInv, NEW s \in Sessions, SessionHandler(s) PROVE ClientInv'
<1> USE DEF ClientInv
<1> DEFINE k == session'[s].stops - session[s].stops
           n == IF counted[s] THEN k ELSE 0
<1>1. /\ Handler(s) /\ owed = 0 /\ owed' = owed + n
      /\ UNCHANGED <<socketsCount, dec, keepVars, endpoints, connect, caller, state, reliable>>
      /\ counted' = [counted EXCEPT ![s] = @ /\ session'[s].stage # "free"]
  BY DEF SessionHandler, ThreadFree, ServiceThreadFree, RunAfterStop
<1>2. SessionInv' /\ SessionTypeOK' /\ k \in Nat
  BY <1>1, HandlerCounts DEF SessionInv
<1>3. n \in Nat
  BY <1>2
<1>4. PostedConnects' = PostedConnects /\ Places' = Places
  BY <1>1 DEF PostedConnects, Places
<1>5. Reserved' = Reserved
  BY <1>1, <1>4, ReservedChange
<1>6. counted \in [Sessions -> BOOLEAN] /\ ClientCountInv /\ CountTypeOK
  BY DEF ClientTypeOK
<1> HIDE DEF k, n
<1>7. CountTypeOK' /\ owed' \in Nat
  BY <1>1, <1>3, <1>6 DEF CountTypeOK
<1>8. ClientCountInv'
  BY <1>1, <1>4, <1>5, <1>6, <1>7 DEF ClientCountInv
<1>9. counted' \in [Sessions -> BOOLEAN]
  BY <1>1, <1>6
<1>10. \A q \in Sessions : counted'[q] => session'[q].stage # "free"
  <2>1. counted'[s] => session'[s].stage # "free"
    BY <1>1, <1>6
  <2>2. PICK r \in SessionRecord : session' = [session EXCEPT ![s] = Released(r)]
    BY <1>1, HandlerResult
  <2>3. \A q \in Sessions \ {s} : counted'[q] = counted[q] /\ session'[q] = session[q]
    BY <1>1, <1>6, <2>2 DEF SessionInv, SessionTypeOK
  <2> QED
    BY <2>1, <2>3 DEF ClientTypeOK
<1>11. ClientTypeOK'
  BY <1>1, <1>2, <1>7, <1>9, <1>10 DEF ClientTypeOK, keepVars
<1> QED
  BY <1>2, <1>8, <1>11

LEMMA ClientEnvironmentKeeps ==
  ASSUME ClientInv, NEW s \in Sessions, SessionEnvironment(s) PROVE ClientInv'
<1> USE DEF ClientInv
<1>1. Environment(s) /\ UNCHANGED <<countVars, clientVars>>
  BY DEF SessionEnvironment
<1>2. PICK r \in SessionRecord : /\ session' = [session EXCEPT ![s] = r]
                                 /\ Consistent(r) /\ r.stage = session[s].stage
  BY <1>1, EnvironmentResult
<1>3. SessionInv' /\ SessionTypeOK'
  BY <1>2, ReplaceKeeps DEF SessionInv
<1>4. \A q \in Sessions : session'[q].stage = session[q].stage
  BY <1>2 DEF SessionInv, SessionTypeOK
<1>5. ClientTypeOK'
  BY <1>1, <1>3, <1>4 DEF ClientTypeOK, CountTypeOK, countVars, clientVars, keepVars
<1>6. PostedConnects' = PostedConnects /\ caller' = caller /\ connect' = connect
  BY <1>1 DEF PostedConnects, clientVars
<1>7. Reserved' <= Reserved /\ Reserved' \in Nat
  BY <1>6, ReservedChange
<1>8. ClientCountInv'
  BY <1>1, <1>6, <1>7, ClientQuietKeeps
<1> QED
  BY <1>3, <1>5, <1>8

\* The three steps of DecSocketsCount.
LEMMA ClientAfterStopKeeps == ASSUME ClientInv, AfterStop PROVE ClientInv'
<1> USE DEF ClientInv
<1>1. DecSocketsCount /\ UNCHANGED <<session, clientVars>>
  BY DEF AfterStop
<1>2. /\ SessionInv' /\ SessionTypeOK'
      /\ PostedConnects' = PostedConnects /\ caller' = caller /\ connect' = connect
      /\ Places' = Places
  BY <1>1 DEF SessionInv, SessionTypeOK, PostedConnects, clientVars, Places
<1>3. Reserved' = Reserved
  BY <1>2, ReservedChange
<1>4. /\ ClientCountInv /\ socketsCount \in Int /\ owed \in Nat
      /\ dec \in [pc : {"test", "read", "store"}, value : Int]
  BY DEF ClientTypeOK, CountTypeOK
<1>5. Reserved \in Nat /\ Places \in Nat /\ Reserved <= Places
  BY <1>4, ReservedType
<1>6. CountTypeOK' => ClientTypeOK'
  BY <1>1, <1>2 DEF ClientTypeOK, clientVars, keepVars
<1>7. CASE DecTest
  <2>1. /\ owed > 0 /\ UNCHANGED <<socketsCount, owed>>
        /\ \/ dec' = [dec EXCEPT !.pc = "read"] /\ socketsCount > 0
           \/ dec' = [pc |-> "store", value |-> 0]
    BY <1>7 DEF DecTest
  <2>2. CountTypeOK'
    BY <1>4, <2>1 DEF CountTypeOK
  <2>3. \/ dec'.pc = "read" /\ socketsCount > 0
        \/ dec'.pc = "store" /\ dec'.value = 0
    BY <1>4, <2>1
  <2>4. ClientCountInv'
    BY <1>2, <1>3, <1>4, <1>5, <2>1, <2>3 DEF ClientCountInv
  <2> QED
    BY <1>2, <1>6, <2>2, <2>4
<1>8. CASE DecRead
  <2>1. /\ dec.pc = "read" /\ UNCHANGED <<socketsCount, owed>>
        /\ dec' = [pc |-> "store", value |-> socketsCount - 1]
    BY <1>8 DEF DecRead
  <2>2. CountTypeOK'
    BY <1>4, <2>1 DEF CountTypeOK
  <2>3. dec'.pc = "store" /\ dec'.value = socketsCount - 1 /\ owed > 0 /\ socketsCount > 0
    BY <1>4, <2>1 DEF ClientCountInv
  <2>4. ClientCountInv'
    BY <1>2, <1>3, <1>4, <1>5, <2>1, <2>3 DEF ClientCountInv
  <2> QED
    BY <1>2, <1>6, <2>2, <2>4
<1>9. CASE DecStore
  <2>1. /\ dec.pc = "store" /\ socketsCount' = dec.value /\ owed' = owed - 1 /\ dec' = NoDec
    BY <1>9 DEF DecStore
  <2>2. owed > 0
    BY <1>4, <2>1 DEF ClientCountInv
  <2>3. CountTypeOK'
    BY <1>4, <2>1, <2>2 DEF CountTypeOK, NoDec
  <2>4. ClientCountInv'
    BY <1>2, <1>3, <1>4, <1>5, <2>1, <2>2 DEF ClientCountInv, NoDec
  <2> QED
    BY <1>2, <1>6, <2>3, <2>4
<1> QED
  BY <1>1, <1>7, <1>8, <1>9 DEF DecSocketsCount

LEMMA ClientInitHolds == ASSUME Init PROVE ClientInv
<1>1. SessionInv /\ SessionTypeOK
  BY SessionInitHolds DEF Init, SessionInv
<1>2. PostedConnects = {}
  BY DEF Init, PostedConnects
<1>3. Reserved = 0
  BY <1>2, FS_EmptySet DEF Reserved, Init
<1>4. Places \in Nat
  BY PostedFinite, SocketsLimitAssumption DEF Places
<1>5. ClientCountInv /\ CountTypeOK
  BY <1>3, <1>4 DEF Init, CountInit, NoDec, CountTypeOK, ClientCountInv
<1>6. ClientTypeOK
  BY <1>1, <1>5 DEF Init, ClientTypeOK
<1> QED
  BY <1>1, <1>5, <1>6 DEF ClientInv

\* Type correctness and the two bounds: the count of a client is never below zero,
\* however often it is lowered for one connection, and passes the limit by one for
\* every Connect but the first at most (TryConnect, Connect, DecSocketsCount).
THEOREM ClientSafety == Spec => []ClientSafe
<1>1. Init => ClientInv
  BY ClientInitHolds
<1>2. ClientInv /\ [Next]_vars => ClientInv'
  <2>1. ClientInv /\ UNCHANGED vars => ClientInv'
    BY DEF ClientInv, ClientTypeOK, SessionInv, SessionTypeOK, CountTypeOK, ClientCountInv,
           Reserved, PostedConnects, Places, vars, countVars, clientVars, keepVars
  <2>2. ClientInv /\ Next => ClientInv'
    BY CallerKeeps, SetterKeeps, ConnectKeeps, AnswerKeeps, ClientHandlerKeeps,
       ClientEnvironmentKeeps, ClientAfterStopKeeps DEF Next
  <2> QED
    BY <2>1, <2>2
<1>3. ClientInv => ClientSafe
  <2> SUFFICES ASSUME ClientInv PROVE ClientAdmissionBound /\ ClientCountNotNegative
    BY DEF ClientInv, ClientSafe
  <2>1. ClientCountInv /\ socketsCount \in Int
    BY DEF ClientInv, ClientTypeOK, CountTypeOK
  <2> QED
    BY <2>1, ReservedType, PostedFinite, SocketsLimitAssumption
    DEF ClientCountInv, ClientAdmissionBound, ClientCountNotNegative, Places
<1> QED
  BY <1>1, <1>2, <1>3, PTL DEF Spec
=============================================================================
