------------------------------ MODULE CoreProofs ------------------------------
(***************************************************************************)
(* Proofs about the components that share nothing: SshTools, SharedPool,   *)
(* InotifyManager, AsioError, PasswdGenerator and FilesAction, one after   *)
(* the other, each for any value of its constants.                         *)
(***************************************************************************)
EXTENDS SshTools, SharedPool, InotifyManager, AsioError, PasswdGenerator, FilesAction,
        FiniteSetTheorems, SequenceTheorems, TLAPS

(***************************************************************************)
(* SshTools.                                                               *)
(***************************************************************************)

SshRecord ==
  [ session : BOOLEAN, channel : BOOLEAN, connected : BOOLEAN, code : -1 .. 4,
    host : BOOLEAN, port : BOOLEAN ]

\* A channel has a session, in the middle of an operation too.
ChannelHasSession(s) == s.channel => s.session

\* What is left behind an operation.
Sound(s) == (s.channel \/ s.connected => s.session) /\ (s.session => ~IsError(s))

SshInv ==
  /\ ssh \in SshRecord
  /\ Sound(ssh)
  /\ ChannelNeedsLogin /\ OnlyUnknownHostWritten

\* What a disconnect leaves: of a channel that has a session, nothing.
LEMMA DisconnectEffect ==
  ASSUME NEW s \in SshRecord, ChannelHasSession(s)
  PROVE  /\ Disconnect(s) \in SshRecord
         /\ ~Disconnect(s).session /\ ~Disconnect(s).channel /\ ~Disconnect(s).connected
<1>1. (s.channel /\ ~s.session) = FALSE
  BY DEF ChannelHasSession
<1>2. s.host \in BOOLEAN /\ s.port \in BOOLEAN
  BY DEF SshRecord
<1>3. Disconnect(s) = [ session |-> FALSE, channel |-> FALSE, connected |-> FALSE,
                        code |-> SSH_OK, host |-> s.host, port |-> s.port ]
  BY <1>1, Zenon DEF Disconnect
<1> QED
  BY <1>2, <1>3 DEF SshRecord, SSH_OK

\* setErrorCode keeps a session only for a code that is no error; without one it
\* leaves neither channel nor connection.
LEMMA SetErrorCodeSound ==
  ASSUME NEW s \in SshRecord, NEW code \in -1 .. 4, ChannelHasSession(s)
  PROVE  /\ SetErrorCode(s, code) \in SshRecord
         /\ Sound(SetErrorCode(s, code))
         /\ SetErrorCode(s, code).channel => s.channel
         /\ SetErrorCode(s, code).session => s.session /\ code \in {0, 1}
         /\ SetErrorCode(s, code).session => SetErrorCode(s, code).code = code
<1> DEFINE t == [s EXCEPT !.code = code]
<1>1. /\ t \in SshRecord /\ ChannelHasSession(t) /\ t.code = code
      /\ t.session = s.session /\ t.channel = s.channel
  BY DEF SshRecord, ChannelHasSession
<1>2. SetErrorCode(s, code) = IF IsError(t) THEN Disconnect(t) ELSE t
  BY DEF SetErrorCode
<1> HIDE DEF t
<1>3. CASE IsError(t)
  BY <1>1, <1>2, <1>3, DisconnectEffect DEF Sound
<1>4. CASE ~IsError(t)
  BY <1>1, <1>2, <1>4 DEF IsError, Sound, SSH_OK, SSH_SERVER_KNOWN_OK, SSH_AUTH_SUCCESS
<1> QED
  BY <1>3, <1>4

\* An option changes nothing but the code, unless it fails.
LEMMA AfterOptionSound ==
  ASSUME NEW s \in SshRecord, ChannelHasSession(s), NEW r \in AfterOption(s)
  PROVE  r \in SshRecord /\ Sound(r) /\ (r.channel => s.channel) /\ (r.session => s.session)
<1>1. PICK c \in Answers(s, {SSH_OK, SSH_ERROR}) : r = SetErrorCode(s, c)
  BY DEF AfterOption
<1>2. c \in -1 .. 4
  BY DEF Answers, SSH_OK, SSH_ERROR
<1> QED
  BY <1>1, <1>2, SetErrorCodeSound

\* A step that adds no channel and touches neither the file nor the answer.
LEMMA OptionKeeps ==
  ASSUME SshInv, NoHistory, ssh' \in SshRecord, Sound(ssh'), ssh'.channel => ssh.channel
  PROVE  SshInv'
  BY DEF SshInv, NoHistory, Sound, ChannelNeedsLogin, IsReady, OnlyUnknownHostWritten, SSH_OK,
         SSH_SERVER_KNOWN_CHANGED, SSH_SERVER_FOUND_OTHER

LEMMA SettersKeep ==
  ASSUME SshInv, SetHost \/ SetPort \/ SetUser \/ SetVerbosity \/ TryDisconnect
  PROVE  SshInv'
<1>1. ssh \in SshRecord /\ ChannelHasSession(ssh) /\ Sound(ssh)
  BY DEF SshInv, Sound, ChannelHasSession
<1>2. ASSUME SetHost PROVE SshInv'
  <2>1. PICK host \in BOOLEAN : ssh' \in AfterHost(ssh, host) /\ NoHistory
    BY <1>2 DEF SetHost
  <2>2. /\ [ssh EXCEPT !.host = host] \in SshRecord
        /\ ChannelHasSession([ssh EXCEPT !.host = host])
        /\ [ssh EXCEPT !.host = host].channel = ssh.channel
    BY <1>1 DEF SshRecord, ChannelHasSession
  <2> QED
    BY <2>1, <2>2, AfterOptionSound, OptionKeeps DEF AfterHost
<1>3. ASSUME SetPort PROVE SshInv'
  <2>1. PICK port \in BOOLEAN : ssh' \in AfterPort(ssh, port) /\ NoHistory
    BY <1>3 DEF SetPort
  <2>2. /\ [ssh EXCEPT !.port = port] \in SshRecord
        /\ ChannelHasSession([ssh EXCEPT !.port = port])
        /\ [ssh EXCEPT !.port = port].channel = ssh.channel
    BY <1>1 DEF SshRecord, ChannelHasSession
  <2> QED
    BY <2>1, <2>2, AfterOptionSound, OptionKeeps DEF AfterPort
<1>4. ASSUME SetUser \/ SetVerbosity PROVE SshInv'
  BY <1>1, <1>4, AfterOptionSound, OptionKeeps DEF SetUser, SetVerbosity, AfterUser, AfterVerbosity
<1>5. ASSUME TryDisconnect PROVE SshInv'
  <2>1. ssh' \in SshRecord /\ Sound(ssh') /\ (ssh'.channel => ssh.channel)
    BY <1>1, <1>5, DisconnectEffect DEF TryDisconnect, Sound
  <2> QED
    BY <1>5, <2>1, OptionKeeps DEF TryDisconnect
<1> QED
  BY <1>2, <1>3, <1>4, <1>5

\* tryConnect begins without a channel and adds none.
LEMMA ConnectKeeps ==
  ASSUME SshInv, NEW host \in BOOLEAN, NEW port \in BOOLEAN, TryConnect(host, port)
  PROVE  SshInv'
<1> DEFINE d == [Disconnect(ssh) EXCEPT !.session = TRUE]
<1>1. /\ [d EXCEPT !.host = host] \in SshRecord
      /\ ~[d EXCEPT !.host = host].channel
  <2>1. Disconnect(ssh) \in SshRecord /\ ~Disconnect(ssh).channel
    BY DisconnectEffect DEF SshInv, Sound, ChannelHasSession
  <2>2. d \in SshRecord /\ ~d.channel
    BY <2>1 DEF SshRecord
  <2> HIDE DEF d
  <2> QED
    BY <2>2 DEF SshRecord
<1> HIDE DEF d
<1>2. PICK s \in AfterHost(d, host) : \E t \in AfterVerbosity(s) : \E u \in AfterPort(t, port) :
        \E c \in Answers(u, {SSH_OK, SSH_ERROR}) :
          ssh' = SetErrorCode([u EXCEPT !.connected = TRUE], c)
  BY DEF TryConnect, d
<1>3. s \in SshRecord /\ ~s.channel
  BY <1>1, <1>2, AfterOptionSound DEF AfterHost, ChannelHasSession
<1>4. PICK t \in AfterVerbosity(s) : \E u \in AfterPort(t, port) :
        \E c \in Answers(u, {SSH_OK, SSH_ERROR}) :
          ssh' = SetErrorCode([u EXCEPT !.connected = TRUE], c)
  BY <1>2
<1>5. t \in SshRecord /\ ~t.channel
  BY <1>3, AfterOptionSound DEF AfterVerbosity, ChannelHasSession
<1>6. PICK u \in AfterPort(t, port) : \E c \in Answers(u, {SSH_OK, SSH_ERROR}) :
          ssh' = SetErrorCode([u EXCEPT !.connected = TRUE], c)
  BY <1>4
<1>7. [t EXCEPT !.port = port] \in SshRecord /\ ~[t EXCEPT !.port = port].channel
  BY <1>5 DEF SshRecord
<1>8. u \in SshRecord /\ ~u.channel
  BY <1>7, AfterOptionSound DEF AfterPort, ChannelHasSession
<1>9. PICK c \in -1 .. 4 : ssh' = SetErrorCode([u EXCEPT !.connected = TRUE], c)
  BY <1>6 DEF Answers, SSH_OK, SSH_ERROR
<1>10. [u EXCEPT !.connected = TRUE] \in SshRecord /\ ~[u EXCEPT !.connected = TRUE].channel
  BY <1>8 DEF SshRecord
<1>11. ssh' \in SshRecord /\ Sound(ssh') /\ ~ssh'.channel
  BY <1>9, <1>10, SetErrorCodeSound DEF ChannelHasSession
<1> QED
  BY <1>11 DEF SshInv, TryConnect, ChannelNeedsLogin, IsReady, OnlyUnknownHostWritten, SSH_OK,
               SSH_SERVER_KNOWN_CHANGED, SSH_SERVER_FOUND_OTHER

\* The code of the answer decides what stays and what is written.
LEMMA VerifyKeeps ==
  ASSUME SshInv, VerifyKnownHost
  PROVE  SshInv'
<1>1. ssh \in SshRecord /\ ChannelHasSession(ssh)
  BY DEF SshInv, Sound, ChannelHasSession
<1>2. PICK c \in -1 .. 4, hashed \in BOOLEAN :
        LET s == SetErrorCode(ssh, c)
            writes == ~IsError(s) /\ hashed /\
                      s.code \in {SSH_SERVER_FILE_NOT_FOUND, SSH_SERVER_NOT_KNOWN}
        IN  /\ answer' = c
            /\ written' = writes
            /\ \/ IsError(s) /\ ssh' = s
               \/ ~IsError(s) /\ ~hashed /\ ssh' = SetErrorCode(s, SSH_ERROR)
               \/ writes /\ \E w \in {SSH_OK, SSH_ERROR} : ssh' = SetErrorCode(s, w)
               \/ ~IsError(s) /\ hashed /\ ~writes /\ ssh' = s
  BY DEF VerifyKnownHost, SSH_ERROR, SSH_SERVER_NOT_KNOWN, SSH_SERVER_FILE_NOT_FOUND
<1> DEFINE s == SetErrorCode(ssh, c)
<1>3. /\ s \in SshRecord /\ Sound(s) /\ (s.channel => ssh.channel)
      /\ s.session => ssh.session /\ c \in {0, 1} /\ s.code = c
  BY <1>1, SetErrorCodeSound
<1>4. ChannelHasSession(s)
  BY <1>3 DEF Sound, ChannelHasSession
<1>5. ssh' = s \/ \E w \in -1 .. 4 : ssh' = SetErrorCode(s, w)
  BY <1>2 DEF SSH_OK, SSH_ERROR
<1>6. written' => ~IsError(s) /\ s.code \in {0, 4}
  BY <1>2 DEF SSH_SERVER_FILE_NOT_FOUND, SSH_SERVER_NOT_KNOWN
<1>7. answer' = c /\ opened' = opened
  BY <1>2 DEF VerifyKnownHost
<1> HIDE DEF s
<1>8. ssh' \in SshRecord /\ Sound(ssh') /\ (ssh'.channel => s.channel) /\ (ssh'.session => s.session)
  BY <1>3, <1>4, <1>5, SetErrorCodeSound
<1>9. written' => answer' = 0
  BY <1>3, <1>6, <1>7 DEF IsError
<1>10. answer' \in {2, 3} => ~ssh'.session
  BY <1>3, <1>7, <1>8
<1>11. ChannelNeedsLogin'
  BY <1>3, <1>7, <1>8 DEF SshInv, ChannelNeedsLogin, IsReady
<1> QED
  BY <1>8, <1>9, <1>10, <1>11 DEF SshInv, OnlyUnknownHostWritten, SSH_SERVER_NOT_KNOWN,
     SSH_SERVER_KNOWN_CHANGED, SSH_SERVER_FOUND_OTHER

\* Only a channel that was opened is left, and only a user let in opens one.
LEMMA AuthenticateKeeps ==
  ASSUME SshInv, Authenticate
  PROVE  SshInv'
<1>1. ssh \in SshRecord /\ ChannelHasSession(ssh)
  BY DEF SshInv, Sound, ChannelHasSession
<1>0. PICK s \in AfterUser(ssh) :
        \E a \in Answers(s, {SSH_ERROR, SSH_AUTH_SUCCESS, SSH_AUTH_DENIED, SSH_AUTH_PARTIAL}) :
        LET t == SetErrorCode([s EXCEPT !.channel = s.session], a) IN
          /\ opened' = (s.session /\ a = SSH_AUTH_SUCCESS)
          /\ IF IsError(t) THEN ssh' = t
             ELSE \E o \in {SSH_ERROR} \cup (IF a = SSH_AUTH_SUCCESS THEN {SSH_OK} ELSE {}) :
                    ssh' = SetErrorCode(t, o)
  BY DEF Authenticate
<1>2. PICK a \in Answers(s, {SSH_ERROR, SSH_AUTH_SUCCESS, SSH_AUTH_DENIED, SSH_AUTH_PARTIAL}) :
        LET t == SetErrorCode([s EXCEPT !.channel = s.session], a) IN
          /\ opened' = (s.session /\ a = SSH_AUTH_SUCCESS)
          /\ IF IsError(t) THEN ssh' = t
             ELSE \E o \in {SSH_ERROR} \cup (IF a = SSH_AUTH_SUCCESS THEN {SSH_OK} ELSE {}) :
                    ssh' = SetErrorCode(t, o)
  BY <1>0
<1>3. s \in SshRecord
  BY <1>1, AfterOptionSound DEF AfterUser
<1> DEFINE n == [s EXCEPT !.channel = s.session]
           t == SetErrorCode(n, a)
<1>4. n \in SshRecord /\ ChannelHasSession(n) /\ n.session = s.session
  BY <1>3 DEF SshRecord, ChannelHasSession
<1>5. a \in -1 .. 4
  BY DEF Answers, SSH_ERROR, SSH_AUTH_SUCCESS, SSH_AUTH_DENIED, SSH_AUTH_PARTIAL
<1> HIDE DEF n
<1>6. t \in SshRecord /\ Sound(t) /\ (t.session => s.session)
  BY <1>4, <1>5, SetErrorCodeSound
<1>7. ChannelHasSession(t)
  BY <1>6 DEF Sound, ChannelHasSession
<1>8. /\ opened' = (s.session /\ a = SSH_AUTH_SUCCESS)
      /\ IF IsError(t) THEN ssh' = t
         ELSE \E o \in {SSH_ERROR} \cup (IF a = SSH_AUTH_SUCCESS THEN {SSH_OK} ELSE {}) :
                ssh' = SetErrorCode(t, o)
  BY <1>2 DEF n
<1> HIDE DEF t
<1>9. ssh' \in SshRecord /\ Sound(ssh') /\ (ssh'.session => opened')
  <2>1. CASE IsError(t)
    BY <1>6, <1>8, <2>1 DEF Sound
  <2>2. CASE ~IsError(t)
    <3>1. PICK o \in {SSH_ERROR} \cup (IF a = SSH_AUTH_SUCCESS THEN {SSH_OK} ELSE {}) :
            ssh' = SetErrorCode(t, o)
      BY <1>8, <2>2
    <3>2. o \in -1 .. 4 /\ (o \in {0, 1} => a = SSH_AUTH_SUCCESS)
      BY DEF SSH_ERROR, SSH_OK
    <3>3. /\ ssh' \in SshRecord /\ Sound(ssh')
          /\ ssh'.session => t.session /\ o \in {0, 1}
      BY <1>6, <1>7, <3>1, <3>2, SetErrorCodeSound
    <3> QED
      BY <1>6, <1>8, <3>2, <3>3
  <2> QED
    BY <2>1, <2>2
<1> QED
  BY <1>9 DEF SshInv, Authenticate, ChannelNeedsLogin, IsReady, OnlyUnknownHostWritten, SSH_OK,
              SSH_SERVER_KNOWN_CHANGED, SSH_SERVER_FOUND_OTHER

\* Whatever fails, and in whatever order the operations are called, the session that is
\* left is sound (setErrorCode, tryConnect, VerifyKnownHost, Authenticate).
THEOREM SshSafety == SshSpec => []SessionIsSound
<1>1. SshInit => SshInv
  BY DEF SshInit, SshInv, NewSsh, SshRecord, Sound, IsError, ChannelNeedsLogin, IsReady,
         OnlyUnknownHostWritten, SSH_OK, SSH_ERROR, SSH_SERVER_KNOWN_CHANGED,
         SSH_SERVER_FOUND_OTHER
<1>2. SshInv /\ [SshNext]_sshVars => SshInv'
  <2>1. SUFFICES ASSUME SshInv, [SshNext]_sshVars PROVE SshInv'
    OBVIOUS
  <2>2. CASE UNCHANGED sshVars
    BY <2>1, <2>2 DEF sshVars, SshInv, ChannelNeedsLogin, OnlyUnknownHostWritten
  <2>3. CASE SshNext
    BY <2>1, <2>3, SettersKeep, ConnectKeeps, VerifyKeeps, AuthenticateKeeps DEF SshNext
  <2> QED
    BY <2>1, <2>2, <2>3
<1>3. SshInv => SessionIsSound
  BY DEF SshInv, SessionIsSound, Sound, NothingOutlivesSession, SessionHasNoError
<1> QED
  BY <1>1, <1>2, <1>3, PTL DEF SshSpec

(***************************************************************************)
(* SharedPool.                                                             *)
(***************************************************************************)

PoolTyped == /\ m_Pool = [p \in Pools |-> m_Pool[p]]
             /\ m_Status = [p \in Pools |-> m_Status[p]]

\* Every operation replaces the entries of some pools.
LEMMA PoolStaysTyped == PoolTyped /\ [PoolNext]_poolVars => PoolTyped'
<1> SUFFICES ASSUME PoolTyped, [PoolNext]_poolVars PROVE PoolTyped'
  OBVIOUS
<1>1. ASSUME NEW p \in Pools, NEW e \in Elements \cup {Null}, NEW keeps \in BOOLEAN,
             Insert(p, e, keeps)
      PROVE  PoolTyped'
  BY <1>1 DEF Insert, PoolTyped
<1>2. ASSUME NEW p \in Pools, Clear(p) \/ ResetAll(p) PROVE PoolTyped'
  BY <1>2 DEF Clear, ResetAll, PoolTyped
<1>3. ASSUME NEW p \in Pools, NEW key, EraseKey(p, key) PROVE PoolTyped'
  BY <1>3 DEF EraseKey, PoolTyped
<1>4. ASSUME NEW p \in Pools, NEW q \in Pools, Move(p, q) PROVE PoolTyped'
  BY <1>4 DEF Move, PoolTyped
<1>5. ASSUME NEW e, Release(e) PROVE PoolTyped'
  BY <1>5 DEF Release, PoolTyped
<1>6. CASE UNCHANGED poolVars
  BY <1>6 DEF poolVars, PoolTyped
<1> QED
  BY <1>1, <1>2, <1>3, <1>4, <1>5, <1>6 DEF PoolNext, EraseElement

\* What is in the map stays where it is, whatever key the new element gets.
LEMMA InsertedKeeps ==
  ASSUME NEW pool, NEW key, NEW e
  PROVE  /\ Held(pool) \subseteq Held(Inserted(pool, key, e))
         /\ key \in DOMAIN pool <=> DOMAIN Inserted(pool, key, e) = DOMAIN pool
<1>1. CASE key \in DOMAIN pool
  BY <1>1 DEF Inserted
<1>2. CASE key \notin DOMAIN pool
  <2>1. Inserted(pool, key, e) =
          [k \in DOMAIN pool \cup {key} |-> IF k = key THEN e ELSE pool[k]]
    BY <1>2 DEF Inserted
  <2>2. DOMAIN Inserted(pool, key, e) = DOMAIN pool \cup {key}
    BY <2>1
  <2>3. \A k \in DOMAIN pool : Inserted(pool, key, e)[k] = pool[k]
    BY <1>2, <2>1
  <2> QED
    BY <1>2, <2>2, <2>3 DEF Held
<1> QED
  BY <1>1, <1>2

\* An insertion takes nothing out, keeps what the application has, and says whether
\* the element went in as far as StatusAfter does.
LEMMA InsertKeeps ==
  ASSUME PoolTyped, NEW p \in Pools, NEW e, NEW keeps, Insert(p, e, keeps)
  PROVE  /\ Held(m_Pool[p]) \subseteq Held(m_Pool'[p])
         /\ e \in held => e \in Referenced'
         /\ IF DOMAIN m_Pool'[p] # DOMAIN m_Pool[p] THEN m_Status'[p] = "Ok"
            ELSE \/ m_Status'[p] # "Ok"
                 \/ e = Null /\ ~Full(p) /\ m_Status'[p] = m_Status[p]
<1>1. PICK key \in Keys(p, e) :
        /\ m_Pool' = [m_Pool EXCEPT ![p] = Inserted(m_Pool[p], key, e)]
        /\ m_Status' = [m_Status EXCEPT ![p] = StatusAfter(p, key, e)]
        /\ (IF key \in DOMAIN m_Pool[p] THEN held ELSE held \ {e}) \subseteq held'
  BY DEF Insert
<1>2. m_Pool'[p] = Inserted(m_Pool[p], key, e) /\ m_Status'[p] = StatusAfter(p, key, e)
  BY <1>1 DEF PoolTyped
<1>3. Held(m_Pool[p]) \subseteq Held(m_Pool'[p])
  BY <1>2, InsertedKeeps
<1>4. key \in DOMAIN m_Pool[p] <=> DOMAIN m_Pool'[p] = DOMAIN m_Pool[p]
  BY <1>2, InsertedKeeps
<1>5. CASE key \notin DOMAIN m_Pool[p]
  <2>1. m_Status'[p] = "Ok"
    BY <1>2, <1>5 DEF StatusAfter
  <2>2. m_Pool'[p][key] = e /\ key \in DOMAIN m_Pool'[p]
    BY <1>2, <1>5 DEF Inserted
  <2>3. e \in Held(m_Pool[p])'
    BY <2>2 DEF Held
  <2>4. e \in Referenced'
    BY <2>3 DEF Referenced
  <2> QED
    BY <1>3, <1>4, <1>5, <2>1, <2>4
<1>6. CASE key \in DOMAIN m_Pool[p]
  <2>1. held \subseteq Referenced'
    BY <1>1, <1>6 DEF Referenced
  <2>2. m_Status'[p] = "Ok" => e = Null /\ ~Full(p) /\ m_Status'[p] = m_Status[p]
    BY <1>2, <1>6 DEF StatusAfter
  <2> QED
    BY <1>3, <1>4, <1>6, <2>1, <2>2
<1> QED
  BY <1>5, <1>6

\* Two pools that swap what they hold refer to the same elements together.
LEMMA MoveKeeps ==
  ASSUME PoolTyped, NEW p \in Pools, NEW q \in Pools, Move(p, q)
  PROVE  Referenced' = Referenced
<1>1. m_Pool'[p] = m_Pool[q] /\ m_Pool'[q] = m_Pool[p] /\ held' = held
  BY DEF Move, PoolTyped
<1>2. \A r \in Pools \ {p, q} : m_Pool'[r] = m_Pool[r]
  BY DEF Move, PoolTyped
<1>3. UNION { Held(m_Pool'[r]) : r \in Pools } = UNION { Held(m_Pool[r]) : r \in Pools }
  BY <1>1, <1>2
<1>4. Held(m_Pool[p])' = Held(m_Pool'[p])
  BY DEF Held
<1> QED
  BY <1>1, <1>3 DEF Referenced, Held

\* For any pools, elements and allocators: nothing a pool or an application holds is
\* dropped by an insertion or by an assignment, and Ok means that the element went in
\* unless null was inserted into a pool with room (Insert, operator=).
THEOREM PoolSafety == PoolSpec => PoolKeeps
<1>1. PoolInit => PoolTyped
  BY DEF PoolInit, PoolTyped
<1>2. PoolTyped =>
        [ \A p \in Pools :
            /\ \A e \in Elements \cup {Null}, keeps \in BOOLEAN :
                 Insert(p, e, keeps) => /\ Held(m_Pool[p]) \subseteq Held(m_Pool'[p])
                                        /\ e \in held => e \in Referenced'
            /\ \A q \in Pools \ {p} : Move(p, q) => Referenced' = Referenced ]_poolVars
  BY InsertKeeps, MoveKeeps
<1>3. PoolTyped =>
        [ \A p \in Pools, e \in Elements \cup {Null}, keeps \in BOOLEAN :
            Insert(p, e, keeps) =>
              IF DOMAIN m_Pool'[p] # DOMAIN m_Pool[p] THEN m_Status'[p] = "Ok"
              ELSE \/ m_Status'[p] # "Ok"
                   \/ e = Null /\ ~Full(p) /\ m_Status'[p] = m_Status[p] ]_poolVars
  BY InsertKeeps
<1> QED
  BY <1>1, <1>2, <1>3, PoolStaysTyped, PTL DEF PoolSpec, PoolKeeps, NothingDropped,
     StatusTellsInsertion

(***************************************************************************)
(* InotifyManager.                                                         *)
(***************************************************************************)

WatchedPaths == {Watchable[i] : i \in DOMAIN Watchable}

Last(s) == s[Len(s)]

ManagerTyped ==
  /\ DOMAIN manager =
       {"at", "actions", "todo", "excluded", "regex", "retval", "errno", "started"}
  /\ manager.actions \in Seq(WatchedPaths) /\ manager.todo \in Seq(WatchedPaths)
  /\ DOMAIN library = {"watched", "error"}

Initialising == manager.at \in {"init", "watch", "regex", "result"}

\* The paths to come end as the actions do, and behind the last one an errno that
\* says nothing says that it is watched, unless expressions came in between.
LastIsWatched ==
  /\ Initialising /\ manager.todo # <<>> =>
       manager.actions # <<>> /\ Last(manager.todo) = Last(manager.actions)
  /\ manager.at = "init" => manager.todo = manager.actions
  /\ manager.at = "regex" => manager.regex
  /\ manager.at = "result" /\ manager.errno = NoError => manager.todo = <<>>
  /\ manager.at \in {"watch", "result"} /\ manager.todo = <<>> /\ ~manager.regex
       /\ manager.errno = NoError /\ manager.actions # <<>>
       => Last(manager.actions) \in library.watched

\* Nobody is told before the result, and a failure that Init tells has a code.
ToldAtTheEnd ==
  /\ Initialising => told = <<>> /\ ~manager.started
  /\ manager.at \in {"watch", "regex"} => manager.retval
  /\ manager.at = "result" /\ ~manager.retval => manager.errno # NoError

InotifyInv ==
  /\ ManagerTyped
  /\ manager.at \in {"idle", "running"} \/ Initialising
  /\ LastIsWatched /\ ToldAtTheEnd /\ StartIsTold

LEMMA TailLast ==
  ASSUME NEW S, NEW s \in Seq(S), s # <<>>
  PROVE  /\ Tail(s) \in Seq(S)
         /\ Tail(s) # <<>> => Last(Tail(s)) = Last(s)
         /\ Tail(s) = <<>> => Head(s) = Last(s)
<1>1. /\ Tail(s) \in Seq(S) /\ Len(s) \in Nat \ {0} /\ Len(Tail(s)) = Len(s) - 1
      /\ Head(s) = s[1]
  OBVIOUS
<1>2. \A i \in 1 .. Len(s) - 1 : Tail(s)[i] = s[i + 1]
  OBVIOUS
<1>3. CASE Tail(s) = <<>>
  BY <1>1, <1>3 DEF Last
<1>4. CASE Tail(s) # <<>>
  <2>1. Len(s) - 1 \in 1 .. Len(s) - 1
    BY <1>1, <1>4
  <2>2. Tail(s)[Len(s) - 1] = s[(Len(s) - 1) + 1]
    BY <1>2, <2>1
  <2> QED
    BY <1>1, <1>4, <2>2 DEF Last
<1> QED
  BY <1>1, <1>3, <1>4

LEMMA AppendedNotEmpty ==
  ASSUME NEW S, NEW s \in Seq(S), NEW c \in S
  PROVE  s \o <<c>> # <<>>
<1>1. Len(s \o <<c>>) = Len(s) + 1 /\ Len(s) \in Nat
  OBVIOUS
<1> QED
  BY <1>1

\* Run takes as many of the paths as it likes.
LEMMA RunKeeps ==
  ASSUME InotifyInv, NEW n \in 0 .. Len(Watchable), NEW excluded \in BOOLEAN,
         NEW regex \in BOOLEAN, RunOver(SubSeq(Watchable, 1, n), excluded, regex)
  PROVE  InotifyInv'
<1> DEFINE w == SubSeq(Watchable, 1, n)
<1>1. w \in Seq(WatchedPaths)
  BY InotifyAssumption DEF WatchedPaths
<1> HIDE DEF w
<1>2. /\ manager'.at = "init" /\ manager'.actions = w /\ manager'.todo = w
      /\ ~manager'.started
      /\ DOMAIN manager' =
           {"at", "actions", "todo", "excluded", "regex", "retval", "errno", "started"}
      /\ told' = <<>> /\ library' = library
  BY DEF RunOver, NewManager, w
<1>3. ManagerTyped' /\ Initialising'
  BY <1>1, <1>2 DEF ManagerTyped, Initialising, InotifyInv
<1>4. LastIsWatched'
  BY <1>1, <1>2 DEF LastIsWatched, Initialising, Last
<1>5. ToldAtTheEnd'
  BY <1>2 DEF ToldAtTheEnd
<1>6. StartIsTold'
  BY <1>2 DEF StartIsTold, StartedRunWatches, FailedRunIsTold
<1> QED
  BY <1>3, <1>4, <1>5, <1>6 DEF InotifyInv

\* What every step of Init leaves alone.
InitStep ==
  /\ DOMAIN manager' = DOMAIN manager /\ DOMAIN library' = {"watched", "error"}
  /\ manager'.actions = manager.actions /\ manager'.regex = manager.regex
  /\ manager'.started = manager.started
  /\ told' = told /\ library.watched \subseteq library'.watched

LEMMA InitKeeps ==
  ASSUME InotifyInv, InitRefuses \/ InitBegins \/ Ignores \/ WatchEnds
  PROVE  InotifyInv'
<1>1. Initialising /\ manager'.todo = manager.todo /\ Initialising'
  BY DEF InitRefuses, InitBegins, Ignores, WatchEnds, Initialising, InotifyInv, ManagerTyped
<1>2. InitStep
  BY DEF InitRefuses, InitBegins, Ignores, WatchEnds, InitStep, InotifyInv, ManagerTyped
<1>3. /\ manager'.at # "init"
      /\ manager'.at = "regex" => manager.at = "regex"
      /\ manager'.at = "result" /\ manager'.errno = NoError => manager.todo = <<>>
      /\ manager'.at \in {"watch", "regex"} => manager'.retval
      /\ manager'.at = "result" /\ ~manager'.retval => manager'.errno # NoError
      /\ manager'.at \in {"watch", "result"} /\ manager.todo = <<>> /\ ~manager.regex
           /\ manager'.errno = NoError /\ manager.actions # <<>>
           => manager.at = "watch" /\ manager.errno = NoError
  <2>1. CASE InitRefuses
    BY <2>1 DEF InitRefuses, InotifyInv, ManagerTyped, NoError, EINVAL
  <2>2. CASE InitBegins
    <3>1. PICK ok \in BOOLEAN : \E error \in IF ok THEN {NoError} ELSE AfterFailure :
            manager' = [manager EXCEPT !.at = IF ok THEN "watch" ELSE "result",
                                       !.retval = ok, !.errno = error]
      BY <2>2 DEF InitBegins
    <3>2. /\ manager'.at = IF ok THEN "watch" ELSE "result"
          /\ manager'.retval <=> ok
          /\ ~ok => manager'.errno # NoError
      BY <3>1 DEF InotifyInv, ManagerTyped, AfterFailure, LibraryError, NoError
    <3> QED
      BY <2>2, <3>2 DEF InitBegins, InotifyInv, LastIsWatched
  <2>3. CASE Ignores
    <3>1. PICK ok \in BOOLEAN : \E error \in IF ok THEN AfterSuccess ELSE AfterFailure :
            manager' = [manager EXCEPT !.at = IF ok THEN "watch" ELSE "result",
                                       !.retval = ok, !.errno = error]
      BY <2>3 DEF Ignores
    <3>2. /\ manager'.at = IF ok THEN "watch" ELSE "result"
          /\ manager'.retval <=> ok
          /\ ~ok => manager'.errno # NoError
      BY <3>1 DEF InotifyInv, ManagerTyped, AfterFailure, LibraryError, NoError
    <3> QED
      BY <2>3, <3>2 DEF Ignores, InotifyInv, LastIsWatched
  <2>4. CASE WatchEnds
    BY <2>4 DEF WatchEnds, InotifyInv, ManagerTyped, LastIsWatched, ToldAtTheEnd
  <2> QED
    BY <2>1, <2>2, <2>3, <2>4
<1> QED
  BY <1>1, <1>2, <1>3 DEF InotifyInv, InitStep, ManagerTyped, Initialising, LastIsWatched,
     ToldAtTheEnd, StartIsTold, StartedRunWatches, FailedRunIsTold

\* A path that could not be watched leaves an errno; one more that could overwrites it.
LEMMA WatchesKeep ==
  ASSUME InotifyInv, Watches
  PROVE  InotifyInv'
<1>1. PICK watches \in BOOLEAN : \E error \in IF watches THEN AfterSuccess ELSE AfterFailure :
        /\ library' = [ watched |-> library.watched \cup
                                      (IF watches THEN {Head(manager.todo)} ELSE {}),
                        error   |-> error ]
        /\ manager' = [manager EXCEPT !.at = IF manager.regex THEN "regex" ELSE "watch",
                                      !.todo = Tail(@), !.errno = error]
  BY DEF Watches
<1>2. InitStep
  BY <1>1 DEF Watches, InitStep, InotifyInv, ManagerTyped
<1>3. /\ manager'.at = IF manager.regex THEN "regex" ELSE "watch"
      /\ manager'.todo = Tail(manager.todo) /\ manager'.retval = manager.retval
      /\ ~watches => manager'.errno # NoError
      /\ watches => Head(manager.todo) \in library'.watched
  BY <1>1 DEF InotifyInv, ManagerTyped, AfterFailure, LibraryError, NoError
<1>4. /\ manager.at = "watch" /\ manager.todo \in Seq(WatchedPaths) /\ manager.todo # <<>>
      /\ Initialising /\ Initialising'
  BY <1>3 DEF Watches, Initialising, InotifyInv, ManagerTyped
<1>5. /\ Tail(manager.todo) \in Seq(WatchedPaths)
      /\ Tail(manager.todo) # <<>> => Last(Tail(manager.todo)) = Last(manager.todo)
      /\ Tail(manager.todo) = <<>> => Head(manager.todo) = Last(manager.todo)
  BY <1>4, TailLast
<1> QED
  BY <1>2, <1>3, <1>4, <1>5 DEF InotifyInv, InitStep, ManagerTyped, Initialising, LastIsWatched,
     ToldAtTheEnd, StartIsTold, StartedRunWatches, FailedRunIsTold

\* The result is told, or the run starts.
LEMMA ResultKeeps ==
  ASSUME InotifyInv, Result
  PROVE  InotifyInv'
<1>1. /\ manager'.at = IF manager.errno = NoError THEN "running" ELSE "idle"
      /\ manager'.started <=> manager.errno = NoError
      /\ DOMAIN manager' = DOMAIN manager
      /\ manager'.actions = manager.actions /\ manager'.todo = manager.todo
      /\ manager'.regex = manager.regex /\ library' = library
  BY DEF Result, InotifyInv, ManagerTyped
<1>2. /\ manager.at = "result" /\ told = <<>>
      /\ manager.errno = NoError => manager.retval
  BY DEF Result, InotifyInv, ToldAtTheEnd, Initialising
<1>3. told' = <<>> <=> manager.errno = NoError
  <2>1. told' = told \o (IF manager.retval THEN <<>> ELSE <<manager.errno>>)
                    \o (IF manager.errno = NoError THEN <<>> ELSE <<EUCLEAN>>)
    BY DEF Result
  <2>2. CASE manager.errno = NoError
    BY <1>2, <2>1, <2>2
  <2>3. CASE manager.errno # NoError
    <3> DEFINE t == told \o (IF manager.retval THEN <<>> ELSE <<manager.errno>>)
    <3>1. t \in Seq({manager.errno, EUCLEAN})
      <4>1. /\ told \in Seq({manager.errno, EUCLEAN})
            /\ (IF manager.retval THEN <<>> ELSE <<manager.errno>>) \in Seq({manager.errno, EUCLEAN})
        <5>1. CASE manager.retval
          BY <1>2, <5>1
        <5>2. CASE ~manager.retval
          BY <1>2, <5>2
        <5> QED
          BY <5>1, <5>2
      <4> QED
        BY <4>1
    <3> HIDE DEF t
    <3>2. t \o <<EUCLEAN>> # <<>>
      BY <3>1, AppendedNotEmpty
    <3> QED
      BY <2>1, <2>3, <3>2 DEF t
  <2> QED
    BY <2>2, <2>3
<1>4. ManagerTyped' /\ ~Initialising'
  BY <1>1 DEF ManagerTyped, Initialising, InotifyInv
<1>5. LastIsWatched' /\ ToldAtTheEnd'
  BY <1>1, <1>4 DEF LastIsWatched, ToldAtTheEnd
<1>6. StartedRunWatches'
  BY <1>1, <1>2 DEF InotifyInv, LastIsWatched, Last, StartedRunWatches
<1>7. FailedRunIsTold'
  BY <1>1, <1>3 DEF FailedRunIsTold
<1> QED
  BY <1>1, <1>4, <1>5, <1>6, <1>7 DEF InotifyInv, StartIsTold

LEMMA RunEndedKeeps ==
  ASSUME InotifyInv, RunEnded
  PROVE  InotifyInv'
<1>1. /\ manager'.at = "idle" /\ manager.at = "running"
      /\ DOMAIN manager' = DOMAIN manager /\ manager'.started = manager.started
      /\ manager'.actions = manager.actions /\ manager'.todo = manager.todo
      /\ manager'.regex = manager.regex
      /\ library' = library /\ told' = told /\ runs' = runs
  BY DEF RunEnded, InotifyInv, ManagerTyped
<1> QED
  BY <1>1 DEF InotifyInv, ManagerTyped, Initialising, LastIsWatched,
     ToldAtTheEnd, StartIsTold, StartedRunWatches, FailedRunIsTold

\* For any list of paths and any number of runs: a run that starts watches its last
\* path, and the handler is told of exactly the runs that do not start (Init, Run).
THEOREM InotifySafety == InotifySpec => []StartIsTold
<1>1. InotifyInit => InotifyInv
  <2> SUFFICES ASSUME InotifyInit PROVE InotifyInv
    OBVIOUS
  <2>1. /\ manager.at = "idle" /\ manager.actions = <<>> /\ manager.todo = <<>>
        /\ ~manager.started
        /\ DOMAIN manager =
             {"at", "actions", "todo", "excluded", "regex", "retval", "errno", "started"}
        /\ told = <<>> /\ runs = 0 /\ DOMAIN library = {"watched", "error"}
    BY DEF InotifyInit, NewManager
  <2>2. ManagerTyped
    BY <2>1 DEF ManagerTyped
  <2>3. LastIsWatched
    BY <2>1 DEF LastIsWatched, Initialising
  <2>4. ToldAtTheEnd
    BY <2>1 DEF ToldAtTheEnd, Initialising
  <2>5. StartIsTold
    BY <2>1 DEF StartIsTold, StartedRunWatches, FailedRunIsTold
  <2> QED
    BY <2>1, <2>2, <2>3, <2>4, <2>5 DEF InotifyInv
<1>2. InotifyInv /\ [InotifyNext]_inotifyVars => InotifyInv'
  <2> SUFFICES ASSUME InotifyInv, [InotifyNext]_inotifyVars PROVE InotifyInv'
    OBVIOUS
  <2>1. CASE UNCHANGED inotifyVars
    BY <2>1 DEF inotifyVars, InotifyInv, ManagerTyped, Initialising, LastIsWatched,
       ToldAtTheEnd, StartIsTold, StartedRunWatches, FailedRunIsTold
  <2>2. CASE InotifyNext
    BY <2>2, RunKeeps, InitKeeps, WatchesKeep, ResultKeeps, RunEndedKeeps DEF InotifyNext
  <2> QED
    BY <2>1, <2>2
<1>3. InotifyInv => StartIsTold
  BY DEF InotifyInv
<1> QED
  BY <1>1, <1>2, <1>3, PTL DEF InotifySpec

(***************************************************************************)
(* AsioError.                                                              *)
(***************************************************************************)

AnyCode == Codes \cup {success}

ErrorTypeOK ==
  /\ cell \in [Cells -> [code : AnyCode, table : SUBSET AnyCode]]
  /\ setter \in [Setters ->
       [at : {"idle", "execute", "waits"}, cell : Cells \cup {"none"}, code : AnyCode]]
  /\ running \in SUBSET [setter : Setters, key : AnyCode, argument : AnyCode]

ErrorInv == ErrorTypeOK /\ CallbackGetsItsCode /\ CallbackIsAwaited

\* The invariant holds in the initial state: nothing runs.
LEMMA InitInv == ErrorInit => ErrorInv
  BY DEF ErrorInit, ErrorInv, ErrorTypeOK, CallbackGetsItsCode, CallbackIsAwaited, AnyCode, Idle

\* A step that starts no callback, and moves no thread a callback runs for.
LEMMA NothingStarted ==
  ASSUME ErrorInv, ErrorTypeOK', running' \subseteq running,
         \A call \in running : setter'[call.setter] = setter[call.setter]
              \/ call \notin running'
  PROVE  ErrorInv'
  BY DEF ErrorInv, CallbackGetsItsCode, CallbackIsAwaited

\* A thread without a callback may go anywhere while none is started.
LEMMA IdleMoves ==
  ASSUME ErrorInv, ErrorTypeOK', UNCHANGED running,
         NEW t \in Setters, setter[t].at # "waits",
         \A u \in Setters \ {t} : setter'[u] = setter[u]
  PROVE  ErrorInv'
  <1>1. \A call \in running : call.setter \in Setters /\ call.setter # t
    BY DEF ErrorInv, ErrorTypeOK, CallbackIsAwaited
  <1> QED
    BY <1>1, NothingStarted

\* Every step keeps the invariant.
LEMMA NextInv == ErrorInv /\ [ErrorNext]_errorVars => ErrorInv'
  <1> SUFFICES ASSUME ErrorInv, [ErrorNext]_errorVars PROVE ErrorInv'
    OBVIOUS
  <1> USE DEF ErrorInv
  <1>1. ASSUME NEW c \in Cells, NEW code \in AnyCode, SetErrorCallback(c, code)
        PROVE  ErrorInv'
    <2>1. ErrorTypeOK'
      BY <1>1 DEF SetErrorCallback, ErrorTypeOK, AnyCode
    <2> QED
      BY <1>1, <2>1, NothingStarted DEF SetErrorCallback
  <1>2. ASSUME NEW c \in Cells, NEW codes, EraseCallbacks(c, codes)
        PROVE  ErrorInv'
    <2>1. ErrorTypeOK'
      BY <1>2 DEF EraseCallbacks, ErrorTypeOK, AnyCode
    <2> QED
      BY <1>2, <2>1, NothingStarted DEF EraseCallbacks
  <1>3. ASSUME NEW t \in Setters, NEW c \in Cells, NEW code \in AnyCode, SetCode(t, c, code)
        PROVE  ErrorInv'
    <2>1. ErrorTypeOK'
      BY <1>3 DEF SetCode, ErrorTypeOK, AnyCode
    <2> QED
      BY <1>3, <2>1, IdleMoves DEF SetCode, ErrorTypeOK
  <1>4. ASSUME NEW t \in Setters, Execute(t)
        PROVE  ErrorInv'
    <2> DEFINE s == setter[t]
               call == [setter |-> t, key |-> s.code, argument |-> s.code]
    <2>1. s.at = "execute" /\ s \in [at : {"idle", "execute", "waits"},
                                     cell : Cells \cup {"none"}, code : AnyCode]
      BY <1>4 DEF Execute, ErrorTypeOK
    <2>2. CASE s.code \in cell[s.cell].table
      <3>1. running' = running \cup {call} /\ setter' = [setter EXCEPT ![t].at = "waits"]
            /\ UNCHANGED cell
        BY <1>4, <2>2 DEF Execute
      <3>2. call \in [setter : Setters, key : AnyCode, argument : AnyCode]
        BY <2>1
      <3>3. ErrorTypeOK'
        BY <3>1, <3>2, <2>1 DEF ErrorTypeOK
      <3>4. \A other \in running : other.setter # t /\ other.setter \in Setters
        BY <2>1 DEF CallbackIsAwaited, ErrorTypeOK
      <3>5. setter'[t].at = "waits" /\ setter'[t].code = s.code
        BY <3>1, <2>1 DEF ErrorTypeOK
      <3>6. \A u \in Setters \ {t} : setter'[u] = setter[u]
        BY <3>1 DEF ErrorTypeOK
      <3>7. CallbackGetsItsCode'
        BY <3>1 DEF CallbackGetsItsCode
      <3>8. CallbackIsAwaited'
        BY <3>1, <3>4, <3>5, <3>6 DEF CallbackIsAwaited
      <3> QED
        BY <3>3, <3>7, <3>8
    <2>3. CASE s.code \notin cell[s.cell].table
      <3>1. UNCHANGED <<running, cell>> /\ setter' = [setter EXCEPT ![t] = Idle]
        BY <1>4, <2>3 DEF Execute
      <3>2. ErrorTypeOK'
        BY <3>1 DEF ErrorTypeOK, Idle, AnyCode
      <3> QED
        BY <3>1, <3>2, <2>1, IdleMoves DEF ErrorTypeOK
    <2> QED
      BY <2>2, <2>3
  <1>5. ASSUME NEW t \in Setters, FutureDestroyed(t)
        PROVE  ErrorInv'
    <2>1. ErrorTypeOK'
      BY <1>5 DEF FutureDestroyed, ErrorTypeOK, Idle, AnyCode
    <2>2. \A call \in running : setter'[call.setter] = setter[call.setter]
      BY <1>5 DEF FutureDestroyed, ErrorTypeOK
    <2> QED
      BY <1>5, <2>1, <2>2, NothingStarted DEF FutureDestroyed
  <1>6. ASSUME NEW t \in Setters, NEW c \in Cells, NEW d \in Cells, Copy(t, c, d)
        PROVE  ErrorInv'
    <2>1. ErrorTypeOK'
      BY <1>6 DEF Copy, ErrorTypeOK, AnyCode
    <2> QED
      BY <1>6, <2>1, IdleMoves DEF Copy, ErrorTypeOK
  <1>7. ASSUME NEW t \in Setters, NEW c \in Cells, NEW d \in Cells, MoveCell(t, c, d)
        PROVE  ErrorInv'
    <2>1. cell' \in [Cells -> [code : AnyCode, table : SUBSET AnyCode]]
      BY <1>7 DEF MoveCell, ErrorTypeOK, AnyCode
    <2>2. ErrorTypeOK'
      BY <1>7, <2>1 DEF MoveCell, ErrorTypeOK, AnyCode
    <2> QED
      BY <1>7, <2>2, IdleMoves DEF MoveCell, ErrorTypeOK
  <1>8. ASSUME NEW call \in running, CallbackReturns(call)
        PROVE  ErrorInv'
    <2>1. ErrorTypeOK'
      BY <1>8 DEF CallbackReturns, ErrorTypeOK
    <2> QED
      BY <1>8, <2>1, NothingStarted DEF CallbackReturns
  <1>9. CASE UNCHANGED errorVars
    BY <1>9 DEF errorVars, ErrorTypeOK, CallbackGetsItsCode, CallbackIsAwaited
  <1> QED
    BY <1>1, <1>2, <1>3, <1>4, <1>5, <1>6, <1>7, <1>8, <1>9 DEF ErrorNext, AnyCode

\* Whatever cells, codes and threads there are, a callback is given the code it was
\* registered for, and the call that started it waits for it (SetErrorCode, Execute).
THEOREM ErrorSafety == ErrorSpec => []CallbacksAreSafe
  <1>1. ErrorInv => CallbacksAreSafe
    BY DEF ErrorInv, CallbacksAreSafe
  <1> QED
    BY <1>1, InitInv, NextInv, PTL DEF ErrorSpec

(***************************************************************************)
(* PasswdGenerator.                                                        *)
(***************************************************************************)

\* The length is never set below the minimum, and what a run delivers fits.
PasswdInv ==
  /\ m_Length \in Nat /\ m_Length >= MinLength
  /\ m_Callback \in BOOLEAN
  /\ PasswordFits /\ CallbackOnce

\* What is drawn from the alphabet of the flags, and satisfies them, fits.
LEMMA DrawnFits ==
  ASSUME NEW password \in Draws(BuildString), Satisfied(password),
         m_Length \in Nat, m_Length >= MinLength
  PROVE  /\ password.size = m_Length
         /\ \A c \in password.chars :
              /\ c \in Digits => "Digit" \in m_Flag
              /\ c \in Uppers => "Upper" \in m_Flag
              /\ c \in Lowers => "Lower" \in m_Flag
              /\ c \in Symbols => "Symbol" \in m_Flag
              /\ c \in Ambiguous => "WithoutAmbiguous" \notin m_Flag
              /\ c \in Vowels => "WithoutVowels" \notin m_Flag
              /\ c \notin m_Removing
         /\ "Symbol" \in m_Flag => \E c \in password.chars : c \in Symbols
         /\ "Digit" \in m_Flag => \E c \in password.chars : c \in Digits
<1>1. PICK C \in SUBSET BuildString : password = [chars |-> C, size |-> m_Length]
  BY DEF Draws
<1>2. password.chars \subseteq BuildString /\ password.size = m_Length
  BY <1>1
<1>3. /\ "Symbol" \in m_Flag => password.chars \cap Symbols # {}
      /\ "Digit" \in m_Flag => password.chars \cap Digits # {}
  BY DEF Satisfied, OneValueExists, HasFlag
<1>4. ASSUME NEW c \in password.chars
      PROVE  /\ c \in Digits => "Digit" \in m_Flag
             /\ c \in Uppers => "Upper" \in m_Flag
             /\ c \in Lowers => "Lower" \in m_Flag
             /\ c \in Symbols => "Symbol" \in m_Flag
             /\ c \in Ambiguous => "WithoutAmbiguous" \notin m_Flag
             /\ c \in Vowels => "WithoutVowels" \notin m_Flag
             /\ c \notin m_Removing
  <2>1. c \in Kinds /\ c \notin Excluded
    BY <1>2 DEF BuildString
  <2> QED
    BY <2>1, PasswdAssumption DEF Kinds, Excluded, HasFlag
<1> QED
  BY <1>2, <1>3, <1>4

LEMMA PasswdInitInv == PasswdInit => PasswdInv
<1> SUFFICES ASSUME PasswdInit PROVE PasswdInv
  OBVIOUS
<1>1. m_Length \in Nat /\ m_Length >= MinLength
  BY PasswdAssumption DEF PasswdInit
<1>2. run = "none" /\ calls = 0 /\ m_Callback \in BOOLEAN
  BY DEF PasswdInit
<1> QED
  BY <1>1, <1>2 DEF PasswdInv, PasswordFits, CallbackOnce

\* Every setter, and every draw, keeps the invariant.
LEMMA PasswdNextInv == PasswdInv /\ [PasswdNext]_passwdVars => PasswdInv'
<1> SUFFICES ASSUME PasswdInv, [PasswdNext]_passwdVars PROVE PasswdInv'
  OBVIOUS
<1> USE DEF PasswdInv
<1>1. ASSUME SetUp PROVE PasswdInv'
  <2>1. run' = "none" /\ calls' = 0
    BY <1>1 DEF SetUp
  <2>2. m_Length' \in Nat /\ m_Length' >= MinLength
    BY <1>1, PasswdAssumption
    DEF SetUp, SwitchSome, SwitchFlag, DigitsOn, DigitsOff, UpperOn, UpperOff, LowerOn, LowerOff,
        SymbolOn, SymbolOff, AmbiguousOn, AmbiguousOff, VowelsOn, VowelsOff, SetCallback,
        ResetCallback, SetLength, SetRemoving
  <2>3. m_Callback' \in BOOLEAN
    BY <1>1, Zenon
    DEF SetUp, SwitchSome, SwitchFlag, DigitsOn, DigitsOff, UpperOn, UpperOff, LowerOn, LowerOff,
        SymbolOn, SymbolOff, AmbiguousOn, AmbiguousOff, VowelsOn, VowelsOff, SetCallback,
        ResetCallback, SetLength, SetRemoving
  <2> QED
    BY <2>1, <2>2, <2>3 DEF PasswordFits, CallbackOnce
<1>2. ASSUME Run PROVE PasswdInv'
  BY <1>2 DEF Run, passwdSettings, PasswordFits, CallbackOnce
<1>3. ASSUME DrawNothing PROVE PasswdInv'
  BY <1>3 DEF DrawNothing, CallBack, passwdSettings, PasswordFits, CallbackOnce
<1>4. ASSUME DrawSatisfied PROVE PasswdInv'
  <2>1. PasswordFits'
    BY <1>4, DrawnFits DEF DrawSatisfied, passwdSettings, PasswordFits
  <2> QED
    BY <1>4, <2>1 DEF DrawSatisfied, CallBack, passwdSettings, CallbackOnce
<1>5. ASSUME DrawAgain PROVE PasswdInv'
  BY <1>5 DEF DrawAgain, passwdSettings, PasswordFits, CallbackOnce
<1>6. CASE UNCHANGED passwdVars
  BY <1>6 DEF passwdVars, passwdSettings, PasswordFits, CallbackOnce
<1> QED
  BY <1>1, <1>2, <1>3, <1>4, <1>5, <1>6 DEF PasswdNext

\* For any kinds, exclusions, lengths and orders of the setters: a run that delivers a
\* password delivers one that fits, and tells it once (run, BuildString).
THEOREM PasswdSafety == PasswdSpec => []RunDelivers
<1>1. PasswdInv => RunDelivers
  BY DEF PasswdInv, RunDelivers
<1> QED
  BY <1>1, PasswdInitInv, PasswdNextInv, PTL DEF PasswdSpec

(***************************************************************************)
(* FilesAction.                                                            *)
(***************************************************************************)

\* Every path a list or a directory holds.
AllInside == UNION { Inside(d) : d \in Directories }
PlainPaths == (UNION Lists) \cup AllInside

CallRecord ==
  [ at : {"enter", "list", "act", "entries"}, list : SUBSET PlainPaths,
    path : Paths \cup {NoPath}, left : SUBSET PlainPaths ]

\* What a call has still to take up.
OfCall(call) ==
  Taken(call.list) \cup Taken(call.left) \cup (IF call.at = "act" THEN {call.path} ELSE {})

\* Nothing in a call is there twice, and what is acted on was not excluded.
Apart(call) ==
  /\ call.at # "entries" => call.left = {}
  /\ call.at = "act" => call.path \notin Taken(call.list) \cup Unmatched
  /\ call.at = "entries" => Taken(call.list) \cap Taken(call.left) = {}

\* What has been handed to calls of a walk over the list A that has entered the
\* directories D.
Given(A, D) == Taken(A) \cup UNION { Taken(Inside(d)) : d \in D }

\* A walk over A with the calls s that has shown its callback the paths seen and has
\* entered the directories D, all of which it has listed: what was given is seen,
\* entered or with one of the calls, never with two of these, and nothing is missing
\* unless the flag was lost.
WalkInv(A, s, seen, listed, lost, D) ==
  /\ s \in Seq(CallRecord)
  /\ D \subseteq listed
  /\ seen \subseteq Given(A, D) \cap (Reachable[A] \ Directories)
  /\ D \subseteq Given(A, D) \cap Reachable[A]
  /\ \A i \in DOMAIN s : OfCall(s[i]) \subseteq Given(A, D) \ (seen \cup D)
  /\ \A i, j \in DOMAIN s : i # j => OfCall(s[i]) \cap OfCall(s[j]) = {}
  /\ \A i \in DOMAIN s : Apart(s[i])
  /\ \A i \in DOMAIN s : i < Len(s) => s[i].at = "entries"
  /\ ~lost => \A p \in Given(A, D) \ Unmatched :
                p \in seen \cup D \/ \E i \in DOMAIN s : p \in OfCall(s[i])

FilesInv ==
  /\ m_Busy \in BOOLEAN
  /\ stack \in [Walkers -> Seq(CallRecord)]
  /\ visited \in [Walkers -> SUBSET Paths]
  /\ m_DirList \in [Walkers -> SUBSET Directories]
  /\ asked \in [Walkers -> Lists \cup {{}}]
  /\ disturbed \in [Walkers -> BOOLEAN]
  /\ ~twice
  /\ \A w \in Walkers : Begun(w) /\ ~disturbed[w] => m_Busy
  /\ \A w \in Walkers : \E D \in SUBSET Directories :
       WalkInv(asked[w], stack[w], visited[w], m_DirList[w], disturbed[w], D)

-----------------------------------------------------------------------------
(* Paths.                                                                  *)

\* The blanks RecurciveCalc adds do not make two paths one.
LEMMA CalculatedInjective ==
  ASSUME NEW p \in PathNames, NEW q \in PathNames, Calculated(p) = Calculated(q)
  PROVE  p = q
<1>1. Calculated(p).parts = p.parts /\ Calculated(p).blanks = p.blanks + Len(p.parts)
  BY DEF Calculated, PathNames
<1>2. Calculated(q).parts = q.parts /\ Calculated(q).blanks = q.blanks + Len(q.parts)
  BY DEF Calculated, PathNames
<1>3. Len(p.parts) \in Nat /\ p.blanks \in Nat /\ q.blanks \in Nat
  BY LenProperties DEF PathNames
<1>4. p.parts = q.parts /\ p.blanks = q.blanks
  BY <1>1, <1>2, <1>3
<1> QED
  BY <1>4 DEF PathNames

\* Entries of two directories have two paths.
LEMMA InsideApart ==
  ASSUME NEW d \in Directories, NEW e \in Directories, d # e
  PROVE  Inside(d) \cap Inside(e) = {}
<1> SUFFICES ASSUME NEW n \in Entries[d], NEW m \in Entries[e], EntryPath(d, n) = EntryPath(e, m)
             PROVE  FALSE
  BY DEF Inside
<1>1. d \in PathNames /\ e \in PathNames /\ n \in STRING /\ m \in STRING
  BY FilesAssumption
<1>2. EntryPath(d, n).parts = Append(d.parts, n) /\ EntryPath(d, n).blanks = d.blanks
  BY <1>1 DEF EntryPath, PathNames
<1>3. EntryPath(e, m).parts = Append(e.parts, m) /\ EntryPath(e, m).blanks = e.blanks
  BY <1>1 DEF EntryPath, PathNames
<1>4. Append(d.parts, n) = Append(e.parts, m) /\ d.blanks = e.blanks
  BY <1>2, <1>3
<1>5. d.parts \in Seq(STRING) /\ e.parts \in Seq(STRING)
  BY <1>1 DEF PathNames
<1>6. d.parts = e.parts
  <2>1. /\ Len(Append(d.parts, n)) = Len(d.parts) + 1
        /\ \A i \in 1 .. Len(d.parts) : Append(d.parts, n)[i] = d.parts[i]
    BY <1>1, <1>5, AppendProperties
  <2>2. /\ Len(Append(e.parts, m)) = Len(e.parts) + 1
        /\ \A i \in 1 .. Len(e.parts) : Append(e.parts, m)[i] = e.parts[i]
    BY <1>1, <1>5, AppendProperties
  <2>3. Len(d.parts) = Len(e.parts)
    BY <1>4, <1>5, <2>1, <2>2, LenProperties
  <2> QED
    BY <1>4, <1>5, <2>1, <2>2, <2>3, SeqEqual
<1>7. d = e
  BY <1>1, <1>4, <1>6 DEF PathNames
<1> QED
  BY <1>7

LEMMA InPlainPaths ==
  /\ \A p \in PlainPaths : p \in UNION Lists \/ \E d \in Directories : p \in Inside(d)
  /\ \A d \in Directories : Inside(d) \in SUBSET PlainPaths
  /\ \A A \in Lists \cup {{}} : A \in SUBSET PlainPaths
<1>1. ASSUME NEW p \in PlainPaths PROVE p \in UNION Lists \/ \E d \in Directories : p \in Inside(d)
  <2>1. p \in UNION Lists \/ p \in AllInside
    BY DEF PlainPaths
  <2>2. ASSUME p \in AllInside PROVE \E d \in Directories : p \in Inside(d)
    BY <2>2 DEF AllInside
  <2> QED
    BY <2>1, <2>2
<1>2. ASSUME NEW d \in Directories, NEW p \in Inside(d) PROVE p \in PlainPaths
  <2>1. p \in AllInside
    BY DEF AllInside
  <2> QED
    BY <2>1 DEF PlainPaths
<1>3. ASSUME NEW A \in Lists \cup {{}}, NEW p \in A PROVE p \in PlainPaths
  <2>1. p \in UNION Lists
    OBVIOUS
  <2> QED
    BY <2>1 DEF PlainPaths
<1> QED
  BY <1>1, <1>2, <1>3

LEMMA PlainPathsAreNames == PlainPaths \subseteq PathNames
<1>1. UNION Lists \subseteq PathNames
  BY FilesAssumption
<1>2. ASSUME NEW d \in Directories, NEW p \in Inside(d) PROVE p \in PathNames
  <2>1. PICK n \in Entries[d] : p = EntryPath(d, n)
    BY DEF Inside
  <2>2. d \in PathNames /\ n \in STRING
    BY FilesAssumption
  <2>3. Append(d.parts, n) \in Seq(STRING)
    BY <2>2, AppendProperties DEF PathNames
  <2> QED
    BY <2>1, <2>2, <2>3 DEF EntryPath, PathNames
<1> QED
  BY <1>1, <1>2, InPlainPaths

\* Lists that share no path share none behind the conversion.
LEMMA TakenApart ==
  ASSUME NEW S \in SUBSET PlainPaths, NEW T \in SUBSET PlainPaths, S \cap T = {}
  PROVE  Taken(S) \cap Taken(T) = {}
<1>1. ASSUME NEW p \in S, NEW q \in T PROVE Calculated(p) # Calculated(q)
  <2>1. p \in PathNames /\ q \in PathNames /\ p # q
    BY PlainPathsAreNames
  <2> QED
    BY <2>1, CalculatedInjective
<1> QED
  BY <1>1 DEF Taken

LEMMA TakenUnion ==
  ASSUME NEW S, NEW T
  PROVE  Taken(S \cup T) = Taken(S) \cup Taken(T)
BY DEF Taken

LEMMA TakenArePaths ==
  ASSUME NEW S \in SUBSET PlainPaths
  PROVE  Taken(S) \subseteq Paths
<1> SUFFICES ASSUME NEW p \in S, ~Skipped(p) PROVE Calculated(p) \in Paths
  BY DEF Taken
<1>1. CASE p \in UNION Lists
  BY <1>1 DEF Taken, Paths
<1>2. ASSUME NEW d \in Directories, p \in Inside(d) PROVE Calculated(p) \in Paths
  <2>1. Calculated(p) \in Taken(Inside(d))
    BY <1>2 DEF Taken
  <2> QED
    BY <2>1 DEF Paths
<1> QED
  BY <1>1, <1>2, InPlainPaths

\* One path that is taken out of a list.
LEMMA TakenWithout ==
  ASSUME NEW S \in SUBSET PlainPaths, NEW p \in S
  PROVE  /\ Taken(S) = Taken(S \ {p}) \cup Taken({p})
         /\ Taken(S \ {p}) \cap Taken({p}) = {}
         /\ Taken({p}) = IF Skipped(p) THEN {} ELSE {Calculated(p)}
<1>1. S = (S \ {p}) \cup {p}
  OBVIOUS
<1>2. Taken(S) = Taken(S \ {p}) \cup Taken({p})
  BY <1>1, TakenUnion
<1>3. Taken(S \ {p}) \cap Taken({p}) = {}
  BY TakenApart
<1>4. Taken({p}) = IF Skipped(p) THEN {} ELSE {Calculated(p)}
  BY DEF Taken
<1> QED
  BY <1>2, <1>3, <1>4

\* The reachable paths are closed, and no closed set is smaller.
LEMMA ReachableClosed ==
  ASSUME NEW A \in Lists \cup {{}}
  PROVE  /\ Reachable[A] \subseteq Paths /\ Closed(A, Reachable[A])
         /\ \A S \in SUBSET Paths : Closed(A, S) => Reachable[A] \subseteq S
<1>1. Reachable[A] = { p \in Paths : \A paths \in SUBSET Paths : Closed(A, paths) => p \in paths }
  BY DEF Reachable
<1>2. Taken(A) \subseteq Paths
  BY TakenArePaths, InPlainPaths
<1>3. Taken(A) \ Unmatched \subseteq Reachable[A]
  BY <1>1, <1>2 DEF Closed
<1>4. ASSUME NEW d \in Reachable[A] \cap Directories, NEW p \in Taken(Inside(d)) \ Unmatched
      PROVE  p \in Reachable[A]
  <2>1. p \in Paths
    BY DEF Paths
  <2>2. ASSUME NEW S \in SUBSET Paths, Closed(A, S) PROVE p \in S
    BY <1>1, <2>2 DEF Closed
  <2> QED
    BY <1>1, <2>1, <2>2
<1> QED
  BY <1>1, <1>3, <1>4 DEF Closed

\* What a walk through reachable directories is given can be reached if it matches.
LEMMA GivenReachable ==
  ASSUME NEW A \in Lists \cup {{}}, NEW D \in SUBSET Directories, D \subseteq Reachable[A]
  PROVE  Given(A, D) \subseteq Paths /\ Given(A, D) \ Unmatched \subseteq Reachable[A]
<1>1. Taken(A) \subseteq Paths
  BY TakenArePaths, InPlainPaths
<1>2. UNION { Taken(Inside(d)) : d \in D } \subseteq Paths
  BY DEF Paths
<1>3. Closed(A, Reachable[A])
  BY ReachableClosed
<1> QED
  BY <1>1, <1>2, <1>3 DEF Given, Closed

\* A directory holds nothing that was given before, neither itself.
LEMMA EntriesAreNew ==
  ASSUME NEW A \in Lists \cup {{}}, NEW D \in SUBSET Directories,
         NEW p \in Directories, p \in Given(A, D) \ D
  PROVE  Taken(Inside(p)) \cap Given(A, D) = {} /\ p \notin Taken(Inside(p))
<1>1. Inside(p) \in SUBSET PlainPaths /\ A \in SUBSET PlainPaths
  BY InPlainPaths
<1>2. Taken(Inside(p)) \cap Taken(A) = {}
  <2>1. A \cap Inside(p) = {}
    BY FilesAssumption
  <2> QED
    BY <1>1, <2>1, TakenApart
<1>3. ASSUME NEW d \in D PROVE Taken(Inside(p)) \cap Taken(Inside(d)) = {}
  <2>1. Inside(d) \in SUBSET PlainPaths /\ Inside(p) \cap Inside(d) = {}
    BY InsideApart, InPlainPaths
  <2> QED
    BY <1>1, <2>1, TakenApart
<1>4. Taken(Inside(p)) \cap Given(A, D) = {}
  BY <1>2, <1>3 DEF Given
<1> QED
  BY <1>4

-----------------------------------------------------------------------------
(* Calls.                                                                  *)

\* A new call or a call that goes on: the stack with another top.
LEMMA PopEffect ==
  ASSUME NEW s \in Seq(CallRecord), s # <<>>,
         NEW t, t = SubSeq(s, 1, Len(s) - 1)
  PROVE  /\ t \in Seq(CallRecord) /\ Len(t) = Len(s) - 1
         /\ \A i \in DOMAIN t : i \in DOMAIN s /\ i < Len(s) /\ t[i] = s[i]
         /\ \A i \in DOMAIN s : i = Len(s) \/ i \in DOMAIN t
         /\ s[Len(s)] \in CallRecord /\ Len(s) \in DOMAIN s
<1>1. /\ Len(s) \in Nat \ {0} /\ DOMAIN s = 1 .. Len(s)
      /\ \A i \in 1 .. Len(s) : s[i] \in CallRecord
  BY EmptySeq, LenProperties
<1>2. /\ t \in Seq(CallRecord) /\ Len(t) = Len(s) - 1
      /\ \A i \in 1 .. Len(s) - 1 : t[i] = s[i]
  BY <1>1, SubSeqProperties
<1>3. DOMAIN t = 1 .. Len(t)
  BY <1>2, LenProperties
<1> QED
  BY <1>1, <1>2, <1>3

LEMMA TopEffect ==
  ASSUME NEW s \in Seq(CallRecord), s # <<>>, NEW call \in CallRecord,
         NEW t, t = Append(SubSeq(s, 1, Len(s) - 1), call)
  PROVE  /\ t \in Seq(CallRecord) /\ Len(t) = Len(s) /\ t # <<>>
         /\ DOMAIN t = DOMAIN s
         /\ \A i \in DOMAIN s : i = Len(s) \/ i < Len(s)
         /\ t[Len(s)] = call
         /\ \A i \in DOMAIN s : i < Len(s) => t[i] = s[i]
         /\ s[Len(s)] \in CallRecord /\ Len(s) \in DOMAIN s
<1> DEFINE u == SubSeq(s, 1, Len(s) - 1)
<1>1. /\ Len(s) \in Nat \ {0} /\ DOMAIN s = 1 .. Len(s)
      /\ \A i \in 1 .. Len(s) : s[i] \in CallRecord
  BY EmptySeq, LenProperties
<1>2. /\ u \in Seq(CallRecord) /\ Len(u) = Len(s) - 1
      /\ \A i \in DOMAIN u : u[i] = s[i]
  BY PopEffect
<1>3. DOMAIN u = 1 .. Len(u)
  BY <1>2, LenProperties
<1> HIDE DEF u
<1>4. /\ Append(u, call) \in Seq(CallRecord) /\ Len(Append(u, call)) = Len(u) + 1
      /\ \A i \in 1 .. Len(u) : Append(u, call)[i] = u[i]
      /\ Append(u, call)[Len(u) + 1] = call
  BY <1>2, AppendProperties
<1>5. t = Append(u, call)
  BY DEF u
<1>6. DOMAIN t = 1 .. Len(t)
  BY <1>4, <1>5, LenProperties
<1> QED
  BY <1>1, <1>2, <1>3, <1>4, <1>5, <1>6, EmptySeq

\* A call that goes on with what is left when the paths X have been shown, and with
\* all of that that matches unless the flag is lost.
Continues(A, s, lost, call, X) ==
  /\ s # <<>> /\ lost \in BOOLEAN /\ call \in CallRecord /\ Apart(call)
  /\ X \in SUBSET OfCall(s[Len(s)]) /\ X \subseteq Reachable[A] \ Directories
  /\ OfCall(call) \subseteq OfCall(s[Len(s)]) \ X
  /\ ~lost => OfCall(s[Len(s)]) \ Unmatched \subseteq OfCall(call) \cup X

LEMMA GoesOn ==
  ASSUME NEW A, NEW s, NEW seen, NEW listed, NEW lost, NEW D, NEW call, NEW X,
         WalkInv(A, s, seen, listed, lost, D), Continues(A, s, lost, call, X)
  PROVE  WalkInv(A, Append(SubSeq(s, 1, Len(s) - 1), call), seen \cup X, listed, lost, D)
<1> /\ s # <<>> /\ lost \in BOOLEAN /\ call \in CallRecord /\ Apart(call)
    /\ X \in SUBSET OfCall(s[Len(s)]) /\ X \subseteq Reachable[A] \ Directories
  BY DEF Continues
<1> /\ OfCall(call) \subseteq OfCall(s[Len(s)]) \ X
    /\ ~lost => OfCall(s[Len(s)]) \ Unmatched \subseteq OfCall(call) \cup X
  BY DEF Continues
<1> DEFINE t == Append(SubSeq(s, 1, Len(s) - 1), call)
           n == Len(s)
<1>0. t = Append(SubSeq(s, 1, Len(s) - 1), call) /\ n = Len(s)
  OBVIOUS
<1> HIDE DEF t, n
<1>1. s \in Seq(CallRecord)
  BY DEF WalkInv
<1>2. t \in Seq(CallRecord) /\ Len(t) = n /\ n \in DOMAIN s
  BY <1>0, <1>1, TopEffect
<1>3. DOMAIN t = DOMAIN s
  BY <1>0, <1>1, TopEffect
<1>4. \A i \in DOMAIN s : i = n \/ i < n
  BY <1>0, <1>1, TopEffect
<1>5. t[n] = call /\ \A i \in DOMAIN s : i < n => t[i] = s[i]
  BY <1>0, <1>1, TopEffect
<1>6. OfCall(t[n]) = OfCall(call)
  BY <1>5
<1>7. \A i \in DOMAIN s : i # n => OfCall(t[i]) = OfCall(s[i]) /\ OfCall(s[i]) \cap X = {}
  <2>1. \A i \in DOMAIN s : i # n => OfCall(s[i]) \cap OfCall(s[n]) = {}
    BY <1>2 DEF WalkInv
  <2> QED
    BY <1>0, <1>4, <1>5, <2>1
<1>8. /\ \A i \in DOMAIN s : OfCall(s[i]) \subseteq Given(A, D) \ (seen \cup D)
      /\ \A i, j \in DOMAIN s : i # j => OfCall(s[i]) \cap OfCall(s[j]) = {}
      /\ \A i \in DOMAIN s : Apart(s[i]) /\ (i < n => s[i].at = "entries")
  BY <1>0 DEF WalkInv
<1>9. \A i \in DOMAIN t : OfCall(t[i]) \subseteq OfCall(s[i]) /\ OfCall(t[i]) \cap X = {}
  BY <1>0, <1>3, <1>6, <1>7
<1>10. \A i \in DOMAIN t : OfCall(t[i]) \subseteq Given(A, D) \ (seen \cup X \cup D)
  BY <1>3, <1>8, <1>9
<1>11. \A i, j \in DOMAIN t : i # j => OfCall(t[i]) \cap OfCall(t[j]) = {}
  BY <1>3, <1>8, <1>9
<1>12. \A i \in DOMAIN t : Apart(t[i]) /\ (i < Len(t) => t[i].at = "entries")
  BY <1>2, <1>3, <1>4, <1>5, <1>8
<1>13. ASSUME ~lost, NEW q \in Given(A, D) \ Unmatched
       PROVE  q \in seen \cup X \cup D \/ \E i \in DOMAIN t : q \in OfCall(t[i])
  <2>1. q \in seen \cup D \/ \E i \in DOMAIN s : q \in OfCall(s[i])
    BY <1>13 DEF WalkInv
  <2>2. \A i \in DOMAIN s : q \in OfCall(s[i]) => q \in X \cup OfCall(t[i])
    BY <1>0, <1>6, <1>7, <1>13
  <2> QED
    BY <1>3, <2>1, <2>2
<1>14. X \subseteq Given(A, D)
  BY <1>0, <1>2, <1>8
<1>15. /\ seen \cup X \subseteq Given(A, D) \cap (Reachable[A] \ Directories)
       /\ D \subseteq Given(A, D) \cap Reachable[A] /\ D \subseteq listed
  BY <1>14 DEF WalkInv
<1>16. WalkInv(A, t, seen \cup X, listed, lost, D)
  BY <1>2, <1>10, <1>11, <1>12, <1>13, <1>15 DEF WalkInv
<1> QED
  BY <1>0, <1>16

\* A call that returns: what it had need not be seen.
LEMMA Returns ==
  ASSUME NEW A, NEW s, s # <<>>, NEW seen, NEW listed, NEW lost \in BOOLEAN, NEW D,
         WalkInv(A, s, seen, listed, lost, D),
         ~lost => OfCall(s[Len(s)]) \subseteq Unmatched
  PROVE  WalkInv(A, SubSeq(s, 1, Len(s) - 1), seen, listed, lost, D)
<1> DEFINE t == SubSeq(s, 1, Len(s) - 1)
<1>1. /\ s \in Seq(CallRecord)
      /\ t \in Seq(CallRecord) /\ Len(t) = Len(s) - 1
      /\ \A i \in DOMAIN t : i \in DOMAIN s /\ i < Len(s) /\ t[i] = s[i]
      /\ Len(s) \in DOMAIN s
      /\ \A i \in DOMAIN s : i = Len(s) \/ i \in DOMAIN t
  <2> s \in Seq(CallRecord)
    BY DEF WalkInv
  <2> QED
    BY PopEffect
<1>2. Len(s) \in Nat
  BY <1>1, LenProperties
<1> HIDE DEF t
<1>3. \A i \in DOMAIN t : OfCall(t[i]) = OfCall(s[i])
  BY <1>1
<1>4. ASSUME ~lost, NEW p \in Given(A, D) \ Unmatched
      PROVE  p \in seen \cup D \/ \E i \in DOMAIN t : p \in OfCall(t[i])
  <2>1. p \in seen \cup D \/ \E i \in DOMAIN s : p \in OfCall(s[i])
    BY <1>4 DEF WalkInv
  <2>2. p \notin OfCall(s[Len(s)])
    BY <1>4
  <2> QED
    BY <1>1, <1>3, <2>1, <2>2
<1>5. \A i \in DOMAIN t : OfCall(t[i]) \subseteq Given(A, D) \ (seen \cup D)
  BY <1>1, <1>3 DEF WalkInv
<1>6. \A i, j \in DOMAIN t : i # j => OfCall(t[i]) \cap OfCall(t[j]) = {}
  BY <1>1, <1>3 DEF WalkInv
<1>7. \A i \in DOMAIN t : Apart(t[i]) /\ (i < Len(t) => t[i].at = "entries")
  BY <1>1 DEF WalkInv
<1>8. /\ seen \subseteq Given(A, D) \cap (Reachable[A] \ Directories)
      /\ D \subseteq Given(A, D) \cap Reachable[A] /\ D \subseteq listed
  BY DEF WalkInv
<1>9. WalkInv(A, t, seen, listed, lost, D)
  BY <1>1, <1>4, <1>5, <1>6, <1>7, <1>8 DEF WalkInv
<1> QED
  BY <1>9 DEF t

\* A call that enters a directory p: its entries are given in the place of p.
LEMMA Enters ==
  ASSUME NEW A \in Lists \cup {{}}, NEW s, s # <<>>, NEW seen, NEW listed,
         NEW lost \in BOOLEAN, NEW D \in SUBSET Directories,
         WalkInv(A, s, seen, listed, lost, D),
         NEW p \in Directories, p \in Reachable[A], p \in OfCall(s[Len(s)]),
         NEW call \in CallRecord, Apart(call),
         OfCall(call) = (OfCall(s[Len(s)]) \ {p}) \cup Taken(Inside(p))
  PROVE  WalkInv(A, Append(SubSeq(s, 1, Len(s) - 1), call), seen, listed \cup {p}, lost,
                 D \cup {p})
<1> DEFINE t == Append(SubSeq(s, 1, Len(s) - 1), call)
           n == Len(s)
           E == D \cup {p}
<1>0. t = Append(SubSeq(s, 1, Len(s) - 1), call) /\ n = Len(s) /\ E = D \cup {p}
  OBVIOUS
<1> HIDE DEF t, n, E
<1>1. s \in Seq(CallRecord)
  BY DEF WalkInv
<1>2. t \in Seq(CallRecord) /\ Len(t) = n /\ n \in DOMAIN s
  BY <1>0, <1>1, TopEffect
<1>3. DOMAIN t = DOMAIN s
  BY <1>0, <1>1, TopEffect
<1>4. \A i \in DOMAIN s : i = n \/ i < n
  BY <1>0, <1>1, TopEffect
<1>5. t[n] = call /\ \A i \in DOMAIN s : i < n => t[i] = s[i]
  BY <1>0, <1>1, TopEffect
<1>6. OfCall(t[n]) = (OfCall(s[n]) \ {p}) \cup Taken(Inside(p)) /\ p \in OfCall(s[n])
  BY <1>0, <1>5
<1>7. /\ \A i \in DOMAIN s : OfCall(s[i]) \subseteq Given(A, D) \ (seen \cup D)
      /\ \A i, j \in DOMAIN s : i # j => OfCall(s[i]) \cap OfCall(s[j]) = {}
      /\ \A i \in DOMAIN s : Apart(s[i]) /\ (i < n => s[i].at = "entries")
      /\ seen \subseteq Given(A, D) \cap (Reachable[A] \ Directories)
      /\ D \subseteq Given(A, D) \cap Reachable[A] /\ D \subseteq listed
  BY <1>0 DEF WalkInv
<1>8. p \in Given(A, D) \ (seen \cup D)
  BY <1>2, <1>6, <1>7
<1>9. Given(A, E) = Given(A, D) \cup Taken(Inside(p))
  BY <1>0 DEF Given
<1>10. Taken(Inside(p)) \cap Given(A, D) = {} /\ p \notin Taken(Inside(p))
  BY <1>8, EntriesAreNew
<1>11. \A i \in DOMAIN s : i # n => OfCall(t[i]) = OfCall(s[i]) /\ p \notin OfCall(s[i])
  BY <1>2, <1>4, <1>5, <1>6, <1>7
<1>12. \A i \in DOMAIN t : OfCall(t[i]) \subseteq Given(A, E) \ (seen \cup E)
  <2>1. OfCall(t[n]) \subseteq Given(A, E) \ (seen \cup E)
    <3>1. OfCall(s[n]) \subseteq Given(A, D) \ (seen \cup D)
      BY <1>2, <1>7
    <3>2. OfCall(s[n]) \ {p} \subseteq Given(A, E) \ (seen \cup E)
      BY <1>0, <1>9, <3>1
    <3>3. Taken(Inside(p)) \subseteq Given(A, E) \ (seen \cup E)
      BY <1>0, <1>7, <1>9, <1>10
    <3> QED
      BY <1>6, <3>2, <3>3
  <2>2. ASSUME NEW i \in DOMAIN s, i # n PROVE OfCall(t[i]) \subseteq Given(A, E) \ (seen \cup E)
    BY <1>0, <1>7, <1>9, <1>11, <2>2
  <2> QED
    BY <1>3, <2>1, <2>2
<1>13. \A i, j \in DOMAIN t : i # j => OfCall(t[i]) \cap OfCall(t[j]) = {}
  <2>1. ASSUME NEW i \in DOMAIN s, i # n PROVE OfCall(t[i]) \cap OfCall(t[n]) = {}
    <3>1. OfCall(t[i]) = OfCall(s[i]) /\ OfCall(s[i]) \cap OfCall(s[n]) = {}
      BY <1>2, <1>7, <1>11, <2>1
    <3>2. OfCall(s[i]) \cap Taken(Inside(p)) = {}
      BY <1>7, <1>10
    <3> QED
      BY <1>6, <3>1, <3>2
  <2>2. ASSUME NEW i \in DOMAIN s, NEW j \in DOMAIN s, i # n, j # n, i # j
        PROVE  OfCall(t[i]) \cap OfCall(t[j]) = {}
    BY <1>7, <1>11, <2>2
  <2> QED
    BY <1>3, <2>1, <2>2
<1>14. \A i \in DOMAIN t : Apart(t[i]) /\ (i < Len(t) => t[i].at = "entries")
  BY <1>2, <1>3, <1>4, <1>5, <1>7
<1>15. ASSUME ~lost, NEW q \in Given(A, E) \ Unmatched
       PROVE  q \in seen \cup E \/ \E i \in DOMAIN t : q \in OfCall(t[i])
  <2>1. CASE q \in Taken(Inside(p))
    BY <1>2, <1>3, <1>6, <2>1
  <2>2. CASE q \in Given(A, D)
    <3>1. q \in seen \cup D \/ \E i \in DOMAIN s : q \in OfCall(s[i])
      BY <1>15, <2>2 DEF WalkInv
    <3>2. \A i \in DOMAIN s : q \in OfCall(s[i]) => q = p \/ q \in OfCall(t[i])
      BY <1>6, <1>11
    <3> QED
      BY <1>0, <1>3, <3>1, <3>2
  <2> QED
    BY <1>9, <1>15, <2>1, <2>2
<1>16. /\ seen \subseteq Given(A, E) \cap (Reachable[A] \ Directories)
       /\ E \subseteq Given(A, E) \cap Reachable[A] /\ E \subseteq listed \cup {p}
  BY <1>0, <1>7, <1>8, <1>9
<1>17. WalkInv(A, t, seen, listed \cup {p}, lost, E)
  BY <1>2, <1>12, <1>13, <1>14, <1>15, <1>16 DEF WalkInv
<1> QED
  BY <1>0, <1>17

\* A call that hands part of what it had to a new call.
LEMMA Hands ==
  ASSUME NEW A, NEW s, s # <<>>, NEW seen, NEW listed, NEW lost \in BOOLEAN, NEW D,
         WalkInv(A, s, seen, listed, lost, D),
         NEW rest \in CallRecord, rest.at = "entries", Apart(rest),
         NEW call \in CallRecord, Apart(call),
         OfCall(rest) \cup OfCall(call) = OfCall(s[Len(s)]),
         OfCall(rest) \cap OfCall(call) = {}
  PROVE  WalkInv(A, Append(Append(SubSeq(s, 1, Len(s) - 1), rest), call),
                 seen, listed, lost, D)
<1> DEFINE u == Append(SubSeq(s, 1, Len(s) - 1), rest)
           t == Append(u, call)
           n == Len(s)
<1>0. /\ u = Append(SubSeq(s, 1, Len(s) - 1), rest) /\ n = Len(s)
      /\ t = Append(u, call)
  OBVIOUS
<1> HIDE DEF t, u, n
<1>1. s \in Seq(CallRecord)
  BY DEF WalkInv
<1>2. u \in Seq(CallRecord) /\ Len(u) = n /\ n \in DOMAIN s
  BY <1>0, <1>1, TopEffect
<1>3. \A i \in DOMAIN s : i = n \/ i < n
  BY <1>0, <1>1, TopEffect
<1>4. u[n] = rest /\ \A i \in DOMAIN s : i < n => u[i] = s[i]
  BY <1>0, <1>1, TopEffect
<1>5. n \in Nat /\ DOMAIN s = 1 .. n
  BY <1>0, <1>1, LenProperties
<1>6. /\ t \in Seq(CallRecord) /\ Len(t) = n + 1
      /\ t[n + 1] = call /\ \A i \in 1 .. n : t[i] = u[i]
  BY <1>0, <1>2, AppendProperties
<1>7. DOMAIN t = 1 .. n + 1
  BY <1>6, LenProperties
<1>8. n \in 1 .. n /\ \A i \in 1 .. n + 1 : i = n + 1 \/ i \in 1 .. n
  BY <1>2, <1>5
<1>9. t[n] = rest /\ \A i \in 1 .. n : i # n => t[i] = s[i]
  BY <1>3, <1>4, <1>5, <1>6, <1>8
<1>10. /\ OfCall(t[n + 1]) = OfCall(call) /\ OfCall(t[n]) = OfCall(rest)
       /\ \A i \in 1 .. n : i # n => OfCall(t[i]) = OfCall(s[i])
  BY <1>6, <1>9
<1>11. /\ \A i \in 1 .. n : OfCall(s[i]) \subseteq Given(A, D) \ (seen \cup D)
       /\ \A i, j \in 1 .. n : i # j => OfCall(s[i]) \cap OfCall(s[j]) = {}
       /\ \A i \in 1 .. n : Apart(s[i]) /\ (i < n => s[i].at = "entries")
  BY <1>0, <1>5 DEF WalkInv
<1>12. OfCall(rest) \cup OfCall(call) = OfCall(s[n])
  BY <1>0
<1>13. \A i \in 1 .. n : OfCall(t[i]) \subseteq OfCall(s[i])
  BY <1>10, <1>12
<1>14. \A i \in DOMAIN t : OfCall(t[i]) \subseteq Given(A, D) \ (seen \cup D)
  <2>1. OfCall(t[n + 1]) \subseteq Given(A, D) \ (seen \cup D)
    BY <1>8, <1>10, <1>11, <1>12
  <2> QED
    BY <1>7, <1>8, <1>11, <1>13, <2>1
<1>15. \A i, j \in DOMAIN t : i # j => OfCall(t[i]) \cap OfCall(t[j]) = {}
  <2>1. \A i \in 1 .. n : OfCall(t[i]) \cap OfCall(t[n + 1]) = {}
    <3>1. OfCall(t[n]) \cap OfCall(t[n + 1]) = {}
      BY <1>10
    <3>2. ASSUME NEW i \in 1 .. n, i # n PROVE OfCall(t[i]) \cap OfCall(t[n + 1]) = {}
      <4>1. OfCall(s[i]) \cap OfCall(s[n]) = {}
        BY <1>8, <1>11, <3>2
      <4> QED
        BY <1>10, <1>12, <3>2, <4>1
    <3> QED
      BY <3>1, <3>2
  <2>2. \A i, j \in 1 .. n : i # j => OfCall(t[i]) \cap OfCall(t[j]) = {}
    BY <1>11, <1>13
  <2>3. ASSUME NEW i \in 1 .. n + 1, NEW j \in 1 .. n + 1, i # j
        PROVE  OfCall(t[i]) \cap OfCall(t[j]) = {}
    <3>1. CASE i = n + 1
      BY <1>8, <2>1, <2>3, <3>1
    <3>2. CASE j = n + 1
      BY <1>8, <2>1, <2>3, <3>2
    <3>3. CASE i \in 1 .. n /\ j \in 1 .. n
      BY <2>2, <2>3, <3>3
    <3> QED
      BY <1>8, <3>1, <3>2, <3>3
  <2> QED
    BY <1>7, <2>3
<1>16. \A i \in DOMAIN t : Apart(t[i]) /\ (i < Len(t) => t[i].at = "entries")
  <2>1. ASSUME NEW i \in 1 .. n PROVE Apart(t[i]) /\ t[i].at = "entries"
    <3>1. CASE i = n
      BY <1>9, <3>1
    <3>2. CASE i # n
      BY <1>3, <1>5, <1>9, <1>11, <3>2
    <3> QED
      BY <3>1, <3>2
  <2>2. Apart(t[n + 1])
    BY <1>6
  <2>3. ~(n + 1 < n + 1)
    BY <1>5
  <2> QED
    BY <1>6, <1>7, <1>8, <2>1, <2>2, <2>3
<1>17. ASSUME ~lost, NEW q \in Given(A, D) \ Unmatched
       PROVE  q \in seen \cup D \/ \E i \in DOMAIN t : q \in OfCall(t[i])
  <2>1. q \in seen \cup D \/ \E i \in 1 .. n : q \in OfCall(s[i])
    BY <1>5, <1>17 DEF WalkInv
  <2>2. \A i \in 1 .. n : q \in OfCall(s[i]) => q \in OfCall(t[i]) \/ q \in OfCall(t[n + 1])
    BY <1>10, <1>12
  <2>3. n + 1 \in 1 .. n + 1 /\ 1 .. n \subseteq 1 .. n + 1
    BY <1>5
  <2> QED
    BY <1>7, <2>1, <2>2, <2>3
<1>18. /\ seen \subseteq Given(A, D) \cap (Reachable[A] \ Directories)
       /\ D \subseteq Given(A, D) \cap Reachable[A] /\ D \subseteq listed
  BY DEF WalkInv
<1>19. WalkInv(A, t, seen, listed, lost, D)
  BY <1>6, <1>14, <1>15, <1>16, <1>17, <1>18 DEF WalkInv
<1> QED
  BY <1>0, <1>19

\* A flag that is lost asks for less.
LEMMA LostAsksLess ==
  ASSUME NEW A, NEW s, NEW seen, NEW listed, NEW lost, NEW lostNow, lost => lostNow, NEW D,
         WalkInv(A, s, seen, listed, lost, D)
  PROVE  WalkInv(A, s, seen, listed, lostNow, D)
BY DEF WalkInv

-----------------------------------------------------------------------------
(* Walks.                                                                  *)

\* A step of the walker w keeps the invariant if it does so for w, and takes the flag
\* from no other walker that is not disturbed by it.
WalksOn(w, A, t, seen, listed, D) ==
  /\ A \in Lists \cup {{}} /\ seen \in SUBSET Paths
  /\ listed \in SUBSET Directories /\ D \in SUBSET Directories
  /\ asked' = [asked EXCEPT ![w] = A] /\ stack' = [stack EXCEPT ![w] = t]
  /\ visited' = [visited EXCEPT ![w] = seen] /\ m_DirList' = [m_DirList EXCEPT ![w] = listed]
  /\ ~twice' /\ m_Busy' \in BOOLEAN /\ disturbed' \in [Walkers -> BOOLEAN]
  /\ \A v \in Walkers \ {w} :
       /\ disturbed[v] => disturbed'[v]
       /\ Begun(v) /\ ~disturbed'[v] => m_Busy' \/ ~m_Busy
  /\ WalkInv(A, t, seen, listed, disturbed'[w], D)
  /\ t # <<>> /\ t[1].at # "enter" /\ ~disturbed'[w] => m_Busy'

LEMMA OneWalks ==
  ASSUME FilesInv, NEW w \in Walkers, NEW A, NEW t, NEW seen, NEW listed, NEW D,
         WalksOn(w, A, t, seen, listed, D)
  PROVE  FilesInv'
<1> USE DEF WalksOn
<1>1. t \in Seq(CallRecord)
  BY DEF WalkInv
<1>2. /\ stack' \in [Walkers -> Seq(CallRecord)]
      /\ visited' \in [Walkers -> SUBSET Paths]
      /\ m_DirList' \in [Walkers -> SUBSET Directories]
      /\ asked' \in [Walkers -> Lists \cup {{}}]
  BY <1>1 DEF FilesInv
<1>3. stack'[w] = t /\ visited'[w] = seen /\ m_DirList'[w] = listed /\ asked'[w] = A
  BY DEF FilesInv
<1>4. \A v \in Walkers \ {w} : /\ stack'[v] = stack[v] /\ visited'[v] = visited[v]
                               /\ m_DirList'[v] = m_DirList[v] /\ asked'[v] = asked[v]
  BY DEF FilesInv
<1>5. ASSUME NEW v \in Walkers
      PROVE  \E E \in SUBSET Directories :
               WalkInv(asked'[v], stack'[v], visited'[v], m_DirList'[v], disturbed'[v], E)
  <2>1. CASE v = w
    BY <1>3, <2>1
  <2>2. CASE v # w
    <3>1. PICK E \in SUBSET Directories :
            WalkInv(asked[v], stack[v], visited[v], m_DirList[v], disturbed[v], E)
      BY DEF FilesInv
    <3>2. WalkInv(asked[v], stack[v], visited[v], m_DirList[v], disturbed'[v], E)
      BY <2>2, <3>1, LostAsksLess
    <3> QED
      BY <1>4, <2>2, <3>2
  <2> QED
    BY <2>1, <2>2
<1>6. ASSUME NEW v \in Walkers, stack'[v] # <<>>, stack'[v][1].at # "enter", ~disturbed'[v]
      PROVE  m_Busy'
  <2>1. CASE v = w
    BY <1>3, <1>6, <2>1
  <2>2. CASE v # w
    BY <1>4, <1>6, <2>2 DEF FilesInv, Begun, Walking
  <2> QED
    BY <2>1, <2>2
<1> QED
  BY <1>2, <1>5, <1>6 DEF FilesInv, Begun, Walking

\* What a walker is in the middle of.
LEMMA TopIsRecord ==
  ASSUME FilesInv, NEW w \in Walkers, Walking(w)
  PROVE  /\ stack[w] # <<>> /\ stack[w] \in Seq(CallRecord) /\ Top(w) \in CallRecord
         /\ Len(stack[w]) \in DOMAIN stack[w] /\ Apart(Top(w))
         /\ disturbed[w] \in BOOLEAN
<1>1. /\ stack[w] # <<>> /\ stack[w] \in Seq(CallRecord) /\ Top(w) \in CallRecord
      /\ Len(stack[w]) \in DOMAIN stack[w] /\ disturbed[w] \in BOOLEAN
  BY EmptySeq, LenProperties DEF FilesInv, Walking, Top
<1>2. PICK D : WalkInv(asked[w], stack[w], visited[w], m_DirList[w], disturbed[w], D)
  BY DEF FilesInv
<1>3. Apart(Top(w))
  BY <1>1, <1>2 DEF WalkInv, Top
<1> QED
  BY <1>1, <1>3

\* What a walker has.
LEMMA WalkerTyped ==
  ASSUME FilesInv, NEW w \in Walkers
  PROVE  /\ visited[w] \in SUBSET Paths /\ m_DirList[w] \in SUBSET Directories
         /\ asked[w] \in Lists \cup {{}}
         /\ visited = [visited EXCEPT ![w] = visited[w]]
         /\ m_DirList = [m_DirList EXCEPT ![w] = m_DirList[w]]
         /\ asked = [asked EXCEPT ![w] = asked[w]]
BY DEF FilesInv

\* A walk in the middle of a call has the flag, or has been disturbed.
LEMMA MiddleHasFlag ==
  ASSUME FilesInv, NEW w \in Walkers, Walking(w), Top(w).at # "enter"
  PROVE  Begun(w) /\ (~disturbed[w] => m_Busy)
<1>1. PICK D : WalkInv(asked[w], stack[w], visited[w], m_DirList[w], disturbed[w], D)
  BY DEF FilesInv
<1>2. /\ Len(stack[w]) \in Nat \ {0} /\ DOMAIN stack[w] = 1 .. Len(stack[w])
  BY EmptySeq, LenProperties DEF FilesInv, Walking
<1>3. 1 < Len(stack[w]) => stack[w][1].at = "entries"
  BY <1>1, <1>2 DEF WalkInv
<1>4. Begun(w)
  BY <1>2, <1>3 DEF Begun, Walking, Top
<1> QED
  BY <1>4 DEF FilesInv

\* A call that goes on within one walk, having shown the paths X, with the same flag
\* or a flag that is set.
LEMMA TopGoesOn ==
  ASSUME FilesInv, NEW w \in Walkers, Walking(w), NEW call \in CallRecord, GoTo(w, call),
         NEW X \in SUBSET OfCall(Top(w)), X \subseteq Reachable[asked[w]] \ Directories,
         visited' = [visited EXCEPT ![w] = visited[w] \cup X], ~twice',
         UNCHANGED <<m_DirList, asked, disturbed>>, m_Busy' \in {m_Busy, TRUE},
         ~disturbed[w] => m_Busy', Apart(call),
         OfCall(call) \subseteq OfCall(Top(w)) \ X,
         ~disturbed[w] => OfCall(Top(w)) \ Unmatched \subseteq OfCall(call) \cup X
  PROVE  FilesInv'
<1> DEFINE t == Append(SubSeq(stack[w], 1, Len(stack[w]) - 1), call)
<1>1. PICK D \in SUBSET Directories :
        WalkInv(asked[w], stack[w], visited[w], m_DirList[w], disturbed[w], D)
  BY DEF FilesInv
<1>2. PICK seen : seen = visited[w] \cup X
  OBVIOUS
<1>3. WalkInv(asked[w], t, seen, m_DirList[w], disturbed'[w], D)
  <2>1. stack[w] # <<>> /\ disturbed[w] \in BOOLEAN
    BY TopIsRecord
  <2>2. /\ X \in SUBSET OfCall(stack[w][Len(stack[w])])
        /\ OfCall(call) \subseteq OfCall(stack[w][Len(stack[w])]) \ X
        /\ ~disturbed[w] =>
             OfCall(stack[w][Len(stack[w])]) \ Unmatched \subseteq OfCall(call) \cup X
    BY DEF Top
  <2>3. X \subseteq Reachable[asked[w]] \ Directories /\ Apart(call)
    OBVIOUS
  <2>4. WalkInv(asked[w], t, visited[w] \cup X, m_DirList[w], disturbed[w], D)
    <3>1. Continues(asked[w], stack[w], disturbed[w], call, X)
      BY <2>1, <2>2, <2>3 DEF Continues
    <3> QED
      BY <1>1, <3>1, GoesOn
  <2>5. disturbed'[w] = disturbed[w]
    OBVIOUS
  <2> QED
    BY <1>2, <2>4, <2>5
<1>4. stack' = [stack EXCEPT ![w] = t]
  BY DEF GoTo, Under
<1> HIDE DEF t
<1>5. /\ m_DirList' = [m_DirList EXCEPT ![w] = m_DirList[w]]
      /\ asked' = [asked EXCEPT ![w] = asked[w]]
      /\ m_Busy' \in BOOLEAN /\ disturbed' \in [Walkers -> BOOLEAN]
  BY WalkerTyped DEF FilesInv
<1>6. \A v \in Walkers \ {w} : /\ disturbed[v] => disturbed'[v]
                               /\ Begun(v) /\ ~disturbed'[v] => m_Busy' \/ ~m_Busy
  OBVIOUS
<1>7. /\ m_DirList[w] \in SUBSET Directories /\ asked[w] \in Lists \cup {{}}
      /\ visited[w] \in SUBSET Paths
  BY WalkerTyped
<1>8. seen \in SUBSET Paths
  BY <1>2, <1>7, ReachableClosed
<1>9. visited' = [visited EXCEPT ![w] = seen]
  BY <1>2
<1>10. ~disturbed'[w] => m_Busy'
  OBVIOUS
<1> QED
  <2>1. WalksOn(w, asked[w], t, seen, m_DirList[w], D)
    BY <1>3, <1>4, <1>5, <1>6, <1>7, <1>8, <1>9, <1>10 DEF WalksOn
  <2> QED
    BY <2>1, OneWalks

\* A call that goes on with what it had, or loses only what was excluded.
LEMMA TopStays ==
  ASSUME FilesInv, NEW w \in Walkers, Walking(w), NEW call \in CallRecord, GoTo(w, call),
         UNCHANGED <<m_DirList, walkVars, disturbed>>, m_Busy' \in {m_Busy, TRUE},
         ~disturbed[w] => m_Busy', Apart(call), OfCall(call) \subseteq OfCall(Top(w)),
         ~disturbed[w] => OfCall(Top(w)) \ Unmatched \subseteq OfCall(call)
  PROVE  FilesInv'
<1>1. PICK X : X = {}
  OBVIOUS
<1>2. /\ X \in SUBSET OfCall(Top(w)) /\ X \subseteq Reachable[asked[w]] \ Directories
      /\ OfCall(call) \subseteq OfCall(Top(w)) \ X
      /\ ~disturbed[w] => OfCall(Top(w)) \ Unmatched \subseteq OfCall(call) \cup X
  BY <1>1
<1>3. /\ visited' = [visited EXCEPT ![w] = visited[w] \cup X] /\ ~twice'
      /\ UNCHANGED <<m_DirList, asked, disturbed>>
  BY <1>1, WalkerTyped DEF FilesInv, walkVars
<1> QED
  BY <1>2, <1>3, TopGoesOn

\* A call that returns within one walk.
LEMMA TopLeaves ==
  ASSUME FilesInv, NEW w \in Walkers, Walking(w), Return(w), Top(w).at # "enter",
         UNCHANGED <<m_DirList, walkVars>>,
         UNCHANGED <<m_Busy, disturbed>> \/ ClearBusy,
         ~disturbed'[w] => OfCall(Top(w)) \subseteq Unmatched
  PROVE  FilesInv'
<1> DEFINE t == SubSeq(stack[w], 1, Len(stack[w]) - 1)
<1>1. PICK D \in SUBSET Directories :
        WalkInv(asked[w], stack[w], visited[w], m_DirList[w], disturbed[w], D)
  BY DEF FilesInv
<1>2. /\ disturbed' \in [Walkers -> BOOLEAN] /\ m_Busy' \in BOOLEAN
      /\ \A v \in Walkers : /\ disturbed[v] => disturbed'[v]
                            /\ Begun(v) /\ ~disturbed'[v] => m_Busy' = m_Busy
  BY DEF FilesInv, ClearBusy
<1>3. WalkInv(asked[w], t, visited[w], m_DirList[w], disturbed'[w], D)
  <2>1. /\ disturbed'[w] \in BOOLEAN /\ stack[w] # <<>>
        /\ disturbed[w] => disturbed'[w]
    BY <1>2, TopIsRecord
  <2>2. ~disturbed'[w] => OfCall(stack[w][Len(stack[w])]) \subseteq Unmatched
    BY DEF Top
  <2>3. WalkInv(asked[w], stack[w], visited[w], m_DirList[w], disturbed'[w], D)
    BY <1>1, <2>1, LostAsksLess
  <2> QED
    BY <2>1, <2>2, <2>3, Returns
<1>4. stack' = [stack EXCEPT ![w] = t]
  BY DEF Return, Under
<1> HIDE DEF t
<1>5. /\ m_DirList' = [m_DirList EXCEPT ![w] = m_DirList[w]]
      /\ asked' = [asked EXCEPT ![w] = asked[w]]
      /\ visited' = [visited EXCEPT ![w] = visited[w]] /\ ~twice'
      /\ visited[w] \in SUBSET Paths
      /\ m_DirList[w] \in SUBSET Directories /\ asked[w] \in Lists \cup {{}}
  BY WalkerTyped DEF FilesInv, walkVars
<1>6. ~disturbed'[w] => m_Busy'
  BY <1>2, MiddleHasFlag
<1>7. \A v \in Walkers \ {w} : /\ disturbed[v] => disturbed'[v]
                               /\ Begun(v) /\ ~disturbed'[v] => m_Busy' \/ ~m_Busy
  BY <1>2
<1> QED
  <2>1. WalksOn(w, asked[w], t, visited[w], m_DirList[w], D)
    BY <1>2, <1>3, <1>4, <1>5, <1>6, <1>7 DEF WalksOn
  <2> QED
    BY <2>1, OneWalks

\* A path that is acted on can be reached, and has been neither seen nor entered.
LEMMA ActedOnIsNew ==
  ASSUME FilesInv, NEW w \in Walkers, At(w, "act"), NEW D \in SUBSET Directories,
         WalkInv(asked[w], stack[w], visited[w], m_DirList[w], disturbed[w], D)
  PROVE  /\ Top(w).path \in Reachable[asked[w]] /\ Top(w).path \notin visited[w]
         /\ Top(w).path \in OfCall(Top(w))
         /\ Taken(Top(w).list) = OfCall(Top(w)) \ {Top(w).path}
<1> DEFINE n == Len(stack[w])
<1>1. n \in DOMAIN stack[w] /\ stack[w][n].at = "act" /\ Apart(Top(w))
  BY TopIsRecord DEF At, Top
<1>2. OfCall(stack[w][n]) \subseteq Given(asked[w], D) \ (visited[w] \cup D)
  BY <1>1 DEF WalkInv
<1>3. Taken({}) = {}
  BY DEF Taken
<1>4. /\ stack[w][n].path \in OfCall(stack[w][n]) /\ stack[w][n].path \notin Unmatched
      /\ Taken(stack[w][n].list) = OfCall(stack[w][n]) \ {stack[w][n].path}
  BY <1>1, <1>3 DEF OfCall, Apart, Top
<1>5. Given(asked[w], D) \ Unmatched \subseteq Reachable[asked[w]]
  BY GivenReachable, WalkerTyped DEF WalkInv
<1> QED
  BY <1>2, <1>4, <1>5 DEF Top

\* What a call has to take up, by where it is.
LEMMA CallForms ==
  ASSUME NEW call \in CallRecord, Apart(call)
  PROVE  /\ call.at \in {"enter", "list"} => OfCall(call) = Taken(call.list)
         /\ call.at = "entries" => OfCall(call) = Taken(call.list) \cup Taken(call.left)
         /\ call.at = "act" => OfCall(call) = Taken(call.list) \cup {call.path}
         /\ Taken({}) = {}
<1>1. Taken({}) = {}
  BY DEF Taken
<1> QED
  BY <1>1 DEF OfCall, Apart

LEMMA FilesInitInv == FilesInit => FilesInv
<1> SUFFICES ASSUME FilesInit PROVE FilesInv
  OBVIOUS
<1>1. /\ m_Busy \in BOOLEAN /\ ~twice
      /\ stack \in [Walkers -> Seq(CallRecord)] /\ \A w \in Walkers : stack[w] = <<>>
      /\ visited \in [Walkers -> SUBSET Paths]
      /\ m_DirList \in [Walkers -> SUBSET Directories]
      /\ asked \in [Walkers -> Lists \cup {{}}]
  BY EmptySeq DEF FilesInit
<1>2. disturbed \in [Walkers -> BOOLEAN] /\ \A w \in Walkers : disturbed[w]
  BY DEF FilesInit
<1>3. ASSUME NEW w \in Walkers
      PROVE  WalkInv(asked[w], stack[w], visited[w], m_DirList[w], disturbed[w], {})
  <2>1. stack[w] = <<>> /\ visited[w] = {} /\ disturbed[w]
    BY <1>1, <1>2 DEF FilesInit
  <2>2. stack[w] \in Seq(CallRecord) /\ DOMAIN stack[w] = {}
    BY <2>1, EmptySeq
  <2> QED
    BY <2>1, <2>2 DEF WalkInv
<1> QED
  BY <1>1, <1>2, <1>3 DEF FilesInv, Begun, Walking

\* A walk begins: its list is all it has been given.
LEMMA Begins ==
  ASSUME FilesInv, NEW w \in Walkers, NEW list \in Lists, FileActions(w, list)
  PROVE  FilesInv'
<1> DEFINE t == <<Call(list)>>
<1>1. /\ Call(list) \in CallRecord /\ Call(list).at = "enter" /\ Apart(Call(list))
      /\ OfCall(Call(list)) = Taken(list)
  <2>1. list \in SUBSET PlainPaths
    BY InPlainPaths
  <2>2. Call(list) \in CallRecord
    BY <2>1 DEF Call, CallRecord
  <2>3. Call(list).at = "enter" /\ Call(list).list = list /\ Apart(Call(list))
    BY DEF Call, Apart
  <2> QED
    BY <2>2, <2>3, CallForms
<1>2. /\ t \in Seq(CallRecord) /\ Len(t) = 1 /\ t[1] = Call(list)
      /\ DOMAIN t = {1}
  BY <1>1
<1> HIDE DEF t
<1>3. PICK none : none = {}
  OBVIOUS
<1>4. Given(list, none) = Taken(list)
  BY <1>3 DEF Given
<1>5. WalkInv(list, t, none, m_DirList[w], disturbed'[w], none)
  BY <1>1, <1>2, <1>3, <1>4 DEF WalkInv
<1>6. /\ stack' = [stack EXCEPT ![w] = t] /\ visited' = [visited EXCEPT ![w] = none]
      /\ asked' = [asked EXCEPT ![w] = list]
  BY <1>3 DEF FileActions, t
<1>7. /\ ~twice' /\ m_Busy' \in BOOLEAN /\ disturbed' \in [Walkers -> BOOLEAN]
      /\ m_DirList' = [m_DirList EXCEPT ![w] = m_DirList[w]]
      /\ m_DirList[w] \in SUBSET Directories
  BY WalkerTyped DEF FileActions, FilesInv
<1>8. \A v \in Walkers \ {w} : /\ disturbed[v] => disturbed'[v]
                               /\ Begun(v) /\ ~disturbed'[v] => m_Busy' \/ ~m_Busy
  BY DEF FileActions, FilesInv
<1>9. t[1].at = "enter" /\ none \in SUBSET Paths /\ none \in SUBSET Directories
      /\ list \in Lists \cup {{}}
  BY <1>1, <1>2, <1>3
<1> QED
  <2>1. WalksOn(w, list, t, none, m_DirList[w], none)
    BY <1>5, <1>6, <1>7, <1>8, <1>9 DEF WalksOn
  <2> QED
    BY <2>1, OneWalks

\* A path of the list is taken up or left out.
LEMMA TakesPath ==
  ASSUME FilesInv, NEW w \in Walkers, NextPath(w)
  PROVE  FilesInv'
<1>1. /\ Walking(w) /\ Top(w) \in CallRecord /\ Top(w).at = "list" /\ Apart(Top(w))
      /\ m_Busy /\ UNCHANGED <<m_Busy, m_DirList, walkVars, disturbed>>
  BY TopIsRecord DEF NextPath, At
<1>2. PICK p \in Top(w).list :
        LET rest == [Top(w) EXCEPT !.list = @ \ {p}] IN
          IF Skipped(p) \/ Calculated(p) \in Unmatched
            THEN GoTo(w, rest)
            ELSE GoTo(w, [rest EXCEPT !.at = "act", !.path = Calculated(p)])
  BY DEF NextPath
<1>3. PICK L : L = Top(w).list
  OBVIOUS
<1>4. /\ L \in SUBSET PlainPaths /\ p \in L
      /\ Taken(L) = Taken(L \ {p}) \cup Taken({p}) /\ Taken(L \ {p}) \cap Taken({p}) = {}
      /\ Taken({p}) = IF Skipped(p) THEN {} ELSE {Calculated(p)}
  <2>1. L \in SUBSET PlainPaths /\ p \in L
    BY <1>1, <1>3 DEF CallRecord
  <2> QED
    BY <2>1, TakenWithout
<1>5. OfCall(Top(w)) = Taken(L)
  BY <1>1, <1>3, CallForms
<1>6. CASE Skipped(p) \/ Calculated(p) \in Unmatched
  <2>1. PICK call : call = [Top(w) EXCEPT !.list = Top(w).list \ {p}]
    OBVIOUS
  <2>2. call \in CallRecord /\ call.at = "list" /\ call.list = L \ {p} /\ Apart(call)
    BY <1>1, <1>3, <1>4, <2>1 DEF CallRecord, Apart
  <2>3. OfCall(call) = Taken(L \ {p})
    BY <2>2, CallForms
  <2>4. GoTo(w, call)
    BY <1>2, <1>6, <2>1
  <2>5. /\ OfCall(call) \subseteq OfCall(Top(w))
        /\ OfCall(Top(w)) \ Unmatched \subseteq OfCall(call)
    BY <1>4, <1>5, <1>6, <2>3
  <2> QED
    BY <1>1, <2>2, <2>4, <2>5, TopStays
<1>7. CASE ~(Skipped(p) \/ Calculated(p) \in Unmatched)
  <2>1. PICK call : call = [Top(w) EXCEPT !.list = Top(w).list \ {p}, !.at = "act",
                                          !.path = Calculated(p)]
    OBVIOUS
  <2>2. Calculated(p) \in Paths
    BY <1>4, <1>7, TakenArePaths
  <2>3. /\ call \in CallRecord /\ call.at = "act" /\ call.list = L \ {p}
        /\ call.path = Calculated(p) /\ call.left = Top(w).left
    BY <1>1, <1>3, <1>4, <2>1, <2>2 DEF CallRecord
  <2>4. Apart(call)
    BY <1>1, <1>4, <1>7, <2>3 DEF Apart
  <2>5. OfCall(call) = Taken(L \ {p}) \cup {Calculated(p)}
    BY <2>3, <2>4, CallForms
  <2>6. GoTo(w, call)
    <3>1. call = [[Top(w) EXCEPT !.list = @ \ {p}] EXCEPT !.at = "act", !.path = Calculated(p)]
      BY <1>1, <2>1 DEF CallRecord
    <3> QED
      BY <1>2, <1>7, <3>1
  <2>7. OfCall(call) = OfCall(Top(w))
    BY <1>4, <1>5, <1>7, <2>5
  <2> QED
    BY <1>1, <2>3, <2>4, <2>6, <2>7, TopStays
<1> QED
  BY <1>6, <1>7

\* The record a call becomes when its loop over the list goes on.
BackCall(w) == [Top(w) EXCEPT !.at = "list", !.path = NoPath, !.left = {}]

LEMMA BackForms ==
  ASSUME FilesInv, NEW w \in Walkers, Walking(w)
  PROVE  /\ BackCall(w) \in CallRecord /\ Apart(BackCall(w))
         /\ OfCall(BackCall(w)) = Taken(Top(w).list)
<1>1. /\ BackCall(w) \in CallRecord /\ BackCall(w).at = "list"
      /\ BackCall(w).list = Top(w).list /\ BackCall(w).left = {}
  BY TopIsRecord DEF BackCall, CallRecord
<1>2. Apart(BackCall(w))
  BY <1>1 DEF Apart
<1> QED
  BY <1>1, <1>2, CallForms

\* A path that is no directory goes to the callback.
LEMMA ShowsFile ==
  ASSUME FilesInv, NEW w \in Walkers, ActOnFile(w)
  PROVE  FilesInv'
<1>1. At(w, "act") /\ Walking(w)
  BY DEF ActOnFile, At
<1>2. PICK X : X = {Top(w).path}
  OBVIOUS
<1>3. PICK D \in SUBSET Directories :
        WalkInv(asked[w], stack[w], visited[w], m_DirList[w], disturbed[w], D)
  BY DEF FilesInv
<1>4. /\ Top(w).path \in Reachable[asked[w]] /\ Top(w).path \notin visited[w]
      /\ Top(w).path \in OfCall(Top(w))
      /\ Taken(Top(w).list) = OfCall(Top(w)) \ {Top(w).path}
  BY <1>1, <1>3, ActedOnIsNew
<1>5. PICK call : call = BackCall(w)
  OBVIOUS
<1>6. call \in CallRecord /\ Apart(call) /\ OfCall(call) = Taken(Top(w).list) /\ GoTo(w, call)
  BY <1>1, <1>5, BackForms DEF ActOnFile, BackToList, BackCall
<1>7. /\ X \in SUBSET OfCall(Top(w)) /\ X \subseteq Reachable[asked[w]] \ Directories
      /\ visited' = [visited EXCEPT ![w] = visited[w] \cup X] /\ ~twice'
      /\ UNCHANGED <<m_DirList, asked, disturbed>> /\ m_Busy' = m_Busy /\ m_Busy
  BY <1>2, <1>4 DEF ActOnFile, FilesInv
<1>8. /\ OfCall(call) \subseteq OfCall(Top(w)) \ X
      /\ OfCall(Top(w)) \ Unmatched \subseteq OfCall(call) \cup X
  BY <1>2, <1>4, <1>6
<1> QED
  BY <1>1, <1>6, <1>7, <1>8, TopGoesOn

\* A directory is entered: its entries are given.
LEMMA ListsDirectory ==
  ASSUME FilesInv, NEW w \in Walkers, ActOnDirectory(w)
  PROVE  FilesInv'
<1>1. At(w, "act") /\ Walking(w) /\ Top(w).at = "act" /\ m_Busy
  BY DEF ActOnDirectory, At
<1>2. PICK p \in Directories : p = Top(w).path
  BY DEF ActOnDirectory
<1>3. PICK call : call = [Top(w) EXCEPT !.at = "entries", !.left = Inside(p)]
  OBVIOUS
<1>4. PICK D \in SUBSET Directories :
        WalkInv(asked[w], stack[w], visited[w], m_DirList[w], disturbed[w], D)
  BY DEF FilesInv
<1>5. /\ p \in Reachable[asked[w]] /\ p \notin visited[w]
      /\ p \in OfCall(Top(w)) /\ Taken(Top(w).list) = OfCall(Top(w)) \ {p}
  BY <1>1, <1>2, <1>4, ActedOnIsNew
<1>6. /\ stack[w] # <<>> /\ stack[w] \in Seq(CallRecord) /\ Top(w) \in CallRecord
      /\ Len(stack[w]) \in DOMAIN stack[w] /\ disturbed[w] \in BOOLEAN
  BY <1>1, TopIsRecord
<1>7. /\ call \in CallRecord /\ call.at = "entries" /\ call.left = Inside(p)
      /\ call.list = Top(w).list
  BY <1>3, <1>6, InPlainPaths DEF CallRecord
<1>8. p \in Given(asked[w], D) \ D /\ OfCall(Top(w)) \subseteq Given(asked[w], D)
  BY <1>4, <1>5, <1>6 DEF WalkInv, Top
<1>9. Taken(Inside(p)) \cap Given(asked[w], D) = {}
  BY <1>8, EntriesAreNew, WalkerTyped
<1>10. Apart(call)
  BY <1>5, <1>7, <1>8, <1>9 DEF Apart
<1>11. OfCall(call) = (OfCall(Top(w)) \ {p}) \cup Taken(Inside(p))
  BY <1>5, <1>7, <1>10, CallForms
<1> DEFINE t == Append(SubSeq(stack[w], 1, Len(stack[w]) - 1), call)
<1>12. WalkInv(asked[w], t, visited[w], m_DirList[w] \cup {p}, disturbed[w], D \cup {p})
  <2>1. /\ p \in OfCall(stack[w][Len(stack[w])])
        /\ OfCall(call) = (OfCall(stack[w][Len(stack[w])]) \ {p}) \cup Taken(Inside(p))
    BY <1>5, <1>11 DEF Top
  <2>2. asked[w] \in Lists \cup {{}}
    BY WalkerTyped
  <2> QED
    BY <1>4, <1>5, <1>6, <1>7, <1>10, <2>1, <2>2, Enters
<1>13. stack' = [stack EXCEPT ![w] = t]
  BY <1>2, <1>3 DEF ActOnDirectory, GoTo, Under
<1> HIDE DEF t
<1>14. PICK listed : listed = m_DirList[w] \cup {p}
  OBVIOUS
<1>15. PICK E : E = D \cup {p}
  OBVIOUS
<1>16. /\ m_DirList' = [m_DirList EXCEPT ![w] = listed] /\ listed \in SUBSET Directories
       /\ visited' = [visited EXCEPT ![w] = visited[w]] /\ visited[w] \in SUBSET Paths
       /\ asked' = [asked EXCEPT ![w] = asked[w]] /\ asked[w] \in Lists \cup {{}}
       /\ UNCHANGED <<m_Busy, disturbed>> /\ ~twice'
  BY <1>2, <1>14, WalkerTyped DEF ActOnDirectory, FilesInv, walkVars
<1>17. m_Busy' \in BOOLEAN /\ disturbed' \in [Walkers -> BOOLEAN] /\ m_Busy'
       /\ E \in SUBSET Directories
  BY <1>1, <1>15, <1>16 DEF FilesInv
<1>18. \A v \in Walkers \ {w} : /\ disturbed[v] => disturbed'[v]
                                /\ Begun(v) /\ ~disturbed'[v] => m_Busy' \/ ~m_Busy
  BY <1>16, <1>17
<1>19. WalkInv(asked[w], t, visited[w], listed, disturbed'[w], E)
  BY <1>12, <1>14, <1>15, <1>16
<1> QED
  <2>1. WalksOn(w, asked[w], t, visited[w], listed, E)
    BY <1>13, <1>16, <1>17, <1>18, <1>19 DEF WalksOn
  <2> QED
    BY <2>1, OneWalks

\* An entry goes to a call of its own, or is passed over.
LEMMA TakesEntry ==
  ASSUME FilesInv, NEW w \in Walkers, NextEntry(w)
  PROVE  FilesInv'
<1>1. /\ Walking(w) /\ Top(w).at = "entries"
      /\ UNCHANGED <<m_Busy, m_DirList, walkVars, disturbed>>
  BY DEF NextEntry, At
<1>2. ~disturbed[w] => m_Busy
  BY <1>1, MiddleHasFlag
<1>3. PICK e \in Top(w).left :
        LET rest == [Top(w) EXCEPT !.left = @ \ {e}] IN
          IF m_Busy THEN stack' = [stack EXCEPT ![w] = Append(Append(Under(w), rest), Call({e}))]
                    ELSE GoTo(w, rest)
  BY DEF NextEntry
<1>4. PICK rest : rest = [Top(w) EXCEPT !.left = Top(w).left \ {e}]
  OBVIOUS
<1>5. /\ stack[w] # <<>> /\ Top(w) \in CallRecord /\ Apart(Top(w)) /\ disturbed[w] \in BOOLEAN
  BY <1>1, TopIsRecord
<1>6. PICK S : S = Top(w).left
  OBVIOUS
<1>7. /\ rest \in CallRecord /\ rest.at = "entries" /\ rest.left = S \ {e}
      /\ rest.list = Top(w).list /\ S \in SUBSET PlainPaths /\ e \in S
  BY <1>1, <1>4, <1>5, <1>6 DEF CallRecord
<1>8. Taken(S) = Taken(S \ {e}) \cup Taken({e}) /\ Taken(S \ {e}) \cap Taken({e}) = {}
  BY <1>7, TakenWithout
<1>9. Apart(rest) /\ Taken(Top(w).list) \cap Taken(S) = {}
  BY <1>1, <1>5, <1>6, <1>7, <1>8 DEF Apart
<1>10. /\ OfCall(rest) = Taken(Top(w).list) \cup Taken(S \ {e})
       /\ OfCall(Top(w)) = Taken(Top(w).list) \cup Taken(S)
  BY <1>1, <1>5, <1>6, <1>7, <1>9, CallForms
<1>11. PICK call : call = Call({e})
  OBVIOUS
<1>12. call \in CallRecord /\ Apart(call) /\ OfCall(call) = Taken({e})
  <2>1. {e} \in SUBSET PlainPaths
    BY <1>7
  <2>2. call \in CallRecord
    BY <1>11, <2>1 DEF Call, CallRecord
  <2>3. call.at = "enter" /\ call.list = {e} /\ Apart(call)
    BY <1>11 DEF Call, Apart
  <2> QED
    BY <2>2, <2>3, CallForms
<1>13. CASE m_Busy
  <2> DEFINE t == Append(Append(SubSeq(stack[w], 1, Len(stack[w]) - 1), rest), call)
  <2>1. PICK D \in SUBSET Directories :
          WalkInv(asked[w], stack[w], visited[w], m_DirList[w], disturbed[w], D)
    BY DEF FilesInv
  <2>2. /\ OfCall(rest) \cup OfCall(call) = OfCall(stack[w][Len(stack[w])])
        /\ OfCall(rest) \cap OfCall(call) = {}
    BY <1>8, <1>9, <1>10, <1>12 DEF Top
  <2>3. WalkInv(asked[w], t, visited[w], m_DirList[w], disturbed[w], D)
    <3>1. rest \in CallRecord /\ rest.at = "entries" /\ Apart(rest)
      BY <1>7, <1>9
    <3>2. call \in CallRecord /\ Apart(call)
      BY <1>12
    <3>3. stack[w] # <<>> /\ disturbed[w] \in BOOLEAN
      BY <1>5
    <3> QED
      BY <2>1, <2>2, <3>1, <3>2, <3>3, Hands
  <2>4. stack' = [stack EXCEPT ![w] = t]
    BY <1>3, <1>4, <1>11, <1>13 DEF Under
  <2> HIDE DEF t
  <2>5. /\ m_DirList' = [m_DirList EXCEPT ![w] = m_DirList[w]] /\ m_DirList[w] \in SUBSET Directories
        /\ visited' = [visited EXCEPT ![w] = visited[w]] /\ visited[w] \in SUBSET Paths
        /\ asked' = [asked EXCEPT ![w] = asked[w]] /\ asked[w] \in Lists \cup {{}}
        /\ ~twice' /\ m_Busy' \in BOOLEAN /\ disturbed' \in [Walkers -> BOOLEAN]
    BY <1>1, WalkerTyped DEF FilesInv, walkVars
  <2>6. disturbed'[w] = disturbed[w] /\ m_Busy'
    BY <1>1, <1>13
  <2>7. \A v \in Walkers \ {w} : /\ disturbed[v] => disturbed'[v]
                                 /\ Begun(v) /\ ~disturbed'[v] => m_Busy' \/ ~m_Busy
    BY <1>1
  <2>8. WalkInv(asked[w], t, visited[w], m_DirList[w], disturbed'[w], D)
    BY <2>3, <2>6
  <2> QED
    <3>1. WalksOn(w, asked[w], t, visited[w], m_DirList[w], D)
      BY <2>1, <2>4, <2>5, <2>6, <2>7, <2>8 DEF WalksOn
    <3> QED
      BY <3>1, OneWalks
<1>14. CASE ~m_Busy
  <2>1. GoTo(w, rest) /\ m_Busy' \in {m_Busy, TRUE} /\ disturbed[w]
    BY <1>1, <1>2, <1>3, <1>4, <1>14
  <2>2. OfCall(rest) \subseteq OfCall(Top(w))
    BY <1>8, <1>10
  <2> QED
    BY <1>1, <1>7, <1>9, <2>1, <2>2, TopStays
<1> QED
  BY <1>13, <1>14

\* Every step of every walker, and a reset from outside, keeps the invariant.
LEMMA FilesNextInv == FilesInv /\ [FilesNext]_filesVars => FilesInv'
<1> SUFFICES ASSUME FilesInv, [FilesNext]_filesVars PROVE FilesInv'
  OBVIOUS
<1>1. ASSUME NEW w \in Walkers, SetBusy(w) PROVE FilesInv'
  <2>1. PICK call : call = [Top(w) EXCEPT !.at = "list"]
    OBVIOUS
  <2>2. Walking(w) /\ Top(w) \in CallRecord /\ Top(w).at = "enter" /\ Apart(Top(w))
    BY <1>1, TopIsRecord DEF SetBusy, At
  <2>3. /\ call \in CallRecord /\ call.at = "list" /\ Apart(call)
        /\ call.list = Top(w).list
    BY <2>1, <2>2 DEF CallRecord, Apart
  <2>4. OfCall(call) = OfCall(Top(w))
    BY <2>2, <2>3, CallForms
  <2>5. GoTo(w, call) /\ m_Busy' /\ m_Busy' \in {m_Busy, TRUE}
        /\ UNCHANGED <<m_DirList, walkVars, disturbed>>
    BY <1>1, <2>1 DEF SetBusy
  <2> QED
    BY <2>2, <2>3, <2>4, <2>5, TopStays
<1>2. ASSUME NEW w \in Walkers, LeaveList(w) PROVE FilesInv'
  <2>1. /\ Walking(w) /\ Top(w).at = "list" /\ Return(w) /\ (m_Busy => Top(w).list = {})
        /\ UNCHANGED <<m_Busy, m_DirList, walkVars, disturbed>>
    BY <1>2 DEF LeaveList, At
  <2>2. ~disturbed[w] => m_Busy
    BY <2>1, MiddleHasFlag
  <2>3. OfCall(Top(w)) = Taken(Top(w).list) /\ Taken({}) = {}
    BY <2>1, TopIsRecord, CallForms
  <2>4. ~disturbed'[w] => OfCall(Top(w)) \subseteq Unmatched
    BY <2>1, <2>2, <2>3
  <2> QED
    BY <2>1, <2>4, TopLeaves
<1>3. ASSUME NEW w \in Walkers, ActTooLate(w) PROVE FilesInv'
  <2>1. /\ Walking(w) /\ Top(w).at = "act" /\ ~m_Busy
        /\ UNCHANGED <<m_Busy, m_DirList, walkVars, disturbed>>
    BY <1>3 DEF ActTooLate, At
  <2>2. disturbed[w] /\ m_Busy' \in {m_Busy, TRUE}
    BY <2>1, MiddleHasFlag
  <2>3. PICK call : call = BackCall(w)
    OBVIOUS
  <2>4. call \in CallRecord /\ Apart(call) /\ OfCall(call) = Taken(Top(w).list) /\ GoTo(w, call)
    BY <1>3, <2>1, <2>3, BackForms DEF ActTooLate, BackToList, BackCall
  <2>5. OfCall(call) \subseteq OfCall(Top(w))
    BY <2>4 DEF OfCall
  <2> QED
    BY <2>1, <2>2, <2>4, <2>5, TopStays
<1>4. ASSUME NEW w \in Walkers, LastEntry(w) PROVE FilesInv'
  <2>1. /\ Walking(w) /\ Top(w).at = "entries" /\ Top(w).left = {}
        /\ UNCHANGED <<m_Busy, m_DirList, walkVars, disturbed>>
    BY <1>4 DEF LastEntry, At
  <2>2. ~disturbed[w] => m_Busy
    BY <2>1, MiddleHasFlag
  <2>3. PICK call : call = BackCall(w)
    OBVIOUS
  <2>4. call \in CallRecord /\ Apart(call) /\ OfCall(call) = Taken(Top(w).list) /\ GoTo(w, call)
    BY <1>4, <2>1, <2>3, BackForms DEF LastEntry, BackToList, BackCall
  <2>5. OfCall(Top(w)) = Taken(Top(w).list)
    BY <2>1, TopIsRecord, CallForms
  <2>6. m_Busy' \in {m_Busy, TRUE} /\ (~disturbed[w] => m_Busy')
    BY <2>1, <2>2
  <2> QED
    BY <2>1, <2>4, <2>5, <2>6, TopStays
<1>5. ASSUME NEW w \in Walkers, Throw(w) PROVE FilesInv'
  <2>1. Walking(w) /\ Top(w).at # "enter" /\ Return(w) /\ ClearBusy
    BY <1>5 DEF Throw, At
  <2>2. UNCHANGED <<m_DirList, walkVars>>
    BY <1>5 DEF Throw
  <2>3. disturbed'[w]
    BY <2>1, MiddleHasFlag DEF ClearBusy
  <2> QED
    BY <2>1, <2>2, <2>3, TopLeaves
<1>6. ASSUME ResetBusy PROVE FilesInv'
  <2>1. UNCHANGED <<stack, m_DirList, asked, visited, twice>>
    BY <1>6 DEF ResetBusy, walkVars
  <2>2. /\ ~m_Busy' /\ m_Busy' \in BOOLEAN /\ disturbed' \in [Walkers -> BOOLEAN]
        /\ \A w \in Walkers : disturbed[w] \/ Begun(w) => disturbed'[w]
    BY <1>6 DEF ResetBusy, ClearBusy, FilesInv
  <2>3. ASSUME NEW w \in Walkers
        PROVE  \E D \in SUBSET Directories :
                 WalkInv(asked[w], stack[w], visited[w], m_DirList[w], disturbed'[w], D)
    <3>1. PICK D \in SUBSET Directories :
            WalkInv(asked[w], stack[w], visited[w], m_DirList[w], disturbed[w], D)
      BY DEF FilesInv
    <3> QED
      BY <2>2, <3>1, LostAsksLess
  <2> QED
    BY <2>1, <2>2, <2>3 DEF FilesInv, Begun, Walking
<1>7. CASE UNCHANGED filesVars
  BY <1>7 DEF filesVars, FilesInv, Begun, Walking
<1>8. ASSUME NEW w \in Walkers, WalkerStep(w) PROVE FilesInv'
  BY <1>1, <1>2, <1>3, <1>4, <1>5, <1>8, Begins, TakesPath, ShowsFile, ListsDirectory,
     TakesEntry
  DEF WalkerStep
<1> QED
  BY <1>6, <1>7, <1>8 DEF FilesNext

\* For any walkers, lists and file systems without a path that a list and a directory
\* share: no path is given to a callback twice in a walk, and a walk during which nobody
\* reset the flag has called back for every path it gets to behind RecurciveCalc that is
\* no directory, whatever other walks set meanwhile (FileActions).
THEOREM FilesSafety == FilesSpec => []WalkIsComplete
<1>1. FilesInv => WalkIsComplete
  <2> SUFFICES ASSUME FilesInv PROVE WalkIsComplete
    OBVIOUS
  <2>1. ASSUME NEW w \in Walkers
        PROVE  /\ visited[w] \subseteq Reachable[asked[w]] \ Directories
               /\ ~Walking(w) /\ ~disturbed[w] =>
                    /\ Reachable[asked[w]] \ Directories \subseteq visited[w]
                    /\ Reachable[asked[w]] \cap Directories \subseteq m_DirList[w]
    <3>1. PICK D \in SUBSET Directories :
            WalkInv(asked[w], stack[w], visited[w], m_DirList[w], disturbed[w], D)
      BY DEF FilesInv
    <3>2. PICK A : A = asked[w]
      OBVIOUS
    <3>3. PICK S : S = visited[w] \cup D
      OBVIOUS
    <3>4. /\ visited[w] \subseteq Reachable[A] \ Directories /\ D \subseteq Reachable[A]
          /\ D \subseteq m_DirList[w] /\ A \in Lists \cup {{}}
      BY <3>1, <3>2, WalkerTyped DEF WalkInv
    <3>5. ASSUME ~Walking(w), ~disturbed[w] PROVE Reachable[A] \subseteq S
      <4>1. DOMAIN stack[w] = {}
        BY <3>5 DEF Walking
      <4>2. Given(A, D) \ Unmatched \subseteq S
        BY <3>1, <3>2, <3>3, <3>5, <4>1 DEF WalkInv
      <4>3. S \cap Directories = D
        BY <3>3, <3>4
      <4>4. Closed(A, S)
        BY <4>2, <4>3 DEF Closed, Given
      <4>5. S \in SUBSET Paths
        BY <3>3, <3>4, ReachableClosed
      <4> QED
        BY <3>4, <4>4, <4>5, ReachableClosed
    <3> QED
      BY <3>2, <3>3, <3>4, <3>5
  <2>2. EachFileOnce
    BY DEF FilesInv, EachFileOnce
  <2>3. UndisturbedWalkIsComplete
    BY <2>1 DEF UndisturbedWalkIsComplete
  <2> QED
    BY <2>2, <2>3 DEF WalkIsComplete
<1> QED
  BY <1>1, FilesInitInv, FilesNextInv, PTL DEF FilesSpec
=============================================================================
