----------------------- MODULE AsioSocketSessionProofs -----------------------
(***************************************************************************)
(* The safety properties of AsioSocketSession hold for any set of sessions *)
(* and any modes: SessionInv is inductive and implies them.                *)
(***************************************************************************)
EXTENDS AsioSocketSession, FiniteSetTheorems, TLAPS

\* Stopping the timer touches the timer and the wait, nothing else.
LEMMA StopTimerEffect ==
  ASSUME NEW r \in SessionRecord
  PROVE  /\ StopTimer(r) \in SessionRecord
         /\ StopTimer(r).timer = "off"
         /\ StopTimer(r).watch = (IF r.watch = "waiting" THEN "cancelled" ELSE r.watch)
         /\ StopTimer(r).stage = r.stage /\ StopTimer(r).type = r.type
         /\ StopTimer(r).open = r.open /\ StopTimer(r).io = r.io
         /\ StopTimer(r).stops = r.stops
  BY DEF StopTimer, SessionRecord

\* What close() makes of an operation does not pend, and what did not pend stays.
LEMMA AbortedEffect ==
  ASSUME NEW r \in SessionRecord
  PROVE  /\ Aborted(r.io) \in {"none", "done"} \cup Completed
         /\ r.io \notin Pending => Aborted(r.io) = r.io
<1>1. CASE r.io = "reading"
  BY <1>1 DEF Aborted, Completed, Pending
<1>2. CASE r.io = "writing"
  BY <1>2 DEF Aborted, Completed, Pending
<1>3. CASE r.io \notin Pending
  BY <1>3 DEF Aborted, SessionRecord, Pending
<1> QED
  BY <1>1, <1>2, <1>3 DEF Pending

\* Stopping keeps a record a record, closes the socket, and adds one to stops.
LEMMA StopEffect ==
  ASSUME NEW r \in SessionRecord
  PROVE  /\ Stop(r) \in SessionRecord
         /\ ~Stop(r).open /\ Stop(r).timer = "off"
         /\ Stop(r).stops = r.stops + 1
         /\ Stop(r).io = Aborted(r.io) /\ Stop(r).io \notin Pending
         /\ Stop(r).watch = (IF r.watch = "waiting" THEN "cancelled" ELSE r.watch)
         /\ Stop(r).type = r.type /\ Stop(r).stage = r.stage
<1> DEFINE t == StopTimer(r)
           io == Aborted(t.io)
<1>1. t \in SessionRecord /\ t.io = r.io
  BY StopTimerEffect
<1>2. io \in {"none", "done"} \cup Completed
  BY <1>1, AbortedEffect
<1>3. Stop(r) = [t EXCEPT !.open = FALSE, !.io = io, !.stops = t.stops + 1]
  BY DEF Stop
<1> HIDE DEF t, io
<1>4. Stop(r) = [stage |-> t.stage, type |-> t.type, open |-> FALSE, io |-> io,
                 watch |-> t.watch, timer |-> t.timer, stops |-> t.stops + 1]
  BY <1>1, <1>3 DEF SessionRecord
<1>5. io \notin Pending
  BY <1>2 DEF Completed, Pending
<1> QED
  BY <1>1, <1>2, <1>4, <1>5, StopTimerEffect DEF t, io, SessionRecord

\* The end of a handler leaves a running object consistent, destroyed or not
\* (the destructor of AsioSocketSession).
LEMMA ReleasedConsistent ==
  ASSUME NEW r \in SessionRecord, Running(r)
  PROVE  Released(r) \in SessionRecord /\ Consistent(Released(r))
<1>1. CASE r.io = "done" /\ r.watch = "done"
  <2>1. Stop(r) \in SessionRecord /\ Gone(Stop(r))
    BY <1>1, StopEffect DEF Gone, Running, Aborted, SessionRecord
  <2>2. Released(r) = [Stop(r) EXCEPT !.stage = "free"]
    BY <1>1 DEF Released
  <2> QED
    BY <2>1, <2>2 DEF Consistent, Gone, SessionRecord
<1>2. CASE ~(r.io = "done" /\ r.watch = "done")
  <2>1. Released(r) = [r EXCEPT !.stage = "running"]
    BY <1>2 DEF Released
  <2> QED
    BY <1>2, <2>1 DEF Consistent, Running, InFirstTransfer, ReceivesFirst, SessionRecord
<1> QED
  BY <1>1, <1>2

\* Receive and Send that go ahead start an inactive timer and suspend.
LEMMA TransferEffect ==
  ASSUME NEW r \in SessionRecord, r.open, r.timer = "off"
  PROVE  /\ Receive(r, TRUE) =
              [stage |-> r.stage, type |-> r.type, open |-> TRUE, io |-> "reading",
               watch |-> r.watch, timer |-> "running", stops |-> r.stops]
         /\ Send(r, TRUE) =
              [stage |-> r.stage, type |-> r.type, open |-> TRUE, io |-> "writing",
               watch |-> r.watch, timer |-> "running", stops |-> r.stops]
<1>1. r.open = TRUE
  BY DEF SessionRecord
<1>2. StartTimer(r) = [r EXCEPT !.timer = "running"]
  BY DEF StartTimer, SessionRecord
<1> QED
  BY <1>1, <1>2 DEF Receive, Send, SessionRecord

\* What a handler has made of the session r when it releases x: Start begins the
\* first transfer or ends both coroutines, a transfer that succeeded is the last or
\* is followed by the second, one that failed is the last, and the deadline stops
\* the session or leaves it alone.
Started(r, x) ==
  /\ r.stage = "posted" /\ x.open
  /\ \/ x.io = "done" /\ x.watch = "done"
     \/ x.io \in Pending /\ InFirstTransfer(x)

Continued(r, x) ==
  /\ r.stage = "running" /\ r.io \in {"read", "written"} /\ x.open = r.open
  /\ \/ x.io = "done"
     \/ /\ x.open /\ x.io \in Pending /\ ~InFirstTransfer(x)
        /\ InFirstTransfer(r) /\ r.type \in {"HalfDuplexIn", "HalfDuplexOut"}

Failed(r, x) ==
  r.stage = "running" /\ r.io \in {"readFailed", "writeFailed"} /\ x.open = r.open /\ x.io = "done"

Checked(r, x) ==
  /\ r.stage = "running" /\ r.open
  /\ IF x.open THEN x.io = r.io ELSE x.io = Aborted(r.io)

Effect(r, x) ==
  x.type = r.type /\ (Started(r, x) \/ Continued(r, x) \/ Failed(r, x) \/ Checked(r, x))

LEMMA CheckTimeoutEffect ==
  ASSUME NEW r \in SessionRecord
  PROVE  CheckTimeout(r) =
           [stage |-> r.stage, type |-> r.type, open |-> r.open, io |-> r.io,
            watch |-> IF r.open /\ r.timer # "off" THEN "waiting" ELSE "done",
            timer |-> r.timer, stops |-> r.stops]
  BY DEF CheckTimeout, SessionRecord

\* Start turns a posted session into a running one whose first transfer, if it
\* pends, is watched.
LEMMA StartKeeps ==
  ASSUME NEW r \in SessionRecord, Posted(r), NEW bytes \in BOOLEAN
  PROVE  /\ CheckTimeout(Transfer(r, bytes)) \in SessionRecord
         /\ Running(CheckTimeout(Transfer(r, bytes)))
         /\ r.stage = "posted" => Effect(r, CheckTimeout(Transfer(r, bytes)))
<1>1. r.open /\ r.timer = "off" /\ r.stops = 0 /\ r.type \in TransferTypes
  BY DEF Posted
<1>2. CASE bytes = FALSE
  <2> DEFINE x == [r EXCEPT !.io = "done"]
  <2>1. x \in SessionRecord /\ x.timer = "off"
    BY <1>1 DEF SessionRecord
  <2>2. Transfer(r, bytes) = x
    BY <1>2 DEF Transfer, Receive, Send
  <2> DEFINE y == [stage |-> r.stage, type |-> r.type, open |-> TRUE, io |-> "done",
                   watch |-> "done", timer |-> "off", stops |-> 0]
  <2>3. CheckTimeout(x) = y
    BY <1>1, <2>1, CheckTimeoutEffect DEF SessionRecord
  <2>4. y \in SessionRecord /\ Running(y)
    BY <1>1 DEF Running, SessionRecord, Pending
  <2>5. r.stage = "posted" => Effect(r, y)
    BY DEF Effect, Started
  <2> QED
    BY <2>2, <2>3, <2>4, <2>5
<1>3. CASE bytes = TRUE /\ ReceivesFirst(r)
  <2> DEFINE x == [stage |-> r.stage, type |-> r.type, open |-> TRUE, io |-> "reading",
                   watch |-> r.watch, timer |-> "running", stops |-> 0]
  <2>1. Transfer(r, bytes) = x
    BY <1>1, <1>3, TransferEffect DEF Transfer
  <2>2. x \in SessionRecord
    BY DEF SessionRecord, Pending
  <2> DEFINE y == [stage |-> r.stage, type |-> r.type, open |-> TRUE, io |-> "reading",
                   watch |-> "waiting", timer |-> "running", stops |-> 0]
  <2>3. CheckTimeout(x) = y
    BY <2>2, CheckTimeoutEffect
  <2>4. y \in SessionRecord /\ Running(y)
    BY <1>1 DEF Running, SessionRecord, Pending
  <2>5. InFirstTransfer(y) /\ y.io \in Pending
    BY <1>3 DEF InFirstTransfer, ReceivesFirst, Pending
  <2>6. r.stage = "posted" => Effect(r, y)
    BY <2>5 DEF Effect, Started
  <2> QED
    BY <2>1, <2>3, <2>4, <2>6
<1>4. CASE bytes = TRUE /\ ~ReceivesFirst(r)
  <2> DEFINE x == [stage |-> r.stage, type |-> r.type, open |-> TRUE, io |-> "writing",
                   watch |-> r.watch, timer |-> "running", stops |-> 0]
  <2>1. Transfer(r, bytes) = x
    BY <1>1, <1>4, TransferEffect DEF Transfer
  <2>2. x \in SessionRecord
    BY DEF SessionRecord, Pending
  <2> DEFINE y == [stage |-> r.stage, type |-> r.type, open |-> TRUE, io |-> "writing",
                   watch |-> "waiting", timer |-> "running", stops |-> 0]
  <2>3. CheckTimeout(x) = y
    BY <2>2, CheckTimeoutEffect
  <2>4. y \in SessionRecord /\ Running(y)
    BY <1>1 DEF Running, SessionRecord, Pending
  <2>5. InFirstTransfer(y) /\ y.io \in Pending
    BY <1>4 DEF InFirstTransfer, ReceivesFirst, Pending
  <2>6. r.stage = "posted" => Effect(r, y)
    BY <2>5 DEF Effect, Started
  <2> QED
    BY <2>1, <2>3, <2>4, <2>6
<1> QED
  BY <1>2, <1>3, <1>4

\* A transfer coroutine that ends, or goes on to the second transfer of its mode,
\* leaves the session running.
LEMMA ContinueKeeps ==
  ASSUME NEW r \in SessionRecord, Running(r), NEW bytes \in BOOLEAN,
         r.io \in {"read", "written"}
  PROVE  LET t == StopTimer(r) IN
         /\ [t EXCEPT !.io = "done"] \in SessionRecord /\ Running([t EXCEPT !.io = "done"])
         /\ r.type = "HalfDuplexIn" =>
              Send(t, bytes) \in SessionRecord /\ Running(Send(t, bytes))
         /\ r.type = "HalfDuplexOut" =>
              Receive(t, bytes) \in SessionRecord /\ Running(Receive(t, bytes))
         /\ r.stage = "running" => Effect(r, [t EXCEPT !.io = "done"])
         /\ r.stage = "running" /\ r.type = "HalfDuplexIn" /\ r.io = "read" =>
              Effect(r, Send(t, bytes))
         /\ r.stage = "running" /\ r.type = "HalfDuplexOut" /\ r.io = "written" =>
              Effect(r, Receive(t, bytes))
<1> DEFINE t == StopTimer(r)
<1>1. /\ t \in SessionRecord /\ t.timer = "off" /\ t.watch # "waiting" /\ t.watch # "none"
      /\ t.type = r.type /\ t.type \in TransferTypes /\ t.open = r.open
      /\ t.stops = (IF t.open THEN 0 ELSE 1) /\ (~t.open => t.watch = "done")
  BY StopTimerEffect DEF Running
<1> HIDE DEF t
<1>2. [t EXCEPT !.io = "done"] \in SessionRecord /\ Running([t EXCEPT !.io = "done"])
  BY <1>1 DEF Running, SessionRecord, Pending
<1>5. r.stage = "running" => Effect(r, [t EXCEPT !.io = "done"])
  BY <1>1 DEF Effect, Continued, SessionRecord
<1>3. ASSUME t.type = "HalfDuplexIn"
      PROVE  /\ Send(t, bytes) \in SessionRecord /\ Running(Send(t, bytes))
             /\ r.stage = "running" /\ r.io = "read" => Effect(r, Send(t, bytes))
  <2>1. CASE t.open /\ bytes
    <3> DEFINE y == [stage |-> t.stage, type |-> t.type, open |-> TRUE, io |-> "writing",
                     watch |-> t.watch, timer |-> "running", stops |-> t.stops]
    <3>1. Send(t, bytes) = y
      BY <1>1, <2>1, TransferEffect
    <3>2. y \in SessionRecord
      BY <1>1 DEF SessionRecord, Pending
    <3>3. ~InFirstTransfer(y)
      BY <1>3 DEF InFirstTransfer, ReceivesFirst
    <3>4. Running(y)
      BY <1>1, <2>1, <3>3 DEF Running
    <3>5. r.io = "read" => InFirstTransfer(r)
      BY <1>1, <1>3 DEF InFirstTransfer, ReceivesFirst
    <3>6. r.stage = "running" /\ r.io = "read" => Effect(r, y)
      BY <1>1, <1>3, <2>1, <3>3, <3>5 DEF Effect, Continued, Pending, SessionRecord
    <3> QED
      BY <3>1, <3>2, <3>4, <3>6
  <2>2. CASE ~(t.open /\ bytes)
    BY <1>2, <1>5, <2>2 DEF Send
  <2> QED
    BY <2>1, <2>2
<1>4. ASSUME t.type = "HalfDuplexOut"
      PROVE  /\ Receive(t, bytes) \in SessionRecord /\ Running(Receive(t, bytes))
             /\ r.stage = "running" /\ r.io = "written" => Effect(r, Receive(t, bytes))
  <2>1. CASE t.open /\ bytes
    <3> DEFINE y == [stage |-> t.stage, type |-> t.type, open |-> TRUE, io |-> "reading",
                     watch |-> t.watch, timer |-> "running", stops |-> t.stops]
    <3>1. Receive(t, bytes) = y
      BY <1>1, <2>1, TransferEffect
    <3>2. y \in SessionRecord
      BY <1>1 DEF SessionRecord, Pending
    <3>3. ~InFirstTransfer(y)
      BY <1>4 DEF InFirstTransfer, ReceivesFirst
    <3>4. Running(y)
      BY <1>1, <2>1, <3>3 DEF Running
    <3>5. r.io = "written" => InFirstTransfer(r)
      BY <1>1, <1>4 DEF InFirstTransfer, ReceivesFirst
    <3>6. r.stage = "running" /\ r.io = "written" => Effect(r, y)
      BY <1>1, <1>4, <2>1, <3>3, <3>5 DEF Effect, Continued, Pending, SessionRecord
    <3> QED
      BY <3>1, <3>2, <3>4, <3>6
  <2>2. CASE ~(t.open /\ bytes)
    BY <1>2, <1>5, <2>2 DEF Receive
  <2> QED
    BY <2>1, <2>2
<1> QED
  BY <1>1, <1>2, <1>3, <1>4, <1>5 DEF t

\* The part of ContinueKeeps and of Start that says no handler opens a socket.
LEMMA TransferOpens ==
  ASSUME NEW r \in SessionRecord, NEW bytes \in BOOLEAN
  PROVE  /\ Receive(r, bytes).open = r.open
         /\ Send(r, bytes).open = r.open
         /\ CheckTimeout(Transfer(r, bytes)).open = r.open
<1>1. /\ Receive(r, bytes).open = r.open
      /\ Send(r, bytes).open = r.open
  BY DEF Receive, Send, StartTimer, SessionRecord
<1>2. DOMAIN Transfer(r, bytes) = DOMAIN r
  BY DEF Transfer, Receive, Send, StartTimer, SessionRecord
<1>3. Transfer(r, bytes).open = r.open
  BY <1>1 DEF Transfer
<1> QED
  BY <1>1, <1>2, <1>3 DEF CheckTimeout, SessionRecord

\* CheckTimeout resumes: it stops the session when the timer is inactive or over,
\* and otherwise ends with the first transfer no longer pending.
LEMMA CheckedKeeps ==
  ASSUME NEW r \in SessionRecord, Running(r), r.watch \in {"fired", "cancelled"}
  PROVE  LET x == [(IF IsExpired(r) THEN Stop(r) ELSE r) EXCEPT !.watch = "done"]
         IN  /\ x \in SessionRecord /\ Running(x) /\ (x.open => r.open)
             /\ r.stage = "running" => Effect(r, x)
<1> DEFINE x == [(IF IsExpired(r) THEN Stop(r) ELSE r) EXCEPT !.watch = "done"]
<1>1. r.open /\ r.stops = 0
  BY DEF Running
<1>2. CASE IsExpired(r)
  <2> DEFINE q == Stop(r)
             y == [stage |-> q.stage, type |-> q.type, open |-> q.open, io |-> q.io,
                   watch |-> "done", timer |-> q.timer, stops |-> q.stops]
  <2>1. /\ q \in SessionRecord /\ q.type \in TransferTypes /\ q.io # "none"
        /\ q.io \notin Pending /\ q.open = FALSE /\ q.timer = "off" /\ q.stops = 1
    <3>1. Aborted(r.io) # "none"
      BY DEF Running, Aborted
    <3>2. q \in SessionRecord /\ ~q.open
      BY StopEffect
    <3>3. q.open = FALSE
      BY <3>2 DEF SessionRecord
    <3> QED
      BY <1>1, <3>1, <3>2, <3>3, StopEffect DEF Running
  <2> HIDE DEF q
  <2>2. [q EXCEPT !.watch = "done"] = y
    BY <2>1 DEF SessionRecord
  <2>3. y \in SessionRecord /\ ~y.open
    BY <2>1 DEF SessionRecord
  <2>4. Running(y)
    BY <2>1, <2>3 DEF Running
  <2>5. x = y
    BY <1>2, <2>2 DEF q
  <2>6. q.io = Aborted(r.io) /\ q.type = r.type
    BY StopEffect DEF q
  <2>7. r.stage = "running" => Effect(r, y)
    BY <1>1, <2>3, <2>6 DEF Effect, Checked
  <2> QED
    BY <2>3, <2>4, <2>5, <2>7
<1>3. CASE ~IsExpired(r)
  <2>1. r.timer # "off" /\ ~(r.timer = "due" /\ r.watch = "fired")
    BY <1>3 DEF IsExpired
  <2>2. ~(r.io \in Pending /\ InFirstTransfer(r))
    BY <2>1 DEF Running
  <2> DEFINE y == [stage |-> r.stage, type |-> r.type, open |-> r.open, io |-> r.io,
                   watch |-> "done", timer |-> r.timer, stops |-> r.stops]
  <2>3. x = y
    BY <1>3 DEF SessionRecord
  <2>4. y \in SessionRecord
    BY DEF SessionRecord
  <2>5. ~(y.io \in Pending /\ InFirstTransfer(y))
    BY <2>2 DEF InFirstTransfer, ReceivesFirst
  <2>6. Running(y)
    BY <1>1, <2>5 DEF Running
  <2>7. r.stage = "running" => Effect(r, y)
    BY <1>1 DEF Effect, Checked
  <2> QED
    BY <2>3, <2>4, <2>6, <2>7
<1> QED
  BY <1>2, <1>3

\* Every handler runs its session to a running record and then releases it, and
\* opens no socket.
LEMMA HandlerResult ==
  ASSUME SessionInv, NEW s \in Sessions, Handler(s)
  PROVE  /\ session[s].stage # "free"
         /\ \E r \in SessionRecord :
              /\ Running(r)
              /\ r.open => session[s].open
              /\ Effect(session[s], r)
              /\ session' = [session EXCEPT ![s] = Released(r)]
<1> DEFINE r == session[s]
<1>1. r \in SessionRecord /\ Consistent(r)
  BY DEF SessionInv, SessionTypeOK
<1>2. r.stage \in {"free", "posted", "running"}
  BY <1>1 DEF SessionRecord
<1> HIDE DEF r
<1>3. ASSUME NEW bytes \in BOOLEAN, Start(s, bytes)
      PROVE  /\ r.stage # "free"
             /\ \E x \in SessionRecord : /\ Running(x) /\ (x.open => r.open) /\ Effect(r, x)
                                         /\ session' = [session EXCEPT ![s] = Released(x)]
  <2>1. r.stage = "posted" /\ r.open /\ Posted(r)
    BY <1>1, <1>3 DEF Start, Consistent, Posted, r
  <2>2. session' = [session EXCEPT ![s] = Released(CheckTimeout(Transfer(r, bytes)))]
    BY <1>3, <2>1 DEF Start, Become, r
  <2> QED
    BY <1>1, <2>1, <2>2, StartKeeps, TransferOpens
<1>4. r.io \in {"read", "written", "readFailed", "writeFailed"}
        \/ r.watch \in {"fired", "cancelled"} => r.stage = "running" /\ Running(r)
  BY <1>1, <1>2 DEF Consistent, Gone, Posted
<1>5. ASSUME NEW bytes \in BOOLEAN, Received(s, bytes) \/ Sent(s, bytes)
      PROVE  /\ r.stage # "free"
             /\ \E x \in SessionRecord : /\ Running(x) /\ (x.open => r.open) /\ Effect(r, x)
                                         /\ session' = [session EXCEPT ![s] = Released(x)]
  <2> DEFINE t == StopTimer(r)
             d == [t EXCEPT !.io = "done"]
  <2>1. r.io \in {"read", "written"}
    BY <1>5 DEF Received, Sent, r
  <2>2. r.stage = "running" /\ Running(r)
    BY <1>4, <2>1
  <2>3. t \in SessionRecord /\ t.open = r.open /\ t.type = r.type
    BY <1>1, StopTimerEffect
  <2>4. d.open = r.open
    BY <2>3 DEF SessionRecord
  <2>5. /\ d \in SessionRecord /\ Running(d)
        /\ r.type = "HalfDuplexIn" => Send(t, bytes) \in SessionRecord /\ Running(Send(t, bytes))
        /\ r.type = "HalfDuplexOut" => Receive(t, bytes) \in SessionRecord /\ Running(Receive(t, bytes))
        /\ Effect(r, d)
        /\ r.type = "HalfDuplexIn" /\ r.io = "read" => Effect(r, Send(t, bytes))
        /\ r.type = "HalfDuplexOut" /\ r.io = "written" => Effect(r, Receive(t, bytes))
    BY <1>1, <2>1, <2>2, ContinueKeeps
  <2>6. Send(t, bytes).open = r.open /\ Receive(t, bytes).open = r.open
    BY <2>3, TransferOpens
  <2>7. \/ session' = [session EXCEPT ![s] = Released(d)]
        \/ r.type = "HalfDuplexIn" /\ r.io = "read"
           /\ session' = [session EXCEPT ![s] = Released(Send(t, bytes))]
        \/ r.type = "HalfDuplexOut" /\ r.io = "written"
           /\ session' = [session EXCEPT ![s] = Released(Receive(t, bytes))]
    BY <1>5, <2>3 DEF Received, Sent, Become, r
  <2> HIDE DEF t, d
  <2> QED
    BY <2>2, <2>4, <2>5, <2>6, <2>7
<1>6. ASSUME TransferFailed(s)
      PROVE  /\ r.stage # "free"
             /\ \E x \in SessionRecord : /\ Running(x) /\ (x.open => r.open) /\ Effect(r, x)
                                         /\ session' = [session EXCEPT ![s] = Released(x)]
  <2> DEFINE d == [r EXCEPT !.io = "done"]
  <2>1. r.stage = "running" /\ Running(r)
    BY <1>4, <1>6 DEF TransferFailed, r
  <2>2. session' = [session EXCEPT ![s] = Released(d)]
    BY <1>6 DEF TransferFailed, Become, r
  <2>3. d \in SessionRecord /\ d.open = r.open
    BY <1>1 DEF SessionRecord
  <2>4. Running(d)
    BY <1>1, <2>1 DEF Running, SessionRecord, Pending
  <2>5. r.io \in {"readFailed", "writeFailed"}
    BY <1>6 DEF TransferFailed, r
  <2>6. d.io = "done" /\ d.type = r.type
    BY <1>1 DEF SessionRecord
  <2>7. Effect(r, d)
    BY <2>1, <2>3, <2>5, <2>6 DEF Effect, Failed
  <2> QED
    BY <2>1, <2>2, <2>3, <2>4, <2>7
<1>7. ASSUME CheckedTimeout(s)
      PROVE  /\ r.stage # "free"
             /\ \E x \in SessionRecord : /\ Running(x) /\ (x.open => r.open) /\ Effect(r, x)
                                         /\ session' = [session EXCEPT ![s] = Released(x)]
  <2>1. r.watch \in {"fired", "cancelled"}
    BY <1>7 DEF CheckedTimeout, r
  <2>2. session' = [session EXCEPT ![s] =
          Released([(IF IsExpired(r) THEN Stop(r) ELSE r) EXCEPT !.watch = "done"])]
    BY <1>7 DEF CheckedTimeout, Become, r
  <2> QED
    BY <1>1, <1>4, <2>1, <2>2, CheckedKeeps
<1> QED
  BY <1>3, <1>5, <1>6, <1>7 DEF Handler, r

\* The peer and the clock change a running session only, and keep it running:
\* they touch neither the socket's state, the ownership nor the count of stops.
LEMMA EnvironmentResult ==
  ASSUME SessionInv, NEW s \in Sessions, Environment(s)
  PROVE  \E r \in SessionRecord :
           /\ session' = [session EXCEPT ![s] = r]
           /\ Consistent(r)
           /\ r.open = session[s].open /\ r.stops = session[s].stops
           /\ r.stage = session[s].stage
<1> DEFINE q == session[s]
<1>1. q \in SessionRecord /\ Consistent(q)
  BY DEF SessionInv, SessionTypeOK
<1>2. q.stage \in {"free", "posted", "running"}
  BY <1>1 DEF SessionRecord
<1>3. q.io \in Pending \/ q.timer = "running" => q.stage = "running" /\ Running(q)
  BY <1>1, <1>2 DEF Consistent, Gone, Posted, Pending
<1>4. CASE TransferCompletes(s) \/ TransferBreaks(s)
  <2>1. q.io \in Pending
    BY <1>4 DEF TransferCompletes, TransferBreaks
  <2>2. PICK io \in Completed : session' = [session EXCEPT ![s].io = io]
    BY <1>4, <2>1 DEF TransferCompletes, TransferBreaks, Aborted, Completed, Pending
  <2> DEFINE r == [q EXCEPT !.io = io]
  <2>3. session' = [session EXCEPT ![s] = r]
    BY <2>2
  <2>4. /\ r \in SessionRecord /\ r.open = q.open /\ r.stops = q.stops /\ r.stage = q.stage
        /\ r.type = q.type /\ r.watch = q.watch /\ r.timer = q.timer /\ r.io = io
    BY <1>1 DEF SessionRecord
  <2>5. r.io \notin Pending /\ r.io # "none" /\ r.io # "done"
    BY <2>4 DEF Completed, Pending
  <2> HIDE DEF r, q
  <2>6. Running(r) /\ r.stage = "running"
    BY <1>3, <2>1, <2>4, <2>5 DEF Running
  <2> QED
    BY <2>3, <2>4, <2>5, <2>6 DEF Consistent, q
<1>5. CASE DeadlinePasses(s)
  <2> DEFINE w == IF q.watch = "waiting" THEN "fired" ELSE q.watch
             r == [stage |-> q.stage, type |-> q.type, open |-> q.open, io |-> q.io,
                   watch |-> w, timer |-> "due", stops |-> q.stops]
  <2>1. q.timer = "running"
    BY <1>5 DEF DeadlinePasses
  <2>2. ASSUME NEW y, y = [q EXCEPT !.timer = "due", !.watch = w] PROVE y = r
    <3> HIDE DEF q, w
    <3> QED
      BY <1>1, <2>2 DEF SessionRecord
  <2>3. session' = [session EXCEPT ![s] = r]
    <3>1. session' = [session EXCEPT ![s] = [q EXCEPT !.timer = "due", !.watch = w]]
      BY <1>5 DEF DeadlinePasses
    <3> QED
      BY <2>2, <3>1
  <2>4. r \in SessionRecord
    BY <1>1 DEF SessionRecord
  <2>5. InFirstTransfer(r) <=> InFirstTransfer(q)
    BY DEF InFirstTransfer, ReceivesFirst
  <2>6. Running(r)
    BY <1>3, <2>1, <2>5 DEF Running
  <2>7. Consistent(r)
    BY <1>1, <1>3, <2>1, <2>6 DEF Consistent, Running
  <2> QED
    BY <2>3, <2>4, <2>7
<1> QED
  BY <1>4, <1>5 DEF Environment

\* MakeSocketSession leaves a posted session on an open socket.
LEMMA MakeKeeps ==
  ASSUME SessionInv, NEW s \in Sessions, NEW type \in TransferTypes,
         MakeSocketSession(s, type)
  PROVE  \E r \in SessionRecord :
           /\ session' = [session EXCEPT ![s] = r]
           /\ Consistent(r)
           /\ r.open /\ r.stage = "posted"
<1> DEFINE r == [ stage |-> "posted", type |-> type, open |-> TRUE, io |-> "none",
                  watch |-> "none", timer |-> "off", stops |-> 0 ]
<1>1. r \in SessionRecord
  BY DEF SessionRecord
<1>2. Consistent(r)
  BY DEF Consistent, Posted
<1>3. session' = [session EXCEPT ![s] = r]
  BY DEF MakeSocketSession
<1> QED
  BY <1>1, <1>2, <1>3

\* Replacing one record by a consistent one keeps the invariant.
LEMMA ReplaceKeeps ==
  ASSUME SessionInv, NEW s \in Sessions, NEW r \in SessionRecord, Consistent(r),
         session' = [session EXCEPT ![s] = r]
  PROVE  SessionInv'
<1>1. session' \in [Sessions -> SessionRecord]
  BY DEF SessionInv, SessionTypeOK
<1>2. ASSUME NEW q \in Sessions PROVE Consistent(session'[q])
  BY DEF SessionInv, SessionTypeOK
<1> QED
  BY <1>1, <1>2 DEF SessionInv, SessionTypeOK

\* No step of a session or of its surroundings breaks the invariant.
LEMMA SessionStepKeeps ==
  ASSUME SessionInv, SessionNext PROVE SessionInv'
<1>1. PICK s \in Sessions :
        \/ \E type \in TransferTypes : MakeSocketSession(s, type)
        \/ Handler(s)
        \/ Environment(s)
  BY DEF SessionNext
<1>2. CASE \E type \in TransferTypes : MakeSocketSession(s, type)
  BY <1>2, MakeKeeps, ReplaceKeeps
<1>3. CASE Handler(s)
  BY <1>3, HandlerResult, ReleasedConsistent, ReplaceKeeps
<1>4. CASE Environment(s)
  BY <1>4, EnvironmentResult, ReplaceKeeps
<1> QED
  BY <1>1, <1>2, <1>3, <1>4

LEMMA SessionInitHolds == ASSUME SessionInit PROVE SessionInv
<1>1. NoSession \in SessionRecord
  BY DEF NoSession, SessionRecord
<1>2. Consistent(NoSession)
  BY DEF NoSession, Consistent, Gone
<1> QED
  BY <1>1, <1>2 DEF SessionInit, SessionInv, SessionTypeOK

\* What the invariant says in the terms of the code.
LEMMA SessionInvImplies ==
  ASSUME SessionInv
  PROVE  /\ SessionTypeOK /\ StoppedSessionDrains
         /\ FirstTransferIsWatched /\ AfterStopRuns
<1> SUFFICES ASSUME NEW s \in Sessions
             PROVE  LET r == session[s] IN
                    /\ ~r.open => r.io \notin Pending /\ r.watch # "waiting"
                    /\ r.io \in Pending /\ InFirstTransfer(r) =>
                         \/ r.timer = "running" /\ r.watch = "waiting"
                         \/ r.timer = "due" /\ r.watch = "fired"
                    /\ r.stage = "free" => (r.type # "none" => r.stops \in 1..2)
                    /\ r.stage # "free" => r.stops = (IF r.open THEN 0 ELSE 1)
  BY DEF SessionInv, StoppedSessionDrains, FirstTransferIsWatched, AfterStopRuns
<1> DEFINE r == session[s]
<1>1. r.stage \in {"free", "posted", "running"} /\ Consistent(r)
  BY DEF SessionInv, SessionTypeOK, SessionRecord
<1> HIDE DEF r
<1>2. CASE r.stage = "free"
  BY <1>1, <1>2 DEF Consistent, Gone, Pending, r
<1>3. CASE r.stage = "posted"
  BY <1>1, <1>3 DEF Consistent, Posted, Pending, r
<1>4. CASE r.stage = "running"
  BY <1>1, <1>4 DEF Consistent, Running, r
<1> QED
  BY <1>1, <1>2, <1>3, <1>4

\* Type correctness and the safety properties of every session, for any number
\* of sessions and any modes.
THEOREM SessionSafety ==
  SessionSpec => [](/\ SessionTypeOK /\ StoppedSessionDrains
                    /\ FirstTransferIsWatched /\ AfterStopRuns)
<1>1. SessionInit => SessionInv
  BY SessionInitHolds
<1>2. SessionInv /\ [SessionNext]_session => SessionInv'
  <2>1. SessionInv /\ UNCHANGED session => SessionInv'
    BY DEF SessionInv, SessionTypeOK
  <2> QED
    BY <2>1, SessionStepKeeps
<1>3. SessionInv => /\ SessionTypeOK /\ StoppedSessionDrains
                    /\ FirstTransferIsWatched /\ AfterStopRuns
  BY SessionInvImplies
<1> QED
  BY <1>1, <1>2, <1>3, PTL DEF SessionSpec

LEMMA SessionInvariant == SessionSpec => []SessionInv
<1>1. SessionInv /\ UNCHANGED session => SessionInv'
  BY DEF SessionInv, SessionTypeOK
<1> QED
  BY <1>1, SessionInitHolds, SessionStepKeeps, PTL DEF SessionSpec

-----------------------------------------------------------------------------
(* The open sockets, which servers and clients count.                      *)

LEMMA OpenFinite ==
  /\ IsFiniteSet(OpenSockets) /\ Cardinality(OpenSockets) \in Nat
  /\ IsFiniteSet(OpenSockets') /\ Cardinality(OpenSockets') \in Nat
<1>1. OpenSockets \in SUBSET Sessions /\ OpenSockets' \in SUBSET Sessions
  BY DEF OpenSockets
<1> QED
  BY <1>1, SessionsAssumption, FS_Subset, FS_CardinalityType

\* How the number of open sockets changes with one session.
LEMMA OpenChange ==
  ASSUME SessionInv, NEW s \in Sessions, NEW r \in SessionRecord,
         session' = [session EXCEPT ![s] = r]
  PROVE  /\ r.open /\ ~session[s].open =>
              Cardinality(OpenSockets') = Cardinality(OpenSockets) + 1
         /\ ~r.open /\ session[s].open =>
              Cardinality(OpenSockets') = Cardinality(OpenSockets) - 1
         /\ (r.open <=> session[s].open) =>
              Cardinality(OpenSockets') = Cardinality(OpenSockets)
<1>1. \A q \in Sessions : session'[q] = IF q = s THEN r ELSE session[q]
  BY DEF SessionInv, SessionTypeOK
<1>2. ASSUME r.open, ~session[s].open
      PROVE  OpenSockets' = OpenSockets \cup {s} /\ s \notin OpenSockets
  BY <1>1, <1>2 DEF OpenSockets
<1>3. ASSUME ~r.open, session[s].open
      PROVE  OpenSockets' = OpenSockets \ {s} /\ s \in OpenSockets
  BY <1>1, <1>3 DEF OpenSockets
<1>4. ASSUME r.open <=> session[s].open
      PROVE  OpenSockets' = OpenSockets
  BY <1>1, <1>4 DEF OpenSockets
<1> QED
  BY <1>2, <1>3, <1>4, OpenFinite, FS_AddElement, FS_RemoveElement

\* A session handler runs m_AfterStop at least once for a socket it closes, and
\* opens none.
LEMMA HandlerCounts ==
  ASSUME SessionInv, NEW s \in Sessions, Handler(s)
  PROVE  LET k == session'[s].stops - session[s].stops IN
         /\ SessionInv'
         /\ k \in Nat
         /\ Cardinality(OpenSockets) <= Cardinality(OpenSockets') + k
<1> DEFINE q == session[s]
           k == session'[s].stops - session[s].stops
<1>1. PICK r \in SessionRecord : /\ Running(r)
                                 /\ r.open => q.open
                                 /\ session' = [session EXCEPT ![s] = Released(r)]
  BY HandlerResult
<1> DEFINE p == Released(r)
<1>2. p \in SessionRecord /\ Consistent(p)
  BY <1>1, ReleasedConsistent
<1>3. SessionInv'
  BY <1>1, <1>2, ReplaceKeeps
<1>4. session'[s] = p
  BY <1>1 DEF SessionInv, SessionTypeOK
<1>5. p.type # "none" /\ p.stage # "posted" /\ (p.open => r.open)
  <2>1. r.type # "none"
    BY <1>1, TransferTypesAssumption DEF Running
  <2>2. Stop(r) \in SessionRecord /\ Stop(r).type = r.type /\ ~Stop(r).open
    BY StopEffect
  <2> QED
    BY <2>1, <2>2 DEF Released, SessionRecord
<1>6. q \in SessionRecord /\ Consistent(q) /\ q.stage # "free"
  BY HandlerResult DEF SessionInv, SessionTypeOK
<1> HIDE DEF p, q
<1>7. q.stops = (IF q.open THEN 0 ELSE 1)
  BY <1>6 DEF Consistent, Running, Posted, SessionRecord
<1>8. p.stops = (IF p.open THEN 0 ELSE 1) \/ (~p.open /\ p.stops \in 1..2)
  BY <1>2, <1>5 DEF Consistent, Running, Gone, SessionRecord
<1>9. p.open => q.open
  BY <1>1, <1>5
<1>10. p.stops - q.stops \in Nat /\ (q.open /\ ~p.open => p.stops - q.stops >= 1)
  BY <1>7, <1>8, <1>9
<1>11. session' = [session EXCEPT ![s] = p]
  BY <1>1 DEF p
<1>12. Cardinality(OpenSockets') = Cardinality(OpenSockets)
         \/ (q.open /\ ~p.open /\ Cardinality(OpenSockets') = Cardinality(OpenSockets) - 1)
  BY <1>2, <1>9, <1>11, OpenChange DEF q
<1> QED
  BY <1>3, <1>4, <1>10, <1>12, OpenFinite DEF q

-----------------------------------------------------------------------------
(* What a step does to a session, for the properties of steps.             *)

\* The release changes nothing the phase of a session depends on, or ends it.
LEMMA ReleasedEffect ==
  ASSUME NEW x \in SessionRecord
  PROVE  /\ Released(x).type = x.type
         /\ x.io = "done" /\ x.watch = "done" =>
              Released(x).stage = "free" /\ Released(x).io \notin Pending
         /\ ~(x.io = "done" /\ x.watch = "done") =>
              Released(x).stage = "running" /\ Released(x).open = x.open /\ Released(x).io = x.io
              /\ Released(x).stops = x.stops
<1>1. CASE x.io = "done" /\ x.watch = "done"
  <2> DEFINE q == Stop(x)
  <2>1. q \in SessionRecord /\ q.type = x.type /\ q.io \notin Pending
    BY StopEffect
  <2>2. Released(x) = [q EXCEPT !.stage = "free"]
    BY <1>1 DEF Released
  <2> HIDE DEF q
  <2> QED
    BY <1>1, <2>1, <2>2 DEF SessionRecord
<1>2. CASE ~(x.io = "done" /\ x.watch = "done")
  <2>1. Released(x) = [x EXCEPT !.stage = "running"]
    BY <1>2 DEF Released
  <2> QED
    BY <1>2, <2>1 DEF SessionRecord
<1> QED
  BY <1>1, <1>2

\* The direction of the first transfer does not depend on its outcome.
LEMMA SameTransfer ==
  ASSUME NEW r \in SessionRecord, NEW x \in SessionRecord, r.type = x.type,
         \/ r.io = "reading" /\ x.io \in {"read", "readFailed"}
         \/ r.io = "writing" /\ x.io \in {"written", "writeFailed"}
         \/ r.io = x.io
  PROVE  InFirstTransfer(r) <=> InFirstTransfer(x)
  BY DEF InFirstTransfer, ReceivesFirst

\* A step begins a transfer only on a session that is open and stays open, after
\* none or after a successful one, which is read (Receive, Send, IsOpen).
LEMMA StepBegins ==
  ASSUME SessionInv, SessionNext, NEW s \in Sessions, TransferBegins(s)
  PROVE  /\ session[s].stops = 0 /\ session'[s].stops = 0
         /\ session[s].io \in {"none", "read", "written"}
<1> DEFINE r == session[s]
<1>1. r \in SessionRecord /\ Consistent(r) /\ r.io \notin Pending /\ session'[s].io \in Pending
  BY DEF SessionInv, SessionTypeOK, TransferBegins
<1>2. Handler(s)
  <2>1. PICK q \in Sessions :
          \/ \E type \in TransferTypes : MakeSocketSession(q, type)
          \/ Handler(q) \/ Environment(q)
    BY DEF SessionNext
  <2>2. \E x : session' = [session EXCEPT ![q] = x]
    BY <2>1, MakeKeeps, HandlerResult, EnvironmentResult
  <2>3. q = s
    BY <1>1, <2>2 DEF SessionInv, SessionTypeOK
  <2>4. ~ \E type \in TransferTypes : MakeSocketSession(s, type)
    BY <1>1 DEF MakeSocketSession, SessionInv, SessionTypeOK, Pending
  <2>5. ~Environment(s)
    BY <1>1 DEF Environment, TransferCompletes, TransferBreaks, DeadlinePasses, SessionInv,
                SessionTypeOK, SessionRecord
  <2> QED
    BY <2>1, <2>3, <2>4, <2>5
<1>3. PICK x \in SessionRecord :
        Running(x) /\ Effect(r, x) /\ session' = [session EXCEPT ![s] = Released(x)]
  BY <1>2, HandlerResult
<1>4. session'[s] = Released(x)
  BY <1>3 DEF SessionInv, SessionTypeOK
<1> HIDE DEF r
<1>5. x.io \in Pending /\ session'[s].stops = x.stops
  BY <1>1, <1>4, ReleasedEffect
<1>6. x.open /\ x.stops = 0
  BY <1>3, <1>5 DEF Running
<1>7. ~Checked(r, x) /\ ~Failed(r, x)
  BY <1>1, <1>5, <1>6 DEF Checked, Failed, Pending
<1>8. CASE Started(r, x)
  <2>1. Posted(r)
    BY <1>1, <1>8 DEF Started, Consistent
  <2> QED
    BY <1>5, <1>6, <2>1 DEF Posted, r
<1>9. CASE Continued(r, x)
  <2>1. Running(r) /\ r.open
    BY <1>1, <1>6, <1>9 DEF Continued, Consistent
  <2> QED
    BY <1>5, <1>6, <1>9, <2>1 DEF Running, Continued, r
<1> QED
  BY <1>3, <1>7, <1>8, <1>9 DEF Effect

-----------------------------------------------------------------------------
(* Every step is one ConnectionService allows.                             *)

PhaseName == {"free", "accepted", "first", "answered", "failed", "second", "idle", "closed"}

\* The phase of a consistent session.
LEMMA PhaseIs ==
  ASSUME NEW r \in SessionRecord
  PROVE  /\ PhaseOf(r) \in PhaseName
         /\ r.stage = "free" => PhaseOf(r) = "free"
         /\ r.stage = "posted" => PhaseOf(r) = "accepted"
         /\ r.stage = "running" /\ ~r.open => PhaseOf(r) = "closed"
         /\ r.stage = "running" /\ r.open =>
              /\ r.io = "done" => PhaseOf(r) = "idle"
              /\ r.io # "done" /\ ~InFirstTransfer(r) => PhaseOf(r) = "second"
              /\ InFirstTransfer(r) =>
                   /\ r.io \in Pending => PhaseOf(r) = "first"
                   /\ r.io \in {"read", "written"} => PhaseOf(r) = "answered"
                   /\ r.io \in {"readFailed", "writeFailed"} => PhaseOf(r) = "failed"
<1>1. InFirstTransfer(r) => r.io \in Pending \cup Completed
  BY DEF InFirstTransfer, Pending, Completed
<1>2. r.stage = "free" => PhaseOf(r) = "free"
  BY DEF PhaseOf
<1>3. r.stage = "posted" => PhaseOf(r) = "accepted"
  BY DEF PhaseOf
<1>4. r.stage = "running" /\ ~r.open => PhaseOf(r) = "closed"
  BY DEF PhaseOf
<1>5. ASSUME r.stage = "running", r.open
      PROVE  /\ r.io = "done" => PhaseOf(r) = "idle"
             /\ r.io # "done" /\ ~InFirstTransfer(r) => PhaseOf(r) = "second"
             /\ InFirstTransfer(r) =>
                  /\ r.io \in Pending => PhaseOf(r) = "first"
                  /\ r.io \in {"read", "written"} => PhaseOf(r) = "answered"
                  /\ r.io \in {"readFailed", "writeFailed"} => PhaseOf(r) = "failed"
  BY <1>1, <1>5 DEF PhaseOf, Pending, Completed
<1>6. r.stage \in {"free", "posted", "running"}
  BY DEF SessionRecord
<1>7. PhaseOf(r) \in PhaseName
  BY <1>1, <1>2, <1>3, <1>4, <1>5, <1>6 DEF PhaseName, Pending, Completed
<1> QED
  BY <1>2, <1>3, <1>4, <1>5, <1>7

\* The moves of ConnectionService from a phase to another, or none.
Moves(from, to, twoWay) ==
  \/ from = to
  \/ from = "accepted" /\ to = "first"
  \/ from = "first" /\ to \in {"answered", "failed"}
  \/ twoWay /\ from = "answered" /\ to = "second"
  \/ from \in {"answered", "failed", "second"} /\ to = "idle"
  \/ from \in {"first", "answered", "failed", "second", "idle"} /\ to = "closed"
  \/ from \in PhaseName \ {"free", "first"} /\ to = "free"

TwoWay(r) == r.type \in {"HalfDuplexIn", "HalfDuplexOut"}

LEMMA HandlerMoves ==
  ASSUME NEW r \in SessionRecord, Consistent(r),
         NEW x \in SessionRecord, Running(x), Effect(r, x), x.open => r.open
  PROVE  Moves(PhaseOf(r), PhaseOf(Released(x)), TwoWay(r)) /\ Released(x).type = r.type
<1> DEFINE y == Released(x)
<1>1. y \in SessionRecord /\ y.type = r.type /\ x.type = r.type
  BY ReleasedConsistent, ReleasedEffect DEF Effect
<1>2. \/ y.stage = "free" /\ x.io = "done" /\ x.watch = "done"
      \/ y.stage = "running" /\ y.open = x.open /\ y.io = x.io
  BY ReleasedEffect
<1>3. y.io = x.io => (InFirstTransfer(y) <=> InFirstTransfer(x))
  BY <1>1, SameTransfer
<1> HIDE DEF y
<1>4. CASE Started(r, x)
  <2>1. PhaseOf(r) = "accepted"
    BY <1>4, PhaseIs DEF Started
  <2>2. PhaseOf(y) \in {"free", "first"}
    <3>1. CASE y.stage = "free"
      BY <1>1, <3>1, PhaseIs
    <3>2. CASE y.stage = "running" /\ y.open = x.open /\ y.io = x.io /\ x.io # "done"
      BY <1>1, <1>3, <1>4, <3>2, PhaseIs DEF Started
    <3>3. x.io = "done" => y.stage = "free"
      BY <1>4, <1>1, ReleasedEffect DEF Started, Pending, y
    <3> QED
      BY <1>2, <3>1, <3>2, <3>3
  <2> QED
    BY <1>1, <2>1, <2>2 DEF Moves, PhaseName, y
<1>5. CASE Continued(r, x)
  <2>1. CASE ~r.open
    <3>1. PhaseOf(r) = "closed"
      BY <1>5, <2>1, PhaseIs DEF Continued
    <3>2. PhaseOf(y) \in {"free", "closed"}
      BY <1>1, <1>2, <1>5, <2>1, PhaseIs DEF Continued
    <3> QED
      BY <1>1, <3>1, <3>2 DEF Moves, PhaseName, y
  <2>2. CASE r.open
    <3>1. r.stage = "running" /\ r.io # "done"
      BY <1>5 DEF Continued
    <3>2. PhaseOf(r) = IF InFirstTransfer(r) THEN "answered" ELSE "second"
      BY <1>5, <2>2, <3>1, PhaseIs DEF Continued
    <3>3. CASE x.io = "done"
      <4>1. PhaseOf(y) \in {"free", "idle"}
        BY <1>1, <1>2, <1>5, <2>2, <3>3, PhaseIs DEF Continued
      <4> QED
        BY <1>1, <3>2, <4>1 DEF Moves, PhaseName, y
    <3>4. CASE x.io # "done"
      <4>1. x.open /\ ~InFirstTransfer(x) /\ InFirstTransfer(r) /\ TwoWay(r)
        BY <1>5, <3>4 DEF Continued, TwoWay
      <4>2. PhaseOf(y) = "second"
        BY <1>1, <1>2, <1>3, <3>4, <4>1, PhaseIs
      <4> QED
        BY <1>1, <3>2, <4>1, <4>2 DEF Moves, y
    <3> QED
      BY <3>3, <3>4
  <2> QED
    BY <2>1, <2>2
<1>6. CASE Failed(r, x)
  <2>1. PhaseOf(r) \in (IF r.open THEN {"failed", "second"} ELSE {"closed"})
    BY <1>6, PhaseIs DEF Failed
  <2>2. PhaseOf(y) \in (IF r.open THEN {"free", "idle"} ELSE {"free", "closed"})
    BY <1>1, <1>2, <1>6, PhaseIs DEF Failed
  <2> QED
    BY <1>1, <2>1, <2>2 DEF Moves, PhaseName, y
<1>7. CASE Checked(r, x)
  <2>1. r.stage = "running" /\ r.open
    BY <1>7 DEF Checked
  <2>2. CASE x.open
    <3>1. x.io = r.io
      BY <1>7, <2>2 DEF Checked
    <3>2. CASE y.stage = "free"
      <4>1. PhaseOf(r) = "idle" /\ PhaseOf(y) = "free"
        <5>1. x.io = "done"
          BY <1>1, <1>2, <3>2
        <5> QED
          BY <1>1, <2>1, <3>1, <3>2, <5>1, PhaseIs
      <4> QED
        BY <1>1, <4>1 DEF Moves, PhaseName, y
    <3>3. CASE y.stage # "free"
      <4>1. y.stage = "running" /\ y.open /\ y.io = r.io
        BY <1>2, <2>2, <3>1, <3>3
      <4>2. InFirstTransfer(y) <=> InFirstTransfer(r)
        BY <1>1, <4>1, SameTransfer
      <4>3. PhaseOf(y) = PhaseOf(r)
        BY <1>1, <2>1, <4>1, <4>2 DEF PhaseOf
      <4> QED
        BY <1>1, <4>3 DEF Moves, y
    <3> QED
      BY <3>2, <3>3
  <2>3. CASE ~x.open
    <3>1. x.io = Aborted(r.io)
      BY <1>7, <2>3 DEF Checked
    <3>2. CASE y.stage = "free"
      <4>1. r.io = "done"
        <5>1. x.io = "done"
          BY <1>1, <1>2, <3>2
        <5> QED
          BY <3>1, <5>1 DEF Aborted
      <4>2. PhaseOf(r) = "idle" /\ PhaseOf(y) = "free"
        BY <1>1, <2>1, <3>2, <4>1, PhaseIs
      <4> QED
        BY <1>1, <4>2 DEF Moves, PhaseName, y
    <3>3. CASE y.stage # "free"
      <4>1. PhaseOf(y) = "closed"
        BY <1>1, <1>2, <2>3, <3>3, PhaseIs
      <4>2. Running(r)
        BY <2>1 DEF Consistent
      <4>3. PhaseOf(r) \in {"first", "answered", "failed", "second", "idle"}
        <5>1. r.io \in {"done"} \cup Pending \cup Completed
          BY <4>2 DEF Running, SessionRecord
        <5> QED
          BY <2>1, <5>1, PhaseIs DEF Completed
      <4> QED
        BY <1>1, <4>1, <4>3 DEF Moves, y
    <3> QED
      BY <3>2, <3>3
  <2> QED
    BY <2>2, <2>3
<1> QED
  BY <1>4, <1>5, <1>6, <1>7 DEF Effect

LEMMA EnvironmentMoves ==
  ASSUME SessionInv, NEW s \in Sessions, Environment(s)
  PROVE  \E x \in SessionRecord :
           /\ session' = [session EXCEPT ![s] = x]
           /\ Moves(PhaseOf(session[s]), PhaseOf(x), TwoWay(session[s]))
           /\ x.type = session[s].type
<1> DEFINE r == session[s]
<1>1. r \in SessionRecord /\ Consistent(r)
  BY DEF SessionInv, SessionTypeOK
<1> HIDE DEF r
<1>2. CASE TransferCompletes(s) \/ TransferBreaks(s)
  <2>1. r.io \in Pending
    BY <1>2 DEF TransferCompletes, TransferBreaks, r
  <2>2. r.stage = "running" /\ r.open
    BY <1>1, <2>1 DEF Consistent, Gone, Posted, Running, Pending, SessionRecord
  <2>3. PICK io \in Completed :
          /\ session' = [session EXCEPT ![s].io = io]
          /\ r.io = "reading" => io \in {"read", "readFailed"}
          /\ r.io = "writing" => io \in {"written", "writeFailed"}
    BY <1>2, <2>1 DEF TransferCompletes, TransferBreaks, Aborted, Completed, Pending, r
  <2> DEFINE x == [r EXCEPT !.io = io]
  <2>4. session' = [session EXCEPT ![s] = x]
    BY <2>3 DEF r
  <2>5. /\ x \in SessionRecord /\ x.open = r.open /\ x.stage = r.stage /\ x.type = r.type
        /\ x.io = io
    BY <1>1 DEF SessionRecord
  <2> HIDE DEF x
  <2>6. InFirstTransfer(r) <=> InFirstTransfer(x)
    BY <1>1, <2>1, <2>3, <2>5, SameTransfer DEF Pending
  <2>7. PhaseOf(r) = IF InFirstTransfer(r) THEN "first" ELSE "second"
    <3>1. r.io # "done"
      BY <2>1 DEF Pending
    <3> QED
      BY <1>1, <2>1, <2>2, <3>1, PhaseIs
  <2>8. PhaseOf(x) \in (IF InFirstTransfer(r) THEN {"answered", "failed"} ELSE {"second"})
    <3>1. x.io # "done" /\ x.io \in {"read", "written", "readFailed", "writeFailed"}
      BY <2>3, <2>5 DEF Completed
    <3> QED
      BY <2>2, <2>5, <2>6, <3>1, PhaseIs
  <2>9. Moves(PhaseOf(r), PhaseOf(x), TwoWay(r))
    BY <2>7, <2>8 DEF Moves
  <2> QED
    BY <2>4, <2>5, <2>9 DEF r
<1>3. CASE DeadlinePasses(s)
  <2> DEFINE w == IF r.watch = "waiting" THEN "fired" ELSE r.watch
             x == [r EXCEPT !.timer = "due", !.watch = w]
  <2>1. session' = [session EXCEPT ![s] = x]
    BY <1>3 DEF DeadlinePasses, r
  <2>2. w \in {"none", "waiting", "fired", "cancelled", "done"}
    BY <1>1 DEF SessionRecord
  <2> HIDE DEF w
  <2>3. /\ x \in SessionRecord /\ x.open = r.open /\ x.stage = r.stage /\ x.type = r.type
        /\ x.io = r.io
    BY <1>1, <2>2 DEF SessionRecord
  <2> HIDE DEF x
  <2>4. InFirstTransfer(r) <=> InFirstTransfer(x)
    BY <1>1, <2>3, SameTransfer
  <2>5. PhaseOf(x) = PhaseOf(r)
    BY <2>3, <2>4 DEF PhaseOf
  <2>6. Moves(PhaseOf(r), PhaseOf(x), TwoWay(r))
    BY <2>5 DEF Moves
  <2> QED
    BY <2>1, <2>3, <2>6 DEF r
<1> QED
  BY <1>2, <1>3 DEF Environment

\* A step that moves one session is a step of ConnectionService or leaves its
\* variables alone.
LEMMA MovesAllowed ==
  ASSUME SessionInv, NEW s \in Sessions, NEW x \in SessionRecord,
         session' = [session EXCEPT ![s] = x],
         Moves(PhaseOf(session[s]), PhaseOf(x), TwoWay(session[s])),
         x.type = session[s].type
  PROVE  [Promise!Next]_(Promise!vars)
<1> DEFINE phase == [q \in Sessions |-> PhaseOf(session[q])]
           twoWay == [q \in Sessions |-> session[q].type \in {"HalfDuplexIn", "HalfDuplexOut"}]
           from == PhaseOf(session[s])
           to == PhaseOf(x)
<1>1. session'[s] = x /\ \A q \in Sessions \ {s} : session'[q] = session[q]
  BY DEF SessionInv, SessionTypeOK
<1>2. phase' = [phase EXCEPT ![s] = to]
  <2>1. \A q \in Sessions : PhaseOf(session'[q]) = IF q = s THEN to ELSE PhaseOf(session[q])
    BY <1>1
  <2>2. phase' = [q \in Sessions |-> PhaseOf(session'[q])]
    OBVIOUS
  <2> HIDE DEF to
  <2> QED
    BY <2>1, <2>2
<1>3. twoWay' = twoWay
  BY <1>1
<1>4. phase[s] = from /\ twoWay[s] = TwoWay(session[s])
  BY DEF TwoWay
<1> HIDE DEF phase, twoWay, from, to
<1>5. CASE from = to
  <2>1. phase' = phase
    BY <1>2, <1>4, <1>5 DEF phase
  <2> QED
    BY <1>3, <2>1 DEF Promise!vars, phase, twoWay
<1>6. CASE from # to
  <2>1. \/ from = "accepted" /\ to = "first"
        \/ from = "first" /\ to \in {"answered", "failed"}
        \/ twoWay[s] /\ from = "answered" /\ to = "second"
        \/ from \in {"answered", "failed", "second"} /\ to = "idle"
        \/ from \in {"first", "answered", "failed", "second", "idle"} /\ to = "closed"
        \/ from \in PhaseName \ {"free", "first"} /\ to = "free"
    BY <1>4, <1>6 DEF Moves, from, to
  <2>2. \A F, T : from \in F /\ to \in T => Promise!Move(s, F, T)
    BY <1>2, <1>3, <1>4 DEF Promise!Move, phase, twoWay
  <2>3. from = "accepted" /\ to = "first" => Promise!Begin(s)
    BY <2>2 DEF Promise!Begin
  <2>4. from = "first" /\ to \in {"answered", "failed"} => Promise!Answer(s)
    BY <2>2 DEF Promise!Answer
  <2>5. twoWay[s] /\ from = "answered" /\ to = "second" => Promise!Continue(s)
    BY <2>2 DEF Promise!Continue, twoWay
  <2>6. from \in {"answered", "failed", "second"} /\ to = "idle" => Promise!Finish(s)
    BY <2>2 DEF Promise!Finish
  <2>7. from \in {"first", "answered", "failed", "second", "idle"} /\ to = "closed" =>
          Promise!Close(s)
    BY <2>2 DEF Promise!Close, Promise!Open, Promise!Phases
  <2>8. from \in PhaseName \ {"free", "first"} /\ to = "free" => Promise!Release(s)
    BY <2>2 DEF Promise!Release, Promise!Phases, PhaseName
  <2> QED
    BY <2>1, <2>3, <2>4, <2>5, <2>6, <2>7, <2>8 DEF Promise!Next
<1> QED
  BY <1>5, <1>6

\* MakeSocketSession accepts a connection.
LEMMA MakeAccepts ==
  ASSUME SessionInv, NEW s \in Sessions, NEW type \in TransferTypes, MakeSocketSession(s, type)
  PROVE  Promise!Next
<1> DEFINE phase == [q \in Sessions |-> PhaseOf(session[q])]
           twoWay == [q \in Sessions |-> session[q].type \in {"HalfDuplexIn", "HalfDuplexOut"}]
<1>1. PICK x \in SessionRecord :
        session' = [session EXCEPT ![s] = x] /\ x.stage = "posted"
  BY MakeKeeps DEF Consistent
<1>2. session'[s] = x /\ \A q \in Sessions \ {s} : session'[q] = session[q]
  BY <1>1 DEF SessionInv, SessionTypeOK
<1>3. phase[s] = "free"
  <2>1. session[s] \in SessionRecord /\ session[s].stage = "free"
    BY DEF SessionInv, SessionTypeOK, MakeSocketSession
  <2> QED
    BY <2>1, PhaseIs
<1>4. phase' = [phase EXCEPT ![s] = "accepted"]
  <2>1. \A q \in Sessions :
          PhaseOf(session'[q]) = IF q = s THEN "accepted" ELSE PhaseOf(session[q])
    BY <1>1, <1>2, PhaseIs
  <2>2. phase' = [q \in Sessions |-> PhaseOf(session'[q])]
    OBVIOUS
  <2> QED
    BY <2>1, <2>2
<1>5. \E b \in BOOLEAN : twoWay' = [twoWay EXCEPT ![s] = b]
  <2> DEFINE b == x.type \in {"HalfDuplexIn", "HalfDuplexOut"}
  <2>1. twoWay' = [twoWay EXCEPT ![s] = b]
    BY <1>2
  <2>2. b \in BOOLEAN
    OBVIOUS
  <2> HIDE DEF b, twoWay
  <2> QED
    BY <2>1, <2>2
<1> QED
  BY <1>3, <1>4, <1>5 DEF Promise!Next, Promise!Accept

LEMMA StepAllowed ==
  ASSUME SessionInv, [SessionNext]_session
  PROVE  [Promise!Next]_(Promise!vars)
<1>1. CASE UNCHANGED session
  BY <1>1 DEF Promise!vars
<1>2. ASSUME NEW s \in Sessions, NEW type \in TransferTypes, MakeSocketSession(s, type)
      PROVE  [Promise!Next]_(Promise!vars)
  BY <1>2, MakeAccepts
<1>3. ASSUME NEW s \in Sessions, Handler(s)
      PROVE  [Promise!Next]_(Promise!vars)
  <2>1. session[s] \in SessionRecord /\ Consistent(session[s])
    BY DEF SessionInv, SessionTypeOK
  <2>2. PICK x \in SessionRecord :
          /\ Running(x) /\ (x.open => session[s].open) /\ Effect(session[s], x)
          /\ session' = [session EXCEPT ![s] = Released(x)]
    BY <1>3, HandlerResult
  <2>3. Released(x) \in SessionRecord
    BY <2>2, ReleasedConsistent
  <2>4. Moves(PhaseOf(session[s]), PhaseOf(Released(x)), TwoWay(session[s]))
        /\ Released(x).type = session[s].type
    BY <2>1, <2>2, HandlerMoves
  <2> QED
    BY <2>2, <2>3, <2>4, MovesAllowed
<1>4. ASSUME NEW s \in Sessions, Environment(s)
      PROVE  [Promise!Next]_(Promise!vars)
  BY <1>4, EnvironmentMoves, MovesAllowed
<1> QED
  BY <1>1, <1>2, <1>3, <1>4 DEF SessionNext

-----------------------------------------------------------------------------
(* The properties one by one.                                              *)

\* The record of every session stays one of the states the code can be in.
THEOREM SessionTypes == SessionSpec => []SessionTypeOK
  BY SessionSafety, PTL

\* A stopped session has no coroutine that is suspended (Stop, Receive, Send).
THEOREM StoppedDrains == SessionSpec => []StoppedSessionDrains
  BY SessionSafety, PTL

\* A first transfer pends under its deadline only (Start, CheckTimeout).
THEOREM FirstIsWatched == SessionSpec => []FirstTransferIsWatched
  BY SessionSafety, PTL

\* m_AfterStop has run once for a stopped session, once or twice for one that is gone.
THEOREM AfterStopCounted == SessionSpec => []AfterStopRuns
  BY SessionSafety, PTL

\* No transfer begins on a stopped session or beside another one (Receive, Send).
THEOREM TransfersAlternate == SessionSpec => OneTransferAtATime
<1>1. SessionInv /\ [SessionNext]_session =>
        [ \A s \in Sessions : TransferBegins(s) =>
            /\ session[s].stops = 0
            /\ session'[s].stops = 0
            /\ session[s].io \in {"none", "read", "written"} ]_session
  BY StepBegins
<1> QED
  BY <1>1, SessionInvariant, PTL DEF OneTransferAtATime, SessionSpec

\* The session with its timers, coroutines and ownership serves a connection as
\* ConnectionService allows, for any number of sessions and any modes.
THEOREM SessionServes == SessionSpec => ServesConnection
<1>1. SessionInit => Promise!Init
  <2> SUFFICES ASSUME SessionInit PROVE Promise!Init
    OBVIOUS
  <2>1. \A s \in Sessions : PhaseOf(session[s]) = "free"
    BY DEF SessionInit, NoSession, PhaseOf
  <2>2. \A s \in Sessions : (session[s].type \in {"HalfDuplexIn", "HalfDuplexOut"}) = FALSE
    <3>1. ("none" \in {"HalfDuplexIn", "HalfDuplexOut"}) = FALSE
      OBVIOUS
    <3>2. ASSUME NEW s \in Sessions PROVE session[s].type = "none"
      BY DEF SessionInit, NoSession
    <3> QED
      BY <3>1, <3>2, Zenon
  <2> QED
    BY <2>1, <2>2 DEF Promise!Init
<1>2. SessionInv /\ [SessionNext]_session => [Promise!Next]_(Promise!vars)
  BY StepAllowed
<1> QED
  BY <1>1, <1>2, SessionInvariant, PTL DEF ServesConnection, SessionSpec, Promise!Spec
=============================================================================
