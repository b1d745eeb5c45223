-------------------------- MODULE ConnectionService --------------------------
(***************************************************************************)
(* What a session of include/asio/AsioSocketSession.h promises about one   *)
(* connection, without timers, coroutines or ownership: at most one        *)
(* transfer in each direction, the second only when the first succeeded    *)
(* and only in a two-way mode, no transfer on a closed connection, and no  *)
(* way back from closed.  It says nothing of how long a step may take.     *)
(***************************************************************************)
CONSTANT Sessions

VARIABLES
  phase,    \* phase[s] of the connection of s
  twoWay    \* twoWay[s]: the mode has a second transfer

vars == <<phase, twoWay>>

Phases == {"free", "accepted", "first", "answered", "failed", "second", "idle", "closed"}
Open == Phases \ {"free", "closed"}

TypeOK ==
  /\ phase \in [Sessions -> Phases]
  /\ twoWay \in [Sessions -> BOOLEAN]

Init ==
  /\ phase = [s \in Sessions |-> "free"]
  /\ twoWay = [s \in Sessions |-> FALSE]

Move(s, from, to) ==
  /\ phase[s] \in from
  /\ \E p \in to : phase' = [phase EXCEPT ![s] = p]
  /\ UNCHANGED twoWay

Accept(s) ==
  /\ phase[s] = "free"
  /\ phase' = [phase EXCEPT ![s] = "accepted"]
  /\ \E b \in BOOLEAN : twoWay' = [twoWay EXCEPT ![s] = b]

Begin(s) == Move(s, {"accepted"}, {"first"})
Answer(s) == Move(s, {"first"}, {"answered", "failed"})
Continue(s) == twoWay[s] /\ Move(s, {"answered"}, {"second"})
Finish(s) == Move(s, {"answered", "failed", "second"}, {"idle"})
Close(s) == Move(s, Open \ {"accepted"}, {"closed"})
Release(s) == Move(s, Phases \ {"free", "first"}, {"free"})

Next ==
  \E s \in Sessions :
    \/ Accept(s) \/ Begin(s) \/ Answer(s) \/ Continue(s)
    \/ Finish(s) \/ Close(s) \/ Release(s)

Spec == Init /\ [][Next]_vars
=============================================================================
