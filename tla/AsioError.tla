------------------------------ MODULE AsioError ------------------------------
(***************************************************************************)
(* include/asio/AsioError.h, tools/asio/src/AsioError.cpp: cells with an   *)
(* error code and a table of callbacks.  A cell has no lock, and the       *)
(* threads of a program share that of AsioService.  A callback runs in a   *)
(* thread of its own (std::async); the future it leaves is destroyed at    *)
(* once, so whoever set the code waits for the callback to return.  The    *)
(* callbacks of the model set no code themselves.                          *)
(***************************************************************************)
EXTENDS Naturals

CONSTANTS
  Cells,      \* identities of AsioError objects
  Codes,      \* error codes other than success
  Setters     \* the threads that set codes

VARIABLES
  cell,       \* [Cells -> [code, table]]: m_ErrorCode, and the codes m_Callbacks holds
  setter,     \* [Setters -> [at, cell, code]]: where the thread is, and its argument
  running     \* the callbacks that run: [setter, key, argument]

errorVars == <<cell, setter, running>>

success == "success"

Idle == [at |-> "idle", cell |-> "none", code |-> success]

ErrorInit ==
  /\ cell = [c \in Cells |-> [code |-> success, table |-> {}]]
  /\ setter = [t \in Setters |-> Idle]
  /\ running = {}

\* The table is a map without a lock: the program changes it while no thread sets.
Quiet(c) == \A t \in Setters : setter[t].cell # c

SetErrorCallback(c, code) ==
  /\ Quiet(c)
  /\ cell' = [cell EXCEPT ![c].table = @ \cup {code}]
  /\ UNCHANGED <<setter, running>>

\* Erase of one callback, and ClearCallbacks.
EraseCallbacks(c, codes) ==
  /\ Quiet(c)
  /\ cell' = [cell EXCEPT ![c].table = @ \ codes]
  /\ UNCHANGED <<setter, running>>

\* SetErrorCode stores the code and goes on to Execute.
SetCode(t, c, code) ==
  /\ setter[t].at = "idle"
  /\ cell' = [cell EXCEPT ![c].code = code]
  /\ setter' = [setter EXCEPT ![t] = [at |-> "execute", cell |-> c, code |-> code]]
  /\ UNCHANGED running

\* An Execute that gives the callback what is in the cell.
ExecuteCell(t) ==
  LET s == setter[t] IN
  /\ s.at = "execute"
  /\ IF s.code \in cell[s.cell].table
       THEN /\ running' = running \cup {[setter |-> t, key |-> s.code, argument |-> cell[s.cell].code]}
            /\ setter' = [setter EXCEPT ![t].at = "waits"]
       ELSE UNCHANGED running /\ setter' = [setter EXCEPT ![t] = Idle]
  /\ UNCHANGED cell

\* Execute starts the callback of its argument, if there is one.
Execute(t) ==
  LET s == setter[t] IN
  /\ s.at = "execute"
  /\ IF s.code \in cell[s.cell].table
       THEN /\ running' = running \cup {[setter |-> t, key |-> s.code, argument |-> s.code]}
            /\ setter' = [setter EXCEPT ![t].at = "waits"]
       ELSE UNCHANGED running /\ setter' = [setter EXCEPT ![t] = Idle]
  /\ UNCHANGED cell

CallbackReturns(call) ==
  /\ call \in running
  /\ running' = running \ {call}
  /\ UNCHANGED <<cell, setter>>

\* The destructor of the future returns behind the callback, whatever wait_for(0)
\* has answered.
FutureDestroyed(t) ==
  /\ setter[t].at = "waits"
  /\ \A call \in running : call.setter # t
  /\ setter' = [setter EXCEPT ![t] = Idle]
  /\ UNCHANGED <<cell, running>>

\* The copy takes the table and sets the code, which runs its callback again.
Copy(t, c, d) ==
  /\ setter[t].at = "idle" /\ Quiet(c) /\ Quiet(d)
  /\ cell' = [cell EXCEPT ![c] = cell[d]]
  /\ setter' = [setter EXCEPT ![t] = [at |-> "execute", cell |-> c, code |-> cell[d].code]]
  /\ UNCHANGED running

\* The move swaps the tables, sets the code, and clears that of its source; the
\* source is not read again before Execute has returned.
MoveCell(t, c, d) ==
  /\ setter[t].at = "idle" /\ Quiet(c) /\ Quiet(d)
  /\ cell' = [cell EXCEPT ![c] = [code |-> cell[d].code, table |-> cell[d].table],
                          ![d] = [code |-> success, table |-> cell[c].table]]
  /\ setter' = [setter EXCEPT ![t] = [at |-> "execute", cell |-> c, code |-> cell[d].code]]
  /\ UNCHANGED running

ErrorNext ==
  \/ \E c \in Cells : \E code \in Codes \cup {success} : SetErrorCallback(c, code)
  \/ \E c \in Cells : \E codes \in {{code} : code \in Codes} \cup {Codes \cup {success}} :
       EraseCallbacks(c, codes)
  \/ \E t \in Setters :
       \/ \E c \in Cells : \E code \in Codes \cup {success} : SetCode(t, c, code)
       \/ Execute(t) \/ FutureDestroyed(t)
       \/ \E c, d \in Cells : c # d /\ (Copy(t, c, d) \/ MoveCell(t, c, d))
  \/ \E call \in running : CallbackReturns(call)

ErrorSpec == ErrorInit /\ [][ErrorNext]_errorVars

-----------------------------------------------------------------------------
(* Properties.                                                             *)

\* A callback is given the code it was registered for, also when another thread
\* has set the shared cell between its setter's two steps (SetErrorCode, Execute).
CallbackGetsItsCode == \A call \in running : call.argument = call.key

\* No callback outlives the call that started it, and no thread has two: the
\* objects callbacks are bound to by reference are still there (Execute).
CallbackIsAwaited ==
  /\ \A call \in running : setter[call.setter].at = "waits" /\ setter[call.setter].code = call.key
  /\ \A one, other \in running : one.setter = other.setter => one = other

\* The callbacks of an error are answered for: each gets its own code, and its
\* setter waits for it (SetErrorCode, Execute).
CallbacksAreSafe == CallbackGetsItsCode /\ CallbackIsAwaited
=============================================================================
