--------------------------- MODULE ClientServerBase ---------------------------
(***************************************************************************)
(* The count of served sockets that include/asio/ClientServerBase.h keeps  *)
(* for a server or a client, and the callbacks that lower it.  Stop of a   *)
(* session runs its m_AfterStop on a std::async thread and waits for it in *)
(* the destructor of the future, so the service thread stands still while  *)
(* a callback it owes has not ended; the threads that call Start and Stop  *)
(* of the service do not.                                                  *)
(***************************************************************************)
EXTENDS Integers

CONSTANT SocketsLimit   \* m_SocketsLimit

ASSUME SocketsLimitAssumption == SocketsLimit \in Nat \ {0}

VARIABLES
  socketsCount,   \* m_SocketsCount
  owed,           \* runs of m_AfterStop the current handler has to wait for
  dec             \* DecSocketsCount: its next step and the value to be stored

countVars == <<socketsCount, owed, dec>>

NoDec == [pc |-> "test", value |-> 0]

CountTypeOK ==
  /\ socketsCount \in Int
  /\ owed \in Nat
  /\ dec \in [pc : {"test", "read", "store"}, value : Int]

CountInit ==
  /\ socketsCount = 0
  /\ owed = 0
  /\ dec = NoDec

\* No callback is on its way: the service thread may take the next handler.
ServiceThreadFree == owed = 0

SocketsValid == socketsCount < SocketsLimit

IncSocketsCount == socketsCount' = socketsCount + 1

SetSocketsCount(n) ==
  /\ socketsCount' = n
  /\ UNCHANGED <<owed, dec>>

\* A handler stopped a session k times.
RunAfterStop(k) ==
  /\ owed' = owed + k
  /\ UNCHANGED <<socketsCount, dec>>

-----------------------------------------------------------------------------
(* DecSocketsCount loads the atomic in its test, loads it again for the    *)
(* difference, and stores the result.                                      *)

\* A decrement that does not ask whether the count is above zero.
DecWithoutTest ==
  /\ owed > 0 /\ dec.pc = "test"
  /\ dec' = [dec EXCEPT !.pc = "read"]
  /\ UNCHANGED <<socketsCount, owed>>

\* A callback that posts the decrement to the service, whose thread waits for it.
DecTestPosted ==
  /\ ServiceThreadFree
  /\ owed > 0 /\ dec.pc = "test"
  /\ dec' = IF socketsCount > 0 THEN [dec EXCEPT !.pc = "read"]
                                ELSE [pc |-> "store", value |-> 0]
  /\ UNCHANGED <<socketsCount, owed>>

DecTest ==
  /\ owed > 0 /\ dec.pc = "test"
  /\ dec' = IF socketsCount > 0 THEN [dec EXCEPT !.pc = "read"]
                                ELSE [pc |-> "store", value |-> 0]
  /\ UNCHANGED <<socketsCount, owed>>

DecRead ==
  /\ dec.pc = "read"
  /\ dec' = [pc |-> "store", value |-> socketsCount - 1]
  /\ UNCHANGED <<socketsCount, owed>>

DecStore ==
  /\ dec.pc = "store"
  /\ socketsCount' = dec.value
  /\ owed' = owed - 1
  /\ dec' = NoDec

DecSocketsCount == DecTest \/ DecRead \/ DecStore
=============================================================================
