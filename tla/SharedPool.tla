------------------------------ MODULE SharedPool ------------------------------
(***************************************************************************)
(* include/core/utils/SharedPool.h: maps from keys to shared pointers. An  *)
(* element lives as long as a pool or the application points to it.  The   *)
(* null pointer is inserted like any other, under the key zero.  The       *)
(* status belongs to SharedInfo, of which the repository has the header    *)
(* only: SetStatus stores, and nothing else is taken from it.              *)
(***************************************************************************)
EXTENDS Naturals, FiniteSets

CONSTANTS
  Pools,        \* identities of the pools
  Elements,     \* addresses of elements, used again after destruction
  Numbers,      \* what a key allocator may answer
  MaxSize       \* m_MaxSize

Null == "null"

ASSUME SharedPoolAssumption ==
  Numbers \cap Elements = {} /\ Null \notin Elements \cup Numbers /\ MaxSize \in Nat

VARIABLES
  m_Pool,      \* [Pools -> a function from keys to elements]
  allocator,   \* [Pools -> whether m_KeyAllocator is set]
  m_Status,    \* [Pools -> the status set last]
  held         \* the elements the application points to

poolVars == <<m_Pool, allocator, m_Status, held>>

Held(pool) == { pool[k] : k \in DOMAIN pool }
Referenced == held \cup UNION { Held(m_Pool[p]) : p \in Pools }

NoElements == [k \in {} |-> Null]

PoolInit ==
  /\ m_Pool = [p \in Pools |-> NoElements]
  /\ allocator \in [Pools -> BOOLEAN]
  /\ m_Status = [p \in Pools |-> "Ok"]
  /\ held = {}

-----------------------------------------------------------------------------
(* Insert.                                                                 *)

\* Without an allocator an element is kept under its address, which for null is zero.
Keys(p, e) == IF allocator[p] THEN Numbers ELSE {e}

\* An insertion that puts the new element in the place of the one that is there.
InsertReplaces(pool, key, e) ==
  [k \in DOMAIN pool \cup {key} |-> IF k = key THEN e ELSE pool[k]]

\* An element that is there already stays.
Inserted(pool, key, e) ==
  IF key \in DOMAIN pool THEN pool
  ELSE [k \in DOMAIN pool \cup {key} |-> IF k = key THEN e ELSE pool[k]]

\* There is no room for another element.
Full(p) == Cardinality(DOMAIN m_Pool[p]) + 1 > MaxSize

\* Every element that is not null is an invalid argument, and a pool at its limit
\* has an overflow, until the element is in, in spite of both.  For null below the
\* limit nothing is set when it does not go in.
StatusAfter(p, key, e) ==
  IF key \notin DOMAIN m_Pool[p] THEN "Ok"
  ELSE IF Full(p) THEN "Overflow"
  ELSE IF e # Null THEN "InvalidArgument" ELSE m_Status[p]

\* Insert of an element, with what the application keeps of the answer: null, a new
\* element for Make, which constructs it, or one the application hands over.  If the
\* key is taken the caller gets what is there; the element is not moved from then,
\* so a new one is destroyed and one handed over stays with the application.
Insert(p, e, keeps) ==
  \E key \in Keys(p, e) :
    LET pool == Inserted(m_Pool[p], key, e) IN
    /\ m_Pool' = [m_Pool EXCEPT ![p] = pool]
    /\ m_Status' = [m_Status EXCEPT ![p] = StatusAfter(p, key, e)]
    /\ held' = (IF key \in DOMAIN m_Pool[p] THEN held ELSE held \ {e})
                 \cup (IF keeps THEN {pool[key]} \ {Null} ELSE {})
    /\ UNCHANGED allocator

-----------------------------------------------------------------------------
(* Taking elements out.                                                    *)

Without(pool, key) == [k \in DOMAIN pool \ {key} |-> pool[k]]

\* Erase by the key; destroy only says whether the pointer is reset before.
EraseKey(p, key) ==
  /\ m_Pool' = [m_Pool EXCEPT ![p] = Without(@, key)]
  /\ UNCHANGED <<allocator, m_Status, held>>

\* Erase by a pointer takes the address for the key.
EraseElement(p, e) == EraseKey(p, e)

Clear(p) ==
  /\ m_Pool' = [m_Pool EXCEPT ![p] = NoElements]
  /\ UNCHANGED <<allocator, m_Status, held>>

\* ResetAll lets go of the elements and keeps their keys.
ResetAll(p) ==
  /\ m_Pool' = [m_Pool EXCEPT ![p] = [k \in DOMAIN @ |-> Null]]
  /\ UNCHANGED <<allocator, m_Status, held>>

\* The move assignment swaps the elements; each pool keeps its own allocator.
Move(p, q) ==
  /\ m_Pool' = [m_Pool EXCEPT ![p] = m_Pool[q], ![q] = m_Pool[p]]
  /\ UNCHANGED <<allocator, m_Status, held>>

\* The application lets go of an element.
Release(e) ==
  /\ e \in held
  /\ held' = held \ {e}
  /\ UNCHANGED <<m_Pool, allocator, m_Status>>

PoolNext ==
  \/ \E p \in Pools, e \in Elements \cup {Null}, keeps \in BOOLEAN :
       (e \notin Referenced \/ e \in held \/ e = Null) /\ Insert(p, e, keeps)
  \/ \E p \in Pools : Clear(p) \/ ResetAll(p)
  \/ \E p \in Pools : \E key \in Numbers : EraseKey(p, key)
  \/ \E p \in Pools, e \in Elements \cup {Null} : EraseElement(p, e)
  \/ \E p, q \in Pools : p # q /\ Move(p, q)
  \/ \E e \in held : Release(e)

PoolSpec == PoolInit /\ [][PoolNext]_poolVars

-----------------------------------------------------------------------------
(* Properties.                                                             *)

\* An insertion never takes an element out of a pool nor away from an application
\* that is refused, and an assignment never destroys one that only a pool points to
\* (Insert, operator=).
NothingDropped ==
  [][ \A p \in Pools :
        /\ \A e \in Elements \cup {Null}, keeps \in BOOLEAN :
             Insert(p, e, keeps) => /\ Held(m_Pool[p]) \subseteq Held(m_Pool'[p])
                                    /\ e \in held => e \in Referenced'
        /\ \A q \in Pools \ {p} : Move(p, q) => Referenced' = Referenced ]_poolVars

\* An insertion that succeeds leaves the status Ok, and one that does not leaves an
\* error, unless null was inserted below the limit: then nothing is set, and the Ok
\* of an earlier insertion stays.  Otherwise the error set first is what tells a
\* caller that its key was taken (Insert).
StatusTellsInsertion ==
  [][ \A p \in Pools, e \in Elements \cup {Null}, keeps \in BOOLEAN :
        Insert(p, e, keeps) =>
          IF DOMAIN m_Pool'[p] # DOMAIN m_Pool[p] THEN m_Status'[p] = "Ok"
          ELSE \/ m_Status'[p] # "Ok"
               \/ e = Null /\ ~Full(p) /\ m_Status'[p] = m_Status[p] ]_poolVars

\* Both at once: what a pool is given stays until it is taken out, and the status
\* tells of it as far as it is set at all (Insert, operator=).
PoolKeeps == NothingDropped /\ StatusTellsInsertion
=============================================================================
