---------------------------- MODULE InotifyManager ----------------------------
(***************************************************************************)
(* tools/core/watchers/src/InotifyManager.cpp: a run asks libinotifytools  *)
(* to watch every path that has an action, and hands it over to the run    *)
(* handler, which gives the events to the actions.  Whether a path could   *)
(* be watched is not asked: only errno is, and of many paths it tells the  *)
(* last.                                                                   *)
(***************************************************************************)
EXTENDS Naturals, Sequences

CONSTANTS
  Watchable,    \* the paths the application watches, in the order of the map: a sequence
  MaxRuns   \* bound: calls of Run

ASSUME InotifyAssumption ==
  /\ Watchable \in Seq({Watchable[i] : i \in DOMAIN Watchable}) /\ Watchable # <<>>
  /\ MaxRuns \in Nat

VARIABLES
  manager,   \* the InotifyManager: see NewManager
  library,   \* libinotifytools: the paths watched and its error
  told,      \* history: the codes m_OnError was called with in the last Run
  runs       \* history: calls of Run

inotifyVars == <<manager, library, told, runs>>

\* Codes of errno: no error, one of the library, and those of the manager.
NoError == "0"
EINVAL == "EINVAL"
EUCLEAN == "EUCLEAN"
LibraryError == "ENOENT"

\* m_Actions as the paths that have one (todo are those Init has not come to), the
\* arguments of Run as whether they are empty, retval and errno of Init.
NewManager ==
  [ at |-> "idle", actions |-> <<>>, todo |-> <<>>, excluded |-> FALSE, regex |-> FALSE,
    retval |-> TRUE, errno |-> NoError, started |-> FALSE ]

InotifyInit ==
  /\ manager = NewManager
  /\ library = [watched |-> {}, error |-> NoError]
  /\ told = <<>> /\ runs = 0

\* What a call that succeeds makes of the library's error, and one that fails.
AfterSuccess == {NoError, library.error}
AfterFailure == {LibraryError}

-----------------------------------------------------------------------------
(* Run and Init.  The run handler and the error handler are set.           *)

RunOver(actions, excluded, regex) ==
  /\ manager.at = "idle" /\ runs < MaxRuns
  /\ manager' = [NewManager EXCEPT !.at = "init", !.actions = actions, !.todo = actions,
                                   !.excluded = excluded, !.regex = regex]
  /\ runs' = runs + 1 /\ told' = <<>>
  /\ UNCHANGED library

\* Without a path, watched or excluded, there is nothing to initialise.
InitRefuses ==
  /\ manager.at = "init" /\ manager.actions = <<>> /\ ~manager.excluded
  /\ manager' = [manager EXCEPT !.at = "result", !.retval = FALSE, !.errno = EINVAL]
  /\ UNCHANGED <<library, told, runs>>

\* inotifytools_initialize, and the error it leaves.
InitBegins ==
  /\ manager.at = "init" /\ (manager.actions # <<>> \/ manager.excluded)
  /\ \E ok \in BOOLEAN : \E error \in IF ok THEN {NoError} ELSE AfterFailure :
       /\ library' = [library EXCEPT !.error = error]
       /\ manager' = [manager EXCEPT !.at = IF ok THEN "watch" ELSE "result",
                                     !.retval = ok, !.errno = error]
  /\ UNCHANGED <<told, runs>>

\* inotifytools_watch_recursively for the next path: its own answer is dropped.
Watches ==
  /\ manager.at = "watch" /\ manager.todo # <<>>
  /\ \E watches \in BOOLEAN : \E error \in IF watches THEN AfterSuccess ELSE AfterFailure :
       /\ library' = [ watched |-> library.watched \cup (IF watches THEN {Head(manager.todo)} ELSE {}),
                       error   |-> error ]
       /\ manager' = [manager EXCEPT !.at = IF manager.regex THEN "regex" ELSE "watch",
                                     !.todo = Tail(@), !.errno = error]
  /\ UNCHANGED <<told, runs>>

\* The expression of the events to leave out, again for every path; one that fails
\* ends the watching.
Ignores ==
  /\ manager.at = "regex"
  /\ \E ok \in BOOLEAN : \E error \in IF ok THEN AfterSuccess ELSE AfterFailure :
       /\ library' = [library EXCEPT !.error = error]
       /\ manager' = [manager EXCEPT !.at = IF ok THEN "watch" ELSE "result",
                                     !.retval = ok, !.errno = error]
  /\ UNCHANGED <<told, runs>>

WatchEnds ==
  /\ manager.at = "watch" /\ manager.todo = <<>>
  /\ manager' = [manager EXCEPT !.at = "result"]
  /\ UNCHANGED <<library, told, runs>>

\* A Run that leaves the telling to Init.
ResultToldByInit ==
  LET starts == manager.errno = NoError IN
  /\ manager.at = "result"
  /\ told' = told \o (IF manager.retval THEN <<>> ELSE <<manager.errno>>)
  /\ manager' = [manager EXCEPT !.at = IF starts THEN "running" ELSE "idle", !.started = starts]
  /\ UNCHANGED <<library, runs>>

\* The end of Init, whose result is errno alone, and what Run makes of it: a run
\* that does not start tells its handler once more, with a code of its own.
Result ==
  LET starts == manager.errno = NoError IN
  /\ manager.at = "result"
  /\ told' = told \o (IF manager.retval THEN <<>> ELSE <<manager.errno>>)
                  \o (IF starts THEN <<>> ELSE <<EUCLEAN>>)
  /\ manager' = [manager EXCEPT !.at = IF starts THEN "running" ELSE "idle", !.started = starts]
  /\ UNCHANGED <<library, runs>>

\* The library has no event any more: m_Run returns, and the watches stay.
RunEnded ==
  /\ manager.at = "running"
  /\ manager' = [manager EXCEPT !.at = "idle"]
  /\ UNCHANGED <<library, told, runs>>

InotifyNext ==
  \/ \E n \in 0 .. Len(Watchable) : \E excluded, regex \in BOOLEAN :
       RunOver(SubSeq(Watchable, 1, n), excluded, regex)
  \/ InitRefuses \/ InitBegins \/ Watches \/ Ignores \/ WatchEnds \/ Result \/ RunEnded

InotifySpec == InotifyInit /\ [][InotifyNext]_inotifyVars

-----------------------------------------------------------------------------
(* Properties.                                                             *)

\* A run that starts without an expression to ignore watches its last path, or had
\* watched it before; of the paths before it nothing is known (Init, errno).
StartedRunWatches ==
  manager.started /\ ~manager.regex /\ manager.actions # <<>> =>
    manager.actions[Len(manager.actions)] \in library.watched

\* The error handler hears of every run that does not start, and of no other
\* (Init, Run).
FailedRunIsTold ==
  manager.at \in {"idle", "running"} /\ runs > 0 => (told = <<>> <=> manager.started)

\* A run that starts watches, and one that does not is told (Init, Run).
StartIsTold == StartedRunWatches /\ FailedRunIsTold
=============================================================================
