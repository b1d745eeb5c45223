------------------------------ MODULE FilesAction ------------------------------
(***************************************************************************)
(* tools/core/admin/src/FilesAction.cpp: a walk through directories that   *)
(* calls back for every file, and the flag m_Busy that lets other threads  *)
(* end it.  The flag is an atomic that belongs to all FilesAction objects. *)
(* A walk is a stack of calls of FileActions, one for each level.  Paths   *)
(* pass through RecurciveCalc first, and StrJoin puts as many blanks in    *)
(* front of a path as it has parts: what is looked up in the file system,  *)
(* matched and handed to the callback is a path with blanks.               *)
(***************************************************************************)
EXTENDS Naturals, Sequences, FiniteSets

CONSTANTS
  Walkers,        \* FilesAction objects with a callback, each with a thread that walks
  Lists,          \* arguments of FileActions: sets of paths, as their order is of no account
  Directories,    \* the paths that are directories
  Entries,        \* [Directories -> what a directory holds: a set of names]
  Unmatched,      \* paths the expression of m_Exclude does not match: they are left out
  MaxResets       \* bound: resets of the flag from outside

\* A path: its parts, and the blanks in front of the first of them.
PathNames == [blanks : Nat, parts : Seq(STRING)]

\* The path of an entry, as directory_iterator gives it.
EntryPath(d, name) == [d EXCEPT !.parts = Append(@, name)]
Inside(d) == { EntryPath(d, name) : name \in Entries[d] }

\* Nothing in a list lies inside a directory that a walk may come to.
ASSUME FilesAssumption ==
  /\ \A list \in Lists : list # {} /\ \A p \in list : p \in PathNames
  /\ \A d \in Directories : d \in PathNames
  /\ Entries \in [Directories -> SUBSET STRING]
  /\ \A list \in Lists, d \in Directories : list \cap Inside(d) = {}
  /\ MaxResets \in Nat

-----------------------------------------------------------------------------
(* RecurciveCalc.                                                          *)

\* An empty path, and one whose last part is an asterisk.
Skipped(p) == p.parts = <<>> \/ p.parts[Len(p.parts)] = "*"

Calculated(p) == [p EXCEPT !.blanks = @ + Len(p.parts)]

\* What becomes of the paths of a list.
Taken(list) == { Calculated(p) : p \in { q \in list : ~Skipped(q) } }

VARIABLES
  m_Busy,     \* FilesAction::m_Busy, static
  stack,      \* [Walkers -> the calls of FileActions, the innermost last]
  m_DirList,  \* [Walkers -> directories walked through], never cleared by a walk
  asked,      \* history: [Walkers -> the list of the walk]
  visited,    \* history: [Walkers -> the paths the callback was called for]
  twice,      \* history: whether a path was given to a callback twice in a walk
  disturbed,  \* history: [Walkers -> whether the flag was reset since the walk began]
  resets      \* how often the flag was reset from outside

filesVars == <<m_Busy, stack, m_DirList, asked, visited, twice, disturbed, resets>>

\* A call: at "enter" before line 93, at "list" in the loop over the paths left in
\* its list, at "act" with one of them, converted, at "entries" in the loop over the
\* entries left of a directory.
NoPath == [blanks |-> 0, parts |-> <<>>]
Call(list) == [at |-> "enter", list |-> list, path |-> NoPath, left |-> {}]

Walking(w) == stack[w] # <<>>
Top(w) == stack[w][Len(stack[w])]
Under(w) == SubSeq(stack[w], 1, Len(stack[w]) - 1)
GoTo(w, call) == stack' = [stack EXCEPT ![w] = Append(Under(w), call)]
Return(w) == stack' = [stack EXCEPT ![w] = Under(w)]
At(w, at) == Walking(w) /\ Top(w).at = at

\* A walk has the flag once its outermost call has set it.
Begun(w) == Walking(w) /\ stack[w][1].at # "enter"

\* The flag is reset: every walk that had it has lost it.
ClearBusy ==
  /\ m_Busy' = FALSE
  /\ disturbed' = [w \in Walkers |-> disturbed[w] \/ Begun(w)]

FilesInit ==
  /\ m_Busy = FALSE /\ stack = [w \in Walkers |-> <<>>]
  /\ m_DirList = [w \in Walkers |-> {}]
  /\ asked = [w \in Walkers |-> {}] /\ visited = [w \in Walkers |-> {}] /\ twice = FALSE
  /\ disturbed = [w \in Walkers |-> TRUE] /\ resets = 0

-----------------------------------------------------------------------------
(* FileActions.                                                            *)

walkVars == <<asked, visited, twice>>

\* A thread calls FileActions.
FileActions(w, list) ==
  /\ ~Walking(w)
  /\ stack' = [stack EXCEPT ![w] = <<Call(list)>>]
  /\ asked' = [asked EXCEPT ![w] = list]
  /\ visited' = [visited EXCEPT ![w] = {}]
  /\ disturbed' = [disturbed EXCEPT ![w] = FALSE]
  /\ UNCHANGED <<m_Busy, m_DirList, twice, resets>>

\* A SetBusy that turns a call away when the flag is set already.
SetBusyIfFree(w) ==
  /\ At(w, "enter")
  /\ m_Busy' = TRUE
  /\ IF m_Busy THEN Return(w) ELSE GoTo(w, [Top(w) EXCEPT !.at = "list"])
  /\ UNCHANGED <<m_DirList, walkVars, disturbed, resets>>

\* m_Busy is set by every call, the recursive ones too, and read again.
SetBusy(w) ==
  /\ At(w, "enter")
  /\ m_Busy' = TRUE
  /\ GoTo(w, [Top(w) EXCEPT !.at = "list"])
  /\ UNCHANGED <<m_DirList, walkVars, disturbed, resets>>

\* The next path of the list: the test of the flag, RecurciveCalc and the expression.
NextPath(w) ==
  /\ At(w, "list") /\ m_Busy
  /\ \E p \in Top(w).list :
       LET rest == [Top(w) EXCEPT !.list = @ \ {p}] IN
         IF Skipped(p) \/ Calculated(p) \in Unmatched
           THEN GoTo(w, rest)
           ELSE GoTo(w, [rest EXCEPT !.at = "act", !.path = Calculated(p)])
  /\ UNCHANGED <<m_Busy, m_DirList, walkVars, disturbed, resets>>

\* The list is at its end, or the test of the flag fails.
LeaveList(w) ==
  /\ At(w, "list") /\ (m_Busy => Top(w).list = {})
  /\ Return(w)
  /\ UNCHANGED <<m_Busy, m_DirList, walkVars, disturbed, resets>>

BackToList(w) == GoTo(w, [Top(w) EXCEPT !.at = "list", !.path = NoPath, !.left = {}])

\* The path is no directory: the callback; nothing is asked of its result.
ActOnFile(w) ==
  /\ At(w, "act") /\ m_Busy /\ Top(w).path \notin Directories
  /\ visited' = [visited EXCEPT ![w] = @ \cup {Top(w).path}]
  /\ twice' = (twice \/ Top(w).path \in visited[w])
  /\ BackToList(w)
  /\ UNCHANGED <<m_Busy, m_DirList, asked, disturbed, resets>>

ActOnDirectory(w) ==
  /\ At(w, "act") /\ m_Busy /\ Top(w).path \in Directories
  /\ m_DirList' = [m_DirList EXCEPT ![w] = @ \cup {Top(w).path}]
  /\ GoTo(w, [Top(w) EXCEPT !.at = "entries", !.left = Inside(Top(w).path)])
  /\ UNCHANGED <<m_Busy, walkVars, disturbed, resets>>

\* The second test of the flag fails: the loop over the list goes on.
ActTooLate(w) ==
  /\ At(w, "act") /\ ~m_Busy
  /\ BackToList(w)
  /\ UNCHANGED <<m_Busy, m_DirList, walkVars, disturbed, resets>>

\* The next entry in the order of the file system: tested here, and handed to a
\* call of FileActions that sets the flag again.
NextEntry(w) ==
  /\ At(w, "entries")
  /\ \E e \in Top(w).left :
       LET rest == [Top(w) EXCEPT !.left = @ \ {e}] IN
         IF m_Busy THEN stack' = [stack EXCEPT ![w] = Append(Append(Under(w), rest), Call({e}))]
                   ELSE GoTo(w, rest)
  /\ UNCHANGED <<m_Busy, m_DirList, walkVars, disturbed, resets>>

LastEntry(w) ==
  /\ At(w, "entries") /\ Top(w).left = {}
  /\ BackToList(w)
  /\ UNCHANGED <<m_Busy, m_DirList, walkVars, disturbed, resets>>

\* The callback or the file system throws: the innermost call catches it and resets
\* the flag for all.
Throw(w) ==
  /\ (At(w, "act") /\ m_Busy) \/ At(w, "entries")
  /\ ClearBusy
  /\ Return(w)
  /\ UNCHANGED <<m_DirList, walkVars, resets>>

\* Another thread calls ResetBusy, or FileActions with an empty list or on an object
\* without a callback, or moves a FilesAction away: each resets the flag of all.
ResetBusy ==
  /\ resets < MaxResets
  /\ ClearBusy
  /\ resets' = resets + 1
  /\ UNCHANGED <<stack, m_DirList, walkVars>>

WalkerStep(w) ==
  \/ \E list \in Lists : FileActions(w, list)
  \/ SetBusy(w) \/ NextPath(w) \/ LeaveList(w) \/ ActOnFile(w) \/ ActOnDirectory(w)
  \/ ActTooLate(w) \/ NextEntry(w) \/ LastEntry(w) \/ Throw(w)

FilesNext == ResetBusy \/ \E w \in Walkers : WalkerStep(w)

FilesSpec == FilesInit /\ [][FilesNext]_filesVars

-----------------------------------------------------------------------------
(* Properties.                                                             *)

\* Every path a walk may take up, whatever its list.
Paths == Taken(UNION Lists) \cup UNION { Taken(Inside(d)) : d \in Directories }

\* What holds the paths of a list, and with a directory its entries, as far as the
\* expression matches them.
Closed(list, paths) ==
  /\ Taken(list) \ Unmatched \subseteq paths
  /\ \A d \in paths \cap Directories : Taken(Inside(d)) \ Unmatched \subseteq paths

\* Paths a walk gets to through what are directories under the converted path.
Reachable ==
  [ list \in Lists \cup {{}} |->
      { p \in Paths : \A paths \in SUBSET Paths : Closed(list, paths) => p \in paths } ]

\* A walk gives no path to its callback twice (FileActions, the loops over list and
\* directory).
EachFileOnce == ~twice

\* A walk takes up nothing but what it can reach; one during which nobody reset the
\* flag has called back for everything it reaches that is no directory and has listed
\* every directory, whatever other walks set meanwhile (FileActions).
UndisturbedWalkIsComplete ==
  \A w \in Walkers :
    /\ visited[w] \subseteq Reachable[asked[w]] \ Directories
    /\ ~Walking(w) /\ ~disturbed[w] =>
         /\ Reachable[asked[w]] \ Directories \subseteq visited[w]
         /\ Reachable[asked[w]] \cap Directories \subseteq m_DirList[w]

\* ResetBusy is documented to end the processing at once: a walk the flag was taken
\* away from calls back no more.
ResetStops ==
  [][\A w \in Walkers : disturbed[w] /\ Walking(w) => visited'[w] \subseteq visited[w]]_filesVars

\* FileActions is documented to scan with a recursive call for directories: a walk
\* nobody disturbed has listed the directories of its list that are not excluded.
DirectoriesAreScanned ==
  \A w \in Walkers :
    ~Walking(w) /\ ~disturbed[w] => asked[w] \cap Directories \subseteq m_DirList[w] \cup Unmatched

\* A walk gives its files to its callback once each, and all of them if it was let
\* (FileActions).
WalkIsComplete == EachFileOnce /\ UndisturbedWalkIsComplete
=============================================================================
