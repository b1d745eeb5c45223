----------------------------- MODULE DocumentPkg -----------------------------
(***************************************************************************)
(* A stream of bytes cut into packages: include/core/documents/            *)
(* DocumentPkg.h, fed as examples/tools/asio/Common.h feeds it.  Receive   *)
(* of a session fills the buffer of its channel from what it has read of   *)
(* its connection, runs the action of the channel (DumpReceive) and clears *)
(* the buffer; there is no suspension between the three.  The document pkg *)
(* is shared by all sessions, so a package may be spread over several.     *)
(***************************************************************************)
EXTENDS BytesDocument, ByteStuffing

CONSTANTS
  Bytes,        \* the bytes a peer sends
  BufferSize,   \* m_BufferSize of the channel
  MaxTaken      \* bound: bytes added to pkg in all

ASSUME PkgAssumption == Bytes \subseteq 0 .. 255 /\ BufferSize \in Nat /\ MaxTaken \in Nat

VARIABLES
  pkg,         \* content of the document that collects
  packages,    \* the packages taken out of it so far
  taken,       \* history: all bytes ever added to pkg
  words        \* history: of every read, its length and its first word

pkgVars == <<pkg, packages, taken, words>>

AA == 170
BB == 187

\* mStuffing.  Every package has these two rules: they are copied, moved and
\* swapped together with the content.
mStuffing == <<Rule(<<AA>>, <<BB, 0>>), Rule(<<BB>>, <<BB, 1>>)>>

GetHeader == mStuffing[1].from \o mStuffing[2].from

\* A Stuff that leaves the second rule out.
StuffFirstOnly(array) == Stuff(mStuffing[1], array)

StuffAll(array) == Stuff(mStuffing[2], Stuff(mStuffing[1], array))
UnstuffAll(array) == Unstuff(mStuffing[2], Unstuff(mStuffing[1], array))

\* A package is stuffed on its way out and unstuffed on its way in.
PackageToByteArray(content) == StuffAll(content)
PackageFromByteArray(content, array) == FromByteArray(content, UnstuffAll(array))

\* Where a header begins at i or behind it, 0 for nowhere.
HasHeader(content, i) == Find(content, GetHeader, i)

NextHeader(content) == HasHeader(content, HasHeader(content, 1) + Len(GetHeader))

\* The last byte of the package stays in front of the next header.
Erase(content, futer) == SubSeq(content, futer - 1, Len(content))

\* GetPackage: from a header up to the byte before the next one.
GetPackage(content) ==
  LET first == HasHeader(content, 1)
      futer == NextHeader(content)
  IN  IF first = 0 \/ futer = 0
        THEN [ok |-> FALSE, package |-> <<>>, rest |-> content]
        ELSE [ ok      |-> TRUE,
               package |-> AddRange(<<>>, content, first, futer - 1),
               rest    |-> Erase(content, futer) ]

\* DumpReceive takes packages out until there is none, at most one for two bytes.
TakeAll(content) ==
  LET Taken[n \in 0 .. Len(content)] ==
        IF n = 0 THEN [rest |-> content, out |-> <<>>]
        ELSE LET last == Taken[n - 1]
                 next == GetPackage(last.rest)
             IN  IF next.ok THEN [rest |-> next.rest, out |-> last.out \o <<next.package>>]
                 ELSE last
  IN  Taken[Len(content)]

PkgInit == pkg = <<>> /\ packages = <<>> /\ taken = <<>> /\ words = <<>>

\* A DumpReceive that looks for one package only.
DumpReceiveOnce(data) ==
  LET added == Add(pkg, data, Len(data)) IN
  /\ pkg' = GetPackage(added).rest
  /\ packages' = IF GetPackage(added).ok THEN Append(packages, GetPackage(added).package)
                 ELSE packages
  /\ taken' = taken \o data

DumpReceive(data) ==
  LET all == TakeAll(Add(pkg, data, Len(data))) IN
  /\ pkg' = all.rest
  /\ packages' = packages \o all.out
  /\ taken' = taken \o data

\* A session has read chunk: FromStream into the empty buffer of the channel,
\* the action, and Clear.
ReceiveChunk(chunk) ==
  /\ chunk # <<>> /\ Len(taken) + Len(chunk) <= MaxTaken
  /\ DumpReceive(FromStream(<<>>, chunk))
  /\ words' = Append(words, [size |-> Len(chunk), word |-> Word(chunk)])

PkgNext == \E n \in 1 .. BufferSize : \E chunk \in [1 .. n -> Bytes] : ReceiveChunk(chunk)

PkgSpec == PkgInit /\ [][PkgNext]_pkgVars

-----------------------------------------------------------------------------
(* Properties.                                                             *)

HeadersIn(s) == { i \in 1 .. Len(s) - 1 : SubSeq(s, i, i + 1) = GetHeader }

\* The i-th place of a finite set of numbers.
Nth(S, i) == CHOOSE k \in S : Cardinality({j \in S : j <= k}) = i

\* Whatever the reads were, a header across two of them included, the packages are
\* the stretches between the headers of all bytes received: each once, whole and
\* in order, up to the last header, and no package waits in pkg (GetPackage, erase).
PackagesInOrder ==
  LET at == HeadersIn(taken)
      n  == Cardinality(at)
  IN  packages = [ i \in 1 .. (IF n = 0 THEN 0 ELSE n - 1) |->
                     SubSeq(taken, Nth(at, i), Nth(at, i + 1) - 1) ]

\* The unfinished package is still in pkg to its last byte, and before it at most
\* one byte of a package taken out already; before any header nothing is dropped.
RestIsKept ==
  LET at == HeadersIn(taken)
      last == Nth(at, Cardinality(at))
  IN  pkg = SubSeq(taken, IF Cardinality(at) <= 1 THEN 1 ELSE last - 1, Len(taken))

\* Of every read the first word arrives, whole and in the order of the reads, and
\* takes the space of what was read (FromStream, Add).
WordsArrive ==
  LET Place[i \in 1 .. Len(words) + 1] ==
        IF i = 1 THEN 1 ELSE Place[i - 1] + words[i - 1].size
  IN  /\ Place[Len(words) + 1] = Len(taken) + 1
      /\ \A i \in 1 .. Len(words) :
           SubSeq(taken, Place[i], Place[i] + Len(words[i].word) - 1) = words[i].word

\* Stuffed content never holds a header, and unstuffing restores whatever did not
\* hold the byte AA (Stuff, Unstuff, StrReplace, ToByteArray).
StuffingHidesHeader ==
  \A s \in {pkg} \cup {packages[i] : i \in DOMAIN packages} :
    /\ HeadersIn(PackageToByteArray(s)) = {}
    /\ Find(s, <<AA>>, 1) = 0 => PackageFromByteArray(s, PackageToByteArray(s)) = s

\* The two hexadecimal conversions are inverse for every content (StrToHex, StrFromHex).
HexInverse == StrFromHex(StrToHex(pkg)) = pkg

\* Joining what was split restores every string that is not empty, splitters at
\* its borders included, behind one blank for every part (StrSplit, StrJoin).
JoinRestoresSplit ==
  \A c \in Bytes : pkg # <<>> =>
    LET parts == StrSplit(pkg, c)
    IN  StrJoin(parts, c) = Fill(Len(parts), Blank) \o pkg

\* A rule saved as a document is read back whole if neither part holds a newline
\* and the second is not empty (RuleToByteArray, RuleFromByteArray).
RuleSurvives ==
  \A k \in 0 .. Len(pkg) :
    LET rule == Rule(SubSeq(pkg, 1, k), SubSeq(pkg, k + 1, Len(pkg)))
        read == RuleFromByteArray(NoRule, RuleToByteArray(rule))
    IN  (Find(pkg, <<Newline>>, 1) = 0 /\ k < Len(pkg)) => read.ok /\ read.rule = rule

\* The stream of packages is cut at its headers and nowhere else: whole packages
\* out, the rest kept, and nothing of a read displaced (GetPackage, FromStream).
StreamIsCut == PackagesInOrder /\ RestIsKept /\ WordsArrive

\* What is split, written in hexadecimal or saved as a rule can be had back
\* (StrSplit, StrToHex, RuleToByteArray and their opposites).
ConversionsRestore == HexInverse /\ JoinRestoresSplit /\ RuleSurvives
=============================================================================
