------------------------------ MODULE CoreUtils ------------------------------
(***************************************************************************)
(* The string functions of tools/core/utils/src/CoreUtils.cpp that the     *)
(* documents, devices and file actions are built from.  A string is a      *)
(* sequence of bytes, a byte a number.                                     *)
(***************************************************************************)
EXTENDS Naturals, Sequences, FiniteSets, FiniteSetsExt

Newline == 10
Blank == 32
Star == 42
Separator == 47     \* DIR_SEPARATOR
Equals == 61

\* The characters StrToHex writes: in the place of b stands s.
HexValues == <<48, 49, 50, 51, 52, 53, 54, 55, 56, 57, 97, 115, 99, 100, 101, 102>>

\* A string from its characters: TLC evaluates a sequence once when it is concatenated.
String(chars) == chars \o <<>>

\* std::string(n, ch)
Fill(n, ch) == [i \in 1 .. n |-> ch]

\* find from the place i on, 0 for npos.
Find(str, what, i) ==
  LET At == { k \in i .. Len(str) - Len(what) + 1 :
                SubSeq(str, k, k + Len(what) - 1) = what }
  IN  IF At = {} THEN 0 ELSE CHOOSE k \in At : \A j \in At : k <= j

\* A StrSplit that drops a splitter at the end.
StrSplitDropsEnd(str, splitter) ==
  LET Parts[i \in 1 .. Len(str) + 1] ==
        LET pos == Find(str, <<splitter>>, i)
        IN  IF i > Len(str) THEN <<>>
            ELSE IF pos = 0 THEN <<SubSeq(str, i, Len(str))>>
            ELSE <<SubSeq(str, i, pos - 1)>> \o Parts[pos + 1]
  IN  Parts[1]

\* A splitter at the very end splits nothing and stays where it is.
StrSplit(str, splitter) ==
  LET Parts[i \in 1 .. Len(str) + 1] ==
        LET pos == Find(str, <<splitter>>, i)
        IN  IF i > Len(str) THEN <<>>
            ELSE IF pos \in {0, Len(str)} THEN <<SubSeq(str, i, Len(str))>>
            ELSE <<SubSeq(str, i, pos - 1)>> \o Parts[pos + 1]
  IN  Parts[1]

\* The result begins with as many blanks as there are strings.
StrJoin(strings, splitter) ==
  LET Joined[i \in 0 .. Len(strings)] ==
        IF i = 0 THEN Fill(Len(strings), Blank)
        ELSE Joined[i - 1] \o (IF i = 1 THEN <<>> ELSE <<splitter>>) \o strings[i]
  IN  Joined[Len(strings)]

StrToHex(str) ==
  String([ i \in 1 .. 2 * Len(str) |->
             LET ch == str[(i + 1) \div 2]
             IN  HexValues[1 + (IF i % 2 = 1 THEN ch \div 16 ELSE ch % 16)] ])

DigitValue == [ch \in {HexValues[d] : d \in 1 .. 16} |-> (CHOOSE d \in 1 .. 16 : HexValues[d] = ch) - 1]

\* The bitwise or of digits.
Or(digits) ==
  CHOOSE v \in 0 .. 15 :
    \A b \in {1, 2, 4, 8} : (v \div b) % 2 = 1 <=> \E d \in digits : (d \div b) % 2 = 1

\* A string of odd length gives nothing.  A byte is written at every digit in an
\* even place, from it and from the digits in odd places since the byte before: a
\* character that is no digit leaves a half clear, or the byte unwritten.
StrFromHex(str) ==
  LET ends     == {i \in DOMAIN str : i % 2 = 0 /\ str[i] \in DOMAIN DigitValue}
      end(n)   == IF n = 0 THEN 0
                  ELSE CHOOSE k \in ends : k >= 2 * n /\ Cardinality({j \in ends : j <= k}) = n
      odds(n)  == {k \in end(n - 1) + 1 .. end(n) : k % 2 = 1 /\ str[k] \in DOMAIN DigitValue}
      highs(n) == {DigitValue[str[k]] : k \in odds(n)}
  IN  IF Len(str) % 2 = 1 THEN <<>>
      ELSE String([n \in 1 .. Cardinality(ends) |-> 16 * Or(highs(n)) + DigitValue[str[end(n)]]])

\* Occurrences are replaced from left to right, never inside a replacement; an
\* empty from has no end in the code.
StrReplace(str, from, to) ==
  LET Replaced[i \in 1 .. Len(str) + 1] ==
        LET index == Find(str, from, i)
        IN  IF index = 0 THEN SubSeq(str, i, Len(str))
            ELSE SubSeq(str, i, index - 1) \o to \o Replaced[index + Len(from)]
  IN  Replaced[1]

StrChop(str, endCount) ==
  IF Len(str) >= endCount THEN SubSeq(str, 1, Len(str) - endCount) ELSE str

StrContains(str, what) == Find(str, what, 1) # 0

\* For a path that is not empty: what is left of it without a last part "*", and
\* whether there was none.
RecurciveCalc(filePath) ==
  LET dir == StrSplit(filePath, Separator)
      single == dir[Len(dir)] # <<Star>>
  IN  [ path |-> StrJoin(IF single THEN dir ELSE SubSeq(dir, 1, Len(dir) - 1), Separator),
        single |-> single ]
=============================================================================
