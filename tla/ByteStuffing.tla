---------------------------- MODULE ByteStuffing ----------------------------
(***************************************************************************)
(* tools/core/admin/src/ByteStuffing.cpp: a rule that replaces one string  *)
(* by another, and its form as a document.                                 *)
(***************************************************************************)
EXTENDS CoreUtils

Rule(from, to) == [from |-> from, to |-> to]

\* What ClearContent leaves, and what is left of a rule that was moved from.
NoRule == Rule(<<>>, <<>>)

Stuff(rule, value) == StrReplace(value, rule.from, rule.to)
Unstuff(rule, value) == StrReplace(value, rule.to, rule.from)

RuleToByteArray(rule) == rule.from \o <<Newline>> \o rule.to

\* The rule is read when there are exactly two parts; otherwise it stays what it was.
RuleFromByteArray(rule, array) ==
  LET list == StrSplit(array, Newline)
      ok   == array # <<>> /\ Len(list) = 2
  IN  [ok |-> ok, rule |-> IF ok THEN Rule(list[1], list[2]) ELSE rule]
=============================================================================
