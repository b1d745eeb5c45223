---------------------------- MODULE PasswdGenerator ----------------------------
(***************************************************************************)
(* tools/core/admin/src/PasswdGenerator.cpp: passwords drawn from the      *)
(* kinds of characters the flags select, drawn again until every kind that *)
(* is asked for is there.  A generator is set up, then run by one thread.  *)
(***************************************************************************)
EXTENDS Naturals, FiniteSets

CONSTANTS
  Digits, Uppers, Lowers, Symbols,   \* m_Digits ...: the characters of each kind
  Ambiguous, Vowels,                 \* m_Ambiguous, m_Vowels
  MinLength,                         \* DEFAULT_PASSWD_MINLENGTH
  Lengths,                           \* arguments of SetLength
  Removings                          \* arguments of SetRemoving, as sets of characters

\* No character has two kinds, so a string of kinds holds each character once and
\* RemoveString, which erases one occurrence, erases it altogether.
ASSUME PasswdAssumption ==
  /\ Digits \cap (Uppers \cup Lowers \cup Symbols) = {}
  /\ Uppers \cap (Lowers \cup Symbols) = {} /\ Lowers \cap Symbols = {}
  /\ MinLength \in Nat \ {0} /\ Lengths \subseteq Nat

VARIABLES
  m_Flag,      \* the flags
  m_Length,
  m_Removing,  \* characters to leave out, as a set
  m_Callback,  \* whether there is a callback
  m_Password,  \* [chars, size]: which characters the password has, and how many
  run,         \* "none", "asked" (inside run) or "done"
  calls        \* how often this run has called the callback

passwdSettings == <<m_Flag, m_Length, m_Removing, m_Callback>>
passwdVars == <<m_Flag, m_Length, m_Removing, m_Callback, m_Password, run, calls>>

NoPassword == [chars |-> {}, size |-> 0]

-----------------------------------------------------------------------------
HasFlag(flag) == flag \in m_Flag

Kinds == (IF HasFlag("Digit") THEN Digits ELSE {}) \cup
         (IF HasFlag("Upper") THEN Uppers ELSE {}) \cup
         (IF HasFlag("Lower") THEN Lowers ELSE {}) \cup
         (IF HasFlag("Symbol") THEN Symbols ELSE {})

Excluded == (IF HasFlag("WithoutAmbiguous") THEN Ambiguous ELSE {}) \cup
            (IF HasFlag("WithoutVowels") THEN Vowels ELSE {}) \cup m_Removing

\* A BuildString that takes m_Removing away before it adds the symbols.
BuildStringEarly == (Kinds \ Excluded) \cup (IF HasFlag("Symbol") THEN Symbols ELSE {})

BuildString == Kinds \ Excluded

\* A OneValueExists that looks for all values.
AllValuesExist(password, str) == password.size > 0 /\ str \subseteq password.chars

OneValueExists(password, str) == password.size > 0 /\ str \cap password.chars # {}

Satisfied(password) ==
  /\ HasFlag("Symbol") => OneValueExists(password, Symbols)
  /\ HasFlag("Digit") => OneValueExists(password, Digits)

\* Passwords that m_Length draws from alphabet can give.
Draws(alphabet) ==
  { [chars |-> C, size |-> m_Length] :
      C \in { D \in SUBSET alphabet : Cardinality(D) \in 1 .. m_Length } }

CallBack == calls' = IF m_Callback THEN calls + 1 ELSE calls

-----------------------------------------------------------------------------
PasswdInit ==
  /\ m_Flag = {"Upper", "Lower", "Digit"} /\ m_Length = MinLength /\ m_Removing = {}
  /\ m_Callback = FALSE /\ m_Password = NoPassword /\ run = "none" /\ calls = 0

SwitchFlag(flag, toOn) ==
  /\ m_Flag' = IF toOn THEN m_Flag \cup {flag} ELSE m_Flag \ {flag}
  /\ UNCHANGED <<m_Length, m_Removing, m_Callback>>

DigitsOn  == SwitchFlag("Digit", TRUE)
DigitsOff == SwitchFlag("Digit", FALSE)
UpperOn   == SwitchFlag("Upper", TRUE)
UpperOff  == SwitchFlag("Upper", FALSE)
LowerOn   == SwitchFlag("Lower", TRUE)
LowerOff  == SwitchFlag("Lower", FALSE)
SymbolOn  == SwitchFlag("Symbol", TRUE)
SymbolOff == SwitchFlag("Symbol", FALSE)

\* On and off are about the characters, the flag is about their absence.
AmbiguousOn  == SwitchFlag("WithoutAmbiguous", FALSE)
AmbiguousOff == SwitchFlag("WithoutAmbiguous", TRUE)
VowelsOn     == SwitchFlag("WithoutVowels", FALSE)
VowelsOff    == SwitchFlag("WithoutVowels", TRUE)

SwitchSome == \/ DigitsOn \/ DigitsOff \/ UpperOn \/ UpperOff
              \/ LowerOn \/ LowerOff \/ SymbolOn \/ SymbolOff
              \/ AmbiguousOn \/ AmbiguousOff \/ VowelsOn \/ VowelsOff

SetLength(length) ==
  /\ m_Length' = IF length >= MinLength THEN length ELSE MinLength
  /\ UNCHANGED <<m_Flag, m_Removing, m_Callback>>

SetRemoving(str) ==
  /\ m_Removing' = str
  /\ UNCHANGED <<m_Flag, m_Length, m_Callback>>

SetCallback   == m_Callback' = TRUE /\ UNCHANGED <<m_Flag, m_Length, m_Removing>>
ResetCallback == m_Callback' = FALSE /\ UNCHANGED <<m_Flag, m_Length, m_Removing>>

\* A setter between two runs.
SetUp ==
  /\ run # "asked"
  /\ SwitchSome \/ SetCallback \/ ResetCallback
     \/ (\E n \in Lengths : SetLength(n)) \/ (\E s \in Removings : SetRemoving(s))
  /\ run' = "none" /\ calls' = 0 /\ UNCHANGED m_Password

Run ==
  /\ run # "asked"
  /\ m_Password' = NoPassword /\ run' = "asked" /\ calls' = 0
  /\ UNCHANGED passwdSettings

\* There is nothing to draw from: the callback gets the empty password.
DrawNothing ==
  /\ run = "asked" /\ BuildString = {}
  /\ m_Password' = NoPassword /\ run' = "done" /\ CallBack
  /\ UNCHANGED passwdSettings

\* One level of the recursion of run(), its last: the password is as the flags ask.
DrawSatisfied ==
  /\ run = "asked"
  /\ \E password \in Draws(BuildString) : Satisfied(password) /\ m_Password' = password
  /\ run' = "done" /\ CallBack
  /\ UNCHANGED passwdSettings

\* A level whose password is not: run() clears it and draws again.
DrawAgain ==
  /\ run = "asked"
  /\ \E password \in Draws(BuildString) : ~Satisfied(password) /\ m_Password' = password
  /\ UNCHANGED <<passwdSettings, run, calls>>

PasswdNext == SetUp \/ Run \/ DrawNothing \/ DrawSatisfied \/ DrawAgain

\* Random draws give every password some time.
PasswdFairness == WF_passwdVars(DrawNothing) /\ SF_passwdVars(DrawSatisfied)

PasswdSpec == PasswdInit /\ [][PasswdNext]_passwdVars /\ PasswdFairness

-----------------------------------------------------------------------------
(* Properties.                                                             *)

\* A password a run leaves has the length that was set, which is never below the
\* minimum and has no maximum, only characters of the kinds that were switched on and of none that
\* was excluded, and a symbol and a digit where these were asked for; of the letters
\* that were asked for it need not have any (run).
PasswordFits ==
  run = "done" /\ m_Password # NoPassword =>
    /\ m_Password.size = m_Length /\ m_Length >= MinLength
    /\ \A c \in m_Password.chars :
         /\ c \in Digits => "Digit" \in m_Flag
         /\ c \in Uppers => "Upper" \in m_Flag
         /\ c \in Lowers => "Lower" \in m_Flag
         /\ c \in Symbols => "Symbol" \in m_Flag
         /\ c \in Ambiguous => "WithoutAmbiguous" \notin m_Flag
         /\ c \in Vowels => "WithoutVowels" \notin m_Flag
         /\ c \notin m_Removing
    /\ "Symbol" \in m_Flag => \E c \in m_Password.chars : c \in Symbols
    /\ "Digit" \in m_Flag => \E c \in m_Password.chars : c \in Digits

\* The callback is called once for a run, however often the password was drawn
\* again, and not before a password fits (run).
CallbackOnce == calls = IF run = "done" /\ m_Callback THEN 1 ELSE 0

Left(kind) ==
  { c \in kind : /\ "WithoutAmbiguous" \in m_Flag => c \notin Ambiguous
                 /\ "WithoutVowels" \in m_Flag => c \notin Vowels
                 /\ c \notin m_Removing }

\* A run ends unless the exclusions leave nothing of a kind it has to use, or the
\* two kinds do not fit into the length (run, OneValueExists, BuildString).
RunEnds ==
  (/\ run = "asked"
   /\ "Symbol" \in m_Flag => Left(Symbols) # {}
   /\ "Digit" \in m_Flag => Left(Digits) # {}
   /\ m_Length >= 2) ~> run = "done"

\* A run delivers a password that fits, and tells it once (run).
RunDelivers == PasswordFits /\ CallbackOnce
=============================================================================
