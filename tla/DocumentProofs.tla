---------------------------- MODULE DocumentProofs ----------------------------
(***************************************************************************)
(* Proofs about the documents: what Documents, DocumentPkg and Devices     *)
(* state, for any texts, bytes, names and contents, and before it what the *)
(* functions of CoreUtils do to every string.  A recursive function of the *)
(* models is first shown to exist on its strings, then to obey its         *)
(* equations, and what it computes follows by induction over the places of *)
(* the string.                                                             *)
(***************************************************************************)
EXTENDS Documents, Devices, FiniteSetTheorems, WellFoundedInduction, SequenceTheorems, TLAPS

(***************************************************************************)
(* Induction over numbers, and functions that are told from either end.    *)
(***************************************************************************)

\* Concatenation is associative, behind a name of its own.
Regroups(a, b, c) == (a \o b) \o c = a \o (b \o c)

LEMMA Regrouped ==
  ASSUME NEW E, NEW a \in Seq(E), NEW b \in Seq(E), NEW c \in Seq(E)
  PROVE  Regroups(a, b, c)
  BY ConcatAssociative DEF Regroups

\* A set of numbers that is not empty has a least member.
LEMMA LeastMember ==
  ASSUME NEW T, T \subseteq Nat, T # {}
  PROVE  \E x \in T : \A y \in T : x <= y
<1>1. PICK x \in T : \A y \in T : ~ (<<y, x>> \in OpToRel(<, Nat))
  BY NatLessThanWellFounded, WFMin
<1>2. \A y \in T : ~ (y < x)
  BY <1>1 DEF OpToRel
<1> QED
  BY <1>2

\* Induction, for the numbers that have a property.
LEMMA NumbersInduction ==
  ASSUME NEW S, 0 \in S, \A n \in Nat : n \in S => n + 1 \in S
  PROVE  Nat \subseteq S
<1>1. SUFFICES ASSUME Nat \ S # {} PROVE FALSE
  OBVIOUS
<1>2. PICK x \in Nat \ S : \A y \in Nat \ S : x <= y
  BY <1>1, LeastMember
<1>3. x - 1 \in Nat /\ ~ (x <= x - 1)
  OBVIOUS
<1>4. x - 1 \in S
  BY <1>2, <1>3
<1> QED
  BY <1>3, <1>4

\* Step tells a value from the values behind it, or from the value before it.
TellsBackward(Step, N, T) ==
  /\ N \in Nat /\ T # {}
  /\ \A i \in 1 .. N : \A g \in [1 .. N -> T] : Step[i][g] \in T
  /\ \A i \in 1 .. N : \A g, h \in [1 .. N -> T] :
       (\A j \in i + 1 .. N : g[j] = h[j]) => Step[i][g] = Step[i][h]

ToldBackward(f, Step, N, T) == f \in [1 .. N -> T] /\ \A i \in 1 .. N : f[i] = Step[i][f]

TellsForward(Step, N, T, t) ==
  N \in Nat /\ t \in T /\ \A i \in 1 .. N : \A x \in T : Step[i][x] \in T

ToldForward(f, Step, N, T, t) ==
  f \in [0 .. N -> T] /\ f[0] = t /\ \A i \in 1 .. N : f[i] = Step[i][f[i - 1]]

\* A function on 1 .. N whose value at i is told by its values behind i exists.
LEMMA BackwardRecursion ==
  ASSUME NEW N, NEW T, NEW Step, TellsBackward(Step, N, T)
  PROVE  \E f : ToldBackward(f, Step, N, T)
<1> USE DEF TellsBackward, ToldBackward
<1> PICK t : t \in T
  OBVIOUS
<1> DEFINE Fits(f, k) == \A i \in 1 .. N : i + k > N => f[i] = Step[i][f]
           S == {k \in Nat : \E f \in [1 .. N -> T] : Fits(f, k)}
<1>1. 0 \in S
  <2> DEFINE f == [i \in 1 .. N |-> t]
  <2>1. f \in [1 .. N -> T] /\ Fits(f, 0)
    OBVIOUS
  <2> QED
    BY <2>1
<1>2. ASSUME NEW k \in Nat, k \in S PROVE k + 1 \in S
  <2>1. PICK f \in [1 .. N -> T] : Fits(f, k)
    BY <1>2
  <2>2. CASE k >= N
    <3>1. Fits(f, k + 1)
      BY <2>1, <2>2
    <3> QED
      BY <3>1
  <2>3. CASE k < N
    <3> DEFINE g == [f EXCEPT ![N - k] = Step[N - k][f]]
    <3>1. N - k \in 1 .. N
      BY <2>3
    <3>2. Step[N - k][f] \in T
      BY <3>1
    <3>3. g \in [1 .. N -> T] /\ \A j \in 1 .. N : j > N - k => g[j] = f[j]
      BY <3>1, <3>2
    <3>4. g[N - k] = Step[N - k][f]
      BY <3>1
    <3> HIDE DEF g
    <3>5. ASSUME NEW i \in 1 .. N, i + (k + 1) > N PROVE g[i] = Step[i][g]
      <4>1. \A j \in i + 1 .. N : g[j] = f[j]
        BY <3>3, <3>5
      <4>2. Step[i][g] = Step[i][f]
        BY <4>1, <3>3
      <4>3. g[i] = Step[i][f]
        <5>1. CASE i = N - k
          BY <5>1, <3>4
        <5>2. CASE i # N - k
          BY <5>2, <3>3, <3>5, <2>1
        <5> QED
          BY <5>1, <5>2
      <4> QED
        BY <4>2, <4>3
    <3>6. Fits(g, k + 1)
      BY <3>5
    <3> QED
      BY <3>3, <3>6
  <2> QED
    BY <2>2, <2>3
<1>3. N \in S
  <2> HIDE DEF S
  <2> QED
    BY <1>1, <1>2, NumbersInduction
<1>4. PICK f \in [1 .. N -> T] : Fits(f, N)
  BY <1>3
<1> QED
  BY <1>4

\* A function on 0 .. N whose value at i is told by the value before exists.
LEMMA ForwardRecursion ==
  ASSUME NEW N, NEW T, NEW t, NEW Step, TellsForward(Step, N, T, t)
  PROVE  \E f : ToldForward(f, Step, N, T, t)
<1> USE DEF TellsForward, ToldForward
<1> DEFINE Fits(f, k) == f[0] = t /\ \A i \in 1 .. N : i <= k => f[i] = Step[i][f[i - 1]]
           S == {k \in Nat : \E f \in [0 .. N -> T] : Fits(f, k)}
<1>1. 0 \in S
  <2> DEFINE f == [i \in 0 .. N |-> t]
  <2>1. f \in [0 .. N -> T] /\ Fits(f, 0)
    OBVIOUS
  <2> QED
    BY <2>1
<1>2. ASSUME NEW k \in Nat, k \in S PROVE k + 1 \in S
  <2>1. PICK f \in [0 .. N -> T] : Fits(f, k)
    BY <1>2
  <2>2. CASE k >= N
    <3>1. Fits(f, k + 1)
      BY <2>1, <2>2
    <3> QED
      BY <3>1
  <2>3. CASE k < N
    <3> DEFINE g == [f EXCEPT ![k + 1] = Step[k + 1][f[k]]]
    <3>1. k + 1 \in 1 .. N /\ k \in 0 .. N
      BY <2>3
    <3>2. Step[k + 1][f[k]] \in T
      BY <3>1
    <3>3. g \in [0 .. N -> T] /\ \A j \in 0 .. N : j # k + 1 => g[j] = f[j]
      BY <3>1, <3>2
    <3>4. g[k + 1] = Step[k + 1][f[k]]
      BY <3>1
    <3> HIDE DEF g
    <3>5. ASSUME NEW i \in 1 .. N, i <= k + 1 PROVE g[i] = Step[i][g[i - 1]]
      <4>1. i - 1 \in 0 .. N /\ g[i - 1] = f[i - 1]
        BY <3>3, <3>5
      <4>2. CASE i = k + 1
        BY <4>1, <4>2, <3>4
      <4>3. CASE i # k + 1
        BY <4>1, <4>3, <3>3, <3>5, <2>1
      <4> QED
        BY <4>2, <4>3
    <3>6. Fits(g, k + 1)
      BY <3>1, <3>3, <3>5, <2>1
    <3> QED
      BY <3>3, <3>6
  <2> QED
    BY <2>2, <2>3
<1>3. N \in S
  <2> HIDE DEF S
  <2> QED
    BY <1>1, <1>2, NumbersInduction
<1>4. PICK f \in [0 .. N -> T] : Fits(f, N)
  BY <1>3
<1> QED
  BY <1>4

(***************************************************************************)
(* What is kept of a string.                                               *)
(***************************************************************************)

Byte == 0 .. 255

\* What Solid has kept of the first i bytes.
KeptOf(s) ==
  LET Kept[i \in 0 .. Len(s)] ==
        IF i = 0 THEN <<>>
        ELSE IF s[i] \in Whitespace \cup {NUL} THEN Kept[i - 1]
        ELSE Kept[i - 1] \o <<s[i]>>
  IN  Kept

Hollow(b) == b \in Whitespace \cup {NUL}

LEMMA SolidIsKept == ASSUME NEW s PROVE Solid(s) = KeptOf(s)[Len(s)]
  BY Zenon DEF Solid, KeptOf

LEMMA KeptOfRecursion ==
  ASSUME NEW E, NEW s \in Seq(E)
  PROVE  /\ KeptOf(s) \in [0 .. Len(s) -> Seq(E)]
         /\ KeptOf(s)[0] = <<>>
         /\ \A i \in 1 .. Len(s) :
              KeptOf(s)[i] = IF Hollow(s[i]) THEN KeptOf(s)[i - 1] ELSE KeptOf(s)[i - 1] \o <<s[i]>>
<1> DEFINE Step == [i \in 1 .. Len(s) |-> [t \in Seq(E) |->
                      IF s[i] \in Whitespace \cup {NUL} THEN t ELSE t \o <<s[i]>>]]
           Kept(g) == [i \in 0 .. Len(s) |->
                         IF i = 0 THEN <<>>
                         ELSE IF s[i] \in Whitespace \cup {NUL} THEN g[i - 1]
                         ELSE g[i - 1] \o <<s[i]>>]
<1>1. TellsForward(Step, Len(s), Seq(E), <<>>)
  BY DEF TellsForward
<1>2. PICK f : ToldForward(f, Step, Len(s), Seq(E), <<>>)
  BY <1>1, ForwardRecursion
<1>3. f = Kept(f)
  <2>1. ASSUME NEW i \in 0 .. Len(s) PROVE f[i] = Kept(f)[i]
    <3>1. CASE i = 0
      BY <3>1, <1>2 DEF ToldForward
    <3>2. CASE i # 0
      <4>1. i \in 1 .. Len(s) /\ i - 1 \in 0 .. Len(s)
        BY <3>2
      <4>2. f[i - 1] \in Seq(E) /\ f[i] = Step[i][f[i - 1]]
        BY <4>1, <1>2 DEF ToldForward
      <4> QED
        BY <3>2, <4>1, <4>2
    <3> QED
      BY <3>1, <3>2
  <2> QED
    BY <2>1, <1>2 DEF ToldForward
<1>4. KeptOf(s) = Kept(KeptOf(s))
  BY <1>3, Zenon DEF KeptOf
<1> DEFINE K == KeptOf(s)
<1> HIDE DEF K
<1>5. K = Kept(K)
  BY <1>4 DEF K
<1>6. K[0] = <<>>
  BY <1>5
<1>7. ASSUME NEW i \in 1 .. Len(s)
      PROVE  K[i] = IF Hollow(s[i]) THEN K[i - 1] ELSE K[i - 1] \o <<s[i]>>
  <2>1. i \in 0 .. Len(s) /\ i # 0
    OBVIOUS
  <2>2. K[i] = Kept(K)[i]
    BY <1>5
  <2> QED
    BY <2>1, <2>2 DEF Hollow
<1>8. ASSUME NEW i \in 0 .. Len(s) PROVE K[i] \in Seq(E)
  <2> DEFINE S == {n \in Nat : n <= Len(s) => K[n] \in Seq(E)}
  <2>1. 0 \in S
    BY <1>6, EmptySeq
  <2>2. ASSUME NEW n \in Nat, n \in S PROVE n + 1 \in S
    <3>1. CASE n + 1 <= Len(s)
      <4>1. n + 1 \in 1 .. Len(s) /\ (n + 1) - 1 = n /\ K[n] \in Seq(E) /\ s[n + 1] \in E
        BY <2>2, <3>1
      <4>4. K[n] \o <<s[n + 1]>> \in Seq(E)
        BY <4>1
      <4>2. K[n + 1] = K[n] \/ K[n + 1] = K[n] \o <<s[n + 1]>>
        BY <4>1, <1>7
      <4>3. K[n + 1] \in Seq(E)
        BY <4>1, <4>2, <4>4
      <4> QED
        BY <4>3
    <3> QED
      BY <3>1
  <2>3. i \in S
    <3> HIDE DEF S
    <3> QED
      BY <2>1, <2>2, NumbersInduction
  <2> QED
    BY <2>3
<1>9. K \in [0 .. Len(s) -> Seq(E)]
  BY <1>5, <1>8
<1> QED
  BY <1>6, <1>7, <1>9 DEF K

\* What is kept of the beginning is what is kept of the string alone, and then
\* what is kept of the rest follows.
LEMMA SolidConcat ==
  ASSUME NEW E, NEW s \in Seq(E), NEW t \in Seq(E)
  PROVE  Solid(s \o t) = Solid(s) \o Solid(t)
<1> DEFINE K == KeptOf(s)
           L == KeptOf(t)
           M == KeptOf(s \o t)
<1>0. s \o t \in Seq(E) /\ Len(s \o t) = Len(s) + Len(t) /\ Len(s) \in Nat /\ Len(t) \in Nat
  OBVIOUS
<1>1. /\ K \in [0 .. Len(s) -> Seq(E)]
      /\ K[0] = <<>>
      /\ \A i \in 1 .. Len(s) : K[i] = IF Hollow(s[i]) THEN K[i - 1] ELSE K[i - 1] \o <<s[i]>>
  BY KeptOfRecursion
<1>2. /\ L \in [0 .. Len(t) -> Seq(E)]
      /\ L[0] = <<>>
      /\ \A i \in 1 .. Len(t) : L[i] = IF Hollow(t[i]) THEN L[i - 1] ELSE L[i - 1] \o <<t[i]>>
  BY KeptOfRecursion
<1>3. /\ M \in [0 .. Len(s) + Len(t) -> Seq(E)]
      /\ M[0] = <<>>
      /\ \A i \in 1 .. Len(s) + Len(t) :
           M[i] = IF Hollow((s \o t)[i]) THEN M[i - 1] ELSE M[i - 1] \o <<(s \o t)[i]>>
  BY <1>0, KeptOfRecursion
<1> HIDE DEF K, L, M
<1>4. M[Len(s)] = K[Len(s)]
  <2> DEFINE S == {n \in Nat : n <= Len(s) => M[n] = K[n]}
  <2>1. 0 \in S
    BY <1>1, <1>3
  <2>2. ASSUME NEW n \in Nat, n \in S PROVE n + 1 \in S
    <3>1. CASE n + 1 <= Len(s)
      <4>1. n + 1 \in 1 .. Len(s) /\ n + 1 \in 1 .. Len(s) + Len(t) /\ (n + 1) - 1 = n
        BY <3>1, <1>0
      <4>2. (s \o t)[n + 1] = s[n + 1]
        BY <4>1
      <4>3. M[n] = K[n]
        BY <2>2, <3>1
      <4>4. M[n + 1] = K[n + 1]
        BY <4>1, <4>2, <4>3, <1>1, <1>3
      <4> QED
        BY <4>4
    <3> QED
      BY <3>1
  <2>3. Len(s) \in S
    <3> HIDE DEF S
    <3> QED
      BY <2>1, <2>2, <1>0, NumbersInduction
  <2> QED
    BY <2>3
<1> DEFINE m == Len(s)
           k == K[Len(s)]
           P(n) == n <= Len(t) => M[m + n] = k \o L[n]
<1>5. m \in Nat /\ k \in Seq(E) /\ M[m] = k
  BY <1>0, <1>1, <1>4
<1> HIDE DEF m, k
<1>6. P(0)
  <2>1. k \o <<>> = k
    BY <1>5
  <2> QED
    BY <2>1, <1>2, <1>5
<1>7. ASSUME NEW n \in Nat, P(n) PROVE P(n + 1)
  <2> SUFFICES ASSUME n + 1 <= Len(t) PROVE M[m + (n + 1)] = k \o L[n + 1]
    OBVIOUS
  <2> DEFINE b == t[n + 1]
             x == L[n]
  <2>1. n + 1 \in 1 .. Len(t) /\ (n + 1) - 1 = n /\ n \in 0 .. Len(t)
    BY <1>0
  <2>2. x \in Seq(E)
    BY <2>1, <1>2
  <2>3. b \in E
    BY <2>1
  <2>4. (s \o t)[m + (n + 1)] = b
    BY <2>1, <1>0 DEF m
  <2>5. m + (n + 1) \in 1 .. Len(s) + Len(t) /\ (m + (n + 1)) - 1 = m + n
    BY <2>1, <1>0 DEF m
  <2>6. M[m + n] = k \o x
    BY <2>1, <1>7
  <2>7. M[m + (n + 1)] = IF Hollow(b) THEN k \o x ELSE (k \o x) \o <<b>>
    BY <2>4, <2>5, <2>6, <1>3
  <2>8. L[n + 1] = IF Hollow(b) THEN x ELSE x \o <<b>>
    BY <2>1, <1>2
  <2> HIDE DEF b, x
  <2>9. (k \o x) \o <<b>> = k \o (x \o <<b>>)
    <3>1. PICK y \in Seq(E) : y = <<b>>
      <4>1. <<b>> \in Seq(E)
        BY <2>3
      <4> QED
        BY <4>1
    <3>2. Regroups(k, x, y)
      BY <2>2, <1>5, Regrouped
    <3>3. Regroups(k, x, <<b>>)
      BY <3>1, <3>2, Zenon
    <3> QED
      BY <3>3, Zenon DEF Regroups
  <2> QED
    BY <2>7, <2>8, <2>9
<1>8. P(Len(t))
  <2> DEFINE S == {n \in Nat : P(n)}
  <2> HIDE DEF P
  <2>1. 0 \in S /\ \A n \in Nat : n \in S => n + 1 \in S
    BY <1>6, <1>7
  <2>2. Nat \subseteq S
    <3> HIDE DEF S
    <3> QED
      BY <2>1, NumbersInduction
  <2> QED
    BY <2>2, <1>0
<1>9. M[Len(s) + Len(t)] = K[Len(s)] \o L[Len(t)]
  <2>1. Len(t) <= Len(t)
    BY <1>0
  <2> QED
    BY <2>1, <1>8, Zenon DEF m, k
<1> QED
  BY <1>0, <1>9, SolidIsKept DEF K, L, M

LEMMA SolidTyped ==
  ASSUME NEW E, NEW s \in Seq(E)
  PROVE  Solid(s) \in Seq(E)
<1>1. KeptOf(s) \in [0 .. Len(s) -> Seq(E)] /\ Len(s) \in 0 .. Len(s)
  BY KeptOfRecursion
<1> QED
  BY <1>1, SolidIsKept

\* Of blanks and zeros nothing is kept.
LEMMA SolidHollow ==
  ASSUME NEW E, NEW s \in Seq(E), \A i \in 1 .. Len(s) : Hollow(s[i])
  PROVE  Solid(s) = <<>>
<1> DEFINE K == KeptOf(s)
           S == {n \in Nat : n <= Len(s) => K[n] = <<>>}
<1>1. /\ K[0] = <<>>
      /\ \A i \in 1 .. Len(s) : K[i] = IF Hollow(s[i]) THEN K[i - 1] ELSE K[i - 1] \o <<s[i]>>
  BY KeptOfRecursion
<1> HIDE DEF K
<1>2. 0 \in S
  BY <1>1
<1>3. ASSUME NEW n \in Nat, n \in S PROVE n + 1 \in S
  <2>1. CASE n + 1 <= Len(s)
    <3>1. n + 1 \in 1 .. Len(s) /\ (n + 1) - 1 = n /\ K[n] = <<>>
      BY <2>1, <1>3
    <3>2. K[n + 1] = <<>>
      BY <3>1, <1>1
    <3> QED
      BY <3>2
  <2> QED
    BY <2>1
<1>4. Len(s) \in S
  <2> HIDE DEF S
  <2> QED
    BY <1>2, <1>3, NumbersInduction, LenProperties
<1> QED
  BY <1>4, SolidIsKept DEF K

(***************************************************************************)
(* Finding and replacing.                                                  *)
(***************************************************************************)

\* The places from i on where what stands in str.
Places(str, what, i) ==
  { k \in i .. Len(str) - Len(what) + 1 : SubSeq(str, k, k + Len(what) - 1) = what }

\* Find gives the first of them, or 0 when there is none.
LEMMA FindFirst ==
  ASSUME NEW str, NEW what, NEW i \in Nat \ {0}, Len(str) \in Nat, Len(what) \in Nat
  PROVE  IF Places(str, what, i) = {} THEN Find(str, what, i) = 0
         ELSE /\ Find(str, what, i) \in Places(str, what, i)
              /\ \A k \in Places(str, what, i) : Find(str, what, i) <= k
<1> DEFINE At == Places(str, what, i)
           F == Find(str, what, i)
<1>1. At \subseteq Nat
  BY DEF Places
<1>2. F = IF At = {} THEN 0 ELSE CHOOSE k \in At : \A j \in At : k <= j
  BY Zenon DEF Find, Places
<1> HIDE DEF At, F
<1>3. CASE At = {}
  BY <1>2, <1>3 DEF At, F
<1>4. CASE At # {}
  <2>1. \E k \in At : \A j \in At : k <= j
    BY <1>1, <1>4, LeastMember
  <2>2. F = CHOOSE k \in At : \A j \in At : k <= j
    BY <1>2, <1>4
  <2>3. F \in At /\ \A j \in At : F <= j
    BY <2>1, <2>2
  <2> QED
    BY <2>3, <1>4 DEF At, F
<1> QED
  BY <1>3, <1>4

\* Where Find finds something, it is in the string, and nothing stands before it.
LEMMA FindResult ==
  ASSUME NEW str, NEW what, NEW i \in Nat \ {0}, Len(str) \in Nat, Len(what) \in Nat
  PROVE  LET F == Find(str, what, i) IN
         /\ F \in Nat
         /\ F # 0 => /\ i <= F /\ F + Len(what) <= Len(str) + 1
                     /\ SubSeq(str, F, F + Len(what) - 1) = what
         /\ \A k \in Nat : (i <= k /\ k + Len(what) <= Len(str) + 1 /\ (F = 0 \/ k < F))
                             => SubSeq(str, k, k + Len(what) - 1) # what
<1> DEFINE At == Places(str, what, i)
           F == Find(str, what, i)
<1>1. IF At = {} THEN F = 0 ELSE F \in At /\ \A k \in At : F <= k
  BY FindFirst
<1> HIDE DEF F
<1>2. CASE At = {}
  <2>1. F = 0
    BY <1>1, <1>2
  <2>2. ASSUME NEW k \in Nat, i <= k, k + Len(what) <= Len(str) + 1
        PROVE  SubSeq(str, k, k + Len(what) - 1) # what
    <3>1. k \in i .. Len(str) - Len(what) + 1
      BY <2>2
    <3>2. k \notin At
      BY <1>2
    <3> QED
      BY <3>1, <3>2 DEF Places
  <2>3. F \in Nat /\ ~ (F # 0)
    BY <2>1
  <2>4. \A k \in Nat : (i <= k /\ k + Len(what) <= Len(str) + 1 /\ (F = 0 \/ k < F))
                         => SubSeq(str, k, k + Len(what) - 1) # what
    BY <2>2
  <2> QED
    BY <2>3, <2>4, Zenon DEF F
<1>3. CASE At # {}
  <2>1. F \in At /\ \A k \in At : F <= k
    BY <1>1, <1>3
  <2>2. /\ F \in i .. Len(str) - Len(what) + 1
        /\ SubSeq(str, F, F + Len(what) - 1) = what
    BY <2>1 DEF Places
  <2>3. ASSUME NEW k \in Nat, i <= k, k + Len(what) <= Len(str) + 1, k < F
        PROVE  SubSeq(str, k, k + Len(what) - 1) # what
    <3>1. k \in i .. Len(str) - Len(what) + 1
      BY <2>3
    <3>2. k \notin At
      BY <2>1, <2>2, <2>3
    <3> QED
      BY <3>1, <3>2 DEF Places
  <2>4. F \in Nat /\ F # 0 /\ i <= F /\ F + Len(what) <= Len(str) + 1
    BY <2>2
  <2> QED
    BY <2>2, <2>3, <2>4 DEF F
<1> QED
  BY <1>2, <1>3

\* What StrReplace makes of the string from i on.
ReplacedFrom(str, from, to) ==
  LET Replaced[i \in 1 .. Len(str) + 1] ==
        LET index == Find(str, from, i)
        IN  IF index = 0 THEN SubSeq(str, i, Len(str))
            ELSE SubSeq(str, i, index - 1) \o to \o Replaced[index + Len(from)]
  IN  Replaced

LEMMA StrReplaceIsReplaced ==
  ASSUME NEW str, NEW from, NEW to
  PROVE  StrReplace(str, from, to) = ReplacedFrom(str, from, to)[1]
BY Zenon DEF StrReplace, ReplacedFrom

LEMMA ReplacedRecursion ==
  ASSUME NEW E, NEW str \in Seq(E), NEW from \in Seq(E), NEW to \in Seq(E), from # <<>>
  PROVE  LET R == ReplacedFrom(str, from, to) IN
         /\ R \in [1 .. Len(str) + 1 -> Seq(E)]
         /\ \A i \in 1 .. Len(str) + 1 :
              LET index == Find(str, from, i)
              IN  R[i] = IF index = 0 THEN SubSeq(str, i, Len(str))
                         ELSE SubSeq(str, i, index - 1) \o to \o R[index + Len(from)]
<1> DEFINE N == Len(str) + 1
           at(i) == Find(str, from, i)
           Body(i, g) == IF at(i) = 0 THEN SubSeq(str, i, Len(str))
                         ELSE SubSeq(str, i, at(i) - 1) \o to \o g[at(i) + Len(from)]
           Step == [i \in 1 .. N |-> [g \in [1 .. N -> Seq(E)] |-> Body(i, g)]]
           R == ReplacedFrom(str, from, to)
<1>1. Len(str) \in Nat /\ Len(from) \in Nat \ {0} /\ N \in Nat
  BY EmptySeq
<1>2. ASSUME NEW i \in 1 .. N, at(i) # 0
      PROVE  /\ i <= at(i) /\ at(i) \in Nat
             /\ at(i) + Len(from) \in i + 1 .. N
             /\ SubSeq(str, i, at(i) - 1) \in Seq(E)
  <2>1. i \in Nat \ {0}
    OBVIOUS
  <2>2. at(i) \in Nat /\ i <= at(i) /\ at(i) + Len(from) <= Len(str) + 1
    BY <2>1, <1>1, <1>2, FindResult
  <2> HIDE DEF at
  <2>3. at(i) + Len(from) \in i + 1 .. N
    BY <2>2, <1>1
  <2>4. \A k \in i .. at(i) - 1 : str[k] \in E
    BY <2>2, <1>1
  <2>5. SubSeq(str, i, at(i) - 1) \in Seq(E)
    BY <2>2, <2>4, SubSeqProperties
  <2> QED
    BY <2>2, <2>3, <2>5
<1>3. ASSUME NEW i \in 1 .. N PROVE SubSeq(str, i, Len(str)) \in Seq(E)
  BY <1>1, SubSeqProperties
<1> HIDE DEF at
<1>4. ASSUME NEW i \in 1 .. N, NEW g \in [1 .. N -> Seq(E)] PROVE Body(i, g) \in Seq(E)
  <2>1. CASE at(i) = 0
    BY <2>1, <1>3
  <2>2. CASE at(i) # 0
    <3>1. SubSeq(str, i, at(i) - 1) \in Seq(E) /\ at(i) + Len(from) \in 1 .. N
      BY <2>2, <1>2
    <3>2. g[at(i) + Len(from)] \in Seq(E)
      BY <3>1
    <3>3. SubSeq(str, i, at(i) - 1) \o to \o g[at(i) + Len(from)] \in Seq(E)
      BY <3>1, <3>2, ConcatProperties
    <3> QED
      BY <3>3, <2>2
  <2> QED
    BY <2>1, <2>2
<1>5. TellsBackward(Step, N, Seq(E))
  <2>1. \A i \in 1 .. N : \A g \in [1 .. N -> Seq(E)] : Step[i][g] = Body(i, g)
    OBVIOUS
  <2>2. ASSUME NEW i \in 1 .. N, NEW g \in [1 .. N -> Seq(E)], NEW h \in [1 .. N -> Seq(E)],
               \A j \in i + 1 .. N : g[j] = h[j]
        PROVE  Body(i, g) = Body(i, h)
    BY <2>2, <1>2
  <2> HIDE DEF Body, Step
  <2>3. \A i \in 1 .. N : \A g \in [1 .. N -> Seq(E)] : Step[i][g] \in Seq(E)
    BY <2>1, <1>4
  <2>4. ASSUME NEW i \in 1 .. N, NEW g \in [1 .. N -> Seq(E)], NEW h \in [1 .. N -> Seq(E)],
               \A j \in i + 1 .. N : g[j] = h[j]
        PROVE  Step[i][g] = Step[i][h]
    <3>1. Body(i, g) = Body(i, h)
      BY <2>2, <2>4
    <3> QED
      BY <3>1, <2>1
  <2> QED
    BY <2>3, <2>4, <1>1 DEF TellsBackward
<1>6. PICK f : ToldBackward(f, Step, N, Seq(E))
  BY <1>5, BackwardRecursion
<1>7. f = [i \in 1 .. N |-> Body(i, f)]
  <2>1. f \in [1 .. N -> Seq(E)] /\ \A i \in 1 .. N : f[i] = Step[i][f]
    BY <1>6 DEF ToldBackward
  <2>2. \A i \in 1 .. N : Step[i][f] = Body(i, f)
    BY <2>1
  <2> HIDE DEF Body, Step
  <2> QED
    BY <2>1, <2>2
<1>8. R = [i \in 1 .. N |-> Body(i, R)]
  BY <1>7, Zenon DEF ReplacedFrom, at
<1> HIDE DEF R
<1>9. \A i \in 1 .. N : R[i] = Body(i, R)
  <2> HIDE DEF Body
  <2> QED
    BY <1>8
<1>10. R \in [1 .. N -> Seq(E)]
  <2> DEFINE P(n) == \A i \in 1 .. N : i + n > N => R[i] \in Seq(E)
             S == {n \in Nat : P(n)}
  <2>1. P(0)
    BY <1>1
  <2>2. ASSUME NEW n \in Nat, P(n) PROVE P(n + 1)
    <3> SUFFICES ASSUME NEW i \in 1 .. N, i + (n + 1) > N PROVE R[i] \in Seq(E)
      OBVIOUS
    <3>1. CASE at(i) = 0
      BY <3>1, <1>3, <1>9
    <3>2. CASE at(i) # 0
      <4>1. SubSeq(str, i, at(i) - 1) \in Seq(E) /\ at(i) + Len(from) \in i + 1 .. N
        BY <3>2, <1>2
      <4>2. at(i) + Len(from) \in 1 .. N /\ (at(i) + Len(from)) + n > N
        BY <4>1, <1>1
      <4>3. R[at(i) + Len(from)] \in Seq(E)
        BY <4>2, <2>2
      <4>4. SubSeq(str, i, at(i) - 1) \o to \o R[at(i) + Len(from)] \in Seq(E)
        BY <4>1, <4>3, ConcatProperties
      <4> QED
        BY <4>4, <3>2, <1>9
    <3> QED
      BY <3>1, <3>2
  <2>3. P(N)
    <3> HIDE DEF P
    <3>1. 0 \in S /\ \A n \in Nat : n \in S => n + 1 \in S
      BY <2>1, <2>2
    <3>2. Nat \subseteq S
      <4> HIDE DEF S
      <4> QED
        BY <3>1, NumbersInduction
    <3> QED
      BY <3>2, <1>1
  <2>4. \A i \in 1 .. N : R[i] \in Seq(E)
    BY <2>3, <1>1
  <2> QED
    BY <2>4, <1>8
<1> QED
  BY <1>9, <1>10 DEF R, at

LEMMA StrReplaceTyped ==
  ASSUME NEW E, NEW str \in Seq(E), NEW from \in Seq(E), NEW to \in Seq(E), from # <<>>
  PROVE  StrReplace(str, from, to) \in Seq(E)
<1>1. ReplacedFrom(str, from, to) \in [1 .. Len(str) + 1 -> Seq(E)]
  BY ReplacedRecursion
<1>2. 1 \in 1 .. Len(str) + 1
  OBVIOUS
<1> QED
  BY <1>1, <1>2, StrReplaceIsReplaced

(***************************************************************************)
(* Words, and the operations of a document.                                *)
(***************************************************************************)

\* A word begins where the blanks end, at the end of the buffer at the latest.
LEMMA WordStartFits ==
  ASSUME NEW E, NEW s \in Seq(E)
  PROVE  /\ WordStart(s) \in 1 .. Len(s) + 1
         /\ \A k \in 1 .. WordStart(s) - 1 : s[k] \in Whitespace
         /\ WordStart(s) <= Len(s) => s[WordStart(s)] \notin Whitespace
<1> DEFINE T == {i \in 1 .. Len(s) + 1 : i <= Len(s) => s[i] \notin Whitespace}
           Fits(i) == /\ \A k \in 1 .. i - 1 : s[k] \in Whitespace
                      /\ i <= Len(s) => s[i] \notin Whitespace
<1>0. Len(s) \in Nat
  OBVIOUS
<1>1. Len(s) + 1 \in T /\ T \subseteq Nat
  BY <1>0
<1>2. PICK i \in T : \A j \in T : i <= j
  <2> HIDE DEF T
  <2> QED
    BY <1>1, LeastMember
<1>3. i \in 1 .. Len(s) + 1 /\ Fits(i)
  <2>1. \A k \in 1 .. i - 1 : s[k] \in Whitespace
    BY <1>0, <1>2
  <2> QED
    BY <2>1, <1>2
<1>4. WordStart(s) = CHOOSE i_1 \in 1 .. Len(s) + 1 : Fits(i_1)
  BY Zenon DEF WordStart
<1>5. WordStart(s) \in 1 .. Len(s) + 1 /\ Fits(WordStart(s))
  <2> HIDE DEF Fits
  <2> QED
    BY <1>3, <1>4
<1> QED
  BY <1>5

\* It ends before the next blank, or at the end of the buffer.
LEMMA WordEndFits ==
  ASSUME NEW E, NEW s \in Seq(E)
  PROVE  WordEnd(s) \in WordStart(s) - 1 .. Len(s)
<1> DEFINE a == WordStart(s)
           T == {i \in a - 1 .. Len(s) : i < Len(s) => s[i + 1] \in Whitespace}
           Fits(i) == /\ \A k \in a .. i : s[k] \notin Whitespace
                      /\ i < Len(s) => s[i + 1] \in Whitespace
<1>0. Len(s) \in Nat /\ a \in 1 .. Len(s) + 1
  BY WordStartFits
<1>1. a <= Len(s) => s[a] \notin Whitespace
  BY WordStartFits
<1>4. WordEnd(s) = CHOOSE i \in a - 1 .. Len(s) : Fits(i)
  BY Zenon DEF WordEnd
<1> HIDE DEF a
<1>2. PICK i \in T : \A j \in T : i <= j
  <2>1. Len(s) \in T /\ T \subseteq Nat
    BY <1>0
  <2> HIDE DEF T
  <2> QED
    BY <2>1, LeastMember
<1>3. i \in a - 1 .. Len(s) /\ Fits(i)
  <2>1. ASSUME NEW k \in a .. i PROVE s[k] \notin Whitespace
    <3>1. CASE k = a
      BY <3>1, <1>0, <1>1, <1>2, <2>1
    <3>2. CASE k # a
      <4>1. k - 1 \in a - 1 .. Len(s) /\ k - 1 < i /\ k - 1 < Len(s) /\ (k - 1) + 1 = k
        BY <3>2, <1>0, <1>2, <2>1
      <4>2. k - 1 \notin T
        BY <4>1, <1>2, <1>0
      <4> QED
        BY <4>1, <4>2
    <3> QED
      BY <3>1, <3>2
  <2> QED
    BY <2>1, <1>2
<1>5. WordEnd(s) \in a - 1 .. Len(s)
  <2> HIDE DEF Fits
  <2> QED
    BY <1>3, <1>4
<1> QED
  BY <1>5 DEF a

\* The buffer is blanks, the word and what is left.
LEMMA WordAndRest ==
  ASSUME NEW E, NEW s \in Seq(E)
  PROVE  /\ Word(s) \in Seq(E) /\ Unread(s) \in Seq(E)
         /\ Len(Word(s)) \in Nat /\ Len(Word(s)) <= Len(s)
         /\ Solid(s) = Solid(Word(s)) \o Solid(Unread(s))
<1> DEFINE a == WordStart(s)
           b == WordEnd(s)
           blanks == SubSeq(s, 1, a - 1)
<1>1. a \in 1 .. Len(s) + 1 /\ (\A k \in 1 .. a - 1 : s[k] \in Whitespace) /\ Len(s) \in Nat
  BY WordStartFits
<1>2. b \in a - 1 .. Len(s)
  BY WordEndFits
<1> DEFINE w == SubSeq(s, a, b)
           u == SubSeq(s, b + 1, Len(s))
<1>3. Word(s) = w /\ Unread(s) = u
  BY DEF Word, Unread
<1> HIDE DEF a, b
<1>4. blanks \in Seq(E) /\ Len(blanks) = a - 1 /\ \A i \in 1 .. a - 1 : blanks[i] = s[i]
  <2>1. \A i \in 1 .. a - 1 : s[i] \in E
    BY <1>1
  <2> QED
    BY <1>1, <2>1, SubSeqProperties
<1>5. w \in Seq(E) /\ Len(w) \in Nat /\ Len(w) <= Len(s)
  <2>1. \A i \in a .. b : s[i] \in E
    BY <1>1, <1>2
  <2>2. w \in Seq(E) /\ Len(w) = IF a <= b THEN b - a + 1 ELSE 0
    BY <1>1, <1>2, <2>1, SubSeqProperties
  <2> QED
    BY <1>1, <1>2, <2>2
<1>6. u \in Seq(E)
  <2>1. \A i \in b + 1 .. Len(s) : s[i] \in E
    BY <1>1, <1>2
  <2> QED
    BY <1>1, <1>2, <2>1, SubSeqProperties
<1>7. s = blanks \o (w \o u)
  <2>1. w \o u = SubSeq(s, a, Len(s))
    <3>1. b \in a - 1 .. Len(s) /\ Len(s) \in b .. Len(s)
      BY <1>1, <1>2
    <3> QED
      BY <1>1, <3>1, ConcatAdjacentSubSeq
  <2>2. blanks \o SubSeq(s, (a - 1) + 1, Len(s)) = SubSeq(s, 1, Len(s))
    <3>1. 1 \in 1 .. Len(s) + 1 /\ a - 1 \in 1 - 1 .. Len(s) /\ Len(s) \in a - 1 .. Len(s)
      BY <1>1
    <3> QED
      BY <3>1, ConcatAdjacentSubSeq
  <2>3. (a - 1) + 1 = a /\ SubSeq(s, 1, Len(s)) = s
    BY <1>1, SubSeqFull
  <2> QED
    BY <2>1, <2>2, <2>3
<1>8. Solid(blanks) = <<>>
  <2>1. \A i \in 1 .. Len(blanks) : Hollow(blanks[i])
    BY <1>1, <1>4 DEF Hollow
  <2> HIDE DEF blanks
  <2> QED
    BY <2>1, <1>4, SolidHollow
<1> HIDE DEF blanks, w, u
<1>9. Solid(s) = Solid(w) \o Solid(u)
  <2>1. w \o u \in Seq(E) /\ Solid(w) \in Seq(E) /\ Solid(u) \in Seq(E)
    BY <1>5, <1>6, ConcatProperties, SolidTyped
  <2>2. Solid(w \o u) = Solid(w) \o Solid(u)
    BY <1>5, <1>6, SolidConcat
  <2>3. Solid(s) = Solid(blanks) \o Solid(w \o u)
    BY <1>4, <1>7, <2>1, SolidConcat
  <2>4. Solid(w) \o Solid(u) \in Seq(E)
    BY <2>1, ConcatProperties
  <2> QED
    BY <1>8, <2>2, <2>3, <2>4, ConcatEmptySeq
<1> QED
  BY <1>3, <1>5, <1>6, <1>9

LEMMA PrefixTyped ==
  ASSUME NEW E, NEW s \in Seq(E), NEW m \in Nat \ {0}, NEW n \in Nat, n <= Len(s)
  PROVE  SubSeq(s, m, n) \in Seq(E)
<1>1. \A i \in m .. n : s[i] \in E
  OBVIOUS
<1> QED
  BY <1>1, SubSeqProperties

LEMMA MStuffing ==
  /\ Len(mStuffing) = 2
  /\ mStuffing[1] = Rule(<<170>>, <<187, 0>>)
  /\ mStuffing[2] = Rule(<<187>>, <<187, 1>>)
BY DEF mStuffing, AA, BB

\* Stuffing and unstuffing bytes gives bytes.
LEMMA StuffTyped ==
  ASSUME NEW s \in Seq(Byte)
  PROVE  StuffAll(s) \in Seq(Byte) /\ UnstuffAll(s) \in Seq(Byte)
<1>1. /\ <<170>> \in Seq(Byte) /\ <<170>> # <<>>
      /\ <<187>> \in Seq(Byte) /\ <<187>> # <<>>
      /\ <<187, 0>> \in Seq(Byte) /\ <<187, 0>> # <<>>
      /\ <<187, 1>> \in Seq(Byte) /\ <<187, 1>> # <<>>
  BY DEF Byte
<1> DEFINE t == StrReplace(s, <<170>>, <<187, 0>>)
           u == StrReplace(s, <<187, 0>>, <<170>>)
<1>2. t \in Seq(Byte) /\ u \in Seq(Byte)
  BY <1>1, StrReplaceTyped
<1>3. StuffAll(s) = StrReplace(t, <<187>>, <<187, 1>>)
  BY MStuffing DEF StuffAll, Stuff, Rule
<1>4. UnstuffAll(s) = StrReplace(u, <<187, 1>>, <<187>>)
  BY MStuffing DEF UnstuffAll, Unstuff, Rule
<1> HIDE DEF t, u
<1>5. StrReplace(t, <<187>>, <<187, 1>>) \in Seq(Byte)
  BY <1>1, <1>2, StrReplaceTyped
<1>6. StrReplace(u, <<187, 1>>, <<187>>) \in Seq(Byte)
  BY <1>1, <1>2, StrReplaceTyped
<1> QED
  BY <1>3, <1>4, <1>5, <1>6

LEMMA AddTyped ==
  ASSUME NEW s \in Seq(Byte), NEW v \in Seq(Byte), NEW n \in 0 .. Len(v)
  PROVE  /\ Add(s, v, n) \in Seq(Byte) /\ AddData(s, v, n) \in Seq(Byte)
         /\ AddText(s, v) \in Seq(Byte) /\ AssignText(s, v) \in Seq(Byte)
         /\ PackageFromByteArray(s, v) \in Seq(Byte)
<1>1. SubSeq(v, 1, n) \in Seq(Byte)
  BY PrefixTyped
<1>2. s \o v \in Seq(Byte) /\ s \o SubSeq(v, 1, n) \in Seq(Byte)
  BY <1>1, ConcatProperties
<1>3. Add(s, v, n) \in Seq(Byte) /\ AddData(s, v, n) \in Seq(Byte)
  BY <1>2 DEF Add, AddData
<1> DEFINE z == [i \in DOMAIN v |-> Zero]
<1>4. z \in Seq(Byte) /\ Len(z) = Len(v)
  <2>1. DOMAIN v = 1 .. Len(v) /\ Len(v) \in Nat /\ Zero \in Byte
    BY LenProperties DEF Zero, Byte
  <2>2. z = [i \in 1 .. Len(v) |-> Zero]
    BY <2>1
  <2> QED
    BY <2>1, <2>2
<1>5. AddText(s, v) = s \o z /\ AssignText(s, v) = <<>> \o z
  BY <1>4, LenProperties DEF AddText, AssignText, ClearContent, Add
<1>6. PackageFromByteArray(s, v) = <<>> \o UnstuffAll(v)
  BY DEF PackageFromByteArray, FromByteArray, ClearContent
<1> HIDE DEF z
<1>7. AddText(s, v) \in Seq(Byte) /\ AssignText(s, v) \in Seq(Byte)
  BY <1>4, <1>5, ConcatProperties, EmptySeq
<1>8. PackageFromByteArray(s, v) \in Seq(Byte)
  BY <1>6, StuffTyped, ConcatProperties, EmptySeq
<1> QED
  BY <1>3, <1>7, <1>8

LEMMA ErasedTyped ==
  ASSUME NEW s \in Seq(Byte), NEW m \in 0 .. Len(s), NEW n \in 0 .. Len(s)
  PROVE  Erased(s, m, n) \in Seq(Byte)
<1>1. m <= Len(s) /\ Len(s) \in Nat /\ m + n + 1 \in Nat \ {0}
  OBVIOUS
<1>2. SubSeq(s, 1, m) \in Seq(Byte) /\ SubSeq(s, m + n + 1, Len(s)) \in Seq(Byte)
  BY <1>1, PrefixTyped
<1>3. SubSeq(s, 1, m) \o SubSeq(s, m + n + 1, Len(s)) \in Seq(Byte)
  BY <1>2, ConcatProperties
<1> QED
  BY <1>3 DEF Erased

\* What was put behind a string is behind it.
LEMMA BehindConcat ==
  ASSUME NEW E, NEW s \in Seq(E), NEW x \in Seq(E)
  PROVE  SubSeq(s \o x, Len(s) + 1, Len(s \o x)) = x
<1>1. /\ Len(s \o x) = Len(s) + Len(x) /\ Len(s) \in Nat /\ Len(x) \in Nat
      /\ \A i \in 1 .. Len(s) + Len(x) : (s \o x)[i] = IF i <= Len(s) THEN s[i] ELSE x[i - Len(s)]
      /\ s \o x \in Seq(E)
  BY ConcatProperties
<1> DEFINE y == SubSeq(s \o x, Len(s) + 1, Len(s \o x))
<1>2. \A i \in Len(s) + 1 .. Len(s \o x) : (s \o x)[i] \in E
  BY <1>1
<1>3. /\ y \in Seq(E) /\ Len(y) = Len(x)
      /\ \A i \in 1 .. Len(x) : y[i] = (s \o x)[Len(s) + 1 + i - 1]
  BY <1>1, <1>2, SubSeqProperties
<1>4. \A i \in 1 .. Len(x) : y[i] = x[i]
  BY <1>1, <1>3
<1> HIDE DEF y
<1>5. y = x
  BY <1>3, <1>4, SeqEqual
<1> QED
  BY <1>5 DEF y

\* FromStream adds the first word and zeros to a document.
LEMMA FromStreamAdds ==
  ASSUME NEW s \in Seq(Byte), NEW buffer \in Seq(Byte)
  PROVE  LET new == FromStream(s, buffer) IN
         /\ new \in Seq(Byte)
         /\ Solid(SubSeq(new, Len(s) + 1, Len(new))) = Solid(Word(buffer))
<1> DEFINE w == Word(buffer)
           z == [i \in 1 .. Len(buffer) - Len(w) |-> NUL]
           new == FromStream(s, buffer)
<1>1. w \in Seq(Byte) /\ Len(w) \in Nat /\ Len(w) <= Len(buffer) /\ Len(buffer) \in Nat
  BY WordAndRest
<1>2. new = s \o (w \o z)
  BY DEF FromStream, Add
<1> HIDE DEF w, new
<1>3. z \in Seq(Byte) /\ \A i \in 1 .. Len(z) : Hollow(z[i])
  BY <1>1 DEF NUL, Byte, Hollow
<1> HIDE DEF z
<1>4. w \o z \in Seq(Byte)
  BY <1>1, <1>3, ConcatProperties
<1>5. new \in Seq(Byte)
  BY <1>2, <1>4, ConcatProperties
<1>6. SubSeq(new, Len(s) + 1, Len(new)) = w \o z
  <2> DEFINE x == w \o z
  <2>1. x \in Seq(Byte)
    BY <1>4
  <2> HIDE DEF x
  <2>2. SubSeq(s \o x, Len(s) + 1, Len(s \o x)) = x
    BY <2>1, BehindConcat
  <2> QED
    BY <1>2, <2>2 DEF x
<1>7. Solid(w \o z) = Solid(w)
  <2>1. Solid(w \o z) = Solid(w) \o Solid(z)
    BY <1>1, <1>3, SolidConcat
  <2>2. Solid(z) = <<>> /\ Solid(w) \in Seq(Byte)
    BY <1>1, <1>3, SolidHollow, SolidTyped
  <2> QED
    BY <2>1, <2>2, ConcatEmptySeq
<1> QED
  BY <1>5, <1>6, <1>7 DEF w, new

(***************************************************************************)
(* The documents.                                                          *)
(***************************************************************************)

\* The documents keep both rules, everything is bytes, and what came out of the
\* stream buffer and what is still in it is what was written.
DocumentTyped(d) ==
  d \in [Packages -> [content : Seq(Byte), stuffing : {mStuffing}]]

DocInv ==
  /\ DocumentTyped(document)
  /\ stream \in Seq(Byte)
  /\ sent \in Seq(Byte)
  /\ received \in Seq(Byte)
  /\ StreamLosesNothing

LEMMA DocInitHolds == DocInit => DocInv
<1> SUFFICES ASSUME DocInit PROVE DocInv
  OBVIOUS
<1>1. <<>> \in Seq(Byte)
  BY EmptySeq
<1>2. document = [p \in Packages |-> NewPackage] /\ stream = <<>> /\ sent = <<>> /\ received = <<>>
  BY DEF DocInit
<1>3. DocumentTyped(document)
  BY <1>1, <1>2 DEF DocumentTyped, NewPackage
<1>4. Solid(<<>>) \in Seq(Byte)
  BY <1>1, SolidTyped
<1>5. StreamLosesNothing
  BY <1>2, <1>4, ConcatEmptySeq DEF StreamLosesNothing
<1> QED
  BY <1>1, <1>2, <1>3, <1>5 DEF DocInv

\* A document whose content alone changes keeps its rules.
LEMMA ContentReplaced ==
  ASSUME DocumentTyped(document), NEW p \in Packages, NEW content \in Seq(Byte)
  PROVE  DocumentTyped([document EXCEPT ![p].content = content])
BY DEF DocumentTyped

\* Documents that pass through operations that leave the stream buffer alone.
LEMMA StreamUntouched ==
  ASSUME DocInv, DocumentTyped(document'), UNCHANGED <<stream, sent, received>>
  PROVE  DocInv'
<1>1. stream' = stream /\ sent' = sent /\ received' = received
  OBVIOUS
<1>2. StreamLosesNothing'
  BY <1>1, Zenon DEF DocInv, StreamLosesNothing
<1>3. DocumentTyped(document)'
  BY DEF DocumentTyped
<1>4. (stream \in Seq(Byte))' /\ (sent \in Seq(Byte))' /\ (received \in Seq(Byte))'
  BY <1>1 DEF DocInv
<1> QED
  BY <1>2, <1>3, <1>4, Zenon DEF DocInv

LEMMA BecomesKeeps ==
  ASSUME DocInv, NEW p \in Packages, NEW content \in Seq(Byte), Becomes(p, content)
  PROVE  DocInv'
<1>1. DocumentTyped(document')
  BY ContentReplaced DEF Becomes, DocInv
<1> QED
  BY <1>1, StreamUntouched DEF Becomes

LEMMA ContentIsBytes ==
  ASSUME DocInv, NEW p \in Packages
  PROVE  document[p].content \in Seq(Byte)
BY DEF DocInv, DocumentTyped

LEMMA DocStep == DocInv /\ [DocNext]_docVars => DocInv'
<1> SUFFICES ASSUME DocInv, [DocNext]_docVars PROVE DocInv'
  OBVIOUS
<1>1. ASSUME NEW p \in Packages, Compose(p) PROVE DocInv'
  <2> DEFINE c == document[p].content
  <2>1. c \in Seq(Byte)
    BY ContentIsBytes
  <2>2. PICK v \in Texts :
          \/ \E n \in 0 .. Len(v) : Becomes(p, Add(c, v, n)) \/ Becomes(p, AddData(c, v, n))
          \/ Becomes(p, AddText(c, v))
          \/ Becomes(p, AssignText(c, v))
          \/ Becomes(p, PackageFromByteArray(c, v))
    BY <1>1, Zenon DEF Compose
  <2>3. v \in Seq(Byte)
    BY DocumentsAssumption DEF Byte
  <2>4. 0 \in 0 .. Len(v)
    BY <2>3, LenProperties
  <2> HIDE DEF c
  <2>5. ASSUME NEW n \in 0 .. Len(v), Becomes(p, Add(c, v, n)) \/ Becomes(p, AddData(c, v, n))
        PROVE  DocInv'
    <3>1. Add(c, v, n) \in Seq(Byte) /\ AddData(c, v, n) \in Seq(Byte)
      BY <2>1, <2>3, AddTyped
    <3> QED
      BY <3>1, <2>5, BecomesKeeps
  <2>6. /\ AddText(c, v) \in Seq(Byte) /\ AssignText(c, v) \in Seq(Byte)
        /\ PackageFromByteArray(c, v) \in Seq(Byte)
    BY <2>1, <2>3, <2>4, AddTyped
  <2> QED
    BY <2>2, <2>5, <2>6, BecomesKeeps
<1>2. ASSUME NEW p \in Packages, RemoveFrom(p) PROVE DocInv'
  <2> DEFINE c == document[p].content
  <2>1. c \in Seq(Byte)
    BY ContentIsBytes
  <2>2. PICK from \in 0 .. Len(c), to \in 0 .. Len(c) : Becomes(p, Erased(c, from, to))
    BY <1>2, Zenon DEF RemoveFrom
  <2> HIDE DEF c
  <2>3. Erased(c, from, to) \in Seq(Byte)
    BY <2>1, ErasedTyped
  <2> QED
    BY <2>2, <2>3, BecomesKeeps
<1>3. ASSUME NEW p \in Packages, WriteStream(p) PROVE DocInv'
  <2> DEFINE array == PackageToByteArray(document[p].content)
  <2>1. array \in Seq(Byte)
    BY ContentIsBytes, StuffTyped DEF PackageToByteArray
  <2>2. stream' = stream \o array /\ sent' = sent \o array /\ UNCHANGED <<document, received>>
    BY <1>3 DEF WriteStream, ToStream
  <2> HIDE DEF array
  <2>3. /\ stream \in Seq(Byte) /\ sent \in Seq(Byte) /\ received \in Seq(Byte)
        /\ received \o Solid(stream) = Solid(sent) /\ DocumentTyped(document)
    BY DEF DocInv, StreamLosesNothing
  <2>4. Solid(stream') = Solid(stream) \o Solid(array) /\ Solid(sent') = Solid(sent) \o Solid(array)
    BY <2>1, <2>2, <2>3, SolidConcat
  <2>5. /\ Solid(stream) \in Seq(Byte) /\ Solid(array) \in Seq(Byte)
        /\ stream' \in Seq(Byte) /\ sent' \in Seq(Byte)
    BY <2>1, <2>2, <2>3, SolidTyped, ConcatProperties
  <2>6. (received \o Solid(stream)) \o Solid(array) = received \o (Solid(stream) \o Solid(array))
    <3>1. received \in Seq(Byte) /\ Solid(stream) \in Seq(Byte) /\ Solid(array) \in Seq(Byte)
      BY <2>3, <2>5
    <3> QED
      <4>1. Regroups(received, Solid(stream), Solid(array))
        BY <3>1, Regrouped
      <4> QED
        BY <4>1, Zenon DEF Regroups
  <2>7. received' \o Solid(stream') = Solid(sent')
    BY <2>2, <2>3, <2>4, <2>6, Zenon
  <2>8. StreamLosesNothing'
    BY <2>7, Zenon DEF StreamLosesNothing
  <2>9. DocumentTyped(document)'
    BY <2>2, <2>3 DEF DocumentTyped
  <2> QED
    BY <2>2, <2>3, <2>5, <2>8, <2>9 DEF DocInv
<1>4. ASSUME NEW p \in Packages, ReadStream(p) PROVE DocInv'
  <2> DEFINE old == document[p].content
             new == FromStream(old, stream)
             read == Solid(SubSeq(new, Len(old) + 1, Len(new)))
             w == Word(stream)
             u == Unread(stream)
  <2>1. old \in Seq(Byte)
    BY ContentIsBytes
  <2>2. /\ document' = [document EXCEPT ![p].content = new]
        /\ stream' = u /\ received' = received \o read /\ sent' = sent
    BY <1>4, Zenon DEF ReadStream
  <2>3. /\ stream \in Seq(Byte) /\ sent \in Seq(Byte) /\ received \in Seq(Byte)
        /\ received \o Solid(stream) = Solid(sent) /\ DocumentTyped(document)
    BY DEF DocInv, StreamLosesNothing
  <2> HIDE DEF old
  <2>4. new \in Seq(Byte) /\ read = Solid(w)
    BY <2>1, <2>3, FromStreamAdds
  <2>5. w \in Seq(Byte) /\ u \in Seq(Byte) /\ Solid(stream) = Solid(w) \o Solid(u)
    BY <2>3, WordAndRest
  <2> HIDE DEF new, read, w, u
  <2>6. Solid(w) \in Seq(Byte) /\ Solid(u) \in Seq(Byte)
    BY <2>5, SolidTyped
  <2>7. (received \o Solid(w)) \o Solid(u) = received \o (Solid(w) \o Solid(u))
    <3>1. Regroups(received, Solid(w), Solid(u))
      BY <2>3, <2>6, Regrouped
    <3> QED
      BY <3>1, Zenon DEF Regroups
  <2>8. received' \o Solid(stream') = Solid(sent')
    BY <2>2, <2>3, <2>4, <2>5, <2>7, Zenon
  <2>9. StreamLosesNothing'
    BY <2>8, Zenon DEF StreamLosesNothing
  <2>10. DocumentTyped(document')
    BY <2>2, <2>3, <2>4, ContentReplaced
  <2>11. DocumentTyped(document)'
    BY <2>10 DEF DocumentTyped
  <2>12. received' \in Seq(Byte)
    BY <2>2, <2>3, <2>4, <2>6, ConcatProperties
  <2> QED
    BY <2>2, <2>3, <2>5, <2>9, <2>11, <2>12 DEF DocInv
<1>5. ASSUME NEW p \in Packages, NEW q \in Packages, MovePackage(p, q) PROVE DocInv'
  <2>1. DocumentTyped(document')
    BY <1>5 DEF MovePackage, DocInv, DocumentTyped
  <2> QED
    BY <2>1, <1>5, StreamUntouched DEF MovePackage
<1>6. ASSUME NEW p \in Packages, NEW q \in Packages, CopyPackage(p, q) PROVE DocInv'
  <2>1. DocumentTyped(document')
    BY <1>6 DEF CopyPackage, DocInv, DocumentTyped
  <2> QED
    BY <2>1, <1>6, StreamUntouched DEF CopyPackage
<1>7. ASSUME UNCHANGED docVars PROVE DocInv'
  <2>1. document' = document /\ UNCHANGED <<stream, sent, received>>
    BY <1>7 DEF docVars
  <2>2. DocumentTyped(document')
    BY <2>1 DEF DocInv
  <2> QED
    BY <2>1, <2>2, StreamUntouched
<1> QED
  BY <1>1, <1>2, <1>3, <1>4, <1>5, <1>6, <1>7 DEF DocNext

LEMMA DocInvariant == DocSpec => []DocInv
BY DocInitHolds, DocStep, PTL DEF DocSpec

\* Between one document and another nothing but blanks and zeros is lost or
\* repeated, for any documents, any texts and any number of writes and reads
\* (operator<<, operator>>).
THEOREM StreamSafety == DocSpec => []StreamLosesNothing
<1>1. DocInv => StreamLosesNothing
  BY DEF DocInv
<1> QED
  BY DocInvariant, <1>1, PTL

\* However packages are copied, moved, swapped and filled, every one of them keeps
\* the two rules its headers are made of (IsValid, mStuffing).
THEOREM PackagesValid == DocSpec => []PackagesStayValid
<1>1. DocInv => PackagesStayValid
  <2> SUFFICES ASSUME DocInv, NEW p \in Packages PROVE IsValid(p)
    BY DEF PackagesStayValid
  <2>1. document[p].stuffing = mStuffing
    BY DEF DocInv, DocumentTyped
  <2>2. /\ mStuffing[1].from # <<>> /\ mStuffing[1].to # <<>>
        /\ mStuffing[2].from # <<>> /\ mStuffing[2].to # <<>>
    BY MStuffing DEF Rule
  <2> QED
    BY <2>1, <2>2, MStuffing DEF IsValid
<1> QED
  BY DocInvariant, <1>1, PTL

(***************************************************************************)
(* Stuffing.                                                               *)
(***************************************************************************)

\* Whether what stands in str at i.
StandsAt(str, what, i) ==
  i + Len(what) <= Len(str) + 1 /\ SubSeq(str, i, i + Len(what) - 1) = what

LEMMA FindHere ==
  ASSUME NEW str, NEW what, NEW i \in Nat \ {0}, Len(str) \in Nat, Len(what) \in Nat
  PROVE  /\ StandsAt(str, what, i) => Find(str, what, i) = i
         /\ ~StandsAt(str, what, i) => Find(str, what, i) = Find(str, what, i + 1)
<1> DEFINE F(k) == Find(str, what, k)
<1>1. ASSUME NEW k \in Nat \ {0}
      PROVE  /\ F(k) \in Nat
             /\ F(k) # 0 => k <= F(k) /\ StandsAt(str, what, F(k))
             /\ \A j \in Nat : (k <= j /\ StandsAt(str, what, j)) => F(k) # 0 /\ F(k) <= j
  <2> DEFINE R == Find(str, what, k)
  <2>1. /\ R \in Nat
        /\ R # 0 => /\ k <= R /\ R + Len(what) <= Len(str) + 1
                    /\ SubSeq(str, R, R + Len(what) - 1) = what
    BY FindResult
  <2>2. \A j \in Nat : (k <= j /\ j + Len(what) <= Len(str) + 1 /\ (R = 0 \/ j < R))
                         => SubSeq(str, j, j + Len(what) - 1) # what
    BY FindResult
  <2> HIDE DEF R
  <2>3. R # 0 => k <= R /\ StandsAt(str, what, R)
    BY <2>1 DEF StandsAt
  <2>4. ASSUME NEW j \in Nat, k <= j, StandsAt(str, what, j) PROVE R # 0 /\ R <= j
    BY <2>1, <2>2, <2>4 DEF StandsAt
  <2> QED
    BY <2>1, <2>3, <2>4 DEF R
<1>2. i + 1 \in Nat \ {0}
  OBVIOUS
<1> DEFINE f == F(i)
           g == F(i + 1)
<1>3. /\ f \in Nat
      /\ f # 0 => i <= f /\ StandsAt(str, what, f)
      /\ \A j \in Nat : (i <= j /\ StandsAt(str, what, j)) => f # 0 /\ f <= j
  BY <1>1
<1>4. /\ g \in Nat
      /\ g # 0 => i + 1 <= g /\ StandsAt(str, what, g)
      /\ \A j \in Nat : (i + 1 <= j /\ StandsAt(str, what, j)) => g # 0 /\ g <= j
  BY <1>1, <1>2
<1> HIDE DEF f, g
<1>5. ASSUME StandsAt(str, what, i) PROVE f = i
  BY <1>3, <1>5
<1>6. ASSUME ~StandsAt(str, what, i) PROVE f = g
  <2>1. f # 0 => i + 1 <= f /\ g # 0 /\ g <= f
    BY <1>3, <1>4, <1>6
  <2>2. g # 0 => f # 0 /\ f <= g
    BY <1>3, <1>4
  <2> QED
    BY <2>1, <2>2, <1>3, <1>4
<1> QED
  BY <1>5, <1>6 DEF f, g

\* StrReplace goes through the string one byte or one occurrence at a time.
GoesThrough(R, E, str, from, to) ==
  /\ R \in [1 .. Len(str) + 1 -> Seq(E)]
  /\ R[Len(str) + 1] = <<>>
  /\ \A i \in 1 .. Len(str) :
       /\ StandsAt(str, from, i) => R[i] = to \o R[i + Len(from)]
       /\ ~StandsAt(str, from, i) => R[i] = <<str[i]>> \o R[i + 1]

LEMMA ReplacedStep ==
  ASSUME NEW E, NEW str \in Seq(E), NEW from \in Seq(E), NEW to \in Seq(E), from # <<>>
  PROVE  GoesThrough(ReplacedFrom(str, from, to), E, str, from, to)
<1> DEFINE R == ReplacedFrom(str, from, to)
           at(i) == Find(str, from, i)
<1>0. Len(str) \in Nat /\ Len(from) \in Nat \ {0}
  BY EmptySeq
<1>1. /\ R \in [1 .. Len(str) + 1 -> Seq(E)]
      /\ \A i \in 1 .. Len(str) + 1 :
           R[i] = IF at(i) = 0 THEN SubSeq(str, i, Len(str))
                  ELSE SubSeq(str, i, at(i) - 1) \o to \o R[at(i) + Len(from)]
  BY ReplacedRecursion
<1> HIDE DEF R
<1>2. ASSUME NEW i \in 1 .. Len(str) + 1, at(i) # 0
      PROVE  at(i) \in Nat /\ i <= at(i) /\ at(i) + Len(from) <= Len(str) + 1
  <2>1. i \in Nat \ {0}
    OBVIOUS
  <2> QED
    BY <2>1, <1>0, <1>2, FindResult
<1>3. \A i \in 1 .. Len(str) : (StandsAt(str, from, i) => at(i) = i)
                                /\ (~StandsAt(str, from, i) => at(i) = at(i + 1))
  BY <1>0, FindHere
<1> HIDE DEF at
<1>4. R[Len(str) + 1] = <<>>
  <2>1. Len(str) + 1 \in 1 .. Len(str) + 1
    BY <1>0
  <2>2. at(Len(str) + 1) = 0
    BY <2>1, <1>0, <1>2
  <2>3. R[Len(str) + 1] = SubSeq(str, Len(str) + 1, Len(str))
    BY <2>1, <2>2, <1>1
  <2> QED
    BY <2>3, <1>0, SubSeqEmpty
<1>5. ASSUME NEW i \in 1 .. Len(str), StandsAt(str, from, i) PROVE R[i] = to \o R[i + Len(from)]
  <2>1. at(i) = i /\ i # 0 /\ i \in 1 .. Len(str) + 1
    BY <1>0, <1>3, <1>5
  <2>2. R[i] = SubSeq(str, i, i - 1) \o to \o R[i + Len(from)]
    BY <2>1, <1>1
  <2>3. SubSeq(str, i, i - 1) = <<>>
    BY SubSeqEmpty
  <2>4. <<>> \o to = to
    BY ConcatEmptySeq
  <2> QED
    BY <2>2, <2>3, <2>4
<1>6. ASSUME NEW i \in 1 .. Len(str), ~StandsAt(str, from, i) PROVE R[i] = <<str[i]>> \o R[i + 1]
  <2>1. at(i) = at(i + 1) /\ i \in 1 .. Len(str) + 1 /\ i + 1 \in 1 .. Len(str) + 1
    BY <1>0, <1>3, <1>6
  <2>2. <<str[i]>> \in Seq(E)
    OBVIOUS
  <2>3. CASE at(i) = 0
    <3>1. R[i] = SubSeq(str, i, Len(str)) /\ R[i + 1] = SubSeq(str, i + 1, Len(str))
      BY <2>1, <2>3, <1>1
    <3>2. Len(str) \in i .. Len(str)
      BY <1>0
    <3>3. SubSeq(str, i, Len(str)) = <<str[i]>> \o SubSeq(str, i + 1, Len(str))
      BY <3>2, SubSeqRecursiveFirst
    <3> QED
      BY <3>1, <3>3
  <2>4. CASE at(i) # 0
    <3> DEFINE n == at(i) - 1
               y == SubSeq(str, i + 1, n)
               z == R[at(i) + Len(from)]
    <3>1. n \in i .. Len(str) /\ at(i) + Len(from) \in 1 .. Len(str) + 1
      BY <2>1, <2>4, <1>0, <1>2
    <3>2. R[i] = SubSeq(str, i, n) \o to \o z
      BY <2>1, <2>4, <1>1
    <3>3. R[i + 1] = y \o to \o z
      BY <2>1, <2>4, <1>1
    <3>4. SubSeq(str, i, n) = <<str[i]>> \o y
      BY <3>1, SubSeqRecursiveFirst
    <3>5. z \in Seq(E)
      BY <3>1, <1>1
    <3>6. y \in Seq(E)
      BY <3>1, PrefixTyped
    <3> HIDE DEF n, y, z
    <3> DEFINE m == y \o to
    <3>7. (<<str[i]>> \o y) \o to = <<str[i]>> \o m /\ m \in Seq(E)
      <4>1. Regroups(<<str[i]>>, y, to)
        BY <2>2, <3>6, Regrouped
      <4>2. m \in Seq(E)
        BY <3>6, ConcatProperties
      <4> QED
        BY <4>1, <4>2, Zenon DEF Regroups
    <3>8. R[i] = (<<str[i]>> \o m) \o z /\ R[i + 1] = m \o z
      BY <3>2, <3>3, <3>4, <3>7, Zenon
    <3> HIDE DEF m
    <3>9. (<<str[i]>> \o m) \o z = <<str[i]>> \o (m \o z)
      <4>1. Regroups(<<str[i]>>, m, z)
        BY <2>2, <3>5, <3>7, Regrouped
      <4> QED
        BY <4>1, Zenon DEF Regroups
    <3> QED
      BY <3>8, <3>9, Zenon
  <2> QED
    BY <2>3, <2>4
<1> QED
  BY <1>1, <1>4, <1>5, <1>6 DEF R, GoesThrough

\* Induction over the places of a string, from either end.
LEMMA PlacesForward ==
  ASSUME NEW S, NEW N \in Nat, 1 \in S, \A i \in 1 .. N : i \in S => i + 1 \in S
  PROVE  1 .. N + 1 \subseteq S
<1> DEFINE T == {n \in Nat : n <= N => n + 1 \in S}
<1>1. 0 \in T
  OBVIOUS
<1>2. ASSUME NEW n \in Nat, n \in T PROVE n + 1 \in T
  <2> SUFFICES ASSUME n + 1 <= N PROVE (n + 1) + 1 \in S
    OBVIOUS
  <2>1. n + 1 \in 1 .. N /\ n + 1 \in S
    BY <1>2
  <2> QED
    BY <2>1
<1>3. Nat \subseteq T
  <2> HIDE DEF T
  <2> QED
    BY <1>1, <1>2, NumbersInduction
<1>4. ASSUME NEW i \in 1 .. N + 1 PROVE i \in S
  <2>1. i - 1 \in Nat /\ i - 1 <= N /\ (i - 1) + 1 = i
    OBVIOUS
  <2>2. i - 1 \in T
    BY <1>3, <2>1
  <2> QED
    BY <2>1, <2>2
<1> QED
  BY <1>4

LEMMA PlacesBackward ==
  ASSUME NEW S, NEW N \in Nat, N + 1 \in S, \A i \in 1 .. N : i + 1 \in S => i \in S
  PROVE  1 .. N + 1 \subseteq S
<1> DEFINE T == {n \in Nat : n <= N => (N + 1) - n \in S}
<1>1. 0 \in T
  OBVIOUS
<1>2. ASSUME NEW n \in Nat, n \in T PROVE n + 1 \in T
  <2> SUFFICES ASSUME n + 1 <= N PROVE (N + 1) - (n + 1) \in S
    OBVIOUS
  <2>1. N - n \in 1 .. N /\ (N - n) + 1 \in S /\ (N + 1) - (n + 1) = N - n
    BY <1>2
  <2> QED
    BY <2>1
<1>3. Nat \subseteq T
  <2> HIDE DEF T
  <2> QED
    BY <1>1, <1>2, NumbersInduction
<1>4. ASSUME NEW i \in 1 .. N + 1 PROVE i \in S
  <2>1. (N + 1) - i \in Nat /\ (N + 1) - i <= N /\ (N + 1) - ((N + 1) - i) = i
    OBVIOUS
  <2>2. (N + 1) - i \in T
    BY <1>3, <2>1
  <2> QED
    BY <2>1, <2>2
<1> QED
  BY <1>4

LEMMA OneByteStandsAt ==
  ASSUME NEW E, NEW str \in Seq(E), NEW c, NEW i \in 1 .. Len(str)
  PROVE  StandsAt(str, <<c>>, i) <=> str[i] = c
<1>1. /\ Len(<<c>>) = 1 /\ i + 1 - 1 = i /\ i + 1 <= Len(str) + 1
      /\ \A k \in i .. i : str[k] \in E
  OBVIOUS
<1> DEFINE y == SubSeq(str, i, i)
<1>2. y \in Seq(E) /\ Len(y) = 1 /\ y[1] = str[i]
  BY <1>1, SubSeqProperties
<1>3. StandsAt(str, <<c>>, i) <=> y = <<c>>
  BY <1>1 DEF StandsAt
<1> HIDE DEF y
<1>4. y = <<y[1]>>
  BY <1>2
<1>5. y = <<c>> <=> y[1] = c
  BY <1>4
<1> QED
  BY <1>2, <1>3, <1>5

\* Where a byte is replaced, the string is gone through byte by byte.
GoesByByte(R, E, str, c, to) ==
  /\ R \in [1 .. Len(str) + 1 -> Seq(E)]
  /\ R[Len(str) + 1] = <<>>
  /\ \A i \in 1 .. Len(str) :
       R[i] = IF str[i] = c THEN to \o R[i + 1] ELSE <<str[i]>> \o R[i + 1]

LEMMA ByteReplacedStep ==
  ASSUME NEW E, NEW str \in Seq(E), NEW c \in E, NEW to \in Seq(E)
  PROVE  GoesByByte(ReplacedFrom(str, <<c>>, to), E, str, c, to)
<1>1. PICK from \in Seq(E) : from = <<c>>
  <2>1. <<c>> \in Seq(E)
    OBVIOUS
  <2> QED
    BY <2>1
<1> DEFINE R == ReplacedFrom(str, from, to)
<1>4. from # <<>> /\ Len(from) = 1
  BY <1>1
<1>2. /\ R \in [1 .. Len(str) + 1 -> Seq(E)]
      /\ R[Len(str) + 1] = <<>>
      /\ \A i \in 1 .. Len(str) :
           /\ StandsAt(str, from, i) => R[i] = to \o R[i + Len(from)]
           /\ ~StandsAt(str, from, i) => R[i] = <<str[i]>> \o R[i + 1]
  <2>1. GoesThrough(R, E, str, from, to)
    BY <1>4, ReplacedStep
  <2> HIDE DEF R
  <2> QED
    BY <2>1 DEF GoesThrough
<1> HIDE DEF R
<1>3. ASSUME NEW i \in 1 .. Len(str)
      PROVE  R[i] = IF str[i] = c THEN to \o R[i + 1] ELSE <<str[i]>> \o R[i + 1]
  <2>1. StandsAt(str, from, i) <=> str[i] = c
    BY <1>1, OneByteStandsAt
  <2> QED
    BY <1>2, <1>4, <2>1
<1> QED
  BY <1>1, <1>2, <1>3 DEF R, GoesByByte

\* A byte that is replaced by others is not in the result.
LEMMA ReplacedAvoids ==
  ASSUME NEW E, NEW str \in Seq(E), NEW c \in E, NEW D, D \subseteq E, E \ {c} \subseteq D,
         NEW to \in Seq(D)
  PROVE  StrReplace(str, <<c>>, to) \in Seq(D)
<1> DEFINE R == ReplacedFrom(str, <<c>>, to)
<1>0. to \in Seq(E) /\ Len(str) \in Nat
  BY SeqMonotonic
<1>1. /\ R[Len(str) + 1] = <<>>
      /\ \A i \in 1 .. Len(str) :
           R[i] = IF str[i] = c THEN to \o R[i + 1] ELSE <<str[i]>> \o R[i + 1]
  BY <1>0, ByteReplacedStep DEF GoesByByte
<1> HIDE DEF R
<1> DEFINE S == {i \in 1 .. Len(str) + 1 : R[i] \in Seq(D)}
<1>2. Len(str) + 1 \in S
  <2>1. <<>> \in Seq(D) /\ Len(str) + 1 \in 1 .. Len(str) + 1
    BY <1>0, EmptySeq
  <2> QED
    BY <1>1, <2>1
<1>3. ASSUME NEW i \in 1 .. Len(str), i + 1 \in S PROVE i \in S
  <2>1. R[i + 1] \in Seq(D)
    BY <1>3
  <2>2. to \o R[i + 1] \in Seq(D)
    BY <2>1, ConcatProperties
  <2>3. str[i] # c => <<str[i]>> \in Seq(D)
    <3>1. str[i] # c => str[i] \in D
      OBVIOUS
    <3> QED
      BY <3>1
  <2>4. str[i] # c => <<str[i]>> \o R[i + 1] \in Seq(D)
    BY <2>1, <2>3, ConcatProperties
  <2>5. R[i] \in Seq(D)
    BY <1>1, <2>2, <2>4
  <2> QED
    BY <2>5, <1>0
<1>4. 1 .. Len(str) + 1 \subseteq S
  <2> HIDE DEF S
  <2> QED
    BY <1>0, <1>2, <1>3, PlacesBackward
<1>5. R[1] \in Seq(D)
  BY <1>0, <1>4
<1> QED
  BY <1>5, StrReplaceIsReplaced DEF R

\* What does not occur is not replaced.
LEMMA NothingReplaced ==
  ASSUME NEW E, NEW str \in Seq(E), NEW from \in Seq(E), NEW to \in Seq(E), from # <<>>,
         \A i \in 1 .. Len(str) : ~StandsAt(str, from, i)
  PROVE  StrReplace(str, from, to) = str
<1> DEFINE R == ReplacedFrom(str, from, to)
<1>0. Len(str) \in Nat /\ Len(from) \in Nat \ {0} /\ 1 \in 1 .. Len(str) + 1 /\ 1 \in Nat \ {0}
  BY EmptySeq
<1>1. R[1] = IF Find(str, from, 1) = 0 THEN SubSeq(str, 1, Len(str))
             ELSE SubSeq(str, 1, Find(str, from, 1) - 1) \o to \o R[Find(str, from, 1) + Len(from)]
  BY <1>0, ReplacedRecursion
<1>2. Find(str, from, 1) = 0
  <2>1. SUFFICES ASSUME Find(str, from, 1) # 0 PROVE FALSE
    OBVIOUS
  <2> DEFINE F == Find(str, from, 1)
  <2>2. /\ F \in Nat /\ 1 <= F /\ F + Len(from) <= Len(str) + 1
        /\ SubSeq(str, F, F + Len(from) - 1) = from
    BY <1>0, <2>1, FindResult
  <2> HIDE DEF F
  <2>3. F \in 1 .. Len(str) /\ StandsAt(str, from, F)
    BY <1>0, <2>2 DEF StandsAt
  <2> QED
    BY <2>3
<1>3. SubSeq(str, 1, Len(str)) = str
  BY SubSeqFull
<1> QED
  BY <1>1, <1>2, <1>3, StrReplaceIsReplaced

\* In what Stuff makes with the second rule the byte BB is followed by 1.
Escaped(x) == \A k \in 1 .. Len(x) : x[k] = 187 => k < Len(x) /\ x[k + 1] = 1

LEMMA StuffedIsEscaped ==
  ASSUME NEW s \in Seq(Byte)
  PROVE  Escaped(StrReplace(s, <<187>>, <<187, 1>>))
<1> DEFINE to == <<187, 1>>
           R == ReplacedFrom(s, <<187>>, to)
<1>0. /\ to \in Seq(Byte) /\ 187 \in Byte /\ Len(s) \in Nat
      /\ Len(to) = 2 /\ to[1] = 187 /\ to[2] = 1
  BY DEF Byte
<1> HIDE DEF to
<1>1. /\ R \in [1 .. Len(s) + 1 -> Seq(Byte)]
      /\ R[Len(s) + 1] = <<>>
      /\ \A i \in 1 .. Len(s) :
           R[i] = IF s[i] = 187 THEN to \o R[i + 1] ELSE <<s[i]>> \o R[i + 1]
  BY <1>0, ByteReplacedStep DEF GoesByByte
<1> HIDE DEF R
<1> DEFINE S == {i \in 1 .. Len(s) + 1 : Escaped(R[i])}
<1>2. Len(s) + 1 \in S
  <2>1. Escaped(<<>>)
    BY DEF Escaped
  <2> QED
    BY <1>0, <1>1, <2>1
<1>3. ASSUME NEW i \in 1 .. Len(s), i + 1 \in S PROVE i \in S
  <2> DEFINE x == R[i + 1]
  <2>1. Escaped(x) /\ x \in Seq(Byte) /\ Len(x) \in Nat /\ i \in 1 .. Len(s) + 1
    BY <1>0, <1>1, <1>3
  <2>2. R[i] = IF s[i] = 187 THEN to \o x ELSE <<s[i]>> \o x
    BY <1>1
  <2> HIDE DEF x
  <2>3. CASE s[i] = 187
    <3> DEFINE y == to \o x
    <3>1. Len(y) = 2 + Len(x) /\ \A k \in 1 .. 2 + Len(x) : y[k] = IF k <= 2 THEN to[k] ELSE x[k - 2]
      <4>1. /\ Len(y) = Len(to) + Len(x)
            /\ \A k \in 1 .. Len(to) + Len(x) : y[k] = IF k <= Len(to) THEN to[k] ELSE x[k - Len(to)]
        <5>1. to \in Seq(Byte) /\ x \in Seq(Byte)
          BY <1>0, <2>1
        <5> QED
          BY <5>1, ConcatProperties
      <4> HIDE DEF y
      <4> QED
        BY <4>1, <1>0
    <3> HIDE DEF y
    <3>2. ASSUME NEW k \in 1 .. Len(y), y[k] = 187 PROVE k < Len(y) /\ y[k + 1] = 1
      <4>1. CASE k = 1
        BY <4>1, <3>1, <2>1, <1>0
      <4>2. CASE k = 2
        BY <4>2, <3>1, <3>2, <2>1, <1>0
      <4>3. CASE k > 2
        <5>1. k - 2 \in 1 .. Len(x) /\ x[k - 2] = 187
          BY <4>3, <3>1, <3>2, <2>1
        <5>2. k - 2 < Len(x) /\ x[(k - 2) + 1] = 1
          BY <5>1, <2>1 DEF Escaped
        <5>3. k + 1 \in 1 .. 2 + Len(x) /\ (k + 1) - 2 = (k - 2) + 1 /\ ~ (k + 1 <= 2) /\ k < Len(y)
          BY <5>2, <4>3, <3>1, <2>1
        <5> QED
          BY <5>2, <5>3, <3>1
      <4> QED
        BY <4>1, <4>2, <4>3, <3>1, <2>1
    <3>3. Escaped(y)
      BY <3>2 DEF Escaped
    <3> QED
      BY <3>3, <2>1, <2>2, <2>3 DEF y
  <2>4. CASE s[i] # 187
    <3> DEFINE y == <<s[i]>> \o x
    <3>0. <<s[i]>> \in Seq(Byte) /\ Len(<<s[i]>>) = 1 /\ <<s[i]>>[1] = s[i]
      OBVIOUS
    <3>1. Len(y) = 1 + Len(x) /\ y[1] = s[i] /\ \A k \in 2 .. 1 + Len(x) : y[k] = x[k - 1]
      BY <3>0, <2>1, ConcatProperties
    <3> HIDE DEF y
    <3>2. ASSUME NEW k \in 1 .. Len(y), y[k] = 187 PROVE k < Len(y) /\ y[k + 1] = 1
      <4>1. k # 1 /\ k \in 2 .. 1 + Len(x)
        BY <3>1, <3>2, <2>1, <2>4
      <4>2. k - 1 \in 1 .. Len(x) /\ x[k - 1] = 187
        BY <4>1, <3>1, <3>2, <2>1
      <4>3. k - 1 < Len(x) /\ x[(k - 1) + 1] = 1
        BY <4>2, <2>1 DEF Escaped
      <4>4. k + 1 \in 2 .. 1 + Len(x) /\ (k + 1) - 1 = (k - 1) + 1 /\ k < Len(y)
        BY <4>1, <4>3, <3>1, <2>1
      <4> QED
        BY <4>3, <4>4, <3>1
    <3>3. Escaped(y)
      BY <3>2 DEF Escaped
    <3> QED
      BY <3>3, <2>1, <2>2, <2>4 DEF y
  <2> QED
    BY <2>3, <2>4
<1>4. 1 .. Len(s) + 1 \subseteq S
  <2> HIDE DEF S
  <2> QED
    BY <1>0, <1>2, <1>3, PlacesBackward
<1>5. Escaped(R[1])
  BY <1>0, <1>4
<1> QED
  BY <1>5, StrReplaceIsReplaced DEF R, to

LEMMA ConsPlaces ==
  ASSUME NEW E, NEW x \in Seq(E), NEW b \in E
  PROVE  /\ <<b>> \o x \in Seq(E) /\ Len(<<b>> \o x) = 1 + Len(x)
         /\ (<<b>> \o x)[1] = b
         /\ \A k \in 1 .. Len(x) : (<<b>> \o x)[k + 1] = x[k]
<1>1. PICK y \in Seq(E) : y = <<b>>
  <2>1. <<b>> \in Seq(E)
    OBVIOUS
  <2> QED
    BY <2>1
<1>2. Len(y) = 1 /\ y[1] = b /\ Len(x) \in Nat
  BY <1>1
<1> DEFINE z == y \o x
<1>3. /\ z \in Seq(E) /\ Len(z) = Len(y) + Len(x)
      /\ \A k \in 1 .. Len(y) + Len(x) : z[k] = IF k <= Len(y) THEN y[k] ELSE x[k - Len(y)]
  BY ConcatProperties
<1> HIDE DEF z
<1>4. \A k \in 1 .. Len(x) : z[k + 1] = x[k]
  BY <1>2, <1>3
<1>5. z[1] = b
  BY <1>2, <1>3
<1> QED
  BY <1>1, <1>2, <1>3, <1>4, <1>5 DEF z

\* Two bytes stand in a string where they are.
LEMMA TwoBytesStandAt ==
  ASSUME NEW E, NEW str \in Seq(E), NEW b, NEW c, NEW i \in 1 .. Len(str)
  PROVE  StandsAt(str, <<b, c>>, i) <=> i < Len(str) /\ str[i] = b /\ str[i + 1] = c
<1>1. Len(<<b, c>>) = 2 /\ Len(str) \in Nat /\ (i + 2 <= Len(str) + 1 <=> i < Len(str))
  OBVIOUS
<1>2. CASE i < Len(str)
  <2> DEFINE y == SubSeq(str, i, i + 2 - 1)
  <2>1. \A k \in i .. i + 2 - 1 : str[k] \in E
    BY <1>1, <1>2
  <2>2. /\ y \in Seq(E) /\ Len(y) = (i + 2 - 1) - i + 1
        /\ \A k \in 1 .. (i + 2 - 1) - i + 1 : y[k] = str[i + k - 1]
    BY <2>1, SubSeqProperties
  <2>3. StandsAt(str, <<b, c>>, i) <=> y = <<b, c>>
    BY <1>1, <1>2 DEF StandsAt
  <2> HIDE DEF y
  <2>4. Len(y) = 2 /\ y[1] = str[i] /\ y[2] = str[i + 1]
    BY <2>2
  <2>5. y = <<y[1], y[2]>>
    <3>1. y[1] \in E /\ y[2] \in E
      <4>1. 1 \in 1 .. Len(y) /\ 2 \in 1 .. Len(y) /\ y \in Seq(E)
        BY <2>2, <2>4
      <4> QED
        BY <4>1, ElementOfSeq
    <3>2. PICK z \in Seq(E) : z = <<y[1], y[2]>>
      <4>1. <<y[1], y[2]>> \in Seq(E)
        BY <3>1
      <4> QED
        BY <4>1
    <3>3. Len(z) = Len(y) /\ \A k \in 1 .. Len(y) : z[k] = y[k]
      BY <3>2, <2>4
    <3>4. z = y
      BY <2>2, <3>3, SeqEqual
    <3> QED
      BY <3>2, <3>4
  <2>6. y = <<b, c>> <=> y[1] = b /\ y[2] = c
    BY <2>5
  <2> QED
    BY <1>2, <2>3, <2>4, <2>6
<1>3. CASE ~ (i < Len(str))
  BY <1>1, <1>3 DEF StandsAt
<1> QED
  BY <1>2, <1>3

\* The second rule can be undone.
LEMMA SecondRuleRestores ==
  ASSUME NEW s \in Seq(Byte)
  PROVE  StrReplace(StrReplace(s, <<187>>, <<187, 1>>), <<187, 1>>, <<187>>) = s
<1> DEFINE n == Len(s)
<1>1. PICK two \in Seq(Byte) : two = <<187, 1>>
  <2>1. <<187, 1>> \in Seq(Byte)
    BY DEF Byte
  <2> QED
    BY <2>1
<1>2. PICK one \in Seq(Byte) : one = <<187>>
  <2>1. <<187>> \in Seq(Byte)
    BY DEF Byte
  <2> QED
    BY <2>1
<1>3. /\ Len(two) = 2 /\ two[1] = 187 /\ two[2] = 1 /\ two # <<>>
      /\ Len(one) = 1 /\ one[1] = 187 /\ one # <<>>
      /\ 187 \in Byte /\ Len(s) \in Nat
  BY <1>1, <1>2 DEF Byte
<1> DEFINE R == ReplacedFrom(s, one, two)
           t == R[1]
           Q == ReplacedFrom(t, two, one)
<1>4. GoesByByte(R, Byte, s, 187, two)
  BY <1>2, <1>3, ByteReplacedStep
<1> HIDE DEF R
<1>5. /\ R \in [1 .. Len(s) + 1 -> Seq(Byte)]
      /\ R[Len(s) + 1] = <<>>
      /\ \A i \in 1 .. Len(s) : s[i] = 187 => R[i] = two \o R[i + 1]
      /\ \A i \in 1 .. Len(s) : s[i] # 187 => R[i] = <<s[i]>> \o R[i + 1]
  BY <1>4 DEF GoesByByte
<1>6. t \in Seq(Byte) /\ Len(t) \in Nat /\ t = R[1]
  <2>1. 1 \in 1 .. Len(s) + 1
    BY <1>3
  <2> QED
    BY <2>1, <1>5
<1> HIDE DEF t
<1>7. GoesThrough(Q, Byte, t, two, one)
  BY <1>3, <1>6, ReplacedStep
<1> HIDE DEF Q
<1>8. /\ Q[Len(t) + 1] = <<>>
      /\ \A i \in 1 .. Len(t) :
           /\ StandsAt(t, two, i) => Q[i] = one \o Q[i + 2]
           /\ ~StandsAt(t, two, i) => Q[i] = <<t[i]>> \o Q[i + 1]
  BY <1>3, <1>7, ZenonT(30) DEF GoesThrough
<1>18. PICK T \in Nat : T = Len(t)
  BY <1>6
<1>10. PICK L \in [1 .. Len(s) + 1 -> Nat] : \A i \in 1 .. Len(s) + 1 : L[i] = Len(R[i])
  <2> DEFINE l == [i \in 1 .. Len(s) + 1 |-> Len(R[i])]
  <2>1. l \in [1 .. Len(s) + 1 -> Nat] /\ \A i \in 1 .. Len(s) + 1 : l[i] = Len(R[i])
    BY <1>5
  <2> QED
    BY <2>1
\* How R grows from its end.
<1>9. ASSUME NEW i \in 1 .. Len(s)
      PROVE  IF s[i] = 187
               THEN /\ Len(R[i]) = 2 + Len(R[i + 1]) /\ R[i][1] = 187 /\ R[i][2] = 1
                    /\ \A k \in 1 .. Len(R[i + 1]) : R[i][k + 2] = R[i + 1][k]
               ELSE /\ Len(R[i]) = 1 + Len(R[i + 1]) /\ R[i][1] = s[i]
                    /\ \A k \in 1 .. Len(R[i + 1]) : R[i][k + 1] = R[i + 1][k]
  <2> DEFINE x == R[i + 1]
  <2>1. x \in Seq(Byte) /\ Len(x) \in Nat /\ s[i] \in Byte
    <3>1. i + 1 \in 1 .. Len(s) + 1
      BY <1>3
    <3>2. R[i + 1] \in Seq(Byte)
      BY <3>1, <1>5
    <3>3. s[i] \in Byte
      BY ElementOfSeq
    <3> QED
      BY <3>2, <3>3
  <2>2. CASE s[i] = 187
    <3> DEFINE y == two \o x
    <3>1. R[i] = y
      BY <1>5, <2>2
    <3> HIDE DEF x
    <3>2. /\ Len(y) = Len(two) + Len(x)
          /\ \A k \in 1 .. Len(two) + Len(x) : y[k] = IF k <= Len(two) THEN two[k] ELSE x[k - Len(two)]
      BY <2>1, ConcatProperties
    <3> HIDE DEF y
    <3>3. Len(y) = 2 + Len(x) /\ \A k \in 1 .. 2 + Len(x) : y[k] = IF k <= 2 THEN two[k] ELSE x[k - 2]
      BY <3>2, <1>3
    <3>4. y[1] = 187 /\ y[2] = 1 /\ \A k \in 1 .. Len(x) : y[k + 2] = x[k]
      BY <3>3, <1>3, <2>1
    <3> QED
      BY <3>1, <3>3, <3>4, <2>2 DEF x
  <2>3. CASE s[i] # 187
    <3> DEFINE y == <<s[i]>> \o x
    <3>1. R[i] = y
      BY <1>5, <2>3
    <3> HIDE DEF x
    <3>2. Len(y) = 1 + Len(x) /\ y[1] = s[i] /\ \A k \in 1 .. Len(x) : y[k + 1] = x[k]
      BY <2>1, ConsPlaces
    <3> HIDE DEF y
    <3> QED
      BY <3>1, <3>2, <2>3 DEF x
  <2> QED
    BY <2>2, <2>3
\* The end of t behind what the first i - 1 bytes became is R[i].
<1> DEFINE pos(i) == T - L[i] + 1
           IsEnd(i) == L[i] <= T /\ \A k \in 1 .. L[i] : t[T - L[i] + k] = R[i][k]
           S == {i \in 1 .. Len(s) + 1 : IsEnd(i)}
\* How much a byte adds to it.
<1>19. ASSUME NEW i \in 1 .. Len(s)
       PROVE  IF s[i] = 187
                THEN /\ L[i] = L[i + 1] + 2 /\ R[i][1] = 187 /\ R[i][2] = 1
                     /\ \A k \in 1 .. L[i + 1] : R[i][k + 2] = R[i + 1][k]
                ELSE /\ L[i] = L[i + 1] + 1 /\ R[i][1] = s[i]
                     /\ \A k \in 1 .. L[i + 1] : R[i][k + 1] = R[i + 1][k]
  <2>1. i \in 1 .. Len(s) + 1 /\ i + 1 \in 1 .. Len(s) + 1
    BY <1>3
  <2>2. L[i] = Len(R[i]) /\ L[i + 1] = Len(R[i + 1]) /\ L[i] \in Nat /\ L[i + 1] \in Nat
    BY <2>1, <1>10
  <2>3. 2 + L[i + 1] = L[i + 1] + 2 /\ 1 + L[i + 1] = L[i + 1] + 1
    BY <2>2
  <2> QED
    BY <1>9, <2>2, <2>3
<1>20. L[1] = T /\ L[Len(s) + 1] = 0
  <2>1. 1 \in 1 .. Len(s) + 1 /\ Len(s) + 1 \in 1 .. Len(s) + 1
    BY <1>3
  <2>2. Len(R[Len(s) + 1]) = 0
    BY <1>5
  <2> QED
    BY <2>1, <2>2, <1>6, <1>10, <1>18
<1>11. 1 \in S
  <2>1. 1 \in 1 .. Len(s) + 1
    BY <1>3
  <2>2. L[1] <= T /\ \A k \in 1 .. L[1] : T - L[1] + k = k
    BY <1>20
  <2>3. IsEnd(1)
    BY <2>2, <1>6
  <2> QED
    BY <2>1, <2>3
<1>12. ASSUME NEW i \in 1 .. Len(s), i \in S PROVE i + 1 \in S
  <2> DEFINE l == L[i]
             m == L[i + 1]
             x == R[i]
             y == R[i + 1]
  <2>1. l \in Nat /\ m \in Nat /\ i + 1 \in 1 .. Len(s) + 1
    <3>1. i \in 1 .. Len(s) + 1 /\ i + 1 \in 1 .. Len(s) + 1
      BY <1>3
    <3> QED
      BY <3>1, <1>10
  <2>2. l <= T /\ \A k \in 1 .. l : t[T - l + k] = x[k]
    BY <1>12
  <2>3. PICK d \in 1 .. 2 : l = m + d /\ \A k \in 1 .. m : x[k + d] = y[k]
    BY <1>19
  <2> HIDE DEF l, m, x, y
  <2>4. ASSUME NEW k \in 1 .. m PROVE t[T - m + k] = y[k]
    <3>1. k + d \in 1 .. l /\ T - l + (k + d) = T - m + k
      BY <2>1, <2>3
    <3> QED
      BY <3>1, <2>2, <2>3
  <2>5. m <= T
    BY <2>1, <2>2, <2>3
  <2>6. IsEnd(i + 1)
    BY <2>4, <2>5 DEF m, y
  <2> QED
    BY <2>1, <2>6
<1>13. 1 .. Len(s) + 1 \subseteq S
  <2> HIDE DEF S
  <2> QED
    BY <1>3, <1>11, <1>12, PlacesForward
\* There the second rule undone gives the rest of s.
<1> DEFINE V(i) == Q[pos(i)] = SubSeq(s, i, Len(s))
           U == {i \in 1 .. Len(s) + 1 : V(i)}
<1>14. V(Len(s) + 1)
  <2>1. pos(Len(s) + 1) = Len(t) + 1
    BY <1>20, <1>18
  <2>2. SubSeq(s, Len(s) + 1, Len(s)) = <<>>
    BY <1>3, SubSeqEmpty
  <2> HIDE DEF pos
  <2> QED
    BY <1>8, <2>1, <2>2
<1>15. ASSUME NEW i \in 1 .. Len(s), V(i + 1) PROVE V(i)
  <2> DEFINE l == L[i]
             m == L[i + 1]
             p == pos(i)
             q == pos(i + 1)
             x == R[i]
             rest == SubSeq(s, i + 1, Len(s))
  <2>1. Q[q] = rest /\ i \in 1 .. Len(s) + 1 /\ i + 1 \in 1 .. Len(s) + 1
    BY <1>15, <1>3
  <2>2. SubSeq(s, i, Len(s)) = <<s[i]>> \o rest
    <3>1. Len(s) \in i .. Len(s)
      BY <1>3
    <3> QED
      BY <3>1, SubSeqRecursiveFirst
  <2>3. l \in Nat /\ m \in Nat /\ l <= T /\ p = T - l + 1 /\ q = T - m + 1
    BY <2>1, <1>10, <1>13
  <2>4. \A k \in 1 .. l : t[T - l + k] = x[k]
    BY <2>1, <1>13
  <2>5. s[i] = 187 => l = m + 2 /\ x[1] = 187 /\ x[2] = 1
    BY <1>19
  <2>6. s[i] # 187 => l = m + 1 /\ x[1] = s[i]
    BY <1>19
  <2> HIDE DEF l, m, p, q, x, rest, pos
  <2>7. CASE s[i] = 187
    <3>1. /\ q = p + 2 /\ p \in 1 .. T /\ p < T
          /\ T - l + 1 = p /\ T - l + 2 = p + 1 /\ 1 \in 1 .. l /\ 2 \in 1 .. l
      BY <2>3, <2>5, <2>7
    <3>2. t[p] = 187 /\ t[p + 1] = 1
      BY <3>1, <2>4, <2>5, <2>7
    <3>3. StandsAt(t, two, p)
      BY <3>1, <3>2, <1>1, <1>6, <1>18, TwoBytesStandAt
    <3>4. Q[p] = one \o Q[p + 2]
      BY <3>1, <3>3, <1>8, <1>18
    <3>5. Q[p] = <<s[i]>> \o rest
      BY <3>1, <3>4, <2>1, <2>7, <1>2
    <3> QED
      BY <3>5, <2>2, Zenon DEF p
  <2>8. CASE s[i] # 187
    <3>1. q = p + 1 /\ p \in 1 .. T /\ T - l + 1 = p /\ 1 \in 1 .. l
      BY <2>3, <2>6, <2>8
    <3>2. t[p] = s[i]
      BY <3>1, <2>4, <2>6, <2>8
    <3>3. ~StandsAt(t, two, p)
      BY <3>1, <3>2, <2>8, <1>1, <1>6, <1>18, TwoBytesStandAt
    <3>4. Q[p] = <<t[p]>> \o Q[p + 1]
      BY <3>1, <3>3, <1>8, <1>18
    <3>5. Q[p] = <<s[i]>> \o rest
      BY <3>1, <3>2, <3>4, <2>1
    <3> QED
      BY <3>5, <2>2, Zenon DEF p
  <2> QED
    BY <2>7, <2>8
<1>16. 1 .. Len(s) + 1 \subseteq U
  <2> HIDE DEF V
  <2>1. Len(s) + 1 \in U
    BY <1>14, <1>3
  <2>2. \A i \in 1 .. Len(s) : i + 1 \in U => i \in U
    BY <1>15, <1>3
  <2> HIDE DEF U
  <2> QED
    BY <1>3, <2>1, <2>2, PlacesBackward
<1>17. Q[1] = s
  <2>1. V(1)
    <3> HIDE DEF V
    <3> QED
      BY <1>16, <1>3
  <2>2. pos(1) = 1
    BY <1>20
  <2> HIDE DEF pos
  <2> QED
    BY <2>1, <2>2, SubSeqFull
<1> QED
  BY <1>1, <1>2, <1>6, <1>17, StrReplaceIsReplaced, Zenon DEF Q, R

LEMMA HeaderIs == GetHeader = <<170, 187>> /\ Len(GetHeader) = 2
<1>1. PICK x \in Seq(Byte) : x = <<187>>
  <2>1. <<187>> \in Seq(Byte)
    BY DEF Byte
  <2> QED
    BY <2>1
<1>2. PICK z \in Seq(Byte) : z = <<170, 187>>
  <2>1. <<170, 187>> \in Seq(Byte)
    BY DEF Byte
  <2> QED
    BY <2>1
<1>9. PICK a \in Byte : a = 170
  BY DEF Byte
<1>3. Len(x) = 1 /\ x[1] = 187 /\ Len(z) = 2 /\ z[1] = 170 /\ z[2] = 187
  BY <1>1, <1>2
<1> DEFINE y == <<a>> \o x
<1>4. y \in Seq(Byte) /\ Len(y) = 1 + Len(x) /\ y[1] = a /\ \A k \in 1 .. Len(x) : y[k + 1] = x[k]
  BY ConsPlaces
<1>5. GetHeader = y
  BY <1>1, <1>9, MStuffing DEF GetHeader, Rule
<1> HIDE DEF y
<1>6. Len(y) = Len(z) /\ y[1] = z[1] /\ y[1 + 1] = z[2]
  BY <1>3, <1>4, <1>9
<1>7. \A k \in 1 .. Len(y) : y[k] = z[k]
  BY <1>3, <1>6
<1>8. y = z
  BY <1>4, <1>6, <1>7, SeqEqual
<1> QED
  BY <1>2, <1>3, <1>5, <1>8

\* The header is the two bytes AA and BB.
LEMMA HeaderStandsAt ==
  ASSUME NEW s \in Seq(Byte), NEW i \in 1 .. Len(s)
  PROVE  StandsAt(s, GetHeader, i) <=> i < Len(s) /\ s[i] = 170 /\ s[i + 1] = 187
<1>1. GetHeader = <<170, 187>>
  BY HeaderIs
<1>2. StandsAt(s, <<170, 187>>, i) <=> i < Len(s) /\ s[i] = 170 /\ s[i + 1] = 187
  BY TwoBytesStandAt
<1> QED
  BY <1>1, <1>2

\* What was stuffed does not hold the byte AA.
LEMMA StuffedHasNoAA ==
  ASSUME NEW s \in Seq(Byte)
  PROVE  StuffAll(s) \in Seq(Byte \ {170})
<1> DEFINE D == Byte \ {170}
           t == StrReplace(s, <<170>>, <<187, 0>>)
<1>1. 170 \in Byte /\ 187 \in D /\ D \subseteq Byte /\ D \ {187} \subseteq D
  BY DEF Byte
<1>2. <<187, 0>> \in Seq(D) /\ <<187, 1>> \in Seq(D)
  BY DEF Byte
<1> HIDE DEF D
<1>3. t \in Seq(D)
  <2>1. Byte \ {170} \subseteq D
    BY DEF D
  <2> QED
    BY <1>1, <1>2, <2>1, ReplacedAvoids, ZenonT(30)
<1>4. StuffAll(s) = StrReplace(t, <<187>>, <<187, 1>>)
  BY MStuffing DEF StuffAll, Stuff, Rule
<1> HIDE DEF t
<1>5. StrReplace(t, <<187>>, <<187, 1>>) \in Seq(D)
  BY <1>1, <1>2, <1>3, ReplacedAvoids, ZenonT(30)
<1> QED
  BY <1>4, <1>5 DEF D

LEMMA NoHeaderInStuffed ==
  ASSUME NEW s \in Seq(Byte)
  PROVE  HeadersIn(PackageToByteArray(s)) = {}
<1> DEFINE t == StuffAll(s)
<1>1. t \in Seq(Byte \ {170}) /\ t \in Seq(Byte)
  BY StuffedHasNoAA, StuffTyped
<1> HIDE DEF t
<1>2. ASSUME NEW i \in 1 .. Len(t) - 1 PROVE SubSeq(t, i, i + 1) # GetHeader
  <2>1. Len(t) \in Nat /\ i \in 1 .. Len(t) /\ i + 1 = i + 2 - 1 /\ i + 2 <= Len(t) + 1
    BY <1>1
  <2>2. t[i] \in Byte \ {170}
    BY <1>1, <2>1, ElementOfSeq
  <2>3. ~ StandsAt(t, GetHeader, i)
    BY <1>1, <2>1, <2>2, HeaderStandsAt
  <2>4. Len(GetHeader) = 2
    BY HeaderIs
  <2> QED
    BY <2>1, <2>3, <2>4 DEF StandsAt
<1> QED
  BY <1>2 DEF HeadersIn, PackageToByteArray, t

\* Unstuffing restores what did not hold the byte AA.
LEMMA UnstuffRestores ==
  ASSUME NEW s \in Seq(Byte), Find(s, <<AA>>, 1) = 0
  PROVE  UnstuffAll(StuffAll(s)) = s
<1> DEFINE t == StrReplace(s, <<187>>, <<187, 1>>)
<1>1. /\ <<170>> \in Seq(Byte) /\ <<170>> # <<>> /\ Len(<<170>>) = 1
      /\ <<187>> \in Seq(Byte) /\ <<187>> # <<>>
      /\ <<187, 0>> \in Seq(Byte) /\ <<187, 0>> # <<>> /\ Len(<<187, 0>>) = 2
      /\ <<187, 1>> \in Seq(Byte) /\ <<187, 1>> # <<>>
      /\ Len(s) \in Nat
  BY DEF Byte
<1>2. ASSUME NEW i \in 1 .. Len(s) PROVE ~ StandsAt(s, <<170>>, i)
  <2> DEFINE a == <<170>>
  <2>1. /\ i \in Nat /\ 1 <= i /\ 1 \in Nat \ {0} /\ Find(s, a, 1) = 0
        /\ Len(s) \in Nat /\ Len(a) \in Nat /\ i + Len(a) <= Len(s) + 1
    BY <1>1 DEF AA
  <2> HIDE DEF a
  <2>2. \A k \in Nat : (1 <= k /\ k + Len(a) <= Len(s) + 1 /\ (Find(s, a, 1) = 0 \/ k < Find(s, a, 1)))
                           => SubSeq(s, k, k + Len(a) - 1) # a
    BY <2>1, FindResult
  <2>3. SubSeq(s, i, i + Len(a) - 1) # a
    BY <2>1, <2>2
  <2> QED
    BY <2>3 DEF StandsAt, a
<1>3. StrReplace(s, <<170>>, <<187, 0>>) = s
  BY <1>1, <1>2, NothingReplaced
<1>4. StuffAll(s) = t
  BY <1>3, MStuffing DEF StuffAll, Stuff, Rule
<1>5. t \in Seq(Byte)
  BY <1>1, StrReplaceTyped
<1>6. Escaped(t)
  BY StuffedIsEscaped
<1>7. StrReplace(t, <<187, 1>>, <<187>>) = s
  BY SecondRuleRestores
<1> HIDE DEF t
<1>8. ASSUME NEW i \in 1 .. Len(t) PROVE ~ StandsAt(t, <<187, 0>>, i)
  <2>1. StandsAt(t, <<187, 0>>, i) <=> i < Len(t) /\ t[i] = 187 /\ t[i + 1] = 0
    BY <1>5, TwoBytesStandAt
  <2> QED
    BY <2>1, <1>6 DEF Escaped
<1>9. StrReplace(t, <<187, 0>>, <<170>>) = t
  BY <1>1, <1>5, <1>8, NothingReplaced, ZenonT(30)
<1>10. UnstuffAll(t) = StrReplace(StrReplace(t, <<187, 0>>, <<170>>), <<187, 1>>, <<187>>)
  BY MStuffing DEF UnstuffAll, Unstuff, Rule
<1> QED
  BY <1>4, <1>7, <1>9, <1>10

\* Where GetPackage looks, and what it takes.
LEMMA PackageFound ==
  ASSUME NEW s \in Seq(Byte)
  PROVE  LET first == HasHeader(s, 1)
             futer == NextHeader(s)
         IN  /\ first \in Nat /\ futer \in Nat
             /\ first # 0 => first + 1 <= Len(s) /\ StandsAt(s, GetHeader, first)
             /\ \A k \in Nat \ {0} : (first = 0 \/ k < first) => ~ StandsAt(s, GetHeader, k)
             /\ first # 0 /\ futer # 0 =>
                  first + 2 <= futer /\ futer + 1 <= Len(s) /\ StandsAt(s, GetHeader, futer)
             /\ first # 0 => \A k \in Nat : (first + 2 <= k /\ (futer = 0 \/ k < futer))
                                              => ~ StandsAt(s, GetHeader, k)
<1> DEFINE first == HasHeader(s, 1)
           futer == NextHeader(s)
<1>1. Len(GetHeader) = 2 /\ Len(s) \in Nat
  BY HeaderIs
<1>2. ASSUME NEW i \in Nat \ {0}
      PROVE  LET F == HasHeader(s, i) IN
             /\ F \in Nat
             /\ F # 0 => i <= F /\ F + 1 <= Len(s) /\ StandsAt(s, GetHeader, F)
             /\ \A k \in Nat : (i <= k /\ (F = 0 \/ k < F)) => ~ StandsAt(s, GetHeader, k)
  <2> DEFINE F == Find(s, GetHeader, i)
  <2>0. Len(s) \in Nat /\ Len(GetHeader) \in Nat
    BY <1>1
  <2>1. /\ F \in Nat
        /\ F # 0 => /\ i <= F /\ F + Len(GetHeader) <= Len(s) + 1
                    /\ SubSeq(s, F, F + Len(GetHeader) - 1) = GetHeader
    BY <2>0, FindResult
  <2>2. \A k \in Nat : (i <= k /\ k + Len(GetHeader) <= Len(s) + 1 /\ (F = 0 \/ k < F))
                         => SubSeq(s, k, k + Len(GetHeader) - 1) # GetHeader
    BY <2>0, FindResult
  <2> HIDE DEF F
  <2>3. F # 0 => i <= F /\ F + 1 <= Len(s) /\ StandsAt(s, GetHeader, F)
    BY <2>1, <1>1 DEF StandsAt
  <2>4. \A k \in Nat : (i <= k /\ (F = 0 \/ k < F)) => ~ StandsAt(s, GetHeader, k)
    BY <2>2 DEF StandsAt
  <2>5. HasHeader(s, i) = F
    BY DEF HasHeader, F
  <2> QED
    BY <2>1, <2>3, <2>4, <2>5
<1>3. /\ first \in Nat
      /\ first # 0 => first + 1 <= Len(s) /\ StandsAt(s, GetHeader, first)
      /\ \A k \in Nat : (1 <= k /\ (first = 0 \/ k < first)) => ~ StandsAt(s, GetHeader, k)
  BY <1>2
<1> HIDE DEF first
<1>4. futer = HasHeader(s, first + 2) /\ first + 2 \in Nat \ {0}
  BY <1>1, <1>3 DEF NextHeader, first
<1> HIDE DEF futer
<1>5. /\ futer \in Nat
      /\ futer # 0 => first + 2 <= futer /\ futer + 1 <= Len(s) /\ StandsAt(s, GetHeader, futer)
      /\ \A k \in Nat : (first + 2 <= k /\ (futer = 0 \/ k < futer)) => ~ StandsAt(s, GetHeader, k)
  BY <1>2, <1>4
<1> QED
  BY <1>3, <1>5 DEF first, futer

LEMMA GetPackageTyped ==
  ASSUME NEW s \in Seq(Byte)
  PROVE  LET next == GetPackage(s) IN
         next.ok => next.rest \in Seq(Byte) /\ next.package \in Seq(Byte) /\ Len(next.rest) < Len(s)
<1> DEFINE first == HasHeader(s, 1)
           futer == NextHeader(s)
<1>1. /\ first \in Nat /\ futer \in Nat /\ Len(s) \in Nat
      /\ first # 0 /\ futer # 0 => first + 2 <= futer /\ futer + 1 <= Len(s)
  BY PackageFound
<1>2. GetPackage(s) = IF first = 0 \/ futer = 0
                        THEN [ok |-> FALSE, package |-> <<>>, rest |-> s]
                        ELSE [ ok      |-> TRUE,
                               package |-> <<>> \o SubSeq(s, first, futer - 1),
                               rest    |-> SubSeq(s, futer - 1, Len(s)) ]
  BY DEF GetPackage, AddRange, Erase
<1> HIDE DEF first, futer
<1>3. CASE first # 0 /\ futer # 0
  <2>1. /\ futer - 1 \in Nat \ {0} /\ first \in Nat \ {0} /\ futer - 1 <= Len(s)
        /\ futer - 1 > 1
    BY <1>1, <1>3
  <2>2. SubSeq(s, first, futer - 1) \in Seq(Byte) /\ SubSeq(s, futer - 1, Len(s)) \in Seq(Byte)
    BY <1>1, <2>1, PrefixTyped
  <2>3. Len(SubSeq(s, futer - 1, Len(s))) = Len(s) - (futer - 1) + 1
    BY <1>1, <2>1, SubSeqProperties
  <2>4. <<>> \o SubSeq(s, first, futer - 1) = SubSeq(s, first, futer - 1)
    BY <2>2, ConcatEmptySeq
  <2>5. Len(SubSeq(s, futer - 1, Len(s))) < Len(s)
    BY <1>1, <2>1, <2>3
  <2> QED
    BY <1>2, <1>3, <2>2, <2>4, <2>5
<1>4. CASE ~ (first # 0 /\ futer # 0)
  BY <1>2, <1>4
<1> QED
  BY <1>3, <1>4

(***************************************************************************)
(* Places in order.                                                        *)
(***************************************************************************)

\* How many members of S are not above k.
Count(S, k) == Cardinality({j \in S : j <= k})

LEMMA CountGrows ==
  ASSUME NEW N \in Nat, NEW S, S \subseteq 1 .. N
  PROVE  /\ IsFiniteSet(S) /\ Cardinality(S) \in Nat
         /\ \A x \in S : Count(S, x) \in 1 .. Cardinality(S)
         /\ \A x, y \in S : x < y => Count(S, x) < Count(S, y)
<1> DEFINE below(k) == {j \in S : j <= k}
<1>1. IsFiniteSet(S) /\ Cardinality(S) \in Nat
  <2>1. IsFiniteSet(1 .. N) /\ S \in SUBSET (1 .. N)
    BY FS_Interval
  <2>2. IsFiniteSet(S)
    BY <2>1, FS_Subset
  <2> QED
    BY <2>2, FS_CardinalityType
<1>2. \A k : /\ IsFiniteSet(below(k)) /\ Cardinality(below(k)) \in Nat
             /\ Cardinality(below(k)) <= Cardinality(S)
  <2>1. ASSUME NEW k PROVE /\ IsFiniteSet(below(k)) /\ Cardinality(below(k)) \in Nat
                           /\ Cardinality(below(k)) <= Cardinality(S)
    <3>1. below(k) \in SUBSET S
      OBVIOUS
    <3> HIDE DEF below
    <3> QED
      BY <3>1, <1>1, FS_Subset, FS_CardinalityType
  <2> QED
    BY <2>1
<1>3. ASSUME NEW x \in S PROVE Count(S, x) \in 1 .. Cardinality(S)
  <2>1. x \in below(x)
    OBVIOUS
  <2> HIDE DEF below
  <2>2. below(x) # {} /\ IsFiniteSet(below(x))
    BY <2>1, <1>2
  <2>3. Cardinality(below(x)) # 0
    BY <2>2, FS_EmptySet
  <2>4. Cardinality(below(x)) \in 1 .. Cardinality(S)
    BY <1>1, <1>2, <2>3
  <2> QED
    BY <2>4 DEF Count, below
<1>4. ASSUME NEW x \in S, NEW y \in S, x < y PROVE Count(S, x) < Count(S, y)
  <2>1. below(x) \subseteq below(y) /\ y \in below(y) /\ y \notin below(x)
    <3>1. x \in Nat /\ y \in Nat /\ \A j \in S : j \in Nat
      OBVIOUS
    <3>2. ASSUME NEW j \in S, j <= x PROVE j <= y
      BY <3>1, <3>2, <1>4
    <3>3. y \in below(y) /\ ~ (y <= x)
      BY <3>1, <1>4
    <3> QED
      BY <3>2, <3>3
  <2> HIDE DEF below
  <2>2. Cardinality(below(x)) <= Cardinality(below(y)) /\ Cardinality(below(x)) # Cardinality(below(y))
    BY <2>1, <1>2, FS_Subset
  <2>3. Cardinality(below(x)) < Cardinality(below(y))
    BY <1>2, <2>2
  <2> QED
    BY <2>3 DEF Count, below
<1> QED
  BY <1>1, <1>3, <1>4

\* Nth goes through a set of numbers in its order.
Enumerates(S) ==
  /\ IsFiniteSet(S) /\ Cardinality(S) \in Nat
  /\ \A i \in 1 .. Cardinality(S) : Nth(S, i) \in S
  /\ \A i, j \in 1 .. Cardinality(S) : i < j => Nth(S, i) < Nth(S, j)
  /\ \A x \in S : \E i \in 1 .. Cardinality(S) : x = Nth(S, i)

LEMMA NthEnumerates ==
  ASSUME NEW N \in Nat, NEW S, S \subseteq 1 .. N
  PROVE  /\ Enumerates(S)
         /\ \A i \in 1 .. Cardinality(S) : \A x \in S : Count(S, x) = i <=> x = Nth(S, i)
<1> DEFINE n == Cardinality(S)
           f == [x \in S |-> Count(S, x)]
<1>1. /\ IsFiniteSet(S) /\ n \in Nat
      /\ \A x \in S : Count(S, x) \in 1 .. n
      /\ \A x, y \in S : x < y => Count(S, x) < Count(S, y)
  BY CountGrows
<1> HIDE DEF n
<1>2. S \subseteq Nat
  OBVIOUS
<1>3. \A x, y \in S : Count(S, x) = Count(S, y) => x = y
  BY <1>1, <1>2
<1>4. f \in Injection(S, 1 .. n)
  <2>1. f \in [S -> 1 .. n]
    BY <1>1
  <2>2. \A x, y \in S : f[x] = f[y] => x = y
    BY <1>3
  <2> HIDE DEF f
  <2> QED
    BY <2>1, <2>2 DEF Injection, IsInjective
<1>5. f \in Surjection(S, 1 .. n)
  <2>1. IsFiniteSet(1 .. n) /\ Cardinality(1 .. n) = n
    BY <1>1, FS_Interval
  <2> HIDE DEF f
  <2> QED
    BY <2>1, <1>4, FS_Injection DEF n
<1>6. ASSUME NEW i \in 1 .. n PROVE \E x \in S : Count(S, x) = i
  <2>1. \E x \in S : f[x] = i
    BY <1>5 DEF Surjection
  <2> QED
    BY <2>1
<1>7. ASSUME NEW i \in 1 .. n PROVE Nth(S, i) \in S /\ Count(S, Nth(S, i)) = i
  <2>1. Nth(S, i) = CHOOSE k \in S : Count(S, k) = i
    BY DEF Nth, Count
  <2> QED
    BY <2>1, <1>6
<1>8. ASSUME NEW i \in 1 .. n, NEW j \in 1 .. n, i < j PROVE Nth(S, i) < Nth(S, j)
  <2>1. PICK x \in S, y \in S : /\ x = Nth(S, i) /\ Count(S, x) = i
                                /\ y = Nth(S, j) /\ Count(S, y) = j
    BY <1>7
  <2>2. x \in Nat /\ y \in Nat /\ i \in Nat /\ j \in Nat /\ i < j
    BY <1>2, <1>8
  <2>3. x # y
    BY <2>1, <2>2
  <2>4. y < x => j < i
    BY <2>1, <1>1
  <2>5. x < y
    BY <2>2, <2>3, <2>4
  <2> QED
    BY <2>1, <2>5
<1>9. ASSUME NEW i \in 1 .. n, NEW x \in S PROVE Count(S, x) = i <=> x = Nth(S, i)
  BY <1>3, <1>7
<1>10. ASSUME NEW x \in S PROVE \E i \in 1 .. n : x = Nth(S, i)
  BY <1>1, <1>9
<1> QED
  BY <1>1, <1>7, <1>8, <1>9, <1>10 DEF Enumerates, n

\* Members added above the others do not change what stands before them.
LEMMA NthOfMore ==
  ASSUME NEW N \in Nat, NEW S, S \subseteq 1 .. N, NEW R, R \subseteq S,
         \A x \in R, y \in S \ R : x < y
  PROVE  /\ Cardinality(R) <= Cardinality(S)
         /\ \A i \in 1 .. Cardinality(R) : Nth(S, i) = Nth(R, i)
<1>1. R \subseteq 1 .. N
  OBVIOUS
<1>2. /\ IsFiniteSet(S) /\ Cardinality(S) \in Nat
      /\ \A i \in 1 .. Cardinality(S) : \A x \in S : Count(S, x) = i <=> x = Nth(S, i)
  BY NthEnumerates DEF Enumerates
<1>3. /\ Cardinality(R) \in Nat
      /\ \A i \in 1 .. Cardinality(R) : Nth(R, i) \in R
      /\ \A i \in 1 .. Cardinality(R) : \A x \in R : Count(R, x) = i <=> x = Nth(R, i)
  BY <1>1, NthEnumerates DEF Enumerates
<1>4. Cardinality(R) <= Cardinality(S)
  BY <1>2, FS_Subset
<1>5. ASSUME NEW i \in 1 .. Cardinality(R) PROVE Nth(S, i) = Nth(R, i)
  <2> DEFINE x == Nth(R, i)
  <2>1. x \in R /\ x \in S /\ Count(R, x) = i
    BY <1>3
  <2> HIDE DEF x
  <2>2. {j \in S : j <= x} = {j \in R : j <= x}
    <3>1. ASSUME NEW j \in S \ R PROVE ~ (j <= x)
      BY <2>1
    <3> QED
      BY <3>1
  <2>3. Count(S, x) = i
    BY <2>1, <2>2 DEF Count
  <2>4. i \in 1 .. Cardinality(S)
    BY <1>2, <1>3, <1>4
  <2> QED
    BY <2>1, <2>3, <2>4, <1>2 DEF x
<1> QED
  BY <1>4, <1>5

(***************************************************************************)
(* The headers of a stream, and the packages between them.                 *)
(***************************************************************************)

\* A header is two different bytes, so two of them do not overlap.
LEMMA HeadersAre ==
  ASSUME NEW t \in Seq(Byte)
  PROVE  /\ HeadersIn(t) \subseteq 1 .. Len(t)
         /\ \A x \in HeadersIn(t) : x < Len(t) /\ t[x] = 170 /\ t[x + 1] = 187
         /\ \A x \in 1 .. Len(t) : x < Len(t) /\ t[x] = 170 /\ t[x + 1] = 187 => x \in HeadersIn(t)
         /\ \A x, y \in HeadersIn(t) : x < y => x + 2 <= y
<1>0. Len(t) \in Nat
  OBVIOUS
<1>1. ASSUME NEW x \in 1 .. Len(t)
      PROVE  x \in HeadersIn(t) <=> x < Len(t) /\ t[x] = 170 /\ t[x + 1] = 187
  <2>1. x \in HeadersIn(t) <=> x \in 1 .. Len(t) - 1 /\ SubSeq(t, x, x + 1) = GetHeader
    BY DEF HeadersIn
  <2>2. x + 1 = x + 2 - 1 /\ (x + 2 <= Len(t) + 1 <=> x \in 1 .. Len(t) - 1)
    BY <1>0
  <2>3. x \in HeadersIn(t) <=> StandsAt(t, GetHeader, x)
    BY <2>1, <2>2, HeaderIs DEF StandsAt
  <2> QED
    BY <2>3, HeaderStandsAt
<1>2. HeadersIn(t) \subseteq 1 .. Len(t)
  BY <1>0 DEF HeadersIn
<1>3. ASSUME NEW x \in HeadersIn(t), NEW y \in HeadersIn(t), x < y PROVE x + 2 <= y
  <2>1. x \in Nat /\ y \in Nat
    BY <1>2
  <2>2. t[x + 1] = 187 /\ t[y] = 170
    BY <1>1, <1>2
  <2>3. x + 1 # y
    BY <2>2
  <2> QED
    BY <2>1, <2>3, <1>3
<1> QED
  BY <1>1, <1>2, <1>3

\* The headers in what is left of a string.
LEMMA RestHeader ==
  ASSUME NEW t \in Seq(Byte), NEW from \in 1 .. Len(t) + 1, NEW j \in Nat \ {0}
  PROVE  StandsAt(SubSeq(t, from, Len(t)), GetHeader, j) <=> from + j - 1 \in HeadersIn(t)
<1> DEFINE r == SubSeq(t, from, Len(t))
           x == from + j - 1
<1>1. Len(t) \in Nat /\ from \in Nat \ {0} /\ x \in Nat \ {0}
  OBVIOUS
<1>2. \A i \in from .. Len(t) : t[i] \in Byte
  BY <1>1
<1>3. /\ r \in Seq(Byte) /\ Len(r) = Len(t) - from + 1
      /\ \A i \in 1 .. Len(t) - from + 1 : r[i] = t[from + i - 1]
  BY <1>1, <1>2, SubSeqProperties
<1> HIDE DEF r
<1>4. x + 1 = from + (j + 1) - 1
  BY <1>1
<1>5. CASE j < Len(r)
  <2>1. j \in 1 .. Len(r) /\ j + 1 \in 1 .. Len(t) - from + 1 /\ x \in 1 .. Len(t) /\ x < Len(t)
    BY <1>1, <1>3, <1>5
  <2>2. r[j] = t[x] /\ r[j + 1] = t[x + 1]
    BY <1>3, <1>4, <2>1
  <2> HIDE DEF x
  <2>3. StandsAt(r, GetHeader, j) <=> r[j] = 170 /\ r[j + 1] = 187
    BY <1>3, <1>5, <2>1, HeaderStandsAt
  <2>4. x \in HeadersIn(t) <=> t[x] = 170 /\ t[x + 1] = 187
    BY <2>1, HeadersAre
  <2> QED
    BY <2>2, <2>3, <2>4 DEF r, x
<1>6. CASE ~ (j < Len(r))
  <2>1. ~ (j + 2 <= Len(r) + 1) /\ ~ (x < Len(t))
    BY <1>1, <1>3, <1>6
  <2> HIDE DEF x
  <2>2. ~ StandsAt(r, GetHeader, j)
    BY <2>1, HeaderIs DEF StandsAt
  <2>3. x \notin HeadersIn(t)
    BY <2>1, HeadersAre
  <2> QED
    BY <2>2, <2>3 DEF r, x
<1> QED
  BY <1>5, <1>6 DEF r, x

\* What GetPackage takes from the rest of a string reaches from the first header in
\* it to the second.
LEMMA CutAtHeaders ==
  ASSUME NEW t \in Seq(Byte), NEW from \in 1 .. Len(t) + 1,
         NEW a \in HeadersIn(t), NEW b \in HeadersIn(t), from <= a, a < b,
         \A x \in HeadersIn(t) : from <= x => a <= x,
         \A x \in HeadersIn(t) : a < x => b <= x
  PROVE  GetPackage(SubSeq(t, from, Len(t)))
           = [ ok |-> TRUE, package |-> SubSeq(t, a, b - 1), rest |-> SubSeq(t, b - 1, Len(t)) ]
<1> DEFINE r == SubSeq(t, from, Len(t))
           first == HasHeader(r, 1)
           futer == NextHeader(r)
           H == HeadersIn(t)
<1>1. /\ Len(t) \in Nat /\ from \in Nat \ {0} /\ a \in Nat \ {0} /\ b \in Nat \ {0}
      /\ a + 2 <= b /\ b < Len(t)
  BY HeadersAre
<1>2. r \in Seq(Byte) /\ Len(r) = Len(t) - from + 1
  <2>1. \A i \in from .. Len(t) : t[i] \in Byte
    BY <1>1
  <2> QED
    BY <1>1, <2>1, SubSeqProperties
<1>3. \A j \in Nat \ {0} : StandsAt(r, GetHeader, j) <=> from + j - 1 \in H
  BY RestHeader
<1> HIDE DEF r
<1>4. /\ first \in Nat /\ futer \in Nat
      /\ first # 0 => first + 1 <= Len(r) /\ StandsAt(r, GetHeader, first)
      /\ \A k \in Nat \ {0} : (first = 0 \/ k < first) => ~ StandsAt(r, GetHeader, k)
      /\ first # 0 /\ futer # 0 =>
           first + 2 <= futer /\ futer + 1 <= Len(r) /\ StandsAt(r, GetHeader, futer)
      /\ first # 0 => \A k \in Nat : (first + 2 <= k /\ (futer = 0 \/ k < futer))
                                       => ~ StandsAt(r, GetHeader, k)
  BY <1>2, PackageFound
<1>5. GetPackage(r) = IF first = 0 \/ futer = 0
                        THEN [ok |-> FALSE, package |-> <<>>, rest |-> r]
                        ELSE [ ok      |-> TRUE,
                               package |-> <<>> \o SubSeq(r, first, futer - 1),
                               rest    |-> SubSeq(r, futer - 1, Len(r)) ]
  BY DEF GetPackage, AddRange, Erase
<1> HIDE DEF first, futer, H
<1>6. first = a - from + 1
  <2> DEFINE k == a - from + 1
  <2>1. k \in Nat \ {0} /\ from + k - 1 = a
    BY <1>1
  <2>2. StandsAt(r, GetHeader, k)
    BY <1>3, <2>1 DEF H
  <2> HIDE DEF k
  <2>3. first # 0 /\ first <= k
    BY <1>4, <2>1, <2>2
  <2>4. from + first - 1 \in H /\ from <= from + first - 1 /\ from + first - 1 \in Nat
    BY <1>1, <1>3, <1>4, <2>3
  <2>5. a <= from + first - 1
    BY <2>4 DEF H
  <2> QED
    BY <1>1, <1>4, <2>1, <2>3, <2>5 DEF k
<1>7. futer = b - from + 1
  <2> DEFINE k == b - from + 1
  <2>1. k \in Nat \ {0} /\ from + k - 1 = b /\ first + 2 <= k /\ first # 0
    BY <1>1, <1>6
  <2>2. StandsAt(r, GetHeader, k)
    BY <1>3, <2>1 DEF H
  <2> HIDE DEF k
  <2>3. futer # 0 /\ futer <= k
    BY <1>4, <2>1, <2>2
  <2>4. from + futer - 1 \in H /\ a < from + futer - 1 /\ from + futer - 1 \in Nat
    BY <1>1, <1>3, <1>4, <1>6, <2>1, <2>3
  <2>5. b <= from + futer - 1
    BY <2>4 DEF H
  <2> QED
    BY <1>1, <1>4, <2>1, <2>3, <2>5 DEF k
<1>8. /\ first \in 1 .. Len(t) - from + 1 /\ futer - 1 \in 1 .. Len(t) - from + 1
      /\ Len(r) \in 1 .. Len(t) - from + 1
      /\ from + first - 1 = a /\ from + (futer - 1) - 1 = b - 1 /\ from + Len(r) - 1 = Len(t)
      /\ from \in 1 .. Len(t) /\ Len(t) \in 1 .. Len(t)
  BY <1>1, <1>2, <1>6, <1>7
<1>9. SubSeq(r, first, futer - 1) = SubSeq(t, a, b - 1)
  <2>1. PICK m \in 1 .. Len(t) - from + 1, n \in 1 .. Len(t) - from + 1 : m = first /\ n = futer - 1
    BY <1>8
  <2>2. SubSeq(SubSeq(t, from, Len(t)), m, n) = SubSeq(t, from + m - 1, from + n - 1)
    BY <1>8, SubSeqOfSubSeq
  <2> QED
    BY <1>8, <2>1, <2>2 DEF r
<1>10. SubSeq(r, futer - 1, Len(r)) = SubSeq(t, b - 1, Len(t))
  <2>1. PICK m \in 1 .. Len(t) - from + 1, n \in 1 .. Len(t) - from + 1 : m = futer - 1 /\ n = Len(r)
    BY <1>8
  <2>2. SubSeq(SubSeq(t, from, Len(t)), m, n) = SubSeq(t, from + m - 1, from + n - 1)
    BY <1>8, SubSeqOfSubSeq
  <2> QED
    BY <1>8, <2>1, <2>2 DEF r
<1>11. <<>> \o SubSeq(t, a, b - 1) = SubSeq(t, a, b - 1)
  <2>1. SubSeq(t, a, b - 1) \in Seq(Byte)
    BY <1>1, PrefixTyped
  <2> QED
    BY <2>1, ConcatEmptySeq
<1>12. first # 0 /\ futer # 0
  BY <1>1, <1>6, <1>7
<1> QED
  BY <1>5, <1>9, <1>10, <1>11, <1>12 DEF r

LEMMA NothingToCut ==
  ASSUME NEW t \in Seq(Byte), NEW from \in 1 .. Len(t) + 1,
         \A x, y \in HeadersIn(t) : from <= x /\ from <= y => x = y
  PROVE  ~ GetPackage(SubSeq(t, from, Len(t))).ok
<1> DEFINE r == SubSeq(t, from, Len(t))
           first == HasHeader(r, 1)
           futer == NextHeader(r)
<1>1. Len(t) \in Nat /\ from \in Nat \ {0}
  OBVIOUS
<1>2. r \in Seq(Byte)
  <2>1. \A i \in from .. Len(t) : t[i] \in Byte
    BY <1>1
  <2> QED
    BY <1>1, <2>1, SubSeqProperties
<1>3. \A j \in Nat \ {0} : StandsAt(r, GetHeader, j) <=> from + j - 1 \in HeadersIn(t)
  BY RestHeader
<1> HIDE DEF r
<1>4. /\ first \in Nat /\ futer \in Nat
      /\ first # 0 => StandsAt(r, GetHeader, first)
      /\ first # 0 /\ futer # 0 => first + 2 <= futer /\ StandsAt(r, GetHeader, futer)
  BY <1>2, PackageFound
<1>5. GetPackage(r) = IF first = 0 \/ futer = 0
                        THEN [ok |-> FALSE, package |-> <<>>, rest |-> r]
                        ELSE [ ok      |-> TRUE,
                               package |-> <<>> \o SubSeq(r, first, futer - 1),
                               rest    |-> SubSeq(r, futer - 1, Len(r)) ]
  BY DEF GetPackage, AddRange, Erase
<1> HIDE DEF first, futer
<1>6. ~ (first # 0 /\ futer # 0)
  <2> SUFFICES ASSUME first # 0, futer # 0 PROVE FALSE
    OBVIOUS
  <2>1. /\ from + first - 1 \in HeadersIn(t) /\ from + futer - 1 \in HeadersIn(t)
        /\ from <= from + first - 1 /\ from <= from + futer - 1
    BY <1>1, <1>3, <1>4
  <2> QED
    BY <2>1, <1>1, <1>4
<1> QED
  BY <1>5, <1>6 DEF r

\* What DumpReceive has taken out after n looks into the document.
TakenOf(content) ==
  LET Taken[n \in 0 .. Len(content)] ==
        IF n = 0 THEN [rest |-> content, out |-> <<>>]
        ELSE LET last == Taken[n - 1]
                 next == GetPackage(last.rest)
             IN  IF next.ok THEN [rest |-> next.rest, out |-> last.out \o <<next.package>>]
                 ELSE last
  IN  Taken

Cuts == [rest : Seq(Byte), out : Seq(Seq(Byte))]

NextCut(last) ==
  LET next == GetPackage(last.rest)
  IN  IF next.ok THEN [rest |-> next.rest, out |-> last.out \o <<next.package>>]
      ELSE last

LEMMA NextCutTyped == ASSUME NEW c \in Cuts PROVE NextCut(c) \in Cuts
<1> DEFINE next == GetPackage(c.rest)
<1>1. c.rest \in Seq(Byte) /\ c.out \in Seq(Seq(Byte))
  BY DEF Cuts
<1>2. next.ok => next.rest \in Seq(Byte) /\ next.package \in Seq(Byte)
  BY <1>1, GetPackageTyped
<1> HIDE DEF next
<1>3. CASE next.ok
  <2>1. <<next.package>> \in Seq(Seq(Byte))
    BY <1>2, <1>3
  <2>2. c.out \o <<next.package>> \in Seq(Seq(Byte))
    BY <1>1, <2>1, ConcatProperties
  <2>3. [rest |-> next.rest, out |-> c.out \o <<next.package>>] \in Cuts
    BY <1>2, <1>3, <2>2 DEF Cuts
  <2> QED
    BY <1>3, <2>3 DEF NextCut, next
<1>4. CASE ~ next.ok
  BY <1>4 DEF NextCut, next
<1> QED
  BY <1>3, <1>4

LEMMA TakenRecursion ==
  ASSUME NEW s \in Seq(Byte)
  PROVE  /\ TakenOf(s)[0] = [rest |-> s, out |-> <<>>]
         /\ \A i \in 0 .. Len(s) : TakenOf(s)[i] \in Cuts
         /\ \A i \in 1 .. Len(s) : TakenOf(s)[i] = NextCut(TakenOf(s)[i - 1])
         /\ TakeAll(s) = TakenOf(s)[Len(s)]
<1> DEFINE start == [rest |-> s, out |-> <<>>]
           Step == [i \in 1 .. Len(s) |-> [c \in Cuts |-> NextCut(c)]]
           Taken(g) == [i \in 0 .. Len(s) |->
                          IF i = 0 THEN [rest |-> s, out |-> <<>>]
                          ELSE LET last == g[i - 1]
                                   next == GetPackage(last.rest)
                               IN  IF next.ok THEN [rest |-> next.rest, out |-> last.out \o <<next.package>>]
                                   ELSE last]
<1>0. Len(s) \in Nat /\ start \in Cuts
  BY EmptySeq DEF Cuts
<1>1. TellsForward(Step, Len(s), Cuts, start)
  <2>1. \A c \in Cuts : NextCut(c) \in Cuts
    BY NextCutTyped
  <2> QED
    BY <1>0, <2>1 DEF TellsForward
<1>2. PICK f : ToldForward(f, Step, Len(s), Cuts, start)
  BY <1>1, ForwardRecursion
<1>3. /\ f \in [0 .. Len(s) -> Cuts] /\ f[0] = start
      /\ \A i \in 1 .. Len(s) : f[i] = NextCut(f[i - 1])
  <2>1. /\ f \in [0 .. Len(s) -> Cuts] /\ f[0] = start
        /\ \A i \in 1 .. Len(s) : f[i] = Step[i][f[i - 1]]
    BY <1>2 DEF ToldForward
  <2>2. ASSUME NEW i \in 1 .. Len(s) PROVE f[i] = NextCut(f[i - 1])
    <3>1. i - 1 \in 0 .. Len(s)
      BY <1>0
    <3>2. f[i - 1] \in Cuts
      BY <2>1, <3>1
    <3> QED
      BY <2>1, <3>2
  <2> QED
    BY <2>1, <2>2
<1>4. f = Taken(f)
  <2>1. ASSUME NEW i \in 0 .. Len(s) PROVE f[i] = Taken(f)[i]
    <3>1. CASE i = 0
      BY <3>1, <1>3
    <3>2. CASE i # 0
      <4>1. i \in 1 .. Len(s)
        BY <3>2
      <4>2. Taken(f)[i] = NextCut(f[i - 1])
        BY <3>2, Zenon DEF NextCut
      <4> QED
        BY <1>3, <4>1, <4>2
    <3> QED
      BY <3>1, <3>2
  <2>2. DOMAIN f = 0 .. Len(s) /\ f = [i \in 0 .. Len(s) |-> f[i]]
    BY <1>3
  <2> HIDE DEF Taken
  <2>3. Taken(f) = [i \in 0 .. Len(s) |-> Taken(f)[i]]
    BY DEF Taken
  <2> QED
    BY <2>1, <2>2, <2>3
<1>5. TakenOf(s) = Taken(TakenOf(s))
  BY <1>4, Zenon DEF TakenOf
<1> DEFINE K == TakenOf(s)
<1> HIDE DEF K
<1>6. K = Taken(K)
  BY <1>5 DEF K
<1>7. K[0] = start
  <2>1. 0 \in 0 .. Len(s)
    BY <1>0
  <2>2. Taken(K)[0] = start
    BY <2>1
  <2> HIDE DEF Taken
  <2> QED
    BY <2>2, <1>6
<1>8. ASSUME NEW i \in 1 .. Len(s) PROVE K[i] = NextCut(K[i - 1])
  <2>1. i \in 0 .. Len(s) /\ i # 0
    BY <1>0
  <2>2. Taken(K)[i] = NextCut(K[i - 1])
    BY <2>1, Zenon DEF NextCut
  <2> HIDE DEF Taken
  <2> QED
    BY <2>2, <1>6
<1>9. ASSUME NEW i \in 0 .. Len(s) PROVE K[i] \in Cuts
  <2> DEFINE S == {n \in Nat : n <= Len(s) => K[n] \in Cuts}
  <2>1. 0 \in S
    BY <1>0, <1>7
  <2>2. ASSUME NEW n \in Nat, n \in S PROVE n + 1 \in S
    <3>1. CASE n + 1 <= Len(s)
      <4>1. n + 1 \in 1 .. Len(s) /\ n <= Len(s) /\ (n + 1) - 1 = n
        BY <1>0, <3>1
      <4>2. K[n] \in Cuts
        BY <2>2, <4>1
      <4>3. K[n + 1] = NextCut(K[n])
        BY <1>8, <4>1
      <4> QED
        BY <4>2, <4>3, NextCutTyped
    <3> QED
      BY <3>1
  <2>3. Nat \subseteq S
    <3> HIDE DEF S
    <3> QED
      BY <2>1, <2>2, NumbersInduction
  <2> QED
    BY <2>3, <1>0
<1>10. TakeAll(s) = TakenOf(s)[Len(s)]
  BY Zenon DEF TakeAll, TakenOf
<1> QED
  BY <1>7, <1>8, <1>9, <1>10 DEF K

\* At the end there is no package left in the document.
LEMMA TakeAllTakesAll ==
  ASSUME NEW s \in Seq(Byte)
  PROVE  TakeAll(s) \in Cuts /\ ~ GetPackage(TakeAll(s).rest).ok
<1> DEFINE K == TakenOf(s)
           Done(c) == ~ GetPackage(c.rest).ok
           S == {n \in Nat : n <= Len(s) => Done(K[n]) \/ Len(K[n].rest) <= Len(s) - n}
<1>1. /\ Len(s) \in Nat
      /\ K[0] = [rest |-> s, out |-> <<>>]
      /\ \A i \in 0 .. Len(s) : K[i] \in Cuts
      /\ \A i \in 1 .. Len(s) : K[i] = NextCut(K[i - 1])
      /\ TakeAll(s) = K[Len(s)]
  BY TakenRecursion
<1> HIDE DEF K
<1>2. 0 \in S
  BY <1>1
<1>3. ASSUME NEW n \in Nat, n \in S PROVE n + 1 \in S
  <2> SUFFICES ASSUME n + 1 <= Len(s) PROVE Done(K[n + 1]) \/ Len(K[n + 1].rest) <= Len(s) - (n + 1)
    OBVIOUS
  <2>1. n + 1 \in 1 .. Len(s) /\ n \in 0 .. Len(s) /\ (n + 1) - 1 = n
    BY <1>1
  <2> DEFINE c == K[n]
             next == GetPackage(c.rest)
  <2>2. c \in Cuts /\ K[n + 1] = NextCut(c) /\ (Done(c) \/ Len(c.rest) <= Len(s) - n)
    BY <1>1, <1>3, <2>1
  <2>3. c.rest \in Seq(Byte) /\ Len(c.rest) \in Nat
    BY <2>2 DEF Cuts
  <2> HIDE DEF c
  <2>4. next.ok => next.rest \in Seq(Byte) /\ Len(next.rest) < Len(c.rest)
    BY <2>3, GetPackageTyped
  <2>5. CASE next.ok
    <3>1. K[n + 1].rest = next.rest
      BY <2>2, <2>5 DEF NextCut
    <3>2. Len(next.rest) \in Nat /\ Len(next.rest) < Len(c.rest) /\ Len(c.rest) <= Len(s) - n
      BY <2>2, <2>4, <2>5
    <3> HIDE DEF next
    <3> QED
      BY <1>1, <2>3, <3>1, <3>2
  <2>6. CASE ~ next.ok
    BY <2>2, <2>6 DEF NextCut
  <2> QED
    BY <2>5, <2>6
<1>4. Nat \subseteq S
  <2> HIDE DEF S
  <2> QED
    BY <1>2, <1>3, NumbersInduction
<1>5. Done(K[Len(s)]) \/ Len(K[Len(s)].rest) <= Len(s) - Len(s)
  BY <1>1, <1>4
<1>6. K[Len(s)] \in Cuts
  BY <1>1
<1> DEFINE r == K[Len(s)].rest
<1>7. r \in Seq(Byte) /\ Len(r) \in Nat
  BY <1>6 DEF Cuts
<1>8. Len(r) = 0 => ~ GetPackage(r).ok
  <2> HIDE DEF r
  <2>1. GetPackage(r).ok => GetPackage(r).rest \in Seq(Byte) /\ Len(GetPackage(r).rest) < Len(r)
    BY <1>7, GetPackageTyped
  <2> QED
    BY <2>1, <1>7, EmptySeq
<1>9. Done(K[Len(s)])
  BY <1>1, <1>5, <1>7, <1>8
<1> QED
  BY <1>1, <1>6, <1>9

\* The packages p and the rest r come from cutting t at its first k + 1 headers.
RestFrom(t, k) == IF k = 0 THEN 1 ELSE Nth(HeadersIn(t), k + 1) - 1

CutBehind(t, p, r, k) ==
  /\ k \in Nat /\ (k = 0 \/ k < Cardinality(HeadersIn(t)))
  /\ p \in Seq(Seq(Byte)) /\ Len(p) = k
  /\ \A i \in 1 .. k : p[i] = SubSeq(t, Nth(HeadersIn(t), i), Nth(HeadersIn(t), i + 1) - 1)
  /\ r = SubSeq(t, RestFrom(t, k), Len(t))

LEMMA RestFromBounds ==
  ASSUME NEW t \in Seq(Byte), NEW k \in Nat, k = 0 \/ k < Cardinality(HeadersIn(t))
  PROVE  /\ RestFrom(t, k) \in 1 .. Len(t) + 1
         /\ \A i \in 1 .. Cardinality(HeadersIn(t)) : RestFrom(t, k) <= Nth(HeadersIn(t), i) <=> k < i
<1> DEFINE H == HeadersIn(t)
           n == Cardinality(H)
           h(i) == Nth(H, i)
           from == RestFrom(t, k)
<1>1. /\ H \subseteq 1 .. Len(t) /\ Len(t) \in Nat
      /\ \A x, y \in H : x < y => x + 2 <= y
  BY HeadersAre
<1> HIDE DEF H
<1>2. Enumerates(H)
  BY <1>1, NthEnumerates
<1>3. /\ n \in Nat
      /\ \A i \in 1 .. n : h(i) \in H /\ h(i) \in 1 .. Len(t)
      /\ \A i, j \in 1 .. n : i < j => h(i) < h(j)
  BY <1>1, <1>2 DEF Enumerates
<1>4. from = IF k = 0 THEN 1 ELSE h(k + 1) - 1
  BY DEF RestFrom, H
<1> HIDE DEF n, h, from
<1>5. k # 0 => k + 1 \in 1 .. n /\ 1 \in 1 .. n /\ 1 < k + 1
  BY <1>3 DEF n, H
<1>6. k # 0 => h(k + 1) \in 2 .. Len(t)
  BY <1>3, <1>5
<1>7. from \in 1 .. Len(t) + 1
  BY <1>1, <1>4, <1>6
<1>8. ASSUME NEW i \in 1 .. n PROVE from <= h(i) <=> k < i
  <2>1. CASE k = 0
    BY <2>1, <1>3, <1>4
  <2>2. CASE k # 0
    <3>1. i < k + 1 => h(i) + 2 <= h(k + 1)
      BY <2>2, <1>1, <1>3, <1>5
    <3>2. k + 1 < i => h(k + 1) < h(i)
      BY <2>2, <1>3, <1>5
    <3>3. i = k + 1 => h(i) = h(k + 1)
      OBVIOUS
    <3>4. h(i) \in Nat /\ h(k + 1) \in Nat /\ from = h(k + 1) - 1
      BY <2>2, <1>3, <1>4, <1>6
    <3> HIDE DEF h
    <3>5. i < k + 1 \/ i = k + 1 \/ k + 1 < i
      OBVIOUS
    <3>6. ASSUME i < k + 1 PROVE ~ (from <= h(i))
      BY <3>1, <3>4, <3>6
    <3>7. ASSUME i = k + 1 PROVE from <= h(i)
      BY <3>3, <3>4, <3>7
    <3>8. ASSUME k + 1 < i PROVE from <= h(i)
      BY <3>2, <3>4, <3>8
    <3> QED
      BY <3>5, <3>6, <3>7, <3>8
  <2> QED
    BY <2>1, <2>2
<1> QED
  BY <1>7, <1>8 DEF n, h, from, H

LEMMA CutStep ==
  ASSUME NEW t \in Seq(Byte), NEW p, NEW r, NEW k, CutBehind(t, p, r, k)
  PROVE  LET next == GetPackage(r) IN
         /\ next.ok <=> k + 2 <= Cardinality(HeadersIn(t))
         /\ next.ok => CutBehind(t, p \o <<next.package>>, next.rest, k + 1)
<1> DEFINE H == HeadersIn(t)
           n == Cardinality(H)
           h(i) == Nth(H, i)
           from == RestFrom(t, k)
           next == GetPackage(r)
<1>1. H \subseteq 1 .. Len(t) /\ Len(t) \in Nat
  BY HeadersAre
<1>2. Enumerates(H)
  BY <1>1, NthEnumerates
<1>3. /\ k \in Nat /\ (k = 0 \/ k < n)
      /\ p \in Seq(Seq(Byte)) /\ Len(p) = k
      /\ \A i \in 1 .. k : p[i] = SubSeq(t, h(i), h(i + 1) - 1)
      /\ r = SubSeq(t, from, Len(t))
  BY DEF CutBehind
<1>4. /\ from \in 1 .. Len(t) + 1
      /\ \A i \in 1 .. n : from <= h(i) <=> k < i
  BY <1>3, RestFromBounds
<1>5. /\ n \in Nat
      /\ \A i \in 1 .. n : h(i) \in H /\ h(i) \in 1 .. Len(t)
      /\ \A i, j \in 1 .. n : i < j => h(i) < h(j)
      /\ \A x \in H : \E i \in 1 .. n : x = h(i)
  BY <1>1, <1>2 DEF Enumerates
<1>6. \A x \in H : x \in Nat
  BY <1>1
<1>9. k \in Nat /\ n \in Nat
  BY <1>3, <1>5
<1> HIDE DEF H, n, h, from
<1>7. CASE k + 2 <= n
  <2>1. k + 1 \in 1 .. n /\ k + 2 \in 1 .. n /\ k + 1 < k + 2 /\ k < k + 1
    BY <1>3, <1>5, <1>7
  <2>2. PICK a \in H, b \in H : a = h(k + 1) /\ b = h(k + 2)
    BY <1>5, <2>1
  <2>3. a < b /\ from <= a /\ a \in Nat \ {0} /\ b \in Nat \ {0} /\ b <= Len(t)
    BY <1>1, <1>4, <1>5, <2>1, <2>2
  <2>4. ASSUME NEW x \in H, from <= x PROVE a <= x
    <3>1. PICK i \in 1 .. n : x = h(i)
      BY <1>5
    <3>2. k < i
      BY <1>4, <2>4, <3>1
    <3>3. i = k + 1 \/ k + 1 < i
      BY <3>2, <1>3
    <3> QED
      BY <3>1, <3>3, <1>5, <1>6, <2>1, <2>2
  <2>5. ASSUME NEW x \in H, a < x PROVE b <= x
    <3>1. PICK i \in 1 .. n : x = h(i)
      BY <1>5
    <3>2. ~ (i < k + 1) /\ i # k + 1
      <4>1. i < k + 1 => h(i) < a
        BY <1>5, <2>1, <2>2
      <4>2. i = k + 1 => h(i) = a
        BY <2>2
      <4>3. x \in Nat /\ a \in Nat
        BY <1>6
      <4> QED
        BY <4>1, <4>2, <4>3, <3>1, <2>5
    <3>3. i = k + 2 \/ k + 2 < i
      BY <3>2, <1>3
    <3> QED
      BY <3>1, <3>3, <1>5, <1>6, <2>1, <2>2
  <2>6. next = [ ok |-> TRUE, package |-> SubSeq(t, a, b - 1), rest |-> SubSeq(t, b - 1, Len(t)) ]
    <3>1. a \in HeadersIn(t) /\ b \in HeadersIn(t)
      BY DEF H
    <3>2. /\ \A x \in HeadersIn(t) : from <= x => a <= x
          /\ \A x \in HeadersIn(t) : a < x => b <= x
      BY <2>4, <2>5 DEF H
    <3>3. GetPackage(SubSeq(t, from, Len(t)))
            = [ ok |-> TRUE, package |-> SubSeq(t, a, b - 1), rest |-> SubSeq(t, b - 1, Len(t)) ]
      BY <1>4, <2>3, <3>1, <3>2, CutAtHeaders
    <3> QED
      BY <3>3, <1>3
  <2> HIDE DEF next
  <2>7. PICK e \in Seq(Byte) : e = SubSeq(t, a, b - 1)
    <3>1. SubSeq(t, a, b - 1) \in Seq(Byte)
      BY <1>1, <2>3, PrefixTyped
    <3> QED
      BY <3>1
  <2>8. PICK y \in Seq(Seq(Byte)) : y = <<e>>
    <3>1. <<e>> \in Seq(Seq(Byte))
      OBVIOUS
    <3> QED
      BY <3>1
  <2>9. Len(y) = 1 /\ y[1] = e
    BY <2>8
  <2> DEFINE q == p \o y
  <2>10. /\ q \in Seq(Seq(Byte)) /\ Len(q) = Len(p) + Len(y)
         /\ \A i \in 1 .. Len(p) + Len(y) : q[i] = IF i <= Len(p) THEN p[i] ELSE y[i - Len(p)]
    BY <1>3, ConcatProperties
  <2>11. q = p \o <<next.package>>
    BY <2>6, <2>7, <2>8
  <2> HIDE DEF q
  <2>12. Len(q) = k + 1 /\ \A i \in 1 .. k + 1 : q[i] = SubSeq(t, h(i), h(i + 1) - 1)
    <3>1. Len(q) = k + 1
      BY <1>3, <2>9, <2>10
    <3>2. ASSUME NEW i \in 1 .. k PROVE q[i] = SubSeq(t, h(i), h(i + 1) - 1)
      <4>1. q[i] = p[i]
        BY <1>3, <2>9, <2>10
      <4> QED
        BY <4>1, <1>3
    <3>3. q[k + 1] = e
      BY <1>3, <2>9, <2>10
    <3>4. (k + 1) + 1 = k + 2
      BY <1>3
    <3>5. q[k + 1] = SubSeq(t, h(k + 1), h((k + 1) + 1) - 1)
      BY <3>3, <3>4, <2>2, <2>7
    <3>6. \A i \in 1 .. k + 1 : i \in 1 .. k \/ i = k + 1
      BY <1>3
    <3> QED
      BY <3>1, <3>2, <3>5, <3>6
  <2>13. next.rest = SubSeq(t, RestFrom(t, k + 1), Len(t))
    <3>1. RestFrom(t, k + 1) = h((k + 1) + 1) - 1 /\ (k + 1) + 1 = k + 2
      BY <1>3 DEF RestFrom, h, H
    <3> QED
      BY <3>1, <2>2, <2>6
  <2>14. k + 1 \in Nat /\ k + 1 < n
    BY <1>7, <1>9
  <2>15. CutBehind(t, q, next.rest, k + 1)
    BY <2>10, <2>12, <2>13, <2>14 DEF CutBehind, n, h, H
  <2> QED
    BY <1>7, <2>6, <2>11, <2>15 DEF next, n, H
<1>8. CASE ~ (k + 2 <= n)
  <2>1. ASSUME NEW x \in H, NEW y \in H, from <= x, from <= y PROVE x = y
    <3>1. PICK i \in 1 .. n, j \in 1 .. n : x = h(i) /\ y = h(j)
      BY <1>5
    <3>2. k < i /\ k < j
      BY <1>4, <2>1, <3>1
    <3>3. i = j
      BY <1>8, <1>9, <3>2
    <3> QED
      BY <3>1, <3>3
  <2>2. ~ next.ok
    <3>1. \A x, y \in HeadersIn(t) : from <= x /\ from <= y => x = y
      BY <2>1 DEF H
    <3>2. ~ GetPackage(SubSeq(t, from, Len(t))).ok
      BY <1>4, <3>1, NothingToCut
    <3> QED
      BY <3>2, <1>3
  <2> QED
    BY <1>8, <2>2 DEF n, H
<1> QED
  BY <1>7, <1>8

\* DumpReceive cuts at every header but the last.
LEMMA CutToTheEnd ==
  ASSUME NEW t \in Seq(Byte), NEW p, NEW s \in Seq(Byte), NEW k, CutBehind(t, p, s, k)
  PROVE  \E m : /\ CutBehind(t, p \o TakeAll(s).out, TakeAll(s).rest, m)
                /\ ~ (m + 2 <= Cardinality(HeadersIn(t)))
<1> DEFINE K == TakenOf(s)
           Behind(i) == \E m : CutBehind(t, p \o K[i].out, K[i].rest, m)
           S == {i \in Nat : i <= Len(s) => Behind(i)}
<1>0. p \in Seq(Seq(Byte))
  BY DEF CutBehind
<1>1. /\ Len(s) \in Nat
      /\ K[0] = [rest |-> s, out |-> <<>>]
      /\ \A i \in 0 .. Len(s) : K[i] \in Cuts
      /\ \A i \in 1 .. Len(s) : K[i] = NextCut(K[i - 1])
      /\ TakeAll(s) = K[Len(s)]
  BY TakenRecursion
<1> HIDE DEF K
<1>2. 0 \in S
  <2>1. p \o <<>> = p
    BY <1>0, ConcatEmptySeq
  <2>2. Behind(0)
    BY <1>1, <2>1
  <2> QED
    BY <2>2
<1>3. ASSUME NEW i \in Nat, i \in S PROVE i + 1 \in S
  <2> SUFFICES ASSUME i + 1 <= Len(s) PROVE Behind(i + 1)
    OBVIOUS
  <2>1. i + 1 \in 1 .. Len(s) /\ i \in 0 .. Len(s) /\ (i + 1) - 1 = i
    BY <1>1
  <2> DEFINE c == K[i]
             e == K[i + 1]
             next == GetPackage(c.rest)
  <2>2. c \in Cuts /\ e = NextCut(c)
    BY <1>1, <2>1
  <2>3. PICK m : CutBehind(t, p \o c.out, c.rest, m)
    BY <1>3, <2>1
  <2> HIDE DEF c, e
  <2>4. CASE next.ok
    <3>1. e.rest = next.rest /\ e.out = c.out \o <<next.package>>
      BY <2>2, <2>4 DEF NextCut
    <3>2. CutBehind(t, (p \o c.out) \o <<next.package>>, next.rest, m + 1)
      BY <2>3, <2>4, CutStep
    <3>3. c.out \in Seq(Seq(Byte)) /\ c.rest \in Seq(Byte)
      BY <2>2 DEF Cuts
    <3>4. <<next.package>> \in Seq(Seq(Byte))
      BY <2>4, <3>3, GetPackageTyped
    <3>5. (p \o c.out) \o <<next.package>> = p \o e.out
      <4>1. PICK o \in Seq(Seq(Byte)), y \in Seq(Seq(Byte)) : o = c.out /\ y = <<next.package>>
        BY <3>3, <3>4
      <4>2. (p \o o) \o y = p \o (o \o y)
        <5>1. Regroups(p, o, y)
          BY <1>0, Regrouped
        <5> QED
          BY <5>1, Zenon DEF Regroups
      <4> HIDE DEF next
      <4> QED
        BY <3>1, <4>1, <4>2, Zenon
    <3>6. CutBehind(t, p \o e.out, e.rest, m + 1)
      BY <3>1, <3>2, <3>5
    <3> QED
      BY <3>6 DEF e
  <2>5. CASE ~ next.ok
    <3>1. e = c
      BY <2>2, <2>5 DEF NextCut
    <3>2. CutBehind(t, p \o e.out, e.rest, m)
      BY <2>3, <3>1
    <3> QED
      BY <3>2 DEF e
  <2> QED
    BY <2>4, <2>5
<1>4. Nat \subseteq S
  <2> HIDE DEF S
  <2> QED
    BY <1>2, <1>3, NumbersInduction
<1>5. Behind(Len(s))
  BY <1>1, <1>4
<1>6. PICK m : CutBehind(t, p \o TakeAll(s).out, TakeAll(s).rest, m)
  BY <1>1, <1>5
<1>7. ~ GetPackage(TakeAll(s).rest).ok
  BY TakeAllTakesAll
<1>8. ~ (m + 2 <= Cardinality(HeadersIn(t)))
  BY <1>6, <1>7, CutStep
<1> QED
  BY <1>6, <1>8

\* What is behind a string does not change where it was cut.
LEMMA MoreBehind ==
  ASSUME NEW t \in Seq(Byte), NEW d \in Seq(Byte), NEW p, NEW r, NEW k, CutBehind(t, p, r, k)
  PROVE  CutBehind(t \o d, p, r \o d, k)
<1> DEFINE u == t \o d
           R == HeadersIn(t)
           S == HeadersIn(u)
           n == Cardinality(R)
<1>1. /\ u \in Seq(Byte) /\ Len(u) = Len(t) + Len(d) /\ Len(t) \in Nat /\ Len(d) \in Nat
      /\ \A i \in 1 .. Len(t) : u[i] = t[i]
  BY ConcatProperties
<1> HIDE DEF u
<1>2. /\ R \subseteq 1 .. Len(t)
      /\ \A x \in R : x < Len(t) /\ t[x] = 170 /\ t[x + 1] = 187
      /\ \A x \in 1 .. Len(t) : x < Len(t) /\ t[x] = 170 /\ t[x + 1] = 187 => x \in R
      /\ \A x, y \in R : x < y => x + 2 <= y
  BY HeadersAre
<1>3. /\ S \subseteq 1 .. Len(u)
      /\ \A x \in S : x < Len(u) /\ u[x] = 170 /\ u[x + 1] = 187
      /\ \A x \in 1 .. Len(u) : x < Len(u) /\ u[x] = 170 /\ u[x + 1] = 187 => x \in S
  BY <1>1, HeadersAre, ZenonT(30)
<1> HIDE DEF R, S
<1>4. ASSUME NEW x \in R PROVE x \in S
  <2>1. x \in 1 .. Len(t) /\ x + 1 \in 1 .. Len(t) /\ x \in 1 .. Len(u) /\ x < Len(u)
    BY <1>1, <1>2
  <2> QED
    BY <2>1, <1>1, <1>2, <1>3
<1>5. ASSUME NEW x \in R, NEW y \in S \ R PROVE x < y
  <2>1. y \in 1 .. Len(u) /\ u[y] = 170 /\ u[y + 1] = 187
    BY <1>3
  <2>2. x \in Nat /\ x < Len(t)
    BY <1>2
  <2>3. CASE y < Len(t)
    <3>1. y \in 1 .. Len(t) /\ y + 1 \in 1 .. Len(t)
      BY <1>1, <2>1, <2>3
    <3>2. y \in R
      BY <3>1, <2>1, <2>3, <1>1, <1>2
    <3> QED
      BY <3>2
  <2>4. CASE ~ (y < Len(t))
    BY <1>1, <2>1, <2>2, <2>4
  <2> QED
    BY <2>3, <2>4
<1>6. Cardinality(R) <= Cardinality(S) /\ \A i \in 1 .. n : Nth(S, i) = Nth(R, i)
  <2>1. Len(u) \in Nat
    BY <1>1
  <2> QED
    BY <2>1, <1>3, <1>4, <1>5, NthOfMore
<1>7. Enumerates(R) /\ Enumerates(S)
  <2>1. Len(u) \in Nat
    BY <1>1
  <2> QED
    BY <2>1, <1>2, <1>3, <1>1, NthEnumerates
<1>8. /\ n \in Nat /\ Cardinality(S) \in Nat
      /\ \A i \in 1 .. n : Nth(R, i) \in R
      /\ \A i, j \in 1 .. n : i < j => Nth(R, i) < Nth(R, j)
  BY <1>7 DEF Enumerates
<1>9. /\ k \in Nat /\ (k = 0 \/ k < n)
      /\ p \in Seq(Seq(Byte)) /\ Len(p) = k
      /\ \A i \in 1 .. k : p[i] = SubSeq(t, Nth(R, i), Nth(R, i + 1) - 1)
      /\ r = SubSeq(t, RestFrom(t, k), Len(t))
  BY DEF CutBehind, R
<1>10. RestFrom(t, k) \in 1 .. Len(t) + 1
  BY <1>9, RestFromBounds DEF R
<1> DEFINE from == RestFrom(t, k)
<1>11. RestFrom(u, k) = from
  <2>1. k # 0 => k + 1 \in 1 .. n
    BY <1>8, <1>9
  <2>2. k # 0 => Nth(S, k + 1) = Nth(R, k + 1)
    BY <1>6, <2>1
  <2> QED
    BY <2>2 DEF RestFrom, R, S
<1> HIDE DEF n, from
<1>12. ASSUME NEW i \in 1 .. k PROVE p[i] = SubSeq(u, Nth(S, i), Nth(S, i + 1) - 1)
  <2>1. i \in 1 .. n /\ i + 1 \in 1 .. n /\ i < i + 1
    BY <1>8, <1>9
  <2>2. PICK a \in R, b \in R : a = Nth(R, i) /\ b = Nth(R, i + 1)
    BY <2>1, <1>8 DEF n
  <2>3. Nth(S, i) = a /\ Nth(S, i + 1) = b
    BY <2>1, <2>2, <1>6
  <2>4. a < b
    BY <2>1, <2>2, <1>8
  <2>5. a \in 1 .. Len(t) /\ b - 1 \in 1 .. Len(t)
    BY <2>4, <1>1, <1>2
  <2>6. SubSeq(t \o d, a, b - 1) = SubSeq(t, a, b - 1)
    <3>1. PICK c \in 1 .. Len(t) : c = b - 1
      BY <2>5
    <3>2. SubSeq(t \o d, a, c) = SubSeq(t, a, c)
      BY <2>5, SubSeqOfConcat1
    <3> QED
      BY <3>1, <3>2
  <2>7. p[i] = SubSeq(t, a, b - 1)
    BY <1>9, <2>2
  <2> QED
    BY <2>3, <2>6, <2>7 DEF u
<1>13. r \o d = SubSeq(u, from, Len(u))
  <2>1. SubSeq(u, from, Len(t)) = r
    <3>1. CASE from = Len(t) + 1
      <4>1. SubSeq(u, from, Len(t)) = <<>> /\ SubSeq(t, from, Len(t)) = <<>>
        BY <3>1, <1>1, SubSeqEmpty
      <4> QED
        BY <4>1, <1>9 DEF from
    <3>2. CASE from # Len(t) + 1
      <4>1. from \in 1 .. Len(t) /\ Len(t) \in 1 .. Len(t)
        BY <3>2, <1>1, <1>10 DEF from
      <4>2. PICK a \in 1 .. Len(t), b \in 1 .. Len(t) : a = from /\ b = Len(t)
        BY <4>1
      <4>3. SubSeq(t \o d, a, b) = SubSeq(t, a, b)
        BY SubSeqOfConcat1
      <4> QED
        BY <4>2, <4>3, <1>9 DEF u, from
    <3> QED
      BY <3>1, <3>2
  <2>2. SubSeq(u, Len(t) + 1, Len(u)) = d
    BY BehindConcat DEF u
  <2>3. /\ from \in 1 .. Len(u) + 1 /\ Len(t) \in from - 1 .. Len(u) /\ Len(u) \in Len(t) .. Len(u)
    BY <1>1, <1>10 DEF from
  <2>4. SubSeq(u, from, Len(t)) \o SubSeq(u, Len(t) + 1, Len(u)) = SubSeq(u, from, Len(u))
    BY <2>3, <1>1, ConcatAdjacentSubSeq
  <2> QED
    BY <2>1, <2>2, <2>4
<1>14. k = 0 \/ k < Cardinality(S)
  BY <1>6, <1>8, <1>9 DEF n
<1> QED
  BY <1>9, <1>11, <1>12, <1>13, <1>14 DEF CutBehind, S, u, from

(***************************************************************************)
(* What was read.                                                          *)
(***************************************************************************)

Reads == [size : Nat, word : Seq(Byte)]

\* Where what was read each time begins.
PlaceOf(ws) ==
  LET Place[i \in 1 .. Len(ws) + 1] == IF i = 1 THEN 1 ELSE Place[i - 1] + ws[i - 1].size
  IN  Place

LEMMA PlaceRecursion ==
  ASSUME NEW ws \in Seq(Reads)
  PROVE  /\ PlaceOf(ws) \in [1 .. Len(ws) + 1 -> Nat \ {0}]
         /\ PlaceOf(ws)[1] = 1
         /\ \A i \in 1 .. Len(ws) : PlaceOf(ws)[i + 1] = PlaceOf(ws)[i] + ws[i].size
<1> DEFINE N == Len(ws)
           Step == [i \in 1 .. N |-> [x \in Nat \ {0} |-> x + ws[i].size]]
           Place(g) == [i \in 1 .. Len(ws) + 1 |-> IF i = 1 THEN 1 ELSE g[i - 1] + ws[i - 1].size]
<1>0. N \in Nat /\ \A i \in 1 .. N : ws[i].size \in Nat
  <2>1. ASSUME NEW i \in 1 .. N PROVE ws[i].size \in Nat
    <3>1. ws[i] \in Reads
      BY ElementOfSeq
    <3> QED
      BY <3>1 DEF Reads
  <2> QED
    BY <2>1
<1>1. TellsForward(Step, N, Nat \ {0}, 1)
  <2>1. \A i \in 1 .. N : \A x \in Nat \ {0} : Step[i][x] \in Nat \ {0}
    BY <1>0
  <2> QED
    BY <1>0, <2>1 DEF TellsForward
<1>2. PICK f : ToldForward(f, Step, N, Nat \ {0}, 1)
  BY <1>1, ForwardRecursion
<1>3. /\ f \in [0 .. N -> Nat \ {0}] /\ f[0] = 1
      /\ \A i \in 1 .. N : f[i] = f[i - 1] + ws[i].size
  <2>1. /\ f \in [0 .. N -> Nat \ {0}] /\ f[0] = 1
        /\ \A i \in 1 .. N : f[i] = Step[i][f[i - 1]]
    BY <1>2 DEF ToldForward
  <2>2. ASSUME NEW i \in 1 .. N PROVE f[i] = f[i - 1] + ws[i].size
    <3>1. f[i - 1] \in Nat \ {0}
      BY <2>1, <1>0
    <3> QED
      BY <2>1, <3>1
  <2> QED
    BY <2>1, <2>2
<1> DEFINE g == [i \in 1 .. Len(ws) + 1 |-> f[i - 1]]
<1>4. g = Place(g)
  <2>1. ASSUME NEW i \in 1 .. Len(ws) + 1 PROVE g[i] = Place(g)[i]
    <3>1. CASE i = 1
      BY <3>1, <1>3
    <3>2. CASE i # 1
      <4>1. i - 1 \in 1 .. N /\ i - 1 \in 1 .. Len(ws) + 1
        BY <3>2, <1>0
      <4>2. g[i] = f[i - 1] /\ g[i - 1] = f[(i - 1) - 1] /\ Place(g)[i] = g[i - 1] + ws[i - 1].size
        BY <3>2, <4>1
      <4> QED
        BY <4>1, <4>2, <1>3
    <3> QED
      BY <3>1, <3>2
  <2> QED
    BY <2>1
<1> HIDE DEF g
<1>5. PlaceOf(ws) = Place(PlaceOf(ws))
  BY <1>4, Zenon DEF PlaceOf
<1> DEFINE K == PlaceOf(ws)
<1> HIDE DEF K
<1>6. K = Place(K)
  BY <1>5 DEF K
<1>7. K[1] = 1
  <2>1. 1 \in 1 .. Len(ws) + 1
    BY <1>0
  <2>2. Place(K)[1] = 1
    BY <2>1
  <2> HIDE DEF Place
  <2> QED
    BY <2>2, <1>6
<1>8. ASSUME NEW i \in 1 .. Len(ws) PROVE K[i + 1] = K[i] + ws[i].size
  <2>1. i + 1 \in 1 .. Len(ws) + 1 /\ i + 1 # 1 /\ (i + 1) - 1 = i
    BY <1>0
  <2>2. Place(K)[i + 1] = K[i] + ws[i].size
    BY <2>1
  <2> HIDE DEF Place
  <2> QED
    BY <2>2, <1>6
<1> DEFINE S == {i \in 1 .. Len(ws) + 1 : K[i] \in Nat \ {0}}
<1>9. 1 .. Len(ws) + 1 \subseteq S
  <2>1. 1 \in S
    BY <1>0, <1>7
  <2>2. ASSUME NEW i \in 1 .. Len(ws), i \in S PROVE i + 1 \in S
    BY <1>0, <1>8, <2>2
  <2> HIDE DEF S
  <2> QED
    BY <1>0, <2>1, <2>2, PlacesForward
<1>10. K \in [1 .. Len(ws) + 1 -> Nat \ {0}]
  <2>1. K = [i \in 1 .. Len(ws) + 1 |-> K[i]]
    <3>1. DOMAIN K = 1 .. Len(ws) + 1
      BY <1>6
    <3>2. Place(K) = [i \in 1 .. Len(ws) + 1 |-> Place(K)[i]]
      OBVIOUS
    <3> HIDE DEF Place
    <3> QED
      BY <1>6, <3>2
  <2> QED
    BY <2>1, <1>9
<1> QED
  BY <1>7, <1>8, <1>10 DEF K

LEMMA PlaceOfMore ==
  ASSUME NEW ws \in Seq(Reads), NEW e \in Reads
  PROVE  LET more == Append(ws, e) IN
         /\ more \in Seq(Reads) /\ Len(more) = Len(ws) + 1
         /\ \A i \in 1 .. Len(ws) : more[i] = ws[i]
         /\ more[Len(ws) + 1] = e
         /\ \A i \in 1 .. Len(ws) + 1 : PlaceOf(more)[i] = PlaceOf(ws)[i]
         /\ PlaceOf(more)[Len(more) + 1] = PlaceOf(ws)[Len(ws) + 1] + e.size
<1> DEFINE more == Append(ws, e)
           K == PlaceOf(ws)
           L == PlaceOf(more)
           S == {i \in 1 .. Len(ws) + 1 : L[i] = K[i]}
<1>1. /\ more \in Seq(Reads) /\ Len(more) = Len(ws) + 1 /\ Len(ws) \in Nat
      /\ \A i \in 1 .. Len(ws) : more[i] = ws[i]
      /\ more[Len(ws) + 1] = e
  BY AppendProperties
<1> HIDE DEF more
<1>2. K[1] = 1 /\ \A i \in 1 .. Len(ws) : K[i + 1] = K[i] + ws[i].size
  BY PlaceRecursion
<1>3. L[1] = 1 /\ \A i \in 1 .. Len(more) : L[i + 1] = L[i] + more[i].size
  BY <1>1, PlaceRecursion
<1> HIDE DEF K, L
<1>4. 1 .. Len(ws) + 1 \subseteq S
  <2>1. 1 \in S
    BY <1>1, <1>2, <1>3
  <2>2. ASSUME NEW i \in 1 .. Len(ws), i \in S PROVE i + 1 \in S
    <3>1. i \in 1 .. Len(more) /\ i + 1 \in 1 .. Len(ws) + 1
      BY <1>1
    <3>2. L[i + 1] = L[i] + more[i].size /\ K[i + 1] = K[i] + ws[i].size /\ L[i] = K[i] /\ more[i] = ws[i]
      BY <1>1, <1>2, <1>3, <2>2, <3>1
    <3>3. L[i + 1] = K[i + 1]
      BY <3>2
    <3> QED
      BY <3>1, <3>3
  <2> HIDE DEF S
  <2> QED
    BY <1>1, <2>1, <2>2, PlacesForward
<1>5. L[Len(more) + 1] = K[Len(ws) + 1] + e.size
  <2>1. Len(more) \in 1 .. Len(more) /\ Len(ws) + 1 \in 1 .. Len(ws) + 1
    BY <1>1
  <2>2. L[Len(more) + 1] = L[Len(ws) + 1] + e.size
    BY <2>1, <1>1, <1>3
  <2>3. L[Len(ws) + 1] = K[Len(ws) + 1]
    BY <2>1, <1>4
  <2> QED
    BY <2>2, <2>3
<1> QED
  BY <1>1, <1>4, <1>5 DEF K, L, more

\* What FromStream adds to an empty document: the first word, in the space of what
\* was read.
LEMMA FromStreamFits ==
  ASSUME NEW chunk \in Seq(Byte)
  PROVE  LET data == FromStream(<<>>, chunk) IN
         /\ data \in Seq(Byte) /\ Len(data) = Len(chunk)
         /\ Word(chunk) \in Seq(Byte) /\ Len(Word(chunk)) <= Len(chunk)
         /\ SubSeq(data, 1, Len(Word(chunk))) = Word(chunk)
<1> DEFINE w == Word(chunk)
           z == [i \in 1 .. Len(chunk) - Len(w) |-> NUL]
           x == w \o z
           data == FromStream(<<>>, chunk)
<1>1. w \in Seq(Byte) /\ Len(w) \in Nat /\ Len(w) <= Len(chunk) /\ Len(chunk) \in Nat
  BY WordAndRest
<1>2. data = <<>> \o x
  BY DEF FromStream, Add
<1> HIDE DEF w, data
<1>3. z \in Seq(Byte) /\ Len(z) = Len(chunk) - Len(w)
  BY <1>1 DEF NUL, Byte
<1> HIDE DEF z
<1>4. x \in Seq(Byte) /\ Len(x) = Len(w) + Len(z)
  BY <1>1, <1>3, ConcatProperties
<1>5. SubSeq(x, 1, Len(w)) = w
  <2>1. CASE Len(w) = 0
    <3>1. w = <<>>
      BY <2>1, <1>1, EmptySeq
    <3>2. SubSeq(x, 1, Len(w)) = <<>>
      BY <2>1, SubSeqEmpty
    <3> QED
      BY <3>1, <3>2
  <2>2. CASE Len(w) # 0
    <3>1. PICK a \in 1 .. Len(w), b \in 1 .. Len(w) : a = 1 /\ b = Len(w)
      BY <2>2, <1>1
    <3>2. SubSeq(w \o z, a, b) = SubSeq(w, a, b)
      BY <1>1, <1>3, SubSeqOfConcat1
    <3>3. SubSeq(w, 1, Len(w)) = w
      BY <1>1, SubSeqFull
    <3> QED
      BY <3>1, <3>2, <3>3
  <2> QED
    BY <2>1, <2>2
<1>6. data = x
  <2> HIDE DEF x
  <2> QED
    BY <1>2, <1>4, ConcatEmptySeq
<1> HIDE DEF x
<1>7. Len(data) = Len(chunk)
  BY <1>1, <1>3, <1>4, <1>6
<1> QED
  BY <1>1, <1>4, <1>5, <1>6, <1>7 DEF w, data

(***************************************************************************)
(* The stream of packages.                                                 *)
(***************************************************************************)

\* The first word of every read stands in what was added, where its read begins.
WordsFit(ws, t) ==
  /\ ws \in Seq(Reads)
  /\ PlaceOf(ws)[Len(ws) + 1] = Len(t) + 1
  /\ \A i \in 1 .. Len(ws) :
       /\ ws[i].word \in Seq(Byte)
       /\ PlaceOf(ws)[i] + Len(ws[i].word) <= Len(t) + 1
       /\ SubSeq(t, PlaceOf(ws)[i], PlaceOf(ws)[i] + Len(ws[i].word) - 1) = ws[i].word

LEMMA WordsGoOn ==
  ASSUME NEW ws, NEW t \in Seq(Byte), NEW chunk \in Seq(Byte), WordsFit(ws, t)
  PROVE  WordsFit(Append(ws, [size |-> Len(chunk), word |-> Word(chunk)]), t \o FromStream(<<>>, chunk))
<1> DEFINE w == Word(chunk)
           e == [size |-> Len(chunk), word |-> w]
           data == FromStream(<<>>, chunk)
           u == t \o data
           more == Append(ws, e)
           K == PlaceOf(ws)
           L == PlaceOf(more)
           m == Len(ws)
<1>1. /\ data \in Seq(Byte) /\ Len(data) = Len(chunk)
      /\ w \in Seq(Byte) /\ Len(w) <= Len(chunk)
      /\ SubSeq(data, 1, Len(w)) = w
  BY FromStreamFits
<1>2. Len(chunk) \in Nat /\ Len(w) \in Nat /\ Len(t) \in Nat
  BY <1>1
<1>3. e \in Reads /\ e.size = Len(chunk) /\ e.word = w
  BY <1>1, <1>2 DEF Reads
<1>4. /\ ws \in Seq(Reads) /\ m \in Nat
      /\ K[m + 1] = Len(t) + 1
      /\ \A i \in 1 .. m : /\ ws[i].word \in Seq(Byte)
                           /\ K[i] + Len(ws[i].word) <= Len(t) + 1
                           /\ SubSeq(t, K[i], K[i] + Len(ws[i].word) - 1) = ws[i].word
  BY DEF WordsFit
<1> HIDE DEF data, e, w
<1>5. u \in Seq(Byte) /\ Len(u) = Len(t) + Len(chunk)
  <2>1. u \in Seq(Byte) /\ Len(u) = Len(t) + Len(data)
    BY <1>1, ConcatProperties
  <2> HIDE DEF u
  <2> QED
    BY <2>1, <1>1
<1>6. \A i \in 1 .. m + 1 : K[i] \in Nat \ {0}
  BY <1>4, PlaceRecursion
<1>7. /\ more \in Seq(Reads) /\ Len(more) = m + 1
      /\ \A i \in 1 .. m : more[i] = ws[i]
      /\ more[m + 1] = e
      /\ \A i \in 1 .. m + 1 : L[i] = K[i]
      /\ L[Len(more) + 1] = K[m + 1] + e.size
  BY <1>3, <1>4, PlaceOfMore
<1> HIDE DEF u, more, K, L, m
<1>8. L[Len(more) + 1] = Len(u) + 1
  BY <1>2, <1>3, <1>4, <1>5, <1>7
<1>9. ASSUME NEW i \in 1 .. m
      PROVE  /\ more[i].word \in Seq(Byte)
             /\ L[i] + Len(more[i].word) <= Len(u) + 1
             /\ SubSeq(u, L[i], L[i] + Len(more[i].word) - 1) = more[i].word
  <2> DEFINE v == ws[i].word
             k == K[i]
             n == Len(v)
  <2>1. i \in 1 .. m + 1 /\ more[i] = ws[i] /\ L[i] = k
    BY <1>4, <1>7
  <2>2. k \in Nat \ {0} /\ v \in Seq(Byte) /\ k + n <= Len(t) + 1 /\ SubSeq(t, k, k + n - 1) = v
    BY <1>4, <1>6, <2>1
  <2>3. n \in Nat
    BY <2>2
  <2> HIDE DEF v, k, n
  <2>4. k + n <= Len(u) + 1
    BY <2>2, <2>3, <1>2, <1>5
  <2>5. SubSeq(u, k, k + n - 1) = v
    <3>1. CASE n = 0
      <4>1. k + n - 1 < k /\ k \in Int /\ k + n - 1 \in Int
        BY <2>2, <3>1
      <4>2. SubSeq(u, k, k + n - 1) = <<>> /\ SubSeq(t, k, k + n - 1) = <<>>
        BY <4>1, SubSeqEmpty
      <4> QED
        BY <4>2, <2>2
    <3>2. CASE n # 0
      <4>1. PICK a \in 1 .. Len(t), b \in 1 .. Len(t) : a = k /\ b = k + n - 1
        BY <3>2, <2>2, <2>3, <1>2
      <4>2. SubSeq(t \o data, a, b) = SubSeq(t, a, b)
        BY <1>1, SubSeqOfConcat1
      <4> QED
        BY <4>1, <4>2, <2>2 DEF u
    <3> QED
      BY <3>1, <3>2
  <2> QED
    BY <2>1, <2>2, <2>4, <2>5 DEF v, n
<1>10. /\ w \in Seq(Byte)
       /\ L[m + 1] + Len(w) <= Len(u) + 1
       /\ SubSeq(u, L[m + 1], L[m + 1] + Len(w) - 1) = w
  <2>1. m + 1 \in 1 .. m + 1 /\ L[m + 1] = Len(t) + 1
    <3>1. m + 1 \in 1 .. m + 1
      BY <1>4
    <3> QED
      BY <3>1, <1>4, <1>7
  <2>2. SubSeq(u, Len(t) + 1, Len(t) + 1 + Len(w) - 1) = w
    <3>1. CASE Len(w) = 0
      <4>1. Len(t) + 1 + Len(w) - 1 < Len(t) + 1
        BY <3>1, <1>2
      <4>2. SubSeq(u, Len(t) + 1, Len(t) + 1 + Len(w) - 1) = <<>>
        BY <4>1, <1>2, SubSeqEmpty
      <4> QED
        BY <4>2, <3>1, <1>1, EmptySeq
    <3>2. CASE Len(w) # 0
      <4>1. PICK a \in Len(t) + 1 .. Len(t) + Len(data), b \in Len(t) + 1 .. Len(t) + Len(data) :
              a = Len(t) + 1 /\ b = Len(t) + 1 + Len(w) - 1
        <5>1. /\ Len(t) + 1 \in Len(t) + 1 .. Len(t) + Len(data)
              /\ Len(t) + 1 + Len(w) - 1 \in Len(t) + 1 .. Len(t) + Len(data)
          <6>1. Len(w) <= Len(data) /\ Len(data) \in Nat
            BY <1>1, <1>2
          <6> QED
            BY <6>1, <3>2, <1>2
        <5> QED
          BY <5>1
      <4>2. SubSeq(t \o data, a, b) = SubSeq(data, a - Len(t), b - Len(t))
        BY <1>1, SubSeqOfConcat2
      <4>3. a - Len(t) = 1 /\ b - Len(t) = Len(w)
        BY <4>1, <1>2
      <4> QED
        BY <4>1, <4>2, <4>3, <1>1 DEF u
    <3> QED
      BY <3>1, <3>2
  <2>3. Len(t) + 1 + Len(w) <= Len(u) + 1
    BY <1>1, <1>2, <1>5
  <2> QED
    BY <2>1, <2>2, <2>3, <1>1
<1>11. ASSUME NEW i \in 1 .. Len(more)
       PROVE  /\ more[i].word \in Seq(Byte)
              /\ L[i] + Len(more[i].word) <= Len(u) + 1
              /\ SubSeq(u, L[i], L[i] + Len(more[i].word) - 1) = more[i].word
  <2>1. i \in 1 .. m \/ i = m + 1
    BY <1>4, <1>7
  <2>2. CASE i = m + 1
    BY <2>2, <1>3, <1>7, <1>10
  <2> QED
    BY <2>1, <2>2, <1>9
<1> QED
  BY <1>7, <1>8, <1>11 DEF WordsFit, L, u, more, e, data, w

\* The document between two reads: it holds what is behind the last cut.
PkgInv ==
  /\ taken \in Seq(Byte) /\ pkg \in Seq(Byte)
  /\ \E k : CutBehind(taken, packages, pkg, k) /\ ~ (k + 2 <= Cardinality(HeadersIn(taken)))
  /\ WordsFit(words, taken)

LEMMA PkgInitHolds == PkgInit => PkgInv
<1> SUFFICES ASSUME PkgInit PROVE PkgInv
  OBVIOUS
<1>1. PICK e \in Seq(Byte) : e = <<>>
  BY EmptySeq
<1>2. Len(e) = 0
  BY <1>1
<1>3. pkg = e /\ packages = <<>> /\ taken = e /\ words = <<>>
  BY <1>1 DEF PkgInit
<1>4. HeadersIn(e) = {} /\ Cardinality(HeadersIn(e)) = 0
  <2>1. HeadersIn(e) = {}
    BY <1>2 DEF HeadersIn
  <2> QED
    BY <2>1, FS_EmptySet
<1>5. CutBehind(e, <<>>, e, 0)
  <2>1. <<>> \in Seq(Seq(Byte)) /\ Len(<<>>) = 0
    BY EmptySeq
  <2>2. SubSeq(e, RestFrom(e, 0), Len(e)) = e
    BY SubSeqFull DEF RestFrom
  <2> QED
    BY <2>1, <2>2 DEF CutBehind
<1>6. WordsFit(<<>>, e)
  <2>1. PICK ws \in Seq(Reads) : ws = <<>>
    BY EmptySeq
  <2>2. Len(ws) = 0
    BY <2>1
  <2>3. PlaceOf(ws)[1] = 1
    BY PlaceRecursion
  <2>4. WordsFit(ws, e)
    BY <2>2, <2>3, <1>2 DEF WordsFit
  <2> QED
    BY <2>1, <2>4
<1>7. ~ (0 + 2 <= Cardinality(HeadersIn(e)))
  BY <1>4
<1> QED
  BY <1>3, <1>5, <1>6, <1>7 DEF PkgInv

LEMMA PkgStep == PkgInv /\ [PkgNext]_pkgVars => PkgInv'
<1> SUFFICES ASSUME PkgInv, [PkgNext]_pkgVars PROVE PkgInv'
  OBVIOUS
<1>1. ASSUME NEW n \in 1 .. BufferSize, NEW chunk \in [1 .. n -> Bytes], ReceiveChunk(chunk)
      PROVE  PkgInv'
  <2>1. chunk \in Seq(Byte)
    <3>1. n \in Nat /\ Bytes \subseteq Byte
      BY PkgAssumption DEF Byte
    <3> QED
      BY <3>1
  <2>2. PICK data \in Seq(Byte) : data = FromStream(<<>>, chunk)
    BY <2>1, FromStreamFits
  <2>0. PICK t \in Seq(Byte), s \in Seq(Byte) : t = taken /\ s = pkg
    BY DEF PkgInv, CutBehind
  <2>3. PICK p, k, ws :
          /\ t = taken /\ s = pkg /\ p = packages /\ ws = words
          /\ CutBehind(t, p, s, k) /\ WordsFit(ws, t)
    BY <2>0 DEF PkgInv
  <2> DEFINE u == t \o data
             c == s \o data
             all == TakeAll(c)
  <2>4. u \in Seq(Byte) /\ c \in Seq(Byte)
    BY ConcatProperties
  <2>5. Add(s, data, Len(data)) = c
    <3>1. Len(data) >= Len(data)
      BY LenProperties
    <3> QED
      BY <3>1 DEF Add
  <2>6. /\ taken' = u /\ pkg' = all.rest /\ packages' = p \o all.out
        /\ words' = Append(ws, [size |-> Len(chunk), word |-> Word(chunk)])
    BY <1>1, <2>2, <2>3, <2>5 DEF ReceiveChunk, DumpReceive
  <2>7. CutBehind(u, p, c, k)
    BY <2>3, MoreBehind
  <2>8. WordsFit(Append(ws, [size |-> Len(chunk), word |-> Word(chunk)]), u)
    BY <2>1, <2>2, <2>3, WordsGoOn
  <2> HIDE DEF u, c
  <2>9. PICK m : /\ CutBehind(u, p \o all.out, all.rest, m)
                 /\ ~ (m + 2 <= Cardinality(HeadersIn(u)))
    BY <2>4, <2>7, CutToTheEnd
  <2>10. all.rest \in Seq(Byte)
    BY <2>4, TakeAllTakesAll DEF Cuts
  <2> HIDE DEF all
  <2>11. CutBehind(taken', packages', pkg', m) /\ ~ (m + 2 <= Cardinality(HeadersIn(taken')))
    BY <2>6, <2>9
  <2>12. taken' \in Seq(Byte) /\ pkg' \in Seq(Byte) /\ WordsFit(words', taken')
    BY <2>4, <2>6, <2>8, <2>10
  <2> QED
    BY <2>11, <2>12 DEF PkgInv
<1>2. ASSUME UNCHANGED pkgVars PROVE PkgInv'
  BY <1>2 DEF PkgInv, pkgVars
<1> QED
  BY <1>1, <1>2 DEF PkgNext

LEMMA PkgInvariant == PkgSpec => []PkgInv
BY PkgInitHolds, PkgStep, PTL DEF PkgSpec

LEMMA PkgInvCuts == PkgInv => StreamIsCut
<1> SUFFICES ASSUME PkgInv PROVE StreamIsCut
  OBVIOUS
<1> DEFINE H == HeadersIn(taken)
           n == Cardinality(H)
<1>1. PICK k : CutBehind(taken, packages, pkg, k) /\ ~ (k + 2 <= n)
  BY DEF PkgInv
<1>2. taken \in Seq(Byte) /\ WordsFit(words, taken)
  BY DEF PkgInv
<1>3. n \in Nat
  <2>1. H \subseteq 1 .. Len(taken) /\ Len(taken) \in Nat
    BY <1>2, HeadersAre
  <2> QED
    BY <2>1, NthEnumerates DEF Enumerates
<1>4. /\ k \in Nat /\ (k = 0 \/ k < n)
      /\ packages \in Seq(Seq(Byte)) /\ Len(packages) = k
      /\ \A i \in 1 .. k : packages[i] = SubSeq(taken, Nth(H, i), Nth(H, i + 1) - 1)
      /\ pkg = SubSeq(taken, RestFrom(taken, k), Len(taken))
  BY <1>1 DEF CutBehind
<1>5. RestFrom(taken, k) = IF k = 0 THEN 1 ELSE Nth(H, k + 1) - 1
  BY DEF RestFrom
<1> HIDE DEF n, H
<1>6. k = IF n = 0 THEN 0 ELSE n - 1
  <2>1. k \in Nat /\ (k = 0 \/ k < n)
    BY <1>4
  <2> QED
    BY <2>1, <1>1, <1>3
<1>7. PackagesInOrder
  <2>1. packages = [i \in 1 .. k |-> SubSeq(taken, Nth(H, i), Nth(H, i + 1) - 1)]
    <3>1. packages = [i \in 1 .. k |-> packages[i]]
      BY <1>4, LenProperties
    <3> QED
      BY <3>1, <1>4
  <2> QED
    BY <2>1, <1>6 DEF PackagesInOrder, n, H
<1>8. RestIsKept
  <2>1. CASE n <= 1
    <3>1. k = 0
      BY <2>1, <1>3, <1>6
    <3>2. pkg = SubSeq(taken, 1, Len(taken))
      BY <3>1, <1>4, <1>5
    <3> QED
      BY <3>2, <2>1 DEF RestIsKept, n, H
  <2>2. CASE ~ (n <= 1)
    <3>1. k # 0 /\ k + 1 = n
      BY <2>2, <1>3, <1>6
    <3>2. pkg = SubSeq(taken, Nth(H, n) - 1, Len(taken))
      BY <3>1, <1>4, <1>5
    <3> QED
      BY <3>2, <2>2 DEF RestIsKept, n, H
  <2> QED
    BY <2>1, <2>2
<1>9. WordsArrive
  <2>1. WordsArrive <=> /\ PlaceOf(words)[Len(words) + 1] = Len(taken) + 1
                        /\ \A i \in 1 .. Len(words) :
                             SubSeq(taken, PlaceOf(words)[i], PlaceOf(words)[i] + Len(words[i].word) - 1)
                               = words[i].word
    BY Zenon DEF WordsArrive, PlaceOf
  <2> QED
    BY <2>1, <1>2 DEF WordsFit
<1> QED
  BY <1>7, <1>8, <1>9 DEF StreamIsCut

LEMMA PkgInvStuffs == PkgInv => StuffingHidesHeader
<1> SUFFICES ASSUME PkgInv,
                    NEW s \in {pkg} \cup {packages[i] : i \in DOMAIN packages}
             PROVE  /\ HeadersIn(PackageToByteArray(s)) = {}
                    /\ Find(s, <<AA>>, 1) = 0 => PackageFromByteArray(s, PackageToByteArray(s)) = s
  BY DEF StuffingHidesHeader
<1>1. s \in Seq(Byte)
  <2>1. pkg \in Seq(Byte) /\ packages \in Seq(Seq(Byte))
    BY DEF PkgInv, CutBehind
  <2>2. DOMAIN packages = 1 .. Len(packages)
    BY <2>1, LenProperties
  <2>3. \A i \in 1 .. Len(packages) : packages[i] \in Seq(Byte)
    BY <2>1, ElementOfSeq
  <2> QED
    BY <2>1, <2>2, <2>3
<1>2. PICK t \in Seq(Byte) : t = s
  BY <1>1
<1>3. HeadersIn(PackageToByteArray(t)) = {}
  BY NoHeaderInStuffed
<1>4. ASSUME Find(t, <<AA>>, 1) = 0 PROVE PackageFromByteArray(t, PackageToByteArray(t)) = t
  <2>1. UnstuffAll(StuffAll(t)) = t
    BY <1>4, UnstuffRestores
  <2>2. PackageFromByteArray(t, PackageToByteArray(t)) = <<>> \o UnstuffAll(StuffAll(t))
    BY DEF PackageFromByteArray, PackageToByteArray, FromByteArray, ClearContent
  <2> QED
    BY <2>1, <2>2, ConcatEmptySeq
<1> QED
  BY <1>2, <1>3, <1>4

\* Whatever was read and however it was divided among the reads, for any bytes and
\* any buffer: the packages taken out are what lies between the headers of all that
\* was received, in order and whole, the rest is kept, and the first word of every
\* read stands where its read begins (GetPackage, DumpReceive, FromStream).
THEOREM CutSafety == PkgSpec => []StreamIsCut
BY PkgInvariant, PkgInvCuts, PTL

\* Stuffed, no content received or taken out holds a header, and content without the
\* first byte of one comes back as it was (Stuff, Unstuff, StrReplace).
THEOREM StuffingSafety == PkgSpec => []StuffingHidesHeader
BY PkgInvariant, PkgInvStuffs, PTL

(***************************************************************************)
(* Hexadecimal digits.                                                     *)
(***************************************************************************)

LEMMA HexValuesAre ==
  /\ HexValues[1] = 48 /\ HexValues[2] = 49 /\ HexValues[3] = 50 /\ HexValues[4] = 51
  /\ HexValues[5] = 52 /\ HexValues[6] = 53 /\ HexValues[7] = 54 /\ HexValues[8] = 55
  /\ HexValues[9] = 56 /\ HexValues[10] = 57 /\ HexValues[11] = 97 /\ HexValues[12] = 115
  /\ HexValues[13] = 99 /\ HexValues[14] = 100 /\ HexValues[15] = 101 /\ HexValues[16] = 102
BY DEF HexValues

\* The sixteen characters are different.
LEMMA DigitOfValue ==
  ASSUME NEW d \in 1 .. 16
  PROVE  HexValues[d] \in DOMAIN DigitValue /\ DigitValue[HexValues[d]] = d - 1
<1>1. ASSUME NEW e \in 1 .. 16, HexValues[e] = HexValues[d] PROVE e = d
  BY <1>1, HexValuesAre
<1>2. HexValues[d] \in {HexValues[e] : e \in 1 .. 16}
  OBVIOUS
<1>3. (CHOOSE e \in 1 .. 16 : HexValues[e] = HexValues[d]) = d
  BY <1>1
<1> QED
  BY <1>2, <1>3 DEF DigitValue

LEMMA OrOfOne == ASSUME NEW d \in 0 .. 15 PROVE Or({d}) = d
<1> DEFINE Bits(v) == \A b \in {1, 2, 4, 8} : (v \div b) % 2 = 1 <=> (d \div b) % 2 = 1
<1>1. ASSUME NEW v \in 0 .. 15, Bits(v) PROVE v = d
  <2> DEFINE bit(w, b) == (w \div b) % 2
  <2>1. ASSUME NEW w \in 0 .. 15
        PROVE  /\ w = 8 * bit(w, 8) + 4 * bit(w, 4) + 2 * bit(w, 2) + bit(w, 1)
               /\ \A b \in {1, 2, 4, 8} : bit(w, b) = 0 \/ bit(w, b) = 1
    OBVIOUS
  <2>2. bit(v, 8) = bit(d, 8) /\ bit(v, 4) = bit(d, 4) /\ bit(v, 2) = bit(d, 2) /\ bit(v, 1) = bit(d, 1)
    BY <1>1, <2>1
  <2> HIDE DEF bit
  <2>3. /\ v = 8 * bit(v, 8) + 4 * bit(v, 4) + 2 * bit(v, 2) + bit(v, 1)
        /\ d = 8 * bit(d, 8) + 4 * bit(d, 4) + 2 * bit(d, 2) + bit(d, 1)
    BY <2>1
  <2> QED
    BY <2>2, <2>3
<1>2. Or({d}) = CHOOSE v \in 0 .. 15 : Bits(v)
  <2>1. ASSUME NEW v, NEW b PROVE ((v \div b) % 2 = 1 <=> \E e \in {d} : (e \div b) % 2 = 1)
                                    <=> ((v \div b) % 2 = 1 <=> (d \div b) % 2 = 1)
    BY Zenon
  <2> QED
    BY <2>1, Zenon DEF Or
<1>3. Bits(d)
  OBVIOUS
<1> HIDE DEF Bits
<1> QED
  BY <1>1, <1>2, <1>3

HexEnds(str) == {i \in DOMAIN str : i % 2 = 0 /\ str[i] \in DOMAIN DigitValue}

HexEnd(str, n) ==
  IF n = 0 THEN 0
  ELSE CHOOSE k \in HexEnds(str) : k >= 2 * n /\ Cardinality({j \in HexEnds(str) : j <= k}) = n

HexHighs(str, n) ==
  {DigitValue[str[k]] : k \in {k \in HexEnd(str, n - 1) + 1 .. HexEnd(str, n) :
                                 k % 2 = 1 /\ str[k] \in DOMAIN DigitValue}}

HexByte(str, n) == 16 * Or(HexHighs(str, n)) + DigitValue[str[HexEnd(str, n)]]

LEMMA StrFromHexIs ==
  ASSUME NEW str
  PROVE  StrFromHex(str) = IF Len(str) % 2 = 1 THEN <<>>
                           ELSE [n \in 1 .. Cardinality(HexEnds(str)) |-> HexByte(str, n)] \o <<>>
BY Zenon DEF StrFromHex, String, HexByte, HexHighs, HexEnd, HexEnds

\* The halves of a byte.
LEMMA Halves ==
  ASSUME NEW b \in 0 .. 255
  PROVE  /\ b \div 16 \in 0 .. 15 /\ (b % 16) \in 0 .. 15 /\ 16 * (b \div 16) + (b % 16) = b
         /\ 1 + b \div 16 \in 1 .. 16 /\ 1 + (b % 16) \in 1 .. 16
         /\ (1 + b \div 16) - 1 = b \div 16 /\ (1 + (b % 16)) - 1 = (b % 16)
<1>1. b \div 16 \in 0 .. 15
  OBVIOUS
<1>2. (b % 16) \in 0 .. 15
  OBVIOUS
<1>3. 16 * (b \div 16) + (b % 16) = b
  OBVIOUS
<1>4. \A q \in 0 .. 15 : 1 + q \in 1 .. 16 /\ (1 + q) - 1 = q
  OBVIOUS
<1> QED
  BY <1>1, <1>2, <1>3, <1>4, Zenon

\* Two digits for a byte, the upper half first.
LEMMA HexPlaces ==
  ASSUME NEW s \in Seq(Byte)
  PROVE  /\ StrToHex(s) \in Seq(Nat) /\ Len(StrToHex(s)) = 2 * Len(s)
         /\ \A m \in 1 .. Len(s) : /\ StrToHex(s)[2 * m - 1] = HexValues[1 + s[m] \div 16]
                                   /\ StrToHex(s)[2 * m] = HexValues[1 + (s[m] % 16)]
         /\ \A i \in 1 .. 2 * Len(s) : StrToHex(s)[i] \in DOMAIN DigitValue
<1> DEFINE L == Len(s)
           d(i) == 1 + (IF i % 2 = 1 THEN s[(i + 1) \div 2] \div 16 ELSE s[(i + 1) \div 2] % 16)
           f == [i \in 1 .. 2 * L |-> HexValues[d(i)]]
<1>1. L \in Nat /\ \A m \in 1 .. L : s[m] \in 0 .. 255
  BY ElementOfSeq DEF Byte
<1>2. ASSUME NEW e \in 1 .. 16 PROVE HexValues[e] \in Nat
  <2>1. HexValues \in Seq(Nat) /\ Len(HexValues) = 16
    BY DEF HexValues
  <2> QED
    BY <2>1, ElementOfSeq
<1>3. \A i \in 1 .. 2 * L : d(i) \in 1 .. 16
  <2>1. ASSUME NEW i \in 1 .. 2 * L PROVE d(i) \in 1 .. 16
    <3>1. (i + 1) \div 2 \in 1 .. L
      BY <1>1
    <3>2. s[(i + 1) \div 2] \in 0 .. 255
      BY <1>1, <3>1
    <3>3. PICK b \in 0 .. 255 : b = s[(i + 1) \div 2]
      BY <3>2
    <3>4. 1 + b \div 16 \in 1 .. 16 /\ 1 + (b % 16) \in 1 .. 16
      BY Halves
    <3>5. CASE i % 2 = 1
      BY <3>3, <3>4, <3>5, Zenon
    <3>6. CASE i % 2 # 1
      BY <3>3, <3>4, <3>6
    <3> QED
      BY <3>5, <3>6
  <2> QED
    BY <2>1, Zenon
<1>4. StrToHex(s) = f \o <<>>
  BY Zenon DEF StrToHex, String
<1> HIDE DEF L, d
<1>5. f \in Seq(Nat) /\ Len(f) = 2 * L
  <2>1. f \in [1 .. 2 * L -> Nat] /\ 2 * L \in Nat
    <3>1. ASSUME NEW i \in 1 .. 2 * L PROVE f[i] \in Nat
      BY <1>2, <1>3
    <3> QED
      BY <1>1, <3>1
  <2> QED
    BY <2>1
<1>6. \A i \in 1 .. 2 * L : f[i] = HexValues[d(i)]
  OBVIOUS
<1> HIDE DEF f
<1>7. StrToHex(s) = f
  BY <1>4, <1>5, ConcatEmptySeq
<1>8. ASSUME NEW m \in 1 .. L
      PROVE  f[2 * m - 1] = HexValues[1 + s[m] \div 16] /\ f[2 * m] = HexValues[1 + (s[m] % 16)]
  <2>1. 2 * m - 1 \in 1 .. 2 * L /\ 2 * m \in 1 .. 2 * L
    BY <1>1
  <2>2. /\ (2 * m - 1) % 2 = 1 /\ (2 * m) % 2 = 0
        /\ ((2 * m - 1) + 1) \div 2 = m /\ (2 * m + 1) \div 2 = m
    BY <1>1
  <2>3. d(2 * m - 1) = 1 + s[m] \div 16
    BY <2>2, Zenon DEF d
  <2>4. (2 * m) % 2 # 1
    BY <2>2
  <2>5. d(2 * m) = 1 + (s[m] % 16)
    BY <2>2, <2>4 DEF d
  <2> QED
    BY <1>6, <2>1, <2>3, <2>5
<1>9. \A i \in 1 .. 2 * L : f[i] \in DOMAIN DigitValue
  BY <1>3, <1>6, DigitOfValue
<1> QED
  BY <1>5, <1>7, <1>8, <1>9 DEF L

\* The even numbers up to 2 * n.
LEMMA EvenNumbers ==
  ASSUME NEW n \in Nat
  PROVE  Cardinality({j \in 1 .. 2 * n : j % 2 = 0}) = n
<1> DEFINE S == {j \in 1 .. 2 * n : j % 2 = 0}
           f == [m \in 1 .. n |-> 2 * m]
<1>1. f \in [1 .. n -> S]
  <2>1. \A m \in 1 .. n : 2 * m \in 1 .. 2 * n /\ (2 * m) % 2 = 0
    OBVIOUS
  <2> QED
    BY <2>1
<1>2. \A a, b \in 1 .. n : f[a] = f[b] => a = b
  OBVIOUS
<1>3. \A j \in S : \E m \in 1 .. n : f[m] = j
  <2>1. ASSUME NEW j \in S PROVE \E m \in 1 .. n : f[m] = j
    <3>1. j \div 2 \in 1 .. n /\ 2 * (j \div 2) = j
      OBVIOUS
    <3> QED
      BY <3>1
  <2> QED
    BY <2>1
<1> HIDE DEF S, f
<1>4. f \in Bijection(1 .. n, S)
  BY <1>1, <1>2, <1>3 DEF Bijection, Injection, Surjection, IsInjective
<1>5. ExistsBijection(1 .. n, S)
  BY <1>4 DEF ExistsBijection
<1>6. Cardinality(S) = n
  BY <1>5, FS_CountingElements
<1> QED
  BY <1>6 DEF S

LEMMA HexRestores ==
  ASSUME NEW s \in Seq(Byte)
  PROVE  StrFromHex(StrToHex(s)) = s
<1> DEFINE L == Len(s)
           t == StrToHex(s)
           ends == HexEnds(t)
<1>1. /\ t \in Seq(Nat) /\ Len(t) = 2 * L
      /\ \A m \in 1 .. L : t[2 * m - 1] = HexValues[1 + s[m] \div 16] /\ t[2 * m] = HexValues[1 + (s[m] % 16)]
      /\ \A i \in 1 .. 2 * L : t[i] \in DOMAIN DigitValue
  BY HexPlaces
<1> HIDE DEF t
<1>2. L \in Nat /\ \A m \in 1 .. L : s[m] \in 0 .. 255
  BY ElementOfSeq DEF Byte
<1>3. DOMAIN t = 1 .. 2 * L
  BY <1>1, LenProperties
<1> HIDE DEF L
<1>4. ends = {i \in 1 .. 2 * L : i % 2 = 0}
  BY <1>1, <1>3 DEF HexEnds
<1> HIDE DEF ends
<1>5. Cardinality(ends) = L
  BY <1>2, <1>4, EvenNumbers
<1>6. ASSUME NEW n \in 1 .. L PROVE Count(ends, 2 * n) = n
  <2>1. {j \in ends : j <= 2 * n} = {j \in 1 .. 2 * n : j % 2 = 0}
    BY <1>2, <1>4
  <2>2. Cardinality({j \in 1 .. 2 * n : j % 2 = 0}) = n
    BY EvenNumbers
  <2> QED
    BY <2>1, <2>2 DEF Count
<1>7. ASSUME NEW n \in 0 .. L PROVE HexEnd(t, n) = 2 * n
  <2>1. CASE n = 0
    BY <2>1 DEF HexEnd
  <2>2. CASE n # 0
    <3>1. 2 * n \in ends /\ n \in 1 .. L
      BY <1>2, <1>4, <2>2
    <3>2. ASSUME NEW k \in ends, k >= 2 * n, Count(ends, k) = n PROVE k = 2 * n
      <4>1. ends \subseteq 1 .. 2 * L /\ 2 * L \in Nat
        BY <1>2, <1>4
      <4>2. \A x, y \in ends : x < y => Count(ends, x) < Count(ends, y)
        BY <4>1, CountGrows
      <4>3. ~ (2 * n < k)
        BY <3>1, <3>2, <4>2, <1>6
      <4>4. k \in Nat /\ 2 * n \in Nat
        BY <4>1
      <4> QED
        BY <3>2, <4>3, <4>4
    <3>3. (CHOOSE k \in ends : k >= 2 * n /\ Count(ends, k) = n) = 2 * n
      <4>1. 2 * n >= 2 * n /\ Count(ends, 2 * n) = n
        BY <1>6, <3>1
      <4> QED
        BY <3>1, <3>2, <4>1
    <3> QED
      BY <2>2, <3>3, Zenon DEF HexEnd, Count, ends
  <2> QED
    BY <2>1, <2>2
<1>8. ASSUME NEW n \in 1 .. L PROVE HexByte(t, n) = s[n]
  <2>1. HexEnd(t, n) = 2 * n /\ HexEnd(t, n - 1) = 2 * (n - 1)
    BY <1>7, <1>2
  <2>2. s[n] \in 0 .. 255
    BY <1>2
  <2>3. PICK b \in 0 .. 255 : b = s[n]
    BY <2>2
  <2>4. DigitValue[t[2 * n - 1]] = b \div 16 /\ DigitValue[t[2 * n]] = (b % 16)
    <3>1. t[2 * n - 1] = HexValues[1 + b \div 16] /\ t[2 * n] = HexValues[1 + (b % 16)]
      BY <1>1, <2>3
    <3>2. PICK x \in 1 .. 16 : x = 1 + b \div 16
      BY Halves
    <3>3. PICK y \in 1 .. 16 : y = 1 + (b % 16)
      BY Halves
    <3>4. DigitValue[HexValues[x]] = x - 1 /\ DigitValue[HexValues[y]] = y - 1
      BY DigitOfValue
    <3> QED
      BY <3>1, <3>2, <3>3, <3>4, Halves
  <2>5. {k \in HexEnd(t, n - 1) + 1 .. HexEnd(t, n) : k % 2 = 1 /\ t[k] \in DOMAIN DigitValue} = {2 * n - 1}
    <3>1. \A k \in 2 * (n - 1) + 1 .. 2 * n : k % 2 = 1 <=> k = 2 * n - 1
      BY <1>2
    <3>2. 2 * n - 1 \in 2 * (n - 1) + 1 .. 2 * n /\ 2 * n - 1 \in 1 .. 2 * L
      BY <1>2
    <3>3. t[2 * n - 1] \in DOMAIN DigitValue
      BY <3>2, <1>1
    <3> QED
      BY <2>1, <3>1, <3>2, <3>3
  <2>6. HexHighs(t, n) = {b \div 16}
    <3>1. HexHighs(t, n) = {DigitValue[t[k]] : k \in {2 * n - 1}}
      BY <2>5, Zenon DEF HexHighs
    <3> QED
      BY <3>1, <2>4
  <2>7. Or(HexHighs(t, n)) = b \div 16
    BY <2>6, OrOfOne, Halves
  <2> QED
    <3>1. HexByte(t, n) = 16 * (b \div 16) + (b % 16)
      BY <2>1, <2>4, <2>7 DEF HexByte
    <3> QED
      BY <3>1, <2>3, Halves
<1> DEFINE f == [n \in 1 .. Cardinality(ends) |-> HexByte(t, n)]
<1>9. f = s
  <2>1. f = [n \in 1 .. L |-> s[n]]
    BY <1>5, <1>8
  <2>2. s = [n \in 1 .. L |-> s[n]]
    BY LenProperties DEF L
  <2> QED
    BY <2>1, <2>2
<1>10. StrFromHex(t) = f \o <<>>
  <2>1. Len(t) % 2 # 1
    BY <1>1, <1>2
  <2> QED
    BY <2>1, StrFromHexIs, Zenon DEF ends
<1> HIDE DEF f
<1> QED
  BY <1>9, <1>10, ConcatEmptySeq DEF t

(***************************************************************************)
(* Splitting and joining.                                                  *)
(***************************************************************************)

\* The parts of a string behind every place, as StrSplit computes them.
PartsOf(str, splitter) ==
  LET Parts[i \in 1 .. Len(str) + 1] ==
        LET pos == Find(str, <<splitter>>, i)
        IN  IF i > Len(str) THEN <<>>
            ELSE IF pos \in {0, Len(str)} THEN <<SubSeq(str, i, Len(str))>>
            ELSE <<SubSeq(str, i, pos - 1)>> \o Parts[pos + 1]
  IN  Parts

LEMMA StrSplitIsParts ==
  ASSUME NEW str, NEW splitter
  PROVE  StrSplit(str, splitter) = PartsOf(str, splitter)[1]
BY Zenon DEF StrSplit, PartsOf

\* The splitter found stands in the string, behind the place the search began at.
LEMMA FindSplitter ==
  ASSUME NEW E, NEW str \in Seq(E), NEW c \in E, NEW i \in 1 .. Len(str),
         Find(str, <<c>>, i) # 0
  PROVE  /\ Find(str, <<c>>, i) \in i .. Len(str)
         /\ str[Find(str, <<c>>, i)] = c
<1> DEFINE F == Find(str, <<c>>, i)
<1>1. PICK what \in Seq(E) : what = <<c>>
  <2>1. <<c>> \in Seq(E)
    OBVIOUS
  <2> QED
    BY <2>1
<1>2. Len(what) = 1 /\ Len(str) \in Nat /\ i \in Nat \ {0}
  BY <1>1
<1> DEFINE G == Find(str, what, i)
<1>3. /\ G \in Nat
      /\ G # 0 => /\ i <= G /\ G + Len(what) <= Len(str) + 1
                  /\ SubSeq(str, G, G + Len(what) - 1) = what
  <2>1. i \in Nat \ {0} /\ Len(str) \in Nat /\ Len(what) \in Nat
    BY <1>2
  <2> QED
    BY <2>1, FindResult
<1>8. F = G
  BY <1>1
<1> HIDE DEF G
<1>4. /\ F \in Nat /\ i <= F /\ F + 1 <= Len(str) + 1
      /\ SubSeq(str, F, F + Len(what) - 1) = what
  <2>1. F # 0
    OBVIOUS
  <2> HIDE DEF F
  <2> QED
    BY <2>1, <1>2, <1>3, <1>8
<1> HIDE DEF F
<1>5. PICK k \in 1 .. Len(str) : k = F
  BY <1>2, <1>4
<1>6. StandsAt(str, <<c>>, k)
  BY <1>1, <1>2, <1>4, <1>5 DEF StandsAt
<1>7. str[k] = c
  BY <1>6, OneByteStandsAt
<1> QED
  BY <1>4, <1>5, <1>7, <1>2 DEF F

IsParts(R, E, str, splitter) ==
  /\ R \in [1 .. Len(str) + 1 -> Seq(Seq(E))]
  /\ \A i \in 1 .. Len(str) :
       LET pos == Find(str, <<splitter>>, i)
       IN  R[i] = IF pos \in {0, Len(str)} THEN <<SubSeq(str, i, Len(str))>>
                  ELSE <<SubSeq(str, i, pos - 1)>> \o R[pos + 1]

LEMMA PartsRecursion ==
  ASSUME NEW E, NEW str \in Seq(E), NEW c \in E
  PROVE  IsParts(PartsOf(str, c), E, str, c)
<1> DEFINE N == Len(str) + 1
           T == Seq(Seq(E))
           at(i) == Find(str, <<c>>, i)
           Body(i, g) == IF i > Len(str) THEN <<>>
                         ELSE IF at(i) \in {0, Len(str)} THEN <<SubSeq(str, i, Len(str))>>
                         ELSE <<SubSeq(str, i, at(i) - 1)>> \o g[at(i) + 1]
           Step == [i \in 1 .. N |-> [g \in [1 .. N -> T] |-> Body(i, g)]]
           R == PartsOf(str, c)
<1>1. Len(str) \in Nat /\ N \in Nat
  OBVIOUS
<1>2. ASSUME NEW i \in 1 .. N, ~(i > Len(str)), at(i) \notin {0, Len(str)}
      PROVE  at(i) + 1 \in i + 1 .. N /\ <<SubSeq(str, i, at(i) - 1)>> \in T
  <2>1. i \in 1 .. Len(str) /\ Find(str, <<c>>, i) # 0
    BY <1>1, <1>2
  <2>2. at(i) \in i .. Len(str)
    BY <2>1, FindSplitter
  <2> HIDE DEF at
  <2>3. PICK k \in i .. Len(str) : k = at(i)
    BY <2>2
  <2>4. k + 1 \in i + 1 .. N /\ k - 1 \in Nat /\ k - 1 <= Len(str) /\ i \in Nat \ {0}
    BY <1>1, <2>1
  <2>5. SubSeq(str, i, k - 1) \in Seq(E)
    BY <2>4, PrefixTyped
  <2> QED
    BY <2>3, <2>4, <2>5
<1>3. ASSUME NEW i \in 1 .. N PROVE <<SubSeq(str, i, Len(str))>> \in T
  <2>1. SubSeq(str, i, Len(str)) \in Seq(E)
    BY <1>1, SubSeqProperties
  <2> QED
    BY <2>1
<1>0. <<>> \in T /\ T # {}
  BY EmptySeq
<1> HIDE DEF at
<1>4. ASSUME NEW i \in 1 .. N, NEW g \in [1 .. N -> T] PROVE Body(i, g) \in T
  <2>0. CASE i > Len(str)
    BY <2>0, <1>0
  <2>1. CASE ~(i > Len(str)) /\ at(i) \in {0, Len(str)}
    BY <2>1, <1>3
  <2>2. CASE ~(i > Len(str)) /\ at(i) \notin {0, Len(str)}
    <3>1. <<SubSeq(str, i, at(i) - 1)>> \in T /\ at(i) + 1 \in 1 .. N
      BY <2>2, <1>2
    <3>2. g[at(i) + 1] \in T
      BY <3>1
    <3>3. <<SubSeq(str, i, at(i) - 1)>> \o g[at(i) + 1] \in T
      BY <3>1, <3>2, ConcatProperties
    <3> QED
      BY <3>3, <2>2
  <2> QED
    BY <2>0, <2>1, <2>2
<1> HIDE DEF T
<1>5. TellsBackward(Step, N, T)
  <2>1. \A i \in 1 .. N : \A g \in [1 .. N -> T] : Step[i][g] = Body(i, g)
    OBVIOUS
  <2>2. ASSUME NEW i \in 1 .. N, NEW g \in [1 .. N -> T], NEW h \in [1 .. N -> T],
               \A j \in i + 1 .. N : g[j] = h[j]
        PROVE  Body(i, g) = Body(i, h)
    <3>1. CASE ~(i > Len(str)) /\ at(i) \notin {0, Len(str)}
      <4>1. g[at(i) + 1] = h[at(i) + 1]
        BY <3>1, <1>2, <2>2
      <4> QED
        BY <4>1
    <3>2. CASE ~(~(i > Len(str)) /\ at(i) \notin {0, Len(str)})
      BY <3>2
    <3> QED
      BY <3>1, <3>2
  <2> HIDE DEF Body, Step
  <2>3. \A i \in 1 .. N : \A g \in [1 .. N -> T] : Step[i][g] \in T
    BY <2>1, <1>4
  <2>4. ASSUME NEW i \in 1 .. N, NEW g \in [1 .. N -> T], NEW h \in [1 .. N -> T],
               \A j \in i + 1 .. N : g[j] = h[j]
        PROVE  Step[i][g] = Step[i][h]
    <3>1. Body(i, g) = Body(i, h)
      BY <2>2, <2>4
    <3> QED
      BY <3>1, <2>1
  <2> QED
    BY <2>3, <2>4, <1>0, <1>1 DEF TellsBackward
<1>6. PICK f : ToldBackward(f, Step, N, T)
  BY <1>5, BackwardRecursion
<1>7. f = [i \in 1 .. N |-> Body(i, f)]
  <2>1. f \in [1 .. N -> T] /\ \A i \in 1 .. N : f[i] = Step[i][f]
    BY <1>6 DEF ToldBackward
  <2>2. \A i \in 1 .. N : Step[i][f] = Body(i, f)
    BY <2>1
  <2> HIDE DEF Body, Step
  <2> QED
    BY <2>1, <2>2
<1>8. R = [i \in 1 .. N |-> Body(i, R)]
  BY <1>7, Zenon DEF PartsOf, at
<1> HIDE DEF R
<1>9. \A i \in 1 .. N : R[i] = Body(i, R)
  <2> HIDE DEF Body
  <2> QED
    BY <1>8
<1>10. R \in [1 .. N -> T]
  <2> DEFINE P(n) == \A i \in 1 .. N : i + n > N => R[i] \in T
             S == {n \in Nat : P(n)}
  <2>1. P(0)
    BY <1>1
  <2>2. ASSUME NEW n \in Nat, P(n) PROVE P(n + 1)
    <3> SUFFICES ASSUME NEW i \in 1 .. N, i + (n + 1) > N PROVE R[i] \in T
      OBVIOUS
    <3>1. CASE i > Len(str)
      BY <3>1, <1>0, <1>9
    <3>2. CASE ~(i > Len(str)) /\ at(i) \in {0, Len(str)}
      BY <3>2, <1>3, <1>9
    <3>3. CASE ~(i > Len(str)) /\ at(i) \notin {0, Len(str)}
      <4>1. <<SubSeq(str, i, at(i) - 1)>> \in T /\ at(i) + 1 \in i + 1 .. N
        BY <3>3, <1>2
      <4>2. at(i) + 1 \in 1 .. N /\ (at(i) + 1) + n > N
        BY <4>1
      <4>3. R[at(i) + 1] \in T
        BY <2>2, <4>2
      <4>4. <<SubSeq(str, i, at(i) - 1)>> \o R[at(i) + 1] \in T
        BY <4>1, <4>3, ConcatProperties DEF T
      <4> QED
        BY <3>3, <4>4, <1>9
    <3> QED
      BY <3>1, <3>2, <3>3
  <2>3. Nat \subseteq S
    <3>1. 0 \in S
      BY <2>1
    <3>2. \A n \in Nat : n \in S => n + 1 \in S
      <4> HIDE DEF P
      <4> QED
        BY <2>2
    <3> HIDE DEF S
    <3> QED
      BY <3>1, <3>2, NumbersInduction
  <2>4. P(N)
    BY <2>3, <1>1
  <2>5. \A i \in 1 .. N : R[i] \in T
    BY <2>4, <1>1
  <2> QED
    BY <2>5, <1>8
<1>11. ASSUME NEW i \in 1 .. Len(str)
       PROVE  R[i] = IF at(i) \in {0, Len(str)} THEN <<SubSeq(str, i, Len(str))>>
                     ELSE <<SubSeq(str, i, at(i) - 1)>> \o R[at(i) + 1]
  <2>1. i \in 1 .. N /\ ~(i > Len(str))
    BY <1>1
  <2>2. R[i] = Body(i, R)
    BY <2>1, <1>9
  <2> QED
    BY <2>1, <2>2, Zenon
<1> QED
  BY <1>10, <1>11 DEF R, at, T, IsParts

\* What StrJoin has joined behind a start, one string after the other.
JoinedTo(start, strings, splitter) ==
  LET Joined[i \in 0 .. Len(strings)] ==
        IF i = 0 THEN start
        ELSE Joined[i - 1] \o (IF i = 1 THEN <<>> ELSE <<splitter>>) \o strings[i]
  IN  Joined

LEMMA StrJoinIsJoined ==
  ASSUME NEW strings, NEW splitter
  PROVE  StrJoin(strings, splitter)
           = JoinedTo(Fill(Len(strings), Blank), strings, splitter)[Len(strings)]
BY Zenon DEF StrJoin, JoinedTo

IsJoined(J, start, strings, splitter) ==
  /\ J[0] = start
  /\ \A i \in 1 .. Len(strings) :
       J[i] = J[i - 1] \o (IF i = 1 THEN <<>> ELSE <<splitter>>) \o strings[i]

LEMMA JoinedRecursion ==
  ASSUME NEW E, NEW start \in Seq(E), NEW strings \in Seq(Seq(E)), NEW c \in E
  PROVE  IsJoined(JoinedTo(start, strings, c), start, strings, c)
<1> DEFINE N == Len(strings)
           T == Seq(E)
           sep(i) == IF i = 1 THEN <<>> ELSE <<c>>
           Step == [i \in 1 .. N |-> [t \in T |-> t \o sep(i) \o strings[i]]]
           Joined(g) == [i \in 0 .. N |->
                           IF i = 0 THEN start
                           ELSE g[i - 1] \o (IF i = 1 THEN <<>> ELSE <<c>>) \o strings[i]]
           J == JoinedTo(start, strings, c)
<1>0. N \in Nat
  OBVIOUS
<1>1. TellsForward(Step, N, T, start)
  <2>1. ASSUME NEW i \in 1 .. N, NEW x \in T PROVE Step[i][x] \in T
    <3>1. sep(i) \in T /\ strings[i] \in T
      <4>1. <<>> \in Seq(E) /\ <<c>> \in Seq(E)
        BY EmptySeq
      <4>2. strings[i] \in Seq(E)
        BY ElementOfSeq
      <4> QED
        BY <4>1, <4>2
    <3>2. x \o sep(i) \in T
      BY <3>1, ConcatProperties
    <3>3. (x \o sep(i)) \o strings[i] \in T
      BY <3>1, <3>2, ConcatProperties
    <3>4. Step[i][x] = (x \o sep(i)) \o strings[i]
      OBVIOUS
    <3> QED
      BY <3>3, <3>4, Zenon
  <2> HIDE DEF Step
  <2> QED
    BY <2>1, <1>0 DEF TellsForward
<1>2. PICK f : ToldForward(f, Step, N, T, start)
  BY <1>1, ForwardRecursion
<1>3. f = Joined(f)
  <2>1. ASSUME NEW i \in 0 .. N PROVE f[i] = Joined(f)[i]
    <3>1. CASE i = 0
      BY <3>1, <1>2 DEF ToldForward
    <3>2. CASE i # 0
      <4>1. i \in 1 .. N /\ i - 1 \in 0 .. N
        BY <3>2
      <4>2. f[i - 1] \in T /\ f[i] = Step[i][f[i - 1]]
        BY <4>1, <1>2 DEF ToldForward
      <4>3. f[i] = f[i - 1] \o sep(i) \o strings[i]
        BY <4>1, <4>2
      <4> QED
        BY <3>2, <4>3
    <3> QED
      BY <3>1, <3>2
  <2>2. f \in [0 .. N -> T]
    BY <1>2 DEF ToldForward
  <2> QED
    BY <2>1, <2>2
<1>4. J = Joined(J)
  BY <1>3, Zenon DEF JoinedTo
<1> HIDE DEF J
<1>5. J[0] = start
  BY <1>4
<1>6. ASSUME NEW i \in 1 .. N
      PROVE  J[i] = J[i - 1] \o (IF i = 1 THEN <<>> ELSE <<c>>) \o strings[i]
  <2>1. i \in 0 .. N /\ i # 0
    OBVIOUS
  <2>2. J[i] = Joined(J)[i]
    BY <1>4
  <2> QED
    BY <2>1, <2>2
<1> QED
  BY <1>5, <1>6 DEF J, IsJoined

\* A string in front of others only moves the start.
LEMMA JoinedBehind ==
  ASSUME NEW E, NEW start \in Seq(E), NEW x \in Seq(E), NEW rest \in Seq(Seq(E)), NEW c \in E,
         NEW n \in 1 .. Len(rest)
  PROVE  JoinedTo(start, <<x>> \o rest, c)[n + 1] = JoinedTo((start \o x) \o <<c>>, rest, c)[n]
<1>1. PICK all \in Seq(Seq(E)) : all = <<x>> \o rest
  <2>1. <<x>> \in Seq(Seq(E))
    OBVIOUS
  <2>2. <<x>> \o rest \in Seq(Seq(E))
    BY <2>1, ConcatProperties
  <2> QED
    BY <2>2
<1>2. /\ Len(all) = 1 + Len(rest) /\ all[1] = x
      /\ \A k \in 1 .. Len(rest) : all[k + 1] = rest[k]
  BY <1>1, ConsPlaces
<1>3. PICK begin \in Seq(E) : begin = (start \o x) \o <<c>>
  <2>1. <<c>> \in Seq(E) /\ start \o x \in Seq(E)
    BY ConcatProperties
  <2>2. (start \o x) \o <<c>> \in Seq(E)
    BY <2>1, ConcatProperties
  <2> QED
    BY <2>2
<1> DEFINE J == JoinedTo(start, all, c)
           K == JoinedTo(begin, rest, c)
<1>10. IsJoined(J, start, all, c) /\ IsJoined(K, begin, rest, c)
  BY JoinedRecursion
<1> HIDE DEF J, K
<1>4. /\ J[0] = start
      /\ \A i \in 1 .. Len(all) : J[i] = J[i - 1] \o (IF i = 1 THEN <<>> ELSE <<c>>) \o all[i]
  BY <1>10 DEF IsJoined
<1>5. /\ K[0] = begin
      /\ \A i \in 1 .. Len(rest) : K[i] = K[i - 1] \o (IF i = 1 THEN <<>> ELSE <<c>>) \o rest[i]
  BY <1>10 DEF IsJoined
<1>0. Len(rest) \in Nat
  OBVIOUS
<1>6. J[1] = start \o x
  <2>1. 1 \in 1 .. Len(all) /\ 1 - 1 = 0
    BY <1>0, <1>2
  <2>2. J[1] = J[0] \o <<>> \o all[1]
    BY <2>1, <1>4
  <2>3. start \o <<>> = start
    BY ConcatEmptySeq
  <2> QED
    BY <2>2, <2>3, <1>2, <1>4, Zenon
<1>7. ASSUME Len(rest) >= 1 PROVE J[2] = K[1]
  <2>1. 2 \in 1 .. Len(all) /\ 1 \in 1 .. Len(rest) /\ 1 + 1 = 2 /\ 2 - 1 = 1 /\ 1 - 1 = 0 /\ 2 # 1
    BY <1>0, <1>2, <1>7
  <2>2. J[2] = J[1] \o <<c>> \o all[2]
    BY <2>1, <1>4
  <2>3. K[1] = K[0] \o <<>> \o rest[1]
    BY <2>1, <1>5
  <2>4. all[2] = rest[1]
    BY <2>1, <1>2
  <2>5. begin \o <<>> = begin
    BY ConcatEmptySeq
  <2> QED
    BY <2>2, <2>3, <2>4, <2>5, <1>3, <1>5, <1>6, ZenonT(30)
<1> DEFINE S == {m \in 1 .. Len(rest) : J[m + 1] = K[m]}
<1>8. ASSUME Len(rest) >= 1 PROVE 1 .. Len(rest) \subseteq S
  <2>1. 1 \in S
    BY <1>0, <1>7, <1>8
  <2>2. ASSUME NEW m \in 1 .. Len(rest) - 1, m \in S PROVE m + 1 \in S
    <3>1. /\ m + 1 \in 1 .. Len(rest) /\ m + 2 \in 1 .. Len(all)
          /\ (m + 1) + 1 = m + 2 /\ (m + 2) - 1 = m + 1 /\ (m + 1) - 1 = m /\ m + 1 # 1 /\ m + 2 # 1
      BY <1>0, <1>2, SMTT(30)
    <3>2. J[m + 2] = J[m + 1] \o <<c>> \o all[m + 2]
      BY <3>1, <1>4
    <3>3. K[m + 1] = K[m] \o <<c>> \o rest[m + 1]
      BY <3>1, <1>5
    <3>4. all[m + 2] = rest[m + 1]
      <4>1. all[(m + 1) + 1] = rest[m + 1]
        BY <3>1, <1>2
      <4> QED
        BY <4>1, <3>1
    <3>5. J[m + 2] = K[m + 1]
      BY <2>2, <3>2, <3>3, <3>4
    <3> QED
      BY <3>1, <3>5
  <2>3. Len(rest) - 1 \in Nat /\ (Len(rest) - 1) + 1 = Len(rest)
    BY <1>0, <1>8
  <2> HIDE DEF S
  <2>4. PICK M \in Nat : M = Len(rest) - 1
    BY <2>3
  <2>5. 1 .. M + 1 \subseteq S
    BY <2>1, <2>2, <2>4, PlacesForward
  <2> QED
    BY <2>3, <2>4, <2>5
<1>9. J[n + 1] = K[n]
  <2>1. Len(rest) >= 1
    BY <1>0
  <2> QED
    BY <2>1, <1>8
<1> QED
  BY <1>1, <1>3, <1>9 DEF J, K

\* One string joined is the string behind the start.
LEMMA JoinedOne ==
  ASSUME NEW E, NEW start \in Seq(E), NEW x \in Seq(E), NEW c \in E
  PROVE  JoinedTo(start, <<x>>, c)[1] = start \o x
<1>1. PICK one \in Seq(Seq(E)) : one = <<x>>
  <2>1. <<x>> \in Seq(Seq(E))
    OBVIOUS
  <2> QED
    BY <2>1
<1>2. 1 \in 1 .. Len(one) /\ one[1] = x /\ 1 - 1 = 0
  BY <1>1
<1> DEFINE J == JoinedTo(start, one, c)
<1>3. IsJoined(J, start, one, c)
  BY JoinedRecursion
<1> HIDE DEF J
<1>4. J[0] = start /\ J[1] = J[0] \o <<>> \o one[1]
  BY <1>2, <1>3 DEF IsJoined
<1>5. start \o <<>> = start
  BY ConcatEmptySeq
<1>6. J[1] = start \o x
  BY <1>2, <1>4, <1>5, Zenon
<1> QED
  BY <1>1, <1>6 DEF J

LEMMA CutAndGlued ==
  ASSUME NEW E, NEW str \in Seq(E), NEW q \in 1 .. Len(str), NEW l \in 1 .. q, NEW start \in Seq(E)
  PROVE  ((start \o SubSeq(str, l, q - 1)) \o <<str[q]>>) \o SubSeq(str, q + 1, Len(str))
           = start \o SubSeq(str, l, Len(str))
<1>0. /\ q - 1 \in l - 1 .. Len(str) /\ Len(str) \in q - 1 .. Len(str) /\ l \in 1 .. Len(str) + 1
      /\ (q - 1) + 1 = q /\ Len(str) \in q .. Len(str)
      /\ l \in Nat \ {0} /\ q - 1 \in Nat /\ q - 1 <= Len(str) /\ q + 1 \in Nat \ {0} /\ Len(str) \in Nat
  OBVIOUS
<1>1. PICK x \in Seq(E) : x = SubSeq(str, l, q - 1)
  <2>1. SubSeq(str, l, q - 1) \in Seq(E)
    BY <1>0, PrefixTyped
  <2> QED
    BY <2>1
<1>2. PICK y \in Seq(E) : y = SubSeq(str, q + 1, Len(str))
  <2>1. SubSeq(str, q + 1, Len(str)) \in Seq(E)
    BY <1>0, PrefixTyped
  <2> QED
    BY <2>1
<1>3. PICK b \in Seq(E) : b = <<str[q]>>
  <2>1. <<str[q]>> \in Seq(E)
    OBVIOUS
  <2> QED
    BY <2>1
<1>4. ((start \o x) \o b) \o y = start \o (x \o (b \o y))
  <2>1. PICK a \in Seq(E) : a = start \o x
    BY ConcatProperties
  <2>2. PICK d \in Seq(E) : d = b \o y
    BY ConcatProperties
  <2>3. (a \o b) \o y = a \o (b \o y)
    <3>1. Regroups(a, b, y)
      BY Regrouped
    <3> QED
      BY <3>1, Zenon DEF Regroups
  <2>4. (start \o x) \o d = start \o (x \o d)
    <3>1. Regroups(start, x, d)
      BY Regrouped
    <3> QED
      BY <3>1, Zenon DEF Regroups
  <2> QED
    BY <2>1, <2>2, <2>3, <2>4, Zenon
<1>5. SubSeq(str, q, Len(str)) = <<str[q]>> \o SubSeq(str, q + 1, Len(str))
  BY <1>0, SubSeqRecursiveFirst
<1>6. SubSeq(str, l, Len(str)) = SubSeq(str, l, q - 1) \o SubSeq(str, (q - 1) + 1, Len(str))
  BY <1>0, ConcatAdjacentSubSeq
<1>7. SubSeq(str, l, Len(str)) = x \o (b \o y)
  BY <1>0, <1>1, <1>2, <1>3, <1>5, <1>6, Zenon
<1> QED
  BY <1>1, <1>2, <1>3, <1>4, <1>7, Zenon

\* What is split from a place on joins to what stands behind it.
RestoredFrom(str, c, R, E, i) ==
  /\ Len(R[i]) >= 1
  /\ \A start \in Seq(E) :
       JoinedTo(start, R[i], c)[Len(R[i])] = start \o SubSeq(str, i, Len(str))

LEMMA SplitJoined ==
  ASSUME NEW E, NEW str \in Seq(E), NEW c \in E, NEW i \in 1 .. Len(str)
  PROVE  RestoredFrom(str, c, PartsOf(str, c), E, i)
<1> DEFINE N == Len(str)
           R == PartsOf(str, c)
           at(k) == Find(str, <<c>>, k)
<1>0. N \in Nat
  OBVIOUS
<1>1. /\ R \in [1 .. N + 1 -> Seq(Seq(E))]
      /\ \A k \in 1 .. N :
           R[k] = IF at(k) \in {0, N} THEN <<SubSeq(str, k, N)>>
                  ELSE <<SubSeq(str, k, at(k) - 1)>> \o R[at(k) + 1]
  <2>1. IsParts(R, E, str, c)
    BY PartsRecursion
  <2> HIDE DEF R
  <2> QED
    BY <2>1 DEF IsParts
<1> HIDE DEF R
<1>2. \A k \in 1 .. N : at(k) # 0 => at(k) \in k .. N /\ str[at(k)] = c
  BY FindSplitter
<1> HIDE DEF at
<1> DEFINE S == {m \in 1 .. N + 1 : \A k \in m .. N : RestoredFrom(str, c, R, E, k)}
<1>3. N + 1 \in S
  BY <1>0
<1>4. ASSUME NEW m \in 1 .. N, m + 1 \in S PROVE m \in S
  <2>1. RestoredFrom(str, c, R, E, m)
    <3>1. CASE at(m) \in {0, N}
      <4>1. R[m] = <<SubSeq(str, m, N)>>
        BY <3>1, <1>1
      <4>2. PICK x \in Seq(E) : x = SubSeq(str, m, N)
        <5>1. SubSeq(str, m, N) \in Seq(E)
          BY <1>0, PrefixTyped
        <5> QED
          BY <5>1
      <4>3. Len(<<x>>) = 1
        OBVIOUS
      <4>4. \A start \in Seq(E) : JoinedTo(start, <<x>>, c)[1] = start \o x
        BY JoinedOne
      <4>5. R[m] = <<x>> /\ Len(R[m]) = 1
        BY <4>1, <4>2, <4>3, Zenon
      <4>6. ASSUME NEW start \in Seq(E)
            PROVE  JoinedTo(start, R[m], c)[Len(R[m])] = start \o SubSeq(str, m, N)
        BY <4>2, <4>4, <4>5, Zenon
      <4>7. Len(R[m]) >= 1
        BY <4>5
      <4> QED
        BY <4>6, <4>7 DEF RestoredFrom
    <3>2. CASE at(m) \notin {0, N}
      <4>1. PICK p \in m .. N : p = at(m)
        BY <3>2, <1>2
      <4>2. p \in m .. N - 1 /\ p + 1 \in m + 1 .. N /\ p + 1 \in 1 .. N + 1 /\ p - 1 \in Nat
            /\ p - 1 <= N /\ p <= N /\ p \in Nat /\ m \in Nat \ {0} /\ p # N
        BY <1>0, <3>2, <4>1
      <4>3. str[p] = c
        BY <3>2, <4>1, <1>2
      <4>4. PICK x \in Seq(E) : x = SubSeq(str, m, p - 1)
        <5>1. SubSeq(str, m, p - 1) \in Seq(E)
          BY <4>2, PrefixTyped
        <5> QED
          BY <5>1
      <4>5. PICK rest \in Seq(Seq(E)) : rest = R[p + 1]
        BY <1>1, <4>2
      <4>6. R[m] = <<x>> \o rest
        <5>1. R[m] = <<SubSeq(str, m, at(m) - 1)>> \o R[at(m) + 1]
          BY <1>1, <3>2
        <5> QED
          BY <4>1, <4>4, <4>5, <5>1, Zenon
      <4>7. RestoredFrom(str, c, R, E, p + 1)
        BY <1>4, <4>2
      <4>8. /\ Len(rest) >= 1
            /\ \A start \in Seq(E) :
                 JoinedTo(start, rest, c)[Len(rest)] = start \o SubSeq(str, p + 1, N)
        BY <4>5, <4>7 DEF RestoredFrom
      <4>9. Len(<<x>> \o rest) = Len(rest) + 1 /\ Len(rest) \in 1 .. Len(rest) /\ Len(rest) \in Nat
        <5>1. Len(<<x>> \o rest) = 1 + Len(rest)
          BY ConsPlaces
        <5>2. Len(rest) \in Nat
          OBVIOUS
        <5> QED
          BY <4>8, <5>1, <5>2
      <4>10. ASSUME NEW start \in Seq(E)
             PROVE  JoinedTo(start, R[m], c)[Len(R[m])] = start \o SubSeq(str, m, N)
        <5>1. JoinedTo(start, <<x>> \o rest, c)[Len(rest) + 1]
                = JoinedTo((start \o x) \o <<c>>, rest, c)[Len(rest)]
          <6>1. PICK n \in 1 .. Len(rest) : n = Len(rest)
            BY <4>9
          <6>2. JoinedTo(start, <<x>> \o rest, c)[n + 1] = JoinedTo((start \o x) \o <<c>>, rest, c)[n]
            BY JoinedBehind
          <6> QED
            BY <6>1, <6>2
        <5>2. (start \o x) \o <<c>> \in Seq(E)
          <6>1. <<c>> \in Seq(E)
            OBVIOUS
          <6>2. start \o x \in Seq(E)
            BY ConcatProperties
          <6> QED
            BY <6>1, <6>2, ConcatProperties
        <5>4. JoinedTo((start \o x) \o <<c>>, rest, c)[Len(rest)]
                = ((start \o x) \o <<c>>) \o SubSeq(str, p + 1, N)
          BY <4>8, <5>2
        <5>5. ((start \o x) \o <<c>>) \o SubSeq(str, p + 1, N) = start \o SubSeq(str, m, N)
          <6>1. PICK q \in 1 .. Len(str) : q = p
            BY <1>0, <4>2
          <6>2. PICK l \in 1 .. q : l = m
            BY <1>0, <4>2, <6>1
          <6>3. ((start \o SubSeq(str, l, q - 1)) \o <<str[q]>>) \o SubSeq(str, q + 1, Len(str))
                  = start \o SubSeq(str, l, Len(str))
            BY CutAndGlued
          <6> QED
            BY <4>3, <4>4, <6>1, <6>2, <6>3, Zenon
        <5> QED
          BY <4>6, <4>9, <5>1, <5>4, <5>5, Zenon
      <4>11. Len(R[m]) >= 1
        BY <4>6, <4>9
      <4> QED
        BY <4>10, <4>11 DEF RestoredFrom
    <3> QED
      BY <3>1, <3>2
  <2>2. ASSUME NEW k \in m .. N PROVE RestoredFrom(str, c, R, E, k)
    <3>1. CASE k = m
      BY <2>1, <3>1
    <3>2. CASE k # m
      <4>1. k \in m + 1 .. N
        BY <3>2
      <4> QED
        BY <4>1, <1>4
    <3> QED
      BY <3>1, <3>2
  <2> QED
    BY <2>2, <1>0
<1>5. 1 .. N + 1 \subseteq S
  <2> HIDE DEF S, N
  <2> QED
    BY <1>0, <1>3, <1>4, PlacesBackward
<1>6. i \in S
  BY <1>0, <1>5
<1>7. RestoredFrom(str, c, R, E, i)
  BY <1>0, <1>6
<1> QED
  BY <1>7 DEF R

LEMMA FillTyped ==
  ASSUME NEW n \in Nat
  PROVE  Fill(n, Blank) \in Seq(Byte)
<1>1. Blank \in Byte
  BY DEF Blank, Byte
<1> QED
  BY <1>1 DEF Fill

LEMMA JoinRestores ==
  ASSUME NEW str \in Seq(Byte), NEW c \in Byte, str # <<>>
  PROVE  StrJoin(StrSplit(str, c), c) = Fill(Len(StrSplit(str, c)), Blank) \o str
<1>1. 1 \in 1 .. Len(str) /\ Len(str) \in Nat /\ 1 \in 1 .. Len(str) + 1
  BY EmptySeq
<1>2. RestoredFrom(str, c, PartsOf(str, c), Byte, 1)
  BY <1>1, SplitJoined
<1>3. PICK list \in Seq(Seq(Byte)) : list = StrSplit(str, c)
  <2>1. PartsOf(str, c) \in [1 .. Len(str) + 1 -> Seq(Seq(Byte))]
    BY PartsRecursion DEF IsParts
  <2> QED
    BY <2>1, <1>1, StrSplitIsParts
<1>4. PICK start \in Seq(Byte) : start = Fill(Len(list), Blank)
  BY FillTyped
<1>5. JoinedTo(start, list, c)[Len(list)] = start \o SubSeq(str, 1, Len(str))
  BY <1>2, <1>3, StrSplitIsParts DEF RestoredFrom
<1>6. SubSeq(str, 1, Len(str)) = str
  BY SubSeqFull
<1> QED
  BY <1>3, <1>4, <1>5, <1>6, StrJoinIsJoined

LEMMA PairOf ==
  ASSUME NEW T, NEW a \in T, NEW b \in T
  PROVE  <<a>> \o <<b>> = <<a, b>>
<1>1. PICK u \in Seq(T) : u = <<a>>
  <2>1. <<a>> \in Seq(T)
    OBVIOUS
  <2> QED
    BY <2>1
<1>2. PICK v \in Seq(T) : v = <<b>>
  <2>1. <<b>> \in Seq(T)
    OBVIOUS
  <2> QED
    BY <2>1
<1>3. PICK w \in Seq(T) : w = <<a, b>>
  <2>1. <<a, b>> \in Seq(T)
    OBVIOUS
  <2> QED
    BY <2>1
<1>4. PICK z \in Seq(T) : z = u \o v
  BY ConcatProperties
<1>5. Len(u) = 1 /\ u[1] = a /\ Len(v) = 1 /\ v[1] = b /\ Len(w) = 2 /\ w[1] = a /\ w[2] = b
  BY <1>1, <1>2, <1>3
<1>6. Len(z) = 2 /\ z[1] = u[1] /\ z[2] = v[1]
  <2>1. /\ Len(u \o v) = Len(u) + Len(v)
        /\ \A k \in 1 .. Len(u) + Len(v) : (u \o v)[k] = IF k <= Len(u) THEN u[k] ELSE v[k - Len(u)]
    BY ConcatProperties
  <2> QED
    BY <1>4, <1>5, <2>1
<1>7. z = w
  <2>1. \A k \in 1 .. Len(z) : z[k] = w[k]
    BY <1>5, <1>6
  <2> QED
    BY <1>5, <1>6, <2>1, SeqEqual
<1> QED
  BY <1>1, <1>2, <1>3, <1>4, <1>7

LEMMA FoundWhereItStands ==
  ASSUME NEW str, NEW what, NEW i \in Nat \ {0}, Len(str) \in Nat, Len(what) \in Nat,
         NEW j \in Nat, i <= j, StandsAt(str, what, j)
  PROVE  Find(str, what, i) # 0
<1> DEFINE R == Find(str, what, i)
<1>1. \A k \in Nat : (i <= k /\ k + Len(what) <= Len(str) + 1 /\ (R = 0 \/ k < R))
                       => SubSeq(str, k, k + Len(what) - 1) # what
  BY FindResult
<1> HIDE DEF R
<1>2. R # 0
  BY <1>1 DEF StandsAt
<1> QED
  BY <1>2 DEF R

\* What is not found does not occur.
LEMMA NotFound ==
  ASSUME NEW E, NEW str \in Seq(E), NEW c \in E, NEW i \in 1 .. Len(str), NEW k \in i .. Len(str),
         Find(str, <<c>>, i) = 0
  PROVE  str[k] # c
<1>1. PICK what \in Seq(E) : what = <<c>>
  <2>1. <<c>> \in Seq(E)
    OBVIOUS
  <2> QED
    BY <2>1
<1>2. Len(what) = 1 /\ Len(str) \in Nat /\ k + Len(what) <= Len(str) + 1 /\ k \in Nat /\ i <= k
  BY <1>1
<1>6. ~StandsAt(str, <<c>>, k)
  <2>1. PICK o \in Nat \ {0} : o = i
    OBVIOUS
  <2>2. PICK l \in Nat : l = k
    BY <1>2
  <2>3. Len(str) \in Nat /\ Len(what) \in Nat /\ o <= l
    BY <1>2, <2>1, <2>2
  <2>4. StandsAt(str, what, l) => Find(str, what, o) # 0
    BY <2>3, FoundWhereItStands
  <2> QED
    BY <1>1, <2>1, <2>2, <2>4
<1>7. PICK l \in 1 .. Len(str) : l = k
  BY <1>2
<1>8. StandsAt(str, <<c>>, l) <=> str[l] = c
  BY OneByteStandsAt
<1> QED
  BY <1>6, <1>7, <1>8

\* Two parts, the second not empty, and one splitter between them.
LEMMA TwoParts ==
  ASSUME NEW E, NEW c \in E, NEW a \in Seq(E), NEW b \in Seq(E), b # <<>>,
         \A k \in 1 .. Len(a) : a[k] # c, \A k \in 1 .. Len(b) : b[k] # c
  PROVE  StrSplit((a \o <<c>>) \o b, c) = <<a, b>>
<1>1. PICK d \in Seq(E) : d = <<c>>
  <2>1. <<c>> \in Seq(E)
    OBVIOUS
  <2> QED
    BY <2>1
<1>2. PICK m \in Seq(E) : m = a \o d
  BY ConcatProperties
<1>3. PICK t \in Seq(E) : t = m \o b
  BY ConcatProperties
<1>4. /\ Len(m) = Len(a) + 1 /\ m[Len(a) + 1] = c
      /\ \A k \in 1 .. Len(a) : m[k] = a[k]
  <2>1. /\ Len(a \o d) = Len(a) + Len(d)
        /\ \A k \in 1 .. Len(a) + Len(d) : (a \o d)[k] = IF k <= Len(a) THEN a[k] ELSE d[k - Len(a)]
    BY ConcatProperties
  <2>2. Len(d) = 1 /\ d[1] = c /\ Len(a) \in Nat
    BY <1>1
  <2>3. Len(a) + 1 \in 1 .. Len(a) + Len(d) /\ ~(Len(a) + 1 <= Len(a)) /\ (Len(a) + 1) - Len(a) = 1
        /\ \A k \in 1 .. Len(a) : k \in 1 .. Len(a) + Len(d) /\ k <= Len(a)
    BY <2>2
  <2> QED
    BY <1>2, <2>1, <2>2, <2>3
<1>5. /\ Len(t) = Len(m) + Len(b)
      /\ \A k \in 1 .. Len(m) : t[k] = m[k]
      /\ \A k \in Len(m) + 1 .. Len(t) : t[k] = b[k - Len(m)]
  <2>1. /\ Len(m \o b) = Len(m) + Len(b)
        /\ \A k \in 1 .. Len(m) + Len(b) : (m \o b)[k] = IF k <= Len(m) THEN m[k] ELSE b[k - Len(m)]
    BY ConcatProperties
  <2>2. Len(m) \in Nat /\ Len(b) \in Nat
    OBVIOUS
  <2> QED
    BY <1>3, <2>1, <2>2
<1>6. Len(a) \in Nat /\ Len(b) \in Nat \ {0} /\ Len(m) \in Nat /\ Len(t) \in Nat
  BY EmptySeq
<1>7. t[Len(m)] = c /\ \A k \in 1 .. Len(t) : t[k] = c => k = Len(m)
  <2>1. t[Len(m)] = c
    <3>1. Len(m) \in 1 .. Len(m)
      BY <1>4, <1>6
    <3> QED
      BY <3>1, <1>4, <1>5
  <2>2. ASSUME NEW k \in 1 .. Len(t), k # Len(m) PROVE t[k] # c
    <3>1. CASE k < Len(m)
      <4>1. k \in 1 .. Len(a) /\ k \in 1 .. Len(m)
        BY <3>1, <1>4, <1>6
      <4> QED
        BY <4>1, <1>4, <1>5
    <3>2. CASE k > Len(m)
      <4>1. k \in Len(m) + 1 .. Len(t) /\ k - Len(m) \in 1 .. Len(b)
        BY <3>2, <1>5, <1>6
      <4> QED
        BY <4>1, <1>5
    <3> QED
      BY <2>2, <3>1, <3>2, <1>6
  <2> QED
    BY <2>1, <2>2
<1>8. PICK p \in 1 .. Len(t) : p = Len(m) /\ p # Len(t)
  BY <1>4, <1>5, <1>6
<1>9. Find(t, <<c>>, 1) = p
  <2>1. PICK o \in 1 .. Len(t) : o = 1
    BY <1>8
  <2>2. Find(t, <<c>>, o) # 0
    <3>1. p \in o .. Len(t)
      BY <2>1
    <3>2. t[p] = c
      BY <1>7, <1>8
    <3> QED
      BY <3>1, <3>2, NotFound
  <2>3. Find(t, <<c>>, o) \in o .. Len(t) /\ t[Find(t, <<c>>, o)] = c
    BY <2>2, FindSplitter
  <2>4. Find(t, <<c>>, o) \in 1 .. Len(t)
    BY <2>3
  <2> QED
    BY <2>1, <2>3, <2>4, <1>7, <1>8
<1>10. PICK q \in 1 .. Len(t) : q = p + 1
  BY <1>8
<1>11. Find(t, <<c>>, q) = 0
  <2> SUFFICES ASSUME Find(t, <<c>>, q) # 0 PROVE FALSE
    OBVIOUS
  <2>1. Find(t, <<c>>, q) \in q .. Len(t) /\ t[Find(t, <<c>>, q)] = c
    BY FindSplitter
  <2>2. PICK k \in q .. Len(t) : t[k] = c
    BY <2>1
  <2>3. k \in 1 .. Len(t) /\ k # Len(m)
    BY <1>8, <1>10
  <2> QED
    BY <2>2, <2>3, <1>7
<1> DEFINE R == PartsOf(t, c)
<1>12. /\ \A i \in 1 .. Len(t) :
            R[i] = IF Find(t, <<c>>, i) \in {0, Len(t)} THEN <<SubSeq(t, i, Len(t))>>
                   ELSE <<SubSeq(t, i, Find(t, <<c>>, i) - 1)>> \o R[Find(t, <<c>>, i) + 1]
  <2>1. IsParts(R, E, t, c)
    BY PartsRecursion
  <2> HIDE DEF R
  <2> QED
    BY <2>1 DEF IsParts
<1> HIDE DEF R
<1>13. R[q] = <<SubSeq(t, q, Len(t))>>
  BY <1>11, <1>12
<1>14. R[1] = <<SubSeq(t, 1, p - 1)>> \o R[p + 1]
  <2>1. 1 \in 1 .. Len(t) /\ p # 0
    BY <1>8
  <2> QED
    BY <2>1, <1>8, <1>9, <1>12
<1>15. SubSeq(t, q, Len(t)) = b
  <2>1. SubSeq(m \o b, Len(m) + 1, Len(m \o b)) = b
    BY BehindConcat
  <2> QED
    BY <2>1, <1>3, <1>8, <1>10
<1>16. SubSeq(t, 1, p - 1) = a
  <2>1. p - 1 = Len(a)
    BY <1>4, <1>6, <1>8
  <2>4. \A k \in 1 .. Len(a) : t[k] = a[k] /\ t[k] \in E
    <3>1. \A k \in 1 .. Len(a) : k \in 1 .. Len(m) /\ a[k] \in E
      BY <1>4, <1>6
    <3> QED
      BY <3>1, <1>4, <1>5
  <2> DEFINE y == SubSeq(t, 1, Len(a))
  <2>5. y \in Seq(E) /\ Len(y) = Len(a) /\ \A k \in 1 .. Len(a) : y[k] = t[k]
    <3>1. y \in Seq(E) /\ Len(y) = (IF 1 <= Len(a) THEN Len(a) - 1 + 1 ELSE 0)
          /\ \A k \in 1 .. Len(a) - 1 + 1 : y[k] = t[1 + k - 1]
      BY <1>6, <2>4, SubSeqProperties
    <3> HIDE DEF y
    <3> QED
      BY <1>6, <3>1
  <2> HIDE DEF y
  <2>6. y = a
    BY <2>4, <2>5, SeqEqual
  <2> QED
    BY <2>1, <2>6 DEF y
<1>17. R[1] = <<a>> \o <<b>>
  BY <1>10, <1>13, <1>14, <1>15, <1>16, Zenon
<1>18. <<a>> \o <<b>> = <<a, b>>
  BY PairOf
<1> QED
  BY <1>1, <1>2, <1>3, <1>17, <1>18, StrSplitIsParts DEF R

(***************************************************************************)
(* Rules, and the conversions together.                                    *)
(***************************************************************************)

\* A rule of two parts without a newline, the second not empty, is read as it was saved.
LEMMA RuleRestored ==
  ASSUME NEW a \in Seq(Byte), NEW b \in Seq(Byte), b # <<>>,
         \A k \in 1 .. Len(a) : a[k] # Newline, \A k \in 1 .. Len(b) : b[k] # Newline
  PROVE  RuleFromByteArray(NoRule, RuleToByteArray(Rule(a, b))) = [ok |-> TRUE, rule |-> Rule(a, b)]
<1>1. PICK c \in Byte : c = Newline
  BY DEF Byte, Newline
<1> DEFINE t == (a \o <<c>>) \o b
<1>2. StrSplit(t, c) = <<a, b>>
  BY <1>1, TwoParts
<1>3. t # <<>>
  <2>1. PICK d \in Seq(Byte) : d = <<c>>
    <3>1. <<c>> \in Seq(Byte)
      OBVIOUS
    <3> QED
      BY <3>1
  <2>2. PICK m \in Seq(Byte) : m = a \o d
    BY ConcatProperties
  <2>3. m \o b # <<>>
    BY ConcatEqualIffEmpty
  <2> QED
    BY <2>1, <2>2, <2>3
<1>4. RuleToByteArray(Rule(a, b)) = t
  BY <1>1 DEF RuleToByteArray, Rule
<1> HIDE DEF t
<1>5. Len(<<a, b>>) = 2 /\ <<a, b>>[1] = a /\ <<a, b>>[2] = b
  OBVIOUS
<1> QED
  BY <1>1, <1>2, <1>3, <1>4, <1>5, Zenon DEF RuleFromByteArray

LEMMA RuleOfPlaces ==
  ASSUME NEW s \in Seq(Byte), NEW k \in 0 .. Len(s), k < Len(s), Find(s, <<Newline>>, 1) = 0
  PROVE  LET rule == Rule(SubSeq(s, 1, k), SubSeq(s, k + 1, Len(s)))
             read == RuleFromByteArray(NoRule, RuleToByteArray(rule))
         IN  read.ok /\ read.rule = rule
<1>1. PICK c \in Byte : c = Newline
  BY DEF Byte, Newline
<1>2. \A i \in 1 .. Len(s) : s[i] # c /\ s[i] \in Byte
  <2>1. ASSUME NEW i \in 1 .. Len(s) PROVE s[i] # c /\ s[i] \in Byte
    <3>1. PICK o \in 1 .. Len(s) : o = 1
      OBVIOUS
    <3>2. i \in o .. Len(s) /\ Find(s, <<c>>, o) = 0
      BY <1>1, <3>1
    <3>3. s[i] # c
      BY <3>2, NotFound
    <3> QED
      BY <3>3, ElementOfSeq
  <2> QED
    BY <2>1
<1>3. PICK a \in Seq(Byte) : a = SubSeq(s, 1, k) /\ \A i \in 1 .. Len(a) : a[i] # c
  <2> DEFINE y == SubSeq(s, 1, k)
  <2>1. y \in Seq(Byte) /\ Len(y) = (IF 1 <= k THEN k - 1 + 1 ELSE 0)
        /\ \A i \in 1 .. k - 1 + 1 : y[i] = s[1 + i - 1]
    BY <1>2, SubSeqProperties
  <2> HIDE DEF y
  <2>2. \A i \in 1 .. Len(y) : y[i] # c
    BY <1>2, <2>1
  <2> QED
    BY <2>1, <2>2 DEF y
<1>4. PICK b \in Seq(Byte) : /\ b = SubSeq(s, k + 1, Len(s)) /\ b # <<>>
                            /\ \A i \in 1 .. Len(b) : b[i] # c
  <2> DEFINE y == SubSeq(s, k + 1, Len(s))
  <2>1. y \in Seq(Byte) /\ Len(y) = (IF k + 1 <= Len(s) THEN Len(s) - (k + 1) + 1 ELSE 0)
        /\ \A i \in 1 .. Len(s) - (k + 1) + 1 : y[i] = s[(k + 1) + i - 1]
    BY <1>2, SubSeqProperties
  <2> HIDE DEF y
  <2>2. \A i \in 1 .. Len(y) : y[i] # c
    BY <1>2, <2>1
  <2>3. y # <<>>
    BY <2>1, EmptySeq
  <2> QED
    BY <2>1, <2>2, <2>3 DEF y
<1>5. RuleFromByteArray(NoRule, RuleToByteArray(Rule(a, b))) = [ok |-> TRUE, rule |-> Rule(a, b)]
  BY <1>1, <1>3, <1>4, RuleRestored
<1> QED
  BY <1>3, <1>4, <1>5

LEMMA PkgInvRestores == PkgInv => ConversionsRestore
<1> SUFFICES ASSUME PkgInv PROVE ConversionsRestore
  OBVIOUS
<1>1. PICK s \in Seq(Byte) : s = pkg
  BY DEF PkgInv, CutBehind
<1>2. HexInverse
  BY <1>1, HexRestores DEF HexInverse
<1>3. JoinRestoresSplit
  <2> SUFFICES ASSUME NEW c \in Bytes, pkg # <<>>
               PROVE  LET parts == StrSplit(pkg, c)
                      IN  StrJoin(parts, c) = Fill(Len(parts), Blank) \o pkg
    BY DEF JoinRestoresSplit
  <2>1. c \in Byte
    BY PkgAssumption DEF Byte
  <2>2. StrJoin(StrSplit(s, c), c) = Fill(Len(StrSplit(s, c)), Blank) \o s
    BY <1>1, <2>1, JoinRestores
  <2> QED
    BY <1>1, <2>2
<1>4. RuleSurvives
  <2> SUFFICES ASSUME NEW k \in 0 .. Len(pkg), Find(pkg, <<Newline>>, 1) = 0, k < Len(pkg)
               PROVE  LET rule == Rule(SubSeq(pkg, 1, k), SubSeq(pkg, k + 1, Len(pkg)))
                          read == RuleFromByteArray(NoRule, RuleToByteArray(rule))
                      IN  read.ok /\ read.rule = rule
    BY DEF RuleSurvives
  <2>1. PICK l \in 0 .. Len(s) : l = k
    BY <1>1
  <2>2. l < Len(s) /\ Find(s, <<Newline>>, 1) = 0
    BY <1>1, <2>1
  <2> DEFINE rule == Rule(SubSeq(s, 1, l), SubSeq(s, l + 1, Len(s)))
             read == RuleFromByteArray(NoRule, RuleToByteArray(rule))
  <2>3. read.ok /\ read.rule = rule
    BY <2>2, RuleOfPlaces
  <2> QED
    BY <1>1, <2>1, <2>3
<1> QED
  BY <1>2, <1>3, <1>4 DEF ConversionsRestore

\* For whatever was received: the hexadecimal form reads back as it was, what is
\* split at a byte joins to what it was behind the blanks StrJoin begins with, and a
\* rule saved as a document is read back (StrToHex, StrSplit, StrJoin, RuleToByteArray).
THEOREM ConversionSafety == PkgSpec => []ConversionsRestore
BY PkgInvariant, PkgInvRestores, PTL

(***************************************************************************)
(* Devices.  The keys of a map in their order, and lines put together.     *)
(***************************************************************************)

\* A map's keys in their order are all of them, each once.
LEMMA OrderedKeys ==
  ASSUME NEW N \in Nat, NEW S, S \subseteq 1 .. N
  PROVE  /\ Ordered(S) \in Seq(S)
         /\ \A i, j \in 1 .. Len(Ordered(S)) : Ordered(S)[i] = Ordered(S)[j] => i = j
         /\ \A x \in S : \E i \in 1 .. Len(Ordered(S)) : Ordered(S)[i] = x
<1> DEFINE n == Cardinality(S)
           f == [i \in 1 .. n |-> Nth(S, i)]
           Sorted(s) == \A i, j \in DOMAIN s : i < j => s[i] < s[j]
<1>1. /\ IsFiniteSet(S) /\ n \in Nat
      /\ \A i \in 1 .. n : Nth(S, i) \in S
      /\ \A i, j \in 1 .. n : i < j => Nth(S, i) < Nth(S, j)
  BY NthEnumerates DEF Enumerates
<1>2. S \subseteq Nat
  OBVIOUS
<1> HIDE DEF n
<1>3. f \in [1 .. n -> S] /\ Sorted(f)
  BY <1>1
<1>4. \A i, j \in 1 .. n : i # j => f[i] # f[j]
  <2>1. ASSUME NEW i \in 1 .. n, NEW j \in 1 .. n, i < j PROVE f[i] # f[j]
    <3>1. f[i] < f[j] /\ f[i] \in Nat /\ f[j] \in Nat
      BY <1>2, <1>3, <2>1
    <3> QED
      BY <3>1
  <2> HIDE DEF f
  <2>2. ASSUME NEW i \in 1 .. n, NEW j \in 1 .. n, i # j PROVE f[i] # f[j]
    <3>1. i < j \/ j < i
      BY <2>2
    <3> QED
      BY <2>1, <3>1
  <2> QED
    BY <2>2
<1> HIDE DEF f
<1>5. SetToSeqs(S) = {s \in [1 .. n -> S] : \A i, j \in 1 .. n : i # j => s[i] # s[j]}
  BY Zenon DEF SetToSeqs, n
<1>6. f \in SetToSeqs(S)
  BY <1>3, <1>4, <1>5
<1> DEFINE s == Ordered(S)
<1>7. s = CHOOSE t \in SetToSeqs(S) : Sorted(t)
  BY Zenon DEF Ordered
<1> HIDE DEF s
<1>8. s \in SetToSeqs(S)
  <2> HIDE DEF Sorted
  <2> QED
    BY <1>3, <1>6, <1>7
<1>9. s \in [1 .. n -> S] /\ \A i, j \in 1 .. n : i # j => s[i] # s[j]
  BY <1>5, <1>8
<1>10. s \in Seq(S) /\ Len(s) = n
  BY <1>1, <1>9
<1>11. s \in Surjection(1 .. n, S)
  <2>1. s \in Injection(1 .. n, S)
    BY <1>9 DEF Injection, IsInjective
  <2>2. IsFiniteSet(1 .. n) /\ Cardinality(1 .. n) = n
    BY <1>1, FS_Interval
  <2> QED
    BY <2>1, <2>2, <1>1, FS_Injection, FS_Surjection DEF n
<1>12. \A x \in S : \E i \in 1 .. n : s[i] = x
  BY <1>11 DEF Surjection
<1> QED
  BY <1>9, <1>10, <1>12 DEF s

\* What FlattenSeq has put together of the strings, one after the other.
FlatOf(strings) ==
  LET flatten[i \in 1 .. Len(strings)] ==
        IF i = 1 THEN strings[i] ELSE flatten[i - 1] \o strings[i]
  IN  flatten

\* FlattenSeq is that function at its last place.
LEMMA FlattenSeqIsFlat ==
  ASSUME NEW strings, Len(strings) # 0
  PROVE  FlattenSeq(strings) = FlatOf(strings)[Len(strings)]
BY Zenon DEF FlattenSeq, FlatOf

\* F is what has been put together of the strings, each behind the one before.
IsFlat(F, E, strings) ==
  /\ F \in [1 .. Len(strings) -> Seq(E)]
  /\ F[1] = strings[1]
  /\ \A i \in 2 .. Len(strings) : F[i] = F[i - 1] \o strings[i]

\* There is such a function, and FlatOf is it.
LEMMA FlatRecursion ==
  ASSUME NEW E, NEW strings \in Seq(Seq(E)), strings # <<>>
  PROVE  IsFlat(FlatOf(strings), E, strings)
<1> DEFINE N == Len(strings)
           T == Seq(E)
           Step == [i \in 1 .. N |-> [t \in T |-> t \o strings[i]]]
           Flat(g) == [i \in 1 .. N |-> IF i = 1 THEN strings[i] ELSE g[i - 1] \o strings[i]]
           F == FlatOf(strings)
<1>0. N \in Nat \ {0} /\ <<>> \in T
  BY EmptySeq
<1>00. \A i \in 1 .. N : strings[i] \in Seq(E)
  BY ElementOfSeq
<1>1. TellsForward(Step, N, T, <<>>)
  <2>1. ASSUME NEW i \in 1 .. N, NEW x \in T PROVE Step[i][x] \in T
    <3>1. x \o strings[i] \in T
      BY <1>00, ConcatProperties
    <3> QED
      BY <3>1
  <2> HIDE DEF Step, T
  <2> QED
    BY <2>1, <1>0 DEF TellsForward
<1>2. PICK f : ToldForward(f, Step, N, T, <<>>)
  BY <1>1, ForwardRecursion
<1> DEFINE g == [i \in 1 .. N |-> f[i]]
<1>3. /\ f \in [0 .. N -> T] /\ f[0] = <<>>
      /\ \A i \in 1 .. N : f[i] = f[i - 1] \o strings[i]
  <2>1. f \in [0 .. N -> T] /\ f[0] = <<>> /\ \A i \in 1 .. N : f[i] = Step[i][f[i - 1]]
    BY <1>2 DEF ToldForward
  <2>2. ASSUME NEW i \in 1 .. N PROVE f[i] = f[i - 1] \o strings[i]
    <3>1. i - 1 \in 0 .. N
      BY <1>0
    <3>2. f[i - 1] \in T
      BY <2>1, <3>1
    <3> QED
      BY <2>1, <3>2
  <2> QED
    BY <2>1, <2>2
<1> HIDE DEF T
<1>4. g = Flat(g)
  <2>1. ASSUME NEW i \in 1 .. N PROVE g[i] = Flat(g)[i]
    <3>1. CASE i = 1
      <4>1. f[1] = <<>> \o strings[1]
        <5>1. 1 \in 1 .. N /\ 1 - 1 = 0
          BY <1>0
        <5>2. f[1] = f[1 - 1] \o strings[1]
          BY <1>3, <5>1
        <5> QED
          BY <1>3, <5>1, <5>2
      <4>2. strings[1] \in Seq(E)
        BY <1>0, <1>00
      <4>3. <<>> \o strings[1] = strings[1]
        BY <4>2, ConcatEmptySeq
      <4>4. g[i] = strings[i]
        BY <3>1, <4>1, <4>3
      <4>5. Flat(g)[i] = strings[i]
        BY <3>1, Zenon
      <4> QED
        BY <4>4, <4>5
    <3>2. CASE i # 1
      <4>1. i - 1 \in 1 .. N
        BY <3>2
      <4>2. g[i] = g[i - 1] \o strings[i]
        BY <1>3, <4>1
      <4>3. Flat(g)[i] = g[i - 1] \o strings[i]
        BY <3>2
      <4> QED
        BY <4>2, <4>3
    <3> QED
      BY <3>1, <3>2
  <2> QED
    BY <2>1
<1>5. F = Flat(F)
  <2> HIDE DEF g
  <2> QED
    BY <1>4, Zenon DEF FlatOf
<1> HIDE DEF F, g
<1>6. F[1] = strings[1]
  <2>1. 1 \in 1 .. N
    BY <1>0
  <2>2. F[1] = Flat(F)[1]
    BY <1>5
  <2> QED
    BY <2>1, <2>2
<1>7. ASSUME NEW i \in 2 .. N PROVE F[i] = F[i - 1] \o strings[i]
  <2>1. i \in 1 .. N /\ i # 1
    BY <1>0
  <2>2. F[i] = Flat(F)[i]
    BY <1>5
  <2> QED
    BY <2>1, <2>2
<1>8. \A i \in 1 .. N : F[i] \in T
  <2> DEFINE S == {i \in 1 .. N : F[i] \in T}
  <2>1. PICK M \in Nat : M + 1 = N
    <3>1. N - 1 \in Nat /\ (N - 1) + 1 = N
      BY <1>0
    <3> QED
      BY <3>1
  <2>2. 1 \in S
    <3>1. 1 \in 1 .. N /\ strings[1] \in T
      BY <1>0, <1>00 DEF T
    <3> QED
      BY <1>6, <3>1
  <2>3. ASSUME NEW i \in 1 .. M, i \in S PROVE i + 1 \in S
    <3>1. i + 1 \in 2 .. N /\ i + 1 \in 1 .. N /\ (i + 1) - 1 = i
      BY <2>1
    <3>2. F[i + 1] = F[i] \o strings[i + 1]
      BY <1>7, <3>1
    <3>3. F[i] \in Seq(E) /\ strings[i + 1] \in Seq(E)
      BY <2>3, <3>1, <1>00 DEF T
    <3>4. F[i] \o strings[i + 1] \in Seq(E)
      BY <3>3, ConcatProperties
    <3> QED
      BY <3>1, <3>2, <3>4 DEF T
  <2> HIDE DEF S
  <2>4. 1 .. M + 1 \subseteq S
    BY <2>2, <2>3, PlacesForward
  <2> QED
    BY <2>1, <2>4 DEF S
<1>9. F \in [1 .. N -> T]
  BY <1>5, <1>8
<1> QED
  BY <1>6, <1>7, <1>9 DEF F, T, IsFlat

\* What was put together stays in front of what follows.
LEMMA FlatKeeps ==
  ASSUME NEW E, NEW strings \in Seq(Seq(E)), NEW F, IsFlat(F, E, strings), NEW i \in 1 .. Len(strings)
  PROVE  \A j \in i .. Len(strings) :
           Len(F[i]) <= Len(F[j]) /\ \A k \in 1 .. Len(F[i]) : F[j][k] = F[i][k]
<1> DEFINE N == Len(strings)
           Keeps(j) == Len(F[i]) <= Len(F[j]) /\ \A k \in 1 .. Len(F[i]) : F[j][k] = F[i][k]
           S == {n \in Nat : i + n <= N => Keeps(i + n)}
<1>1. /\ N \in Nat
      /\ \A j \in 1 .. N : F[j] \in Seq(E) /\ strings[j] \in Seq(E) /\ Len(F[j]) \in Nat
      /\ \A j \in 2 .. N : F[j] = F[j - 1] \o strings[j]
  <2>1. F \in [1 .. N -> Seq(E)] /\ \A j \in 2 .. N : F[j] = F[j - 1] \o strings[j]
    BY DEF IsFlat
  <2>2. \A j \in 1 .. N : strings[j] \in Seq(E)
    BY ElementOfSeq
  <2>3. \A j \in 1 .. N : F[j] \in Seq(E)
    BY <2>1
  <2>5. N \in Nat
    OBVIOUS
  <2>4. \A j \in 1 .. N : Len(F[j]) \in Nat
    BY <2>3
  <2> QED
    BY <2>1, <2>2, <2>3, <2>4, <2>5
<1>2. 0 \in S
  <2>1. i + 0 = i /\ Len(F[i]) \in Nat
    BY <1>1
  <2>2. Keeps(i)
    BY <2>1
  <2> QED
    BY <2>1, <2>2
<1>3. ASSUME NEW n \in Nat, n \in S PROVE n + 1 \in S
  <2> SUFFICES ASSUME i + (n + 1) <= N PROVE Keeps(i + (n + 1))
    <3> HIDE DEF Keeps
    <3> QED
      OBVIOUS
  <2> DEFINE j == i + n
  <2>1. j \in 1 .. N /\ j + 1 \in 2 .. N /\ j + 1 \in 1 .. N /\ (j + 1) - 1 = j /\ i + (n + 1) = j + 1
    BY <1>1
  <2>2. Keeps(j)
    <3>1. i + n <= N
      BY <2>1
    <3> HIDE DEF Keeps
    <3> QED
      BY <1>3, <3>1
  <2> HIDE DEF j
  <2>3. PICK a \in Seq(E) : a = F[j]
    BY <1>1, <2>1
  <2>4. PICK b \in Seq(E) : b = strings[j + 1]
    BY <1>1, <2>1
  <2>5. F[j + 1] = a \o b
    BY <1>1, <2>1, <2>3, <2>4
  <2>6. Len(a \o b) = Len(a) + Len(b) /\ \A k \in 1 .. Len(a) : (a \o b)[k] = a[k]
    BY ConcatProperties
  <2>7. Len(a) \in Nat /\ Len(b) \in Nat /\ Len(F[i]) \in Nat
    BY <1>1
  <2>8. Keeps(j + 1)
    <3>1. Len(F[i]) <= Len(F[j + 1])
      BY <2>2, <2>3, <2>5, <2>6, <2>7
    <3>2. ASSUME NEW k \in 1 .. Len(F[i]) PROVE F[j + 1][k] = F[i][k]
      <4>1. k \in 1 .. Len(a)
        BY <2>2, <2>3, <2>7
      <4> QED
        BY <4>1, <2>2, <2>3, <2>5, <2>6
    <3> QED
      BY <3>1, <3>2
  <2> QED
    BY <2>1, <2>8
<1>4. Nat \subseteq S
  <2> HIDE DEF S
  <2> QED
    BY <1>2, <1>3, NumbersInduction
<1>5. ASSUME NEW j \in i .. N PROVE Keeps(j)
  <2>1. j - i \in Nat /\ i + (j - i) = j /\ j <= N
    BY <1>1
  <2>2. j - i \in S
    BY <1>4, <2>1
  <2> QED
    BY <2>1, <2>2
<1> QED
  BY <1>5

\* Find stops at the latest where the string stands.
LEMMA FoundNotBehind ==
  ASSUME NEW str, NEW what, NEW i \in Nat \ {0}, Len(str) \in Nat, Len(what) \in Nat,
         NEW j \in Nat, i <= j, StandsAt(str, what, j)
  PROVE  Find(str, what, i) <= j
<1> DEFINE R == Find(str, what, i)
<1>1. \A k \in Nat : (i <= k /\ k + Len(what) <= Len(str) + 1 /\ (R = 0 \/ k < R))
                       => SubSeq(str, k, k + Len(what) - 1) # what
  BY FindResult
<1>2. R \in Nat
  BY FindResult
<1> HIDE DEF R
<1>3. R <= j
  BY <1>1, <1>2 DEF StandsAt
<1> QED
  BY <1>3 DEF R

\* The splitter found is the first.
LEMMA FoundUpTo ==
  ASSUME NEW E, NEW str \in Seq(E), NEW c \in E, NEW i \in 1 .. Len(str), NEW p \in i .. Len(str),
         str[p] = c
  PROVE  Find(str, <<c>>, i) \in i .. p /\ str[Find(str, <<c>>, i)] = c
<1> DEFINE F == Find(str, <<c>>, i)
<1>1. F # 0
  BY NotFound
<1>2. F \in i .. Len(str) /\ str[F] = c
  BY <1>1, FindSplitter
<1>3. F <= p
  <2>1. PICK what \in Seq(E) : what = <<c>>
    <3>1. <<c>> \in Seq(E)
      OBVIOUS
    <3> QED
      BY <3>1
  <2>2. PICK o \in Nat \ {0}, l \in Nat, q \in 1 .. Len(str) : o = i /\ l = p /\ q = p
    OBVIOUS
  <2>3. StandsAt(str, <<c>>, q)
    BY <2>2, OneByteStandsAt
  <2>4. Len(str) \in Nat /\ Len(what) \in Nat /\ o <= l /\ StandsAt(str, what, l)
    BY <2>1, <2>2, <2>3
  <2>5. Find(str, what, o) <= l
    BY <2>4, FoundNotBehind
  <2> QED
    BY <2>1, <2>2, <2>5
<1> HIDE DEF F
<1>4. F \in i .. p /\ str[F] = c
  BY <1>2, <1>3
<1> QED
  BY <1>4 DEF F

\* Where there is no splitter, none is found.
LEMMA NoSplitter ==
  ASSUME NEW E, NEW str \in Seq(E), NEW c \in E, NEW i \in 1 .. Len(str),
         \A j \in i .. Len(str) : str[j] # c
  PROVE  Find(str, <<c>>, i) = 0
BY FindSplitter

\* A splitter with none before it is the one that is found.
LEMMA FindFirstSplitter ==
  ASSUME NEW E, NEW str \in Seq(E), NEW c \in E, NEW i \in 1 .. Len(str), NEW p \in i .. Len(str),
         str[p] = c, \A k \in i .. p - 1 : str[k] # c
  PROVE  Find(str, <<c>>, i) = p
<1> DEFINE F == Find(str, <<c>>, i)
<1>1. F \in i .. p /\ str[F] = c
  BY FoundUpTo
<1> HIDE DEF F
<1>2. F = p
  BY <1>1
<1> QED
  BY <1>2 DEF F

\* The text whose lines the strings are, as the documents write it: a splitter behind
\* every line, and the last one taken away.
LinesOf(strings, c) == [i \in DOMAIN strings |-> strings[i] \o <<c>>]

\* A line is its string and the splitter behind it.
LEMMA LinesTyped ==
  ASSUME NEW E, NEW c \in E, NEW strings \in Seq(Seq(E))
  PROVE  /\ LinesOf(strings, c) \in Seq(Seq(E)) /\ Len(LinesOf(strings, c)) = Len(strings)
         /\ \A i \in 1 .. Len(strings) :
              LET line == LinesOf(strings, c)[i]
              IN  /\ line \in Seq(E) /\ Len(line) = Len(strings[i]) + 1
                  /\ line[Len(strings[i]) + 1] = c
                  /\ \A k \in 1 .. Len(strings[i]) : line[k] = strings[i][k]
<1>1. DOMAIN strings = 1 .. Len(strings) /\ Len(strings) \in Nat
  BY LenProperties
<1>2. ASSUME NEW i \in 1 .. Len(strings)
      PROVE  LET line == LinesOf(strings, c)[i]
             IN  /\ line \in Seq(E) /\ Len(line) = Len(strings[i]) + 1
                 /\ line[Len(strings[i]) + 1] = c
                 /\ \A k \in 1 .. Len(strings[i]) : line[k] = strings[i][k]
  <2>1. PICK s \in Seq(E) : s = strings[i]
    BY ElementOfSeq
  <2>2. PICK d \in Seq(E) : d = <<c>>
    <3>1. <<c>> \in Seq(E)
      OBVIOUS
    <3> QED
      BY <3>1
  <2>3. LinesOf(strings, c)[i] = s \o d
    BY <1>1, <2>1, <2>2 DEF LinesOf
  <2>4. /\ s \o d \in Seq(E) /\ Len(s \o d) = Len(s) + Len(d)
        /\ \A k \in 1 .. Len(s) + Len(d) : (s \o d)[k] = IF k <= Len(s) THEN s[k] ELSE d[k - Len(s)]
    BY ConcatProperties
  <2>5. Len(d) = 1 /\ d[1] = c /\ Len(s) \in Nat
    BY <2>2
  <2>6. /\ Len(s) + 1 \in 1 .. Len(s) + Len(d) /\ ~(Len(s) + 1 <= Len(s)) /\ (Len(s) + 1) - Len(s) = 1
        /\ \A k \in 1 .. Len(s) : k \in 1 .. Len(s) + Len(d) /\ k <= Len(s)
    BY <2>5
  <2>7. /\ s \o d \in Seq(E) /\ Len(s \o d) = Len(s) + 1 /\ (s \o d)[Len(s) + 1] = c
        /\ \A k \in 1 .. Len(s) : (s \o d)[k] = s[k]
    BY <2>4, <2>5, <2>6
  <2> QED
    BY <2>1, <2>3, <2>7
<1>3. LinesOf(strings, c) \in [1 .. Len(strings) -> Seq(E)]
  <2>1. \A i \in 1 .. Len(strings) : LinesOf(strings, c)[i] \in Seq(E)
    BY <1>2
  <2> QED
    BY <1>1, <2>1 DEF LinesOf
<1>4. LinesOf(strings, c) \in Seq(Seq(E)) /\ Len(LinesOf(strings, c)) = Len(strings)
  BY <1>1, <1>3
<1> QED
  BY <1>2, <1>4

\* Where the i-th line begins in what was put together as F.
LineBegin(F, i) == IF i = 1 THEN 1 ELSE Len(F[i - 1]) + 1

\* From b to e the text t holds the string s, and behind it the splitter.
HoldsLine(t, s, c, b, e) ==
  /\ b \in 1 .. e /\ e = b + Len(s) /\ e <= Len(t)
  /\ t[e] = c
  /\ \A k \in 1 .. Len(s) : t[b + k - 1] = s[k]

\* A line begins where what was put together before it ends, and ends with itself.
LEMMA LinePlaces ==
  ASSUME NEW E, NEW c \in E, NEW strings \in Seq(Seq(E)), NEW F,
         IsFlat(F, E, LinesOf(strings, c)), NEW i \in 1 .. Len(strings)
  PROVE  HoldsLine(F[i], strings[i], c, LineBegin(F, i), Len(F[i]))
<1>1. PICK L \in Seq(Seq(E)) : L = LinesOf(strings, c)
  BY LinesTyped
<1>2. PICK s \in Seq(E) : s = strings[i]
  BY ElementOfSeq
<1>3. PICK line \in Seq(E) : /\ line = L[i] /\ Len(line) = Len(s) + 1 /\ line[Len(s) + 1] = c
                            /\ \A k \in 1 .. Len(s) : line[k] = s[k]
  BY <1>1, <1>2, LinesTyped
<1>4. Len(L) = Len(strings) /\ Len(s) \in Nat /\ Len(strings) \in Nat
  BY <1>1, LinesTyped
<1>5. /\ F \in [1 .. Len(L) -> Seq(E)] /\ F[1] = L[1]
      /\ \A j \in 2 .. Len(L) : F[j] = F[j - 1] \o L[j]
  BY <1>1 DEF IsFlat
<1>6. CASE i = 1
  <2>1. F[i] = line
    BY <1>3, <1>5, <1>6
  <2>2. LineBegin(F, i) = 1
    BY <1>6 DEF LineBegin
  <2>3. HoldsLine(line, s, c, 1, Len(line))
    <3>1. 1 \in 1 .. Len(line) /\ Len(line) = 1 + Len(s) /\ Len(line) <= Len(line) /\ line[Len(line)] = c
      BY <1>3, <1>4
    <3>2. ASSUME NEW k \in 1 .. Len(s) PROVE line[1 + k - 1] = s[k]
      <4>1. 1 + k - 1 = k
        OBVIOUS
      <4> QED
        BY <4>1, <1>3
    <3> QED
      BY <3>1, <3>2 DEF HoldsLine
  <2> QED
    BY <1>2, <2>1, <2>2, <2>3
<1>7. CASE i # 1
  <2>1. i \in 2 .. Len(L) /\ i - 1 \in 1 .. Len(L)
    BY <1>4, <1>7
  <2>2. PICK a \in Seq(E) : a = F[i - 1]
    BY <1>5, <2>1
  <2>3. F[i] = a \o line
    BY <1>3, <1>5, <2>1, <2>2
  <2>4. /\ Len(a \o line) = Len(a) + Len(line)
        /\ \A k \in 1 .. Len(a) + Len(line) : (a \o line)[k] = IF k <= Len(a) THEN a[k] ELSE line[k - Len(a)]
    BY ConcatProperties
  <2>5. LineBegin(F, i) = Len(a) + 1
    BY <1>7, <2>2 DEF LineBegin
  <2>6. Len(a) \in Nat
    OBVIOUS
  <2> DEFINE t == a \o line
  <2>7. ASSUME NEW k \in 1 .. Len(line) PROVE t[Len(a) + k] = line[k]
    <3>1. Len(a) + k \in 1 .. Len(a) + Len(line) /\ ~(Len(a) + k <= Len(a)) /\ (Len(a) + k) - Len(a) = k
      BY <2>6
    <3> QED
      BY <3>1, <2>4
  <2>8. Len(t) = Len(a) + Len(line)
    BY <2>4
  <2> HIDE DEF t
  <2>9. HoldsLine(t, s, c, Len(a) + 1, Len(t))
    <3>1. Len(a) + 1 \in 1 .. Len(t) /\ Len(t) = (Len(a) + 1) + Len(s) /\ Len(t) <= Len(t)
      BY <1>3, <1>4, <2>6, <2>8
    <3>2. t[Len(t)] = c
      <4>1. Len(s) + 1 \in 1 .. Len(line) /\ Len(t) = Len(a) + (Len(s) + 1)
        BY <1>3, <1>4, <2>6, <2>8
      <4> QED
        BY <4>1, <1>3, <2>7
    <3>3. ASSUME NEW k \in 1 .. Len(s) PROVE t[(Len(a) + 1) + k - 1] = s[k]
      <4>1. k \in 1 .. Len(line) /\ (Len(a) + 1) + k - 1 = Len(a) + k
        BY <1>3, <1>4, <2>6
      <4> QED
        BY <4>1, <1>3, <2>7
    <3> QED
      BY <3>1, <3>2, <3>3 DEF HoldsLine
  <2> QED
    BY <1>2, <2>3, <2>5, <2>9 DEF t
<1> QED
  BY <1>6, <1>7

\* In the whole text too.
LEMMA TextHoldsLines ==
  ASSUME NEW E, NEW c \in E, NEW strings \in Seq(Seq(E)), NEW F,
         IsFlat(F, E, LinesOf(strings, c)), NEW i \in 1 .. Len(strings)
  PROVE  HoldsLine(F[Len(strings)], strings[i], c, LineBegin(F, i), Len(F[i]))
<1>1. PICK L \in Seq(Seq(E)) : L = LinesOf(strings, c)
  BY LinesTyped
<1>2. PICK n \in i .. Len(L) : n = Len(strings)
  <2>1. Len(L) = Len(strings) /\ Len(strings) \in Nat
    BY <1>1, LinesTyped
  <2> QED
    BY <2>1
<1>3. PICK j \in 1 .. Len(L) : j = i
  BY <1>2
<1>4. IsFlat(F, E, L)
  BY <1>1
<1>5. Len(F[j]) <= Len(F[n]) /\ \A k \in 1 .. Len(F[j]) : F[n][k] = F[j][k]
  <2>1. \A m \in j .. Len(L) : Len(F[j]) <= Len(F[m]) /\ \A k \in 1 .. Len(F[j]) : F[m][k] = F[j][k]
    BY <1>4, FlatKeeps
  <2>2. n \in j .. Len(L)
    BY <1>2, <1>3
  <2> QED
    BY <2>1, <2>2
<1> DEFINE b == LineBegin(F, i)
           e == Len(F[i])
           t == F[i]
           u == F[Len(strings)]
           s == strings[i]
<1>6. HoldsLine(t, s, c, b, e)
  BY LinePlaces
<1>7. e <= Len(u) /\ \A k \in 1 .. e : u[k] = t[k]
  BY <1>2, <1>3, <1>5
<1>8. s \in Seq(E)
  BY ElementOfSeq
<1>9. F[i] \in Seq(E)
  <2>1. F \in [1 .. Len(L) -> Seq(E)]
    BY <1>4 DEF IsFlat
  <2> QED
    BY <2>1, <1>3
<1>10. e \in Nat
  BY <1>9
<1> HIDE DEF b, e, t, u, s
<1>11. b \in 1 .. e /\ e = b + Len(s) /\ t[e] = c /\ \A k \in 1 .. Len(s) : t[b + k - 1] = s[k]
  BY <1>6 DEF HoldsLine
<1>12. u[e] = c
  <2>1. e \in 1 .. e
    BY <1>10, <1>11
  <2> QED
    BY <2>1, <1>7, <1>11
<1>13. ASSUME NEW k \in 1 .. Len(s) PROVE u[b + k - 1] = s[k]
  <2>1. b + k - 1 \in 1 .. e
    BY <1>8, <1>10, <1>11
  <2> QED
    BY <2>1, <1>7, <1>11
<1>14. HoldsLine(u, s, c, b, e)
  BY <1>7, <1>11, <1>12, <1>13 DEF HoldsLine
<1> QED
  BY <1>14 DEF b, e, u, s

(***************************************************************************)
(* Lines that hold no splitter are split into themselves.                  *)
(***************************************************************************)

\* A string whose characters stand in a text from b on is that part of it.
LEMMA Extracted ==
  ASSUME NEW E, NEW x \in Seq(E), NEW s \in Seq(E), NEW b \in Nat \ {0}, NEW e \in Nat,
         e = b + Len(s), e <= Len(x) + 1, \A k \in 1 .. Len(s) : x[b + k - 1] = s[k]
  PROVE  SubSeq(x, b, e - 1) = s
<1> DEFINE y == SubSeq(x, b, e - 1)
<1>1. Len(s) \in Nat /\ Len(x) \in Nat
  OBVIOUS
<1>2. y \in Seq(E) /\ Len(y) = Len(s) /\ \A k \in 1 .. Len(s) : y[k] = x[b + k - 1]
  <2>1. \A k \in b .. e - 1 : x[k] \in E
    BY <1>1
  <2>2. y \in Seq(E) /\ Len(y) = (IF b <= e - 1 THEN (e - 1) - b + 1 ELSE 0)
        /\ \A k \in 1 .. (e - 1) - b + 1 : y[k] = x[b + k - 1]
    BY <2>1, SubSeqProperties
  <2> HIDE DEF y
  <2> QED
    BY <2>2, <1>1
<1> HIDE DEF y
<1>3. y = s
  BY <1>2, SeqEqual
<1> QED
  BY <1>3 DEF y

\* The splitter is not in the string.
FreeOf(s, c) == \A k \in 1 .. Len(s) : s[k] # c

\* X is the text t without its last character.
Shortened(X, t) == Len(t) = Len(X) + 1 /\ \A k \in 1 .. Len(X) : X[k] = t[k]

\* A line of the text t, in the text X that is t without its end: its string is that
\* part of X, and in X too none of its characters is the splitter.
LEMMA LineIn ==
  ASSUME NEW E, NEW c \in E, NEW X \in Seq(E), NEW t \in Seq(E), NEW s \in Seq(E),
         NEW b, NEW e, Shortened(X, t), HoldsLine(t, s, c, b, e), FreeOf(s, c)
  PROVE  /\ b \in Nat \ {0} /\ e \in Nat /\ e = b + Len(s) /\ e <= Len(X) + 1
         /\ SubSeq(X, b, e - 1) = s
         /\ \A j \in b .. e - 1 : X[j] # c
<1>1. /\ Len(s) \in Nat /\ Len(X) \in Nat /\ Len(t) = Len(X) + 1
      /\ b \in 1 .. e /\ e = b + Len(s) /\ e <= Len(t)
  BY LenProperties DEF Shortened, HoldsLine
<1>2. PICK B \in Nat \ {0}, e1 \in Nat : B = b /\ e1 = e
  <2>1. b \in Nat \ {0} /\ e \in Nat
    BY <1>1
  <2> QED
    BY <2>1
<1>3. ASSUME NEW k \in 1 .. Len(s) PROVE X[B + k - 1] = s[k] /\ s[k] # c
  <2>1. B + k - 1 \in 1 .. Len(X)
    BY <1>1, <1>2
  <2>2. X[B + k - 1] = t[B + k - 1]
    BY <2>1 DEF Shortened
  <2>3. t[B + k - 1] = s[k] /\ s[k] # c
    BY <1>2, Zenon DEF HoldsLine, FreeOf
  <2> QED
    BY <2>2, <2>3, Zenon
<1>4. e1 = B + Len(s) /\ e1 <= Len(X) + 1
  BY <1>1, <1>2
<1>5. SubSeq(X, B, e1 - 1) = s
  BY <1>3, <1>4, Extracted
<1>6. ASSUME NEW j \in B .. e1 - 1 PROVE X[j] # c
  <2>1. j - B + 1 \in 1 .. Len(s) /\ B + (j - B + 1) - 1 = j
    BY <1>1, <1>4
  <2>2. PICK k \in 1 .. Len(s) : B + k - 1 = j
    BY <2>1
  <2>3. X[B + k - 1] = s[k] /\ s[k] # c
    BY <1>3
  <2> QED
    BY <2>2, <2>3, Zenon
<1> QED
  BY <1>2, <1>4, <1>5, <1>6, Zenon

\* Strings to be lines: no splitter in them, and something in the last.
AreLines(strings, n, c) ==
  n = Len(strings) /\ (\A i \in 1 .. n : FreeOf(strings[i], c)) /\ strings[n] # <<>>

\* A text that was put together of lines without the splitter, the last one not
\* empty, is split into these lines.
LEMMA LinesSplit ==
  ASSUME NEW E, NEW c \in E, NEW strings \in Seq(Seq(E)), NEW n \in Nat \ {0}, AreLines(strings, n, c)
  PROVE  /\ StrChop(FlattenSeq(LinesOf(strings, c)), 1) \in Seq(E)
         /\ StrChop(FlattenSeq(LinesOf(strings, c)), 1) # <<>>
         /\ StrSplit(StrChop(FlattenSeq(LinesOf(strings, c)), 1), c) = strings
<1> SUFFICES ASSUME n = Len(strings), \A i \in 1 .. n : FreeOf(strings[i], c), strings[n] # <<>>
             PROVE  /\ StrChop(FlattenSeq(LinesOf(strings, c)), 1) \in Seq(E)
                    /\ StrChop(FlattenSeq(LinesOf(strings, c)), 1) # <<>>
                    /\ StrSplit(StrChop(FlattenSeq(LinesOf(strings, c)), 1), c) = strings
  BY Zenon DEF AreLines
<1>1. PICK L \in Seq(Seq(E)) : L = LinesOf(strings, c) /\ Len(L) = n
  BY LinesTyped
<1> DEFINE F == FlatOf(L)
           x == StrChop(FlattenSeq(L), 1)
<1>2. IsFlat(F, E, L) /\ FlattenSeq(L) = F[n]
  <2>1. L # <<>> /\ Len(L) # 0
    BY <1>1
  <2> QED
    BY <1>1, <2>1, FlatRecursion, FlattenSeqIsFlat
<1> HIDE DEF F
<1>3. \A i \in 1 .. n : F[i] \in Seq(E) /\ Len(F[i]) \in Nat
  <2>1. F \in [1 .. n -> Seq(E)]
    BY <1>1, <1>2 DEF IsFlat
  <2>2. \A i \in 1 .. n : F[i] \in Seq(E)
    BY <2>1
  <2> QED
    BY <2>2, LenProperties
<1>4. PICK t \in Seq(E) : t = F[n]
  BY <1>3
<1>5. \A i \in 1 .. n : HoldsLine(t, strings[i], c, LineBegin(F, i), Len(F[i]))
  BY <1>1, <1>2, <1>4, TextHoldsLines
<1>6. \A i \in 1 .. n : strings[i] \in Seq(E)
  BY ElementOfSeq
<1>7. PICK last \in Seq(E) : last = strings[n] /\ Len(last) \in Nat \ {0}
  <2>1. strings[n] \in Seq(E)
    BY <1>6
  <2>2. Len(strings[n]) \in Nat \ {0}
    BY <2>1, EmptySeq
  <2> QED
    BY <2>1, <2>2
<1>8. /\ Len(t) = LineBegin(F, n) + Len(last) /\ LineBegin(F, n) \in Nat \ {0} /\ Len(t) \in Nat
  <2>1. HoldsLine(t, strings[n], c, LineBegin(F, n), Len(F[n]))
    BY <1>5
  <2>2. Len(t) = LineBegin(F, n) + Len(last) /\ LineBegin(F, n) \in 1 .. Len(t)
    BY <1>4, <1>7, <2>1 DEF HoldsLine
  <2>3. Len(t) \in Nat
    OBVIOUS
  <2> HIDE DEF LineBegin
  <2> QED
    BY <2>2, <2>3
<1>9. Len(t) >= 2
  BY <1>7, <1>8
<1>10. x = SubSeq(t, 1, Len(t) - 1)
  BY <1>2, <1>4, <1>9 DEF StrChop
<1> HIDE DEF x
<1>11. x \in Seq(E) /\ Len(x) = Len(t) - 1 /\ \A k \in 1 .. Len(x) : x[k] = t[k]
  <2> DEFINE y == SubSeq(t, 1, Len(t) - 1)
  <2>1. \A k \in 1 .. Len(t) - 1 : t[k] \in E
    OBVIOUS
  <2>2. y \in Seq(E) /\ Len(y) = (IF 1 <= Len(t) - 1 THEN (Len(t) - 1) - 1 + 1 ELSE 0)
        /\ \A k \in 1 .. (Len(t) - 1) - 1 + 1 : y[k] = t[1 + k - 1]
    BY <1>8, <2>1, SubSeqProperties
  <2> HIDE DEF y
  <2>3. \A k \in 1 .. Len(y) : k \in 1 .. (Len(t) - 1) - 1 + 1 /\ 1 + k - 1 = k
    BY <2>2, <1>9
  <2> QED
    BY <2>2, <2>3, <1>9, <1>10 DEF y
<1>12. PICK X \in Seq(E) : X = x
  BY <1>11
<1> DEFINE R == PartsOf(X, c)
<1>13. \A i \in 1 .. Len(X) :
         R[i] = IF Find(X, <<c>>, i) \in {0, Len(X)} THEN <<SubSeq(X, i, Len(X))>>
                ELSE <<SubSeq(X, i, Find(X, <<c>>, i) - 1)>> \o R[Find(X, <<c>>, i) + 1]
  <2>1. IsParts(R, E, X, c)
    BY PartsRecursion
  <2> HIDE DEF R
  <2> QED
    BY <2>1 DEF IsParts
<1> HIDE DEF R
<1>14. ASSUME NEW i \in 1 .. n
       PROVE  \E s \in Seq(E), b \in Nat \ {0}, e \in Nat :
                /\ s = strings[i] /\ b = LineBegin(F, i) /\ e = Len(F[i])
                /\ e = b + Len(s) /\ e <= Len(X) + 1 /\ t[e] = c
                /\ SubSeq(X, b, e - 1) = s
                /\ \A j \in b .. e - 1 : X[j] # c
  <2>1. PICK s \in Seq(E) : s = strings[i]
    BY <1>6
  <2>2. HoldsLine(t, s, c, LineBegin(F, i), Len(F[i]))
    BY <1>5, <2>1
  <2>3. FreeOf(s, c)
    BY <2>1, Zenon
  <2>4. Shortened(X, t)
    <3>1. Len(t) = Len(X) + 1
      BY <1>8, <1>11, <1>12
    <3>2. \A k \in 1 .. Len(X) : X[k] = t[k]
      BY <1>11, <1>12, Zenon
    <3> QED
      BY <3>1, <3>2, Zenon DEF Shortened
  <2> DEFINE b == LineBegin(F, i)
             e == Len(F[i])
  <2> HIDE DEF b, e
  <2>5. HoldsLine(t, s, c, b, e)
    BY <2>2 DEF b, e
  <2>6. /\ b \in Nat \ {0} /\ e \in Nat /\ e = b + Len(s) /\ e <= Len(X) + 1
        /\ SubSeq(X, b, e - 1) = s
        /\ \A j \in b .. e - 1 : X[j] # c
    BY <2>3, <2>4, <2>5, LineIn
  <2>7. t[e] = c
    BY <2>5, Zenon DEF HoldsLine
  <2> QED
    BY <2>1, <2>6, <2>7, Zenon DEF b, e
<1>15. R[LineBegin(F, n)] = <<last>>
  <2>1. PICK s \in Seq(E), b \in Nat \ {0}, e \in Nat :
          /\ s = strings[n] /\ b = LineBegin(F, n) /\ e = Len(F[n])
          /\ e = b + Len(s) /\ e <= Len(X) + 1 /\ t[e] = c
          /\ SubSeq(X, b, e - 1) = s
          /\ \A j \in b .. e - 1 : X[j] # c
    <3>1. n \in 1 .. n
      OBVIOUS
    <3> QED
      BY <3>1, <1>14, Zenon
  <2>2. s = last /\ e = Len(t) /\ b <= Len(X) /\ Len(X) = e - 1 /\ Len(s) \in Nat
    BY <2>1, <1>4, <1>7, <1>8, <1>11, <1>12
  <2>5. PICK o \in 1 .. Len(X) : o = b
    <3>1. b \in 1 .. Len(X)
      BY <2>2
    <3> QED
      BY <3>1
  <2>6. Find(X, <<c>>, o) = 0
    <3>1. o .. Len(X) = b .. e - 1
      BY <2>2, <2>5
    <3>2. \A j \in o .. Len(X) : X[j] # c
      BY <3>1, <2>1, Zenon
    <3> QED
      BY <3>2, NoSplitter
  <2>7. R[o] = <<SubSeq(X, o, Len(X))>>
    BY <1>13, <2>6
  <2> QED
    BY <2>1, <2>2, <2>5, <2>7, Zenon
<1>16. ASSUME NEW i \in 1 .. n, i # n
       PROVE  R[LineBegin(F, i)] = <<strings[i]>> \o R[LineBegin(F, i + 1)]
  <2>1. PICK s \in Seq(E), b \in Nat \ {0}, e \in Nat :
          /\ s = strings[i] /\ b = LineBegin(F, i) /\ e = Len(F[i])
          /\ e = b + Len(s) /\ e <= Len(X) + 1 /\ t[e] = c
          /\ SubSeq(X, b, e - 1) = s
          /\ \A j \in b .. e - 1 : X[j] # c
    BY <1>14, Zenon
  <2>2. e + 2 <= Len(t)
    <3>1. n - 1 \in i .. Len(L) /\ i \in 1 .. Len(L) /\ n # 1 /\ n - 1 \in 1 .. n
      <4>1. i # n /\ Len(L) = n
        BY <1>1, <1>16
      <4>2. \A p \in Nat \ {0} : \A q \in 1 .. p : q # p => p - 1 \in q .. p /\ p # 1 /\ p - 1 \in 1 .. p
        OBVIOUS
      <4>3. n - 1 \in i .. n /\ n # 1 /\ n - 1 \in 1 .. n
        BY <4>1, <4>2, Zenon
      <4> QED
        BY <4>1, <4>3
    <3>2. Len(F[i]) <= Len(F[n - 1])
      BY <3>1, <1>2, FlatKeeps
    <3>3. LineBegin(F, n) = Len(F[n - 1]) + 1
      BY <3>1 DEF LineBegin
    <3>4. Len(F[n - 1]) \in Nat
      BY <3>1, <1>3
    <3> DEFINE begin == LineBegin(F, n)
               before == Len(F[n - 1])
    <3>5. e <= before /\ begin = before + 1 /\ before \in Nat
      BY <2>1, <3>2, <3>3, <3>4
    <3>6. Len(t) = begin + Len(last) /\ Len(last) \in Nat \ {0}
      BY <1>7, <1>8
    <3> HIDE DEF begin, before
    <3> QED
      BY <3>5, <3>6
  <2>3. e <= Len(X) /\ e # Len(X) /\ b \in 1 .. Len(X) /\ e \in b .. Len(X) /\ Len(s) \in Nat
    <3>1. Len(X) = Len(t) - 1 /\ Len(t) \in Nat /\ Len(s) \in Nat
      BY <1>8, <1>11, <1>12
    <3>2. e = b + Len(s)
      BY <2>1
    <3> QED
      BY <2>2, <3>1, <3>2
  <2>4. LineBegin(F, i + 1) = e + 1
    <3>1. i + 1 # 1 /\ (i + 1) - 1 = i
      OBVIOUS
    <3> QED
      BY <2>1, <3>1 DEF LineBegin
  <2>7. PICK o \in 1 .. Len(X) : o = b
    BY <2>3
  <2>8. PICK p \in o .. Len(X) : p = e
    BY <2>3, <2>7
  <2>9. Find(X, <<c>>, o) = p
    <3>1. X[p] = c
      <4>1. e \in 1 .. Len(X)
        BY <2>3
      <4>2. X[e] = t[e]
        BY <4>1, <1>11, <1>12
      <4> QED
        BY <4>2, <2>1, <2>8, Zenon
    <3>2. \A k \in o .. p - 1 : X[k] # c
      BY <2>1, <2>7, <2>8, Zenon
    <3> QED
      BY <3>1, <3>2, FindFirstSplitter
  <2>10. p \notin {0, Len(X)}
    BY <2>3, <2>8
  <2>11. R[o] = <<SubSeq(X, o, p - 1)>> \o R[p + 1]
    BY <1>13, <2>9, <2>10
  <2> QED
    BY <2>1, <2>4, <2>7, <2>8, <2>11, Zenon
<1> DEFINE S == {i \in 1 .. n : R[LineBegin(F, i)] = SubSeq(strings, i, n)}
<1>17. PICK M \in Nat : M + 1 = n
  <2>1. n - 1 \in Nat /\ (n - 1) + 1 = n
    OBVIOUS
  <2> QED
    BY <2>1
<1>18. SubSeq(strings, n, n) = <<last>>
  <2>1. n \in 1 .. Len(strings) /\ n \in n .. Len(strings)
    OBVIOUS
  <2>2. SubSeq(strings, n, n) = <<strings[n]>> \o SubSeq(strings, n + 1, n)
    BY <2>1, SubSeqRecursiveFirst
  <2>3. SubSeq(strings, n + 1, n) = <<>>
    BY SubSeqEmpty
  <2>4. <<last>> \in Seq(Seq(E))
    OBVIOUS
  <2>5. <<last>> \o <<>> = <<last>>
    BY <2>4, ConcatEmptySeq
  <2> QED
    BY <2>2, <2>3, <2>5, <1>7, Zenon
<1>19. M + 1 \in S
  <2>1. R[LineBegin(F, n)] = SubSeq(strings, n, n)
    BY <1>15, <1>18, Zenon
  <2>2. n \in 1 .. n
    OBVIOUS
  <2>3. n \in S
    BY <2>1, <2>2, Zenon
  <2> QED
    BY <2>3, <1>17
<1>20. ASSUME NEW i \in 1 .. M, i + 1 \in S PROVE i \in S
  <2>1. i \in 1 .. n /\ i # n /\ i \in 1 .. Len(strings) /\ n \in i .. Len(strings)
    BY <1>17
  <2>2. R[LineBegin(F, i)] = <<strings[i]>> \o R[LineBegin(F, i + 1)]
    BY <2>1, <1>16
  <2>3. R[LineBegin(F, i + 1)] = SubSeq(strings, i + 1, n)
    BY <1>20
  <2>4. SubSeq(strings, i, n) = <<strings[i]>> \o SubSeq(strings, i + 1, n)
    BY <2>1, SubSeqRecursiveFirst
  <2>5. R[LineBegin(F, i)] = SubSeq(strings, i, n)
    BY <2>2, <2>3, <2>4, Zenon
  <2> QED
    BY <2>1, <2>5
<1>21. 1 .. M + 1 \subseteq S
  <2> HIDE DEF S
  <2> QED
    BY <1>19, <1>20, PlacesBackward
<1>22. R[1] = strings
  <2>1. 1 \in S
    BY <1>17, <1>21
  <2>2. R[LineBegin(F, 1)] = SubSeq(strings, 1, n)
    BY <2>1
  <2>3. LineBegin(F, 1) = 1
    BY DEF LineBegin
  <2>4. SubSeq(strings, 1, Len(strings)) = strings
    BY SubSeqFull
  <2> QED
    BY <2>2, <2>3, <2>4, Zenon
<1>23. x # <<>>
  BY <1>9, <1>11, EmptySeq
<1>24. StrSplit(x, c) = strings
  BY <1>12, <1>22, StrSplitIsParts DEF R
<1> QED
  BY <1>1, <1>11, <1>23, <1>24, Zenon DEF x

(***************************************************************************)
(* The properties of a device: they come back as far as they are carried.  *)
(***************************************************************************)

\* The characters of hexadecimal text are bytes, and none is a newline.
LEMMA DigitsAreBytes ==
  \A ch \in DOMAIN DigitValue : ch \in Byte /\ ch # Newline
<1>1. \A d \in 1 .. 16 : HexValues[d] \in 48 .. 115
  BY DEF HexValues
<1>2. DOMAIN DigitValue = {HexValues[d] : d \in 1 .. 16}
  BY DEF DigitValue
<1>3. \A ch \in 48 .. 115 : ch \in Byte /\ ch # Newline
  BY DEF Byte, Newline
<1> QED
  BY <1>1, <1>2, <1>3

\* Hexadecimal text holds no newline, and is empty for nothing only.
LEMMA HexText ==
  ASSUME NEW s \in Seq(Byte)
  PROVE  /\ StrToHex(s) \in Seq(Byte)
         /\ \A k \in 1 .. Len(StrToHex(s)) : StrToHex(s)[k] # Newline
         /\ s # <<>> => StrToHex(s) # <<>>
         /\ s = <<>> => StrToHex(s) = <<>>
<1>1. PICK t \in Seq(Nat) : t = StrToHex(s)
  BY HexPlaces
<1>2. /\ Len(t) = 2 * Len(s) /\ Len(s) \in Nat
      /\ \A i \in 1 .. 2 * Len(s) : t[i] \in DOMAIN DigitValue
  BY <1>1, HexPlaces
<1>3. \A i \in 1 .. Len(t) : t[i] \in Byte /\ t[i] # Newline
  BY <1>2, DigitsAreBytes
<1>4. t \in Seq(Byte)
  BY <1>3
<1>5. s # <<>> => t # <<>>
  <2>1. s # <<>> => Len(s) # 0
    BY EmptySeq
  <2>2. t = <<>> => Len(t) = 0
    OBVIOUS
  <2> QED
    BY <2>1, <2>2, <1>2
<1>6. s = <<>> => t = <<>>
  <2>1. s = <<>> => Len(t) = 0
    BY <1>2
  <2> QED
    BY <2>1, EmptySeq
<1> QED
  BY <1>1, <1>3, <1>4, <1>5, <1>6

\* What an array carries of a value: Carried, for one of them.
IsCarried(v) == v # <<>> /\ Find(StrChop(v, 1), <<Equals>>, 1) = 0

\* Nothing is found in a string without characters.
LEMMA NothingFound ==
  ASSUME NEW c
  PROVE  Find(<<>>, <<c>>, 1) = 0
<1>1. {k \in 1 .. Len(<<>>) - Len(<<c>>) + 1 : SubSeq(<<>>, k, k + Len(<<c>>) - 1) = <<c>>} = {}
  OBVIOUS
<1> QED
  BY <1>1, Zenon DEF Find

\* A value is carried when its characters but the last are no signs of equality.
LEMMA CarriedIsFree ==
  ASSUME NEW v \in Seq(Byte), v # <<>>
  PROVE  IsCarried(v) <=> \A j \in 1 .. Len(v) - 1 : v[j] # Equals
<1>1. PICK n \in Nat : n + 1 = Len(v)
  <2>1. Len(v) \in Nat \ {0}
    BY EmptySeq
  <2> QED
    BY <2>1
<1>2. PICK e \in Byte : e = Equals
  BY DEF Byte, Equals
<1>3. PICK w \in Seq(Byte) : w = StrChop(v, 1) /\ Len(w) = n /\ \A j \in 1 .. n : w[j] = v[j]
  <2> DEFINE y == SubSeq(v, 1, n)
  <2>1. StrChop(v, 1) = y
    <3>1. Len(v) >= 1 /\ Len(v) - 1 = n
      BY <1>1
    <3> QED
      BY <3>1 DEF StrChop
  <2>2. \A j \in 1 .. n : v[j] \in Byte
    BY <1>1
  <2>3. y \in Seq(Byte) /\ Len(y) = (IF 1 <= n THEN n - 1 + 1 ELSE 0)
        /\ \A j \in 1 .. n - 1 + 1 : y[j] = v[1 + j - 1]
    BY <2>2, SubSeqProperties
  <2> HIDE DEF y
  <2>4. Len(y) = n /\ \A j \in 1 .. n : y[j] = v[j]
    <3>1. \A j \in 1 .. n : j \in 1 .. n - 1 + 1 /\ 1 + j - 1 = j
      BY <1>1
    <3> QED
      BY <2>3, <3>1
  <2> QED
    BY <2>1, <2>3, <2>4
<1>4. CASE n = 0
  <2>1. w = <<>>
    BY <1>3, <1>4, EmptySeq
  <2>2. IsCarried(v)
    BY <2>1, <1>3, NothingFound DEF IsCarried
  <2>3. \A j \in 1 .. Len(v) - 1 : FALSE
    <3>1. Len(v) - 1 = 0
      BY <1>1, <1>4
    <3>2. \A j \in 1 .. 0 : FALSE
      OBVIOUS
    <3> QED
      BY <3>1, <3>2, Zenon
  <2> QED
    BY <2>2, <2>3
<1>5. CASE n # 0
  <2>1. 1 \in 1 .. Len(w)
    BY <1>3, <1>5
  <2>2. ASSUME Find(w, <<e>>, 1) = 0, NEW j \in 1 .. n PROVE v[j] # e
    <3>1. j \in 1 .. Len(w)
      BY <1>3
    <3>2. w[j] # e
      BY <2>1, <2>2, <3>1, NotFound
    <3> QED
      BY <3>2, <1>3
  <2>3. ASSUME Find(w, <<e>>, 1) # 0 PROVE \E j \in 1 .. n : v[j] = e
    <3>1. PICK f \in 1 .. Len(w) : w[f] = e
      BY <2>1, <2>3, FindSplitter
    <3> QED
      BY <3>1, <1>3
  <2>4. Len(v) - 1 = n
    BY <1>1
  <2>5. Find(w, <<e>>, 1) = 0 <=> \A j \in 1 .. Len(v) - 1 : v[j] # e
    BY <2>2, <2>3, <2>4
  <2> QED
    BY <2>5, <1>2, <1>3 DEF IsCarried
<1> QED
  BY <1>4, <1>5

\* A line of properties, split at the signs of equality.
LEMMA PropertyParts ==
  ASSUME NEW k \in 65 .. 122, NEW v \in Seq(Byte)
  PROVE  /\ IsCarried(v) => StrSplit(<<k, Equals>> \o v, Equals) = <<<<k>>, v>>
         /\ ~IsCarried(v) => Len(StrSplit(<<k, Equals>> \o v, Equals)) # 2
<1>1. PICK e \in Byte, key \in Byte : e = Equals /\ key = k /\ key # e
  BY DEF Byte, Equals
<1>2. PICK x \in Seq(Byte) : x = <<k, Equals>> \o v
  <2>1. <<key, e>> \in Seq(Byte)
    OBVIOUS
  <2> QED
    BY <1>1, <2>1, ConcatProperties
<1>3. /\ Len(v) \in Nat /\ Len(x) = Len(v) + 2 /\ x[1] = key /\ x[2] = e
      /\ \A j \in 1 .. Len(v) : x[j + 2] = v[j]
  <2>1. PICK h \in Seq(Byte) : h = <<key, e>> /\ Len(h) = 2 /\ h[1] = key /\ h[2] = e
    <3>1. <<key, e>> \in Seq(Byte)
      OBVIOUS
    <3> QED
      BY <3>1
  <2>2. x = h \o v
    BY <1>1, <1>2, <2>1, Zenon
  <2>3. /\ Len(x) = Len(h) + Len(v)
        /\ \A j \in 1 .. Len(h) + Len(v) : x[j] = IF j <= Len(h) THEN h[j] ELSE v[j - Len(h)]
    BY <2>2, ConcatProperties
  <2>4. ASSUME NEW j \in 1 .. Len(v) PROVE x[j + 2] = v[j]
    <3>1. j + 2 \in 1 .. Len(h) + Len(v) /\ ~(j + 2 <= Len(h)) /\ (j + 2) - Len(h) = j
      BY <2>1
    <3> QED
      BY <2>3, <3>1
  <2>5. x[1] = key /\ x[2] = e
    <3>1. 1 \in 1 .. Len(h) + Len(v) /\ 2 \in 1 .. Len(h) + Len(v) /\ 1 <= Len(h) /\ 2 <= Len(h)
      BY <2>1
    <3> QED
      BY <2>1, <2>3, <3>1
  <2>6. Len(v) \in Nat /\ Len(x) = Len(v) + 2
    BY <2>1, <2>3
  <2> QED
    BY <2>4, <2>5, <2>6
<1> DEFINE R == PartsOf(x, e)
<1>4. /\ \A i \in 1 .. Len(x) :
           R[i] = IF Find(x, <<e>>, i) \in {0, Len(x)} THEN <<SubSeq(x, i, Len(x))>>
                  ELSE <<SubSeq(x, i, Find(x, <<e>>, i) - 1)>> \o R[Find(x, <<e>>, i) + 1]
      /\ R \in [1 .. Len(x) + 1 -> Seq(Seq(Byte))]
  <2>1. IsParts(R, Byte, x, e)
    BY PartsRecursion
  <2> HIDE DEF R
  <2> QED
    BY <2>1 DEF IsParts
<1>5. R[1] = StrSplit(<<k, Equals>> \o v, Equals)
  BY <1>1, <1>2, StrSplitIsParts, Zenon
<1>6. \A i \in 1 .. Len(x) : Len(R[i]) >= 1
  BY SplitJoined DEF RestoredFrom
<1> HIDE DEF R
<1>7. Find(x, <<e>>, 1) = 2
  <2>1. 1 \in 1 .. Len(x) /\ 2 \in 1 .. Len(x)
    BY <1>3
  <2>2. \A j \in 1 .. 2 - 1 : x[j] # e
    BY <1>1, <1>3
  <2> QED
    BY <2>1, <2>2, <1>3, FindFirstSplitter
<1>8. CASE v = <<>>
  <2>1. Len(v) = 0 /\ Len(x) = 2 /\ 1 \in 1 .. Len(x)
    BY <1>3, <1>8
  <2>2. R[1] = <<SubSeq(x, 1, Len(x))>>
    BY <2>1, <1>4, <1>7
  <2>3. Len(R[1]) = 1
    BY <2>2
  <2> QED
    BY <2>3, <1>5, <1>8 DEF IsCarried
<1>9. ASSUME v # <<>>
      PROVE  /\ 3 \in 1 .. Len(x) /\ 1 \in 1 .. Len(x) /\ Len(v) >= 1
             /\ R[1] = <<<<k>>>> \o R[3]
             /\ SubSeq(x, 3, Len(x)) = v
  <2>1. Len(v) \in Nat \ {0}
    BY <1>9, EmptySeq
  <2>2. 3 \in 1 .. Len(x) /\ 1 \in 1 .. Len(x) /\ Len(v) >= 1 /\ Len(x) # 2
    BY <2>1, <1>3
  <2>3. R[1] = <<SubSeq(x, 1, 1)>> \o R[3]
    <3>1. PICK one \in 1 .. Len(x), two \in Nat :
            one = 1 /\ two = 2 /\ two - 1 = 1 /\ two + 1 = 3 /\ two \notin {0, Len(x)}
      BY <2>2
    <3>2. R[one] = <<SubSeq(x, one, two - 1)>> \o R[two + 1]
      BY <3>1, <1>4, <1>7
    <3> QED
      BY <3>1, <3>2
  <2>4. SubSeq(x, 1, 1) = <<k>>
    <3>1. PICK s \in Seq(Byte) : s = <<key>> /\ Len(s) = 1 /\ s[1] = key
      <4>1. <<key>> \in Seq(Byte)
        OBVIOUS
      <4> QED
        BY <4>1
    <3>2. PICK one \in Nat \ {0}, two \in Nat : one = 1 /\ two = 2 /\ two - 1 = 1
      OBVIOUS
    <3>3. \A j \in 1 .. Len(s) : x[one + j - 1] = s[j]
      BY <3>1, <3>2, <1>3
    <3>4. two = one + Len(s) /\ two <= Len(x) + 1
      BY <3>1, <3>2, <1>3
    <3>5. SubSeq(x, one, two - 1) = s
      BY <3>3, <3>4, Extracted
    <3> QED
      BY <3>1, <3>2, <3>5, <1>1
  <2>5. SubSeq(x, 3, Len(x)) = v
    <3>1. PICK q \in Nat : q = Len(x) + 1
      BY <1>3
    <3>2. \A j \in 1 .. Len(v) : x[3 + j - 1] = v[j]
      <4>1. \A j \in 1 .. Len(v) : 3 + j - 1 = j + 2
        OBVIOUS
      <4> QED
        BY <4>1, <1>3
    <3>3. q = 3 + Len(v) /\ q <= Len(x) + 1 /\ q - 1 = Len(x)
      BY <3>1, <1>3
    <3>4. SubSeq(x, 3, q - 1) = v
      BY <3>2, <3>3, Extracted
    <3> QED
      BY <3>3, <3>4
  <2> QED
    BY <2>2, <2>3, <2>4, <2>5
<1>10. CASE v # <<>> /\ IsCarried(v)
  <2>1. \A j \in 1 .. Len(v) - 1 : v[j] # e
    BY <1>1, <1>10, CarriedIsFree
  <2>2. Find(x, <<e>>, 3) \in {0, Len(x)}
    <3> SUFFICES ASSUME Find(x, <<e>>, 3) # 0, Find(x, <<e>>, 3) # Len(x) PROVE FALSE
      OBVIOUS
    <3>1. PICK f \in 3 .. Len(x) : f = Find(x, <<e>>, 3) /\ x[f] = e
      BY <1>9, <1>10, FindSplitter
    <3>2. f - 2 \in 1 .. Len(v) - 1 /\ (f - 2) + 2 = f
      BY <3>1, <1>3
    <3>3. v[f - 2] = e
      BY <3>1, <3>2, <1>3
    <3> QED
      BY <3>2, <3>3, <2>1
  <2>3. R[3] = <<v>>
    BY <2>2, <1>4, <1>9, <1>10
  <2>4. R[1] = <<<<k>>>> \o <<v>>
    BY <2>3, <1>9, <1>10
  <2>5. PICK a \in Seq(Byte) : a = <<k>>
    <3>1. <<key>> \in Seq(Byte)
      OBVIOUS
    <3> QED
      BY <3>1, <1>1
  <2>6. <<a>> \o <<v>> = <<a, v>>
    BY PairOf
  <2> QED
    BY <2>4, <2>5, <2>6, <1>5, <1>10, Zenon
<1>11. CASE v # <<>> /\ ~IsCarried(v)
  <2>1. PICK j \in 1 .. Len(v) - 1 : v[j] = e
    BY <1>1, <1>11, CarriedIsFree
  <2>2. PICK p \in 3 .. Len(x) : p = j + 2 /\ p < Len(x) /\ x[p] = e
    <3>1. j + 2 \in 3 .. Len(x) /\ j + 2 < Len(x) /\ j \in 1 .. Len(v)
      BY <1>3
    <3> QED
      BY <3>1, <2>1, <1>3
  <2>3. Find(x, <<e>>, 3) \in 3 .. p
    BY <2>2, <1>9, <1>11, FoundUpTo
  <2>4. PICK f \in 3 .. p : f = Find(x, <<e>>, 3)
    BY <2>3
  <2>5. f \notin {0, Len(x)} /\ f + 1 \in 1 .. Len(x)
    BY <2>2, <1>3
  <2>6. R[3] = <<SubSeq(x, 3, f - 1)>> \o R[f + 1]
    BY <2>4, <2>5, <1>4, <1>9, <1>11
  <2>7. PICK z \in Seq(Seq(Byte)) : z = R[f + 1] /\ Len(z) \in Nat /\ Len(z) >= 1
    <3>1. R[f + 1] \in Seq(Seq(Byte)) /\ Len(R[f + 1]) >= 1
      <4>1. f + 1 \in 1 .. Len(x) + 1
        BY <2>5
      <4> QED
        BY <4>1, <2>5, <1>4, <1>6
    <3> QED
      BY <3>1
  <2>8. Len(R[3]) = 1 + Len(z) /\ R[3] \in Seq(Seq(Byte))
    <3>1. R[3] \in Seq(Seq(Byte))
      <4>1. 3 \in 1 .. Len(x) + 1
        BY <1>9, <1>11
      <4> QED
        BY <4>1, <1>4
    <3>2. PICK y : y = SubSeq(x, 3, f - 1)
      OBVIOUS
    <3>3. R[3] = <<y>> \o z
      BY <2>6, <2>7, <3>2
    <3>4. Len(<<y>> \o z) = 1 + Len(z)
      OBVIOUS
    <3> QED
      BY <3>1, <3>3, <3>4
  <2>9. PICK y \in Seq(Seq(Byte)) : y = R[3] /\ Len(y) = 1 + Len(z)
    BY <2>8
  <2>10. Len(<<<<k>>>> \o y) = 1 + Len(y)
    OBVIOUS
  <2>11. R[1] = <<<<k>>>> \o y
    BY <2>9, <1>9, <1>11
  <2>12. Len(R[1]) # 2
    <3>1. Len(R[1]) = 1 + Len(y)
      BY <2>10, <2>11, Zenon
    <3>2. Len(y) = 1 + Len(z) /\ Len(z) \in Nat /\ Len(z) >= 1
      BY <2>7, <2>9
    <3> QED
      BY <3>1, <3>2
  <2> QED
    BY <2>12, <1>5, <1>11
<1> QED
  BY <1>8, <1>10, <1>11

\* What a device holds: keys of one byte, values without a newline.
IsContent(c) ==
  /\ DOMAIN c \subseteq 65 .. 122
  /\ c \in [DOMAIN c -> Seq(Byte)]
  /\ \A k \in DOMAIN c : \A j \in 1 .. Len(c[k]) : c[k][j] # Newline

\* The lines of the properties, without the newlines.
PropertyStrings(c) ==
  [i \in DOMAIN Ordered(DOMAIN c) |-> <<Ordered(DOMAIN c)[i], Equals>> \o c[Ordered(DOMAIN c)[i]]]

\* PropertyLines puts these lines together.
LEMMA PropertyLinesAre ==
  ASSUME NEW c
  PROVE  PropertyLines(c) = StrChop(FlattenSeq(LinesOf(PropertyStrings(c), Newline)), 1)
<1> DEFINE keys == Ordered(DOMAIN c)
           L == [i \in DOMAIN keys |-> <<keys[i], Equals>> \o c[keys[i]] \o <<Newline>>]
<1>1. DOMAIN PropertyStrings(c) = DOMAIN keys
  BY DEF PropertyStrings
<1>2. \A i \in DOMAIN keys : PropertyStrings(c)[i] = <<keys[i], Equals>> \o c[keys[i]]
  BY DEF PropertyStrings
<1> HIDE DEF keys
<1>3. LinesOf(PropertyStrings(c), Newline) = L
  BY <1>1, <1>2, Zenon DEF LinesOf
<1>4. PropertyLines(c) = StrChop(FlattenSeq(L), 1)
  BY Zenon DEF PropertyLines, keys
<1> QED
  BY <1>3, <1>4, Zenon

\* The keys of a content that is not empty.
LEMMA KeysOf ==
  ASSUME NEW c, IsContent(c)
  PROVE  /\ Ordered(DOMAIN c) \in Seq(65 .. 122)
         /\ \A i \in 1 .. Len(Ordered(DOMAIN c)) : Ordered(DOMAIN c)[i] \in DOMAIN c
         /\ \A k \in DOMAIN c : \E i \in 1 .. Len(Ordered(DOMAIN c)) : Ordered(DOMAIN c)[i] = k
         /\ c # NoFunction => Len(Ordered(DOMAIN c)) \in Nat \ {0}
         /\ c = NoFunction => Ordered(DOMAIN c) = <<>>
<1> DEFINE keys == Ordered(DOMAIN c)
<1>1. DOMAIN c \subseteq 65 .. 122
  BY DEF IsContent
<1>2. /\ keys \in Seq(DOMAIN c)
      /\ \A k \in DOMAIN c : \E i \in 1 .. Len(keys) : keys[i] = k
  <2>1. PICK N \in Nat : DOMAIN c \subseteq 1 .. N
    <3>1. 65 .. 122 \subseteq 1 .. 122 /\ 122 \in Nat
      OBVIOUS
    <3> QED
      BY <3>1, <1>1
  <2> QED
    BY <2>1, OrderedKeys
<1> HIDE DEF keys
<1>3. \A i \in 1 .. Len(keys) : keys[i] \in DOMAIN c
  BY <1>2, ElementOfSeq
<1>4. Len(keys) \in Nat /\ keys \in Seq(65 .. 122)
  BY <1>1, <1>2, <1>3
<1>5. ASSUME Len(keys) = 0 PROVE c = NoFunction
  <2>1. DOMAIN c = {}
    <3>1. \A i \in 1 .. 0 : FALSE
      OBVIOUS
    <3> QED
      BY <3>1, <1>2, <1>5, Zenon
  <2>2. c = [k \in DOMAIN c |-> c[k]]
    BY DEF IsContent
  <2> QED
    BY <2>1, <2>2 DEF NoFunction
<1>6. ASSUME c = NoFunction PROVE keys = <<>>
  <2>1. DOMAIN c = {}
    BY <1>6 DEF NoFunction
  <2>2. Len(keys) = 0
    BY <2>1, <1>3, <1>4
  <2> QED
    BY <2>2, <1>4, EmptySeq
<1> QED
  BY <1>2, <1>3, <1>4, <1>5, <1>6 DEF keys

\* The text of the properties is split into the lines of the properties.
LEMMA PropertyText ==
  ASSUME NEW c, IsContent(c), c # NoFunction
  PROVE  /\ PropertyLines(c) \in Seq(Byte) /\ PropertyLines(c) # <<>>
         /\ StrSplit(PropertyLines(c), Newline) = PropertyStrings(c)
<1>1. PICK keys \in Seq(65 .. 122), n \in Nat \ {0} :
        /\ keys = Ordered(DOMAIN c) /\ n = Len(keys)
        /\ \A i \in 1 .. n : keys[i] \in DOMAIN c
  BY KeysOf
<1>2. PICK e \in Byte, nl \in Byte : e = Equals /\ nl = Newline /\ e # nl
  BY DEF Byte, Equals, Newline
<1> DEFINE string(i) == <<keys[i], Equals>> \o c[keys[i]]
<1>3. ASSUME NEW i \in 1 .. n
      PROVE  /\ string(i) \in Seq(Byte) /\ Len(string(i)) >= 2
             /\ \A j \in 1 .. Len(string(i)) : string(i)[j] # nl
  <2>1. PICK k \in Byte : k = keys[i] /\ k # nl
    <3>1. keys[i] \in 65 .. 122
      BY <1>1, ElementOfSeq
    <3> QED
      BY <3>1, <1>2 DEF Byte, Newline
  <2>2. PICK v \in Seq(Byte) : v = c[keys[i]] /\ \A j \in 1 .. Len(v) : v[j] # nl
    BY <1>1, <1>2 DEF IsContent
  <2>3. PICK h \in Seq(Byte) : h = <<k, e>> /\ Len(h) = 2 /\ h[1] = k /\ h[2] = e
    <3>1. <<k, e>> \in Seq(Byte)
      OBVIOUS
    <3> QED
      BY <3>1
  <2>4. string(i) = h \o v
    BY <2>1, <2>2, <2>3, <1>2, Zenon
  <2>5. PICK x \in Seq(Byte) :
          /\ x = h \o v /\ Len(x) = Len(h) + Len(v)
          /\ \A j \in 1 .. Len(h) + Len(v) : x[j] = IF j <= Len(h) THEN h[j] ELSE v[j - Len(h)]
    <3> DEFINE y == h \o v
    <3>1. /\ y \in Seq(Byte) /\ Len(y) = Len(h) + Len(v)
          /\ \A j \in 1 .. Len(h) + Len(v) : y[j] = IF j <= Len(h) THEN h[j] ELSE v[j - Len(h)]
      BY ConcatProperties
    <3>2. y = h \o v
      OBVIOUS
    <3> HIDE DEF y
    <3> QED
      BY <3>1, <3>2
  <2>6. ASSUME NEW j \in 1 .. Len(x) PROVE x[j] # nl
    <3>1. CASE j <= 2
      <4>1. j \in 1 .. 2 /\ x[j] = h[j]
        BY <3>1, <2>3, <2>5
      <4> QED
        BY <4>1, <2>1, <2>3, <1>2
    <3>2. CASE j > 2
      <4>1. j - 2 \in 1 .. Len(v) /\ x[j] = v[j - 2]
        BY <3>2, <2>3, <2>5
      <4> QED
        BY <4>1, <2>2
    <3> QED
      BY <3>1, <3>2
  <2>7. Len(x) >= 2
    BY <2>3, <2>5
  <2> HIDE DEF string
  <2> QED
    BY <2>4, <2>5, <2>6, <2>7
<1> HIDE DEF string
<1>4. PICK strings \in Seq(Seq(Byte)) :
        /\ strings = PropertyStrings(c) /\ Len(strings) = n
        /\ \A i \in 1 .. n : strings[i] = string(i)
  <2> DEFINE f == [i \in 1 .. n |-> string(i)]
  <2>1. f \in Seq(Seq(Byte)) /\ Len(f) = n
    <3>1. f \in [1 .. n -> Seq(Byte)]
      BY <1>3
    <3> QED
      BY <3>1
  <2>2. DOMAIN keys = 1 .. n
    BY <1>1
  <2>3. f = PropertyStrings(c)
    BY <2>2, <1>1, Zenon DEF PropertyStrings, string
  <2>4. \A i \in 1 .. n : f[i] = string(i)
    OBVIOUS
  <2> HIDE DEF f
  <2> QED
    BY <2>1, <2>3, <2>4
<1>5. \A i \in 1 .. n : FreeOf(strings[i], nl)
  BY <1>3, <1>4 DEF FreeOf
<1>6. strings[n] # <<>>
  <2>1. n \in 1 .. n
    OBVIOUS
  <2>2. Len(strings[n]) >= 2
    BY <2>1, <1>3, <1>4
  <2>3. Len(<<>>) = 0
    OBVIOUS
  <2> QED
    BY <2>2, <2>3
<1> DEFINE text == StrChop(FlattenSeq(LinesOf(strings, nl)), 1)
<1>7. text \in Seq(Byte) /\ text # <<>> /\ StrSplit(text, nl) = strings
  <2>1. AreLines(strings, n, nl)
    BY <1>4, <1>5, <1>6, Zenon DEF AreLines
  <2> QED
    BY <2>1, LinesSplit
<1>8. PropertyLines(c) = text
  BY <1>2, <1>4, PropertyLinesAre, Zenon
<1> HIDE DEF text
<1> QED
  BY <1>2, <1>4, <1>7, <1>8

\* What is left of a content that has gone through an array.
Restored(c) == [k \in Carried(c) |-> c[k]]

\* The two parts of the line of a property that is carried.
PairFor(c, k) == <<<<k>>, c[k]>>

\* The lines that have two parts, as Properties finds them.
PairsOf(text) ==
  LET lines == {StrSplit(StrSplit(text, Newline)[i], Equals) :
                  i \in DOMAIN StrSplit(text, Newline)}
  IN  {pair \in lines : Len(pair) = 2}

\* Properties takes its keys and values from those lines.
LEMMA PropertiesAre ==
  ASSUME NEW text
  PROVE  Properties(text) = [ k \in {pair[1][1] : pair \in PairsOf(text)} |->
                                (CHOOSE pair \in PairsOf(text) : pair[1][1] = k)[2] ]
BY Zenon DEF Properties, PairsOf

\* The lines that have two parts are those of the values that are carried.
LEMMA PairsCarried ==
  ASSUME NEW c, IsContent(c), c # NoFunction
  PROVE  PairsOf(PropertyLines(c)) = {PairFor(c, k) : k \in Carried(c)}
<1> DEFINE keys == Ordered(DOMAIN c)
           parts(k) == StrSplit(<<k, Equals>> \o c[k], Equals)
<1>1. PairsOf(PropertyLines(c)) = {pair \in {parts(keys[i]) : i \in DOMAIN keys} : Len(pair) = 2}
  <2>1. StrSplit(PropertyLines(c), Newline) = PropertyStrings(c)
    BY PropertyText
  <2>2. DOMAIN PropertyStrings(c) = DOMAIN keys
    BY DEF PropertyStrings
  <2>3. \A i \in DOMAIN keys : StrSplit(PropertyStrings(c)[i], Equals) = parts(keys[i])
    BY Zenon DEF PropertyStrings
  <2> HIDE DEF keys, parts
  <2> QED
    BY <2>1, <2>2, <2>3, Zenon DEF PairsOf
<1>2. /\ DOMAIN keys = 1 .. Len(keys)
      /\ \A i \in DOMAIN keys : keys[i] \in DOMAIN c
      /\ \A k \in DOMAIN c : \E i \in DOMAIN keys : keys[i] = k
  BY KeysOf
<1> HIDE DEF keys
<1>3. ASSUME NEW k \in DOMAIN c
      PROVE  /\ k \in Carried(c) => parts(k) = PairFor(c, k)
             /\ k \notin Carried(c) => Len(parts(k)) # 2
  <2>1. k \in 65 .. 122 /\ c[k] \in Seq(Byte)
    BY DEF IsContent
  <2>2. k \in Carried(c) <=> IsCarried(c[k])
    BY DEF Carried, IsCarried
  <2>3. PICK v \in Seq(Byte) : v = c[k]
    BY <2>1
  <2>4. /\ IsCarried(v) => StrSplit(<<k, Equals>> \o v, Equals) = <<<<k>>, v>>
        /\ ~IsCarried(v) => Len(StrSplit(<<k, Equals>> \o v, Equals)) # 2
    BY <2>1, PropertyParts
  <2> QED
    BY <2>2, <2>3, <2>4, Zenon DEF PairFor
<1> HIDE DEF parts
<1>4. \A k \in Carried(c) : k \in DOMAIN c
  BY DEF Carried
<1>5. ASSUME NEW pair \in PairsOf(PropertyLines(c))
      PROVE  pair \in {PairFor(c, k) : k \in Carried(c)}
  <2>1. PICK i \in DOMAIN keys : pair = parts(keys[i]) /\ Len(pair) = 2
    BY <1>1
  <2>2. PICK k \in DOMAIN c : k = keys[i]
    BY <1>2
  <2>3. k \in Carried(c) /\ parts(k) = PairFor(c, k)
    BY <2>1, <2>2, <1>3
  <2> QED
    BY <2>1, <2>2, <2>3
<1>6. ASSUME NEW k \in Carried(c)
      PROVE  PairFor(c, k) \in PairsOf(PropertyLines(c))
  <2>1. PICK i \in DOMAIN keys : keys[i] = k
    BY <1>2, <1>4
  <2>2. parts(k) = PairFor(c, k)
    BY <1>3, <1>4
  <2>3. Len(PairFor(c, k)) = 2
    BY DEF PairFor
  <2>4. parts(keys[i]) = PairFor(c, k)
    BY <2>1, <2>2
  <2> QED
    BY <2>3, <2>4, <1>1
<1> QED
  BY <1>5, <1>6

\* What is read of a text of properties is what it carries.
LEMMA PropertiesRestored ==
  ASSUME NEW c, IsContent(c), c # NoFunction
  PROVE  Properties(PropertyLines(c)) = Restored(c)
<1> DEFINE T == PairsOf(PropertyLines(c))
<1>1. T = {PairFor(c, k) : k \in Carried(c)}
  BY PairsCarried
<1>2. Properties(PropertyLines(c))
        = [k \in {pair[1][1] : pair \in T} |-> (CHOOSE pair \in T : pair[1][1] = k)[2]]
  BY PropertiesAre
<1> HIDE DEF T
<1>3. \A k : PairFor(c, k)[1][1] = k /\ PairFor(c, k)[2] = c[k]
  BY DEF PairFor
<1>4. {pair[1][1] : pair \in T} = Carried(c)
  BY <1>1, <1>3
<1>5. ASSUME NEW k \in Carried(c)
      PROVE  (CHOOSE pair \in T : pair[1][1] = k)[2] = c[k]
  <2>1. PairFor(c, k) \in T /\ PairFor(c, k)[1][1] = k
    BY <1>1, <1>3
  <2>2. \A pair \in T : pair[1][1] = k => pair = PairFor(c, k)
    BY <1>1, <1>3
  <2>3. (CHOOSE pair \in T : pair[1][1] = k) = PairFor(c, k)
    <3>1. (CHOOSE pair \in T : pair[1][1] = k) \in T /\ (CHOOSE pair \in T : pair[1][1] = k)[1][1] = k
      BY <2>1
    <3> QED
      BY <2>2, <3>1
  <2> QED
    BY <2>3, <1>3
<1>6. [k \in {pair[1][1] : pair \in T} |-> (CHOOSE pair \in T : pair[1][1] = k)[2]] = Restored(c)
  BY <1>4, <1>5, ZenonT(40) DEF Restored
<1> QED
  BY <1>2, <1>6

\* It is content again.
LEMMA RestoredIsContent ==
  ASSUME NEW c, IsContent(c)
  PROVE  IsContent(Restored(c)) /\ DOMAIN Restored(c) = Carried(c)
<1>1. Carried(c) \subseteq DOMAIN c /\ DOMAIN Restored(c) = Carried(c)
  BY DEF Carried, Restored
<1>2. \A k \in Carried(c) : Restored(c)[k] = c[k]
  BY DEF Restored
<1>3. Restored(c) \in [Carried(c) -> Seq(Byte)]
  <2>1. \A k \in Carried(c) : c[k] \in Seq(Byte)
    BY <1>1 DEF IsContent
  <2> QED
    BY <2>1 DEF Restored
<1>4. DOMAIN Restored(c) \subseteq 65 .. 122
  BY <1>1 DEF IsContent
<1>5. \A k \in DOMAIN Restored(c) : \A j \in 1 .. Len(Restored(c)[k]) : Restored(c)[k][j] # Newline
  BY <1>1, <1>2 DEF IsContent
<1> QED
  BY <1>1, <1>3, <1>4, <1>5 DEF IsContent

(***************************************************************************)
(* A device through its array.                                             *)
(***************************************************************************)

\* A part of one place.
LEMMA OnePlace ==
  ASSUME NEW E, NEW x \in Seq(E), NEW i \in 1 .. Len(x)
  PROVE  SubSeq(x, i, i) = <<x[i]>>
<1>1. PICK s \in Seq(E) : s = <<x[i]>> /\ Len(s) = 1 /\ s[1] = x[i]
  <2>1. <<x[i]>> \in Seq(E)
    OBVIOUS
  <2> QED
    BY <2>1
<1>2. PICK b \in Nat \ {0}, e \in Nat : b = i /\ e = i + 1 /\ e - 1 = i /\ e <= Len(x) + 1
  <2>1. i \in Nat \ {0} /\ i + 1 \in Nat /\ (i + 1) - 1 = i /\ i + 1 <= Len(x) + 1
    OBVIOUS
  <2> QED
    BY <2>1
<1>3. e = b + Len(s) /\ e <= Len(x) + 1
  BY <1>1, <1>2
<1>4. \A k \in 1 .. Len(s) : x[b + k - 1] = s[k]
  <2>1. ASSUME NEW k \in 1 .. Len(s) PROVE x[b + k - 1] = s[k]
    <3>1. k = 1 /\ b + k - 1 = i
      BY <1>1, <1>2
    <3> QED
      BY <3>1, <1>1
  <2> QED
    BY <2>1
<1>5. SubSeq(x, b, e - 1) = s
  BY <1>3, <1>4, Extracted
<1> QED
  BY <1>1, <1>2, <1>5

\* A sequence of one and a sequence of two are one of three.
LEMMA TripleOf ==
  ASSUME NEW T, NEW a \in T, NEW b \in T, NEW d \in T
  PROVE  <<a>> \o <<b, d>> = <<a, b, d>>
<1>1. PICK u \in Seq(T), v \in Seq(T), w \in Seq(T) :
        /\ u = <<a>> /\ Len(u) = 1 /\ u[1] = a
        /\ v = <<b, d>> /\ Len(v) = 2 /\ v[1] = b /\ v[2] = d
        /\ w = <<a, b, d>> /\ Len(w) = 3 /\ w[1] = a /\ w[2] = b /\ w[3] = d
  <2>1. <<a>> \in Seq(T) /\ <<b, d>> \in Seq(T) /\ <<a, b, d>> \in Seq(T)
    OBVIOUS
  <2> QED
    BY <2>1
<1> DEFINE y == u \o v
<1>2. /\ y \in Seq(T) /\ Len(y) = Len(u) + Len(v)
      /\ \A k \in 1 .. Len(u) + Len(v) : y[k] = IF k <= Len(u) THEN u[k] ELSE v[k - Len(u)]
  BY ConcatProperties
<1> HIDE DEF y
<1>3. Len(y) = 3 /\ y[1] = a /\ y[2] = b /\ y[3] = d
  <2>1. /\ 1 \in 1 .. Len(u) + Len(v) /\ 2 \in 1 .. Len(u) + Len(v) /\ 3 \in 1 .. Len(u) + Len(v)
        /\ 1 <= Len(u) /\ ~(2 <= Len(u)) /\ ~(3 <= Len(u)) /\ 2 - Len(u) = 1 /\ 3 - Len(u) = 2
    BY <1>1
  <2> QED
    BY <2>1, <1>1, <1>2
<1>4. \A k \in 1 .. Len(y) : y[k] = w[k]
  <2>1. ASSUME NEW k \in 1 .. Len(y) PROVE y[k] = w[k]
    <3>1. k = 1 \/ k = 2 \/ k = 3
      BY <1>3
    <3> QED
      BY <3>1, <1>1, <1>3
  <2> QED
    BY <2>1
<1>5. y = w
  BY <1>1, <1>2, <1>3, <1>4, SeqEqual
<1> QED
  BY <1>1, <1>5, Zenon DEF y

\* The single attributes of a device, as ToByteArray writes them.
HeadOf(n) == <<DeviceId, Newline, None, Newline>> \o <<n>>

\* The head, place by place.
LEMMA HeadPlaces ==
  ASSUME NEW n \in 65 .. 122
  PROVE  /\ HeadOf(n) \in Seq(Byte) /\ Len(HeadOf(n)) = 5
         /\ HeadOf(n)[1] = DeviceId /\ HeadOf(n)[2] = Newline /\ HeadOf(n)[3] = None
         /\ HeadOf(n)[4] = Newline /\ HeadOf(n)[5] = n
<1>1. /\ <<DeviceId, Newline, None, Newline>> \in Seq(Byte) /\ <<n>> \in Seq(Byte)
  BY DEF DeviceId, Newline, None, Byte
<1>2. PICK a \in Seq(Byte), b \in Seq(Byte) :
        /\ a = <<DeviceId, Newline, None, Newline>> /\ b = <<n>>
        /\ Len(a) = 4 /\ Len(b) = 1
        /\ a[1] = DeviceId /\ a[2] = Newline /\ a[3] = None /\ a[4] = Newline /\ b[1] = n
  BY <1>1
<1>3. HeadOf(n) = a \o b
  BY <1>2, Zenon DEF HeadOf
<1> DEFINE y == a \o b
<1>4. /\ y \in Seq(Byte) /\ Len(y) = Len(a) + Len(b)
      /\ \A j \in 1 .. Len(a) + Len(b) : y[j] = IF j <= Len(a) THEN a[j] ELSE b[j - Len(a)]
  BY ConcatProperties
<1>5. HeadOf(n) = y
  BY <1>3
<1> HIDE DEF y
<1>6. /\ 1 \in 1 .. Len(a) + Len(b) /\ 2 \in 1 .. Len(a) + Len(b) /\ 3 \in 1 .. Len(a) + Len(b)
      /\ 4 \in 1 .. Len(a) + Len(b) /\ 5 \in 1 .. Len(a) + Len(b)
      /\ 1 <= Len(a) /\ 2 <= Len(a) /\ 3 <= Len(a) /\ 4 <= Len(a) /\ ~(5 <= Len(a))
      /\ 5 - Len(a) = 1
  BY <1>2
<1>7. y[1] = a[1] /\ y[2] = a[2] /\ y[3] = a[3] /\ y[4] = a[4] /\ y[5] = b[1]
  BY <1>4, <1>6
<1> QED
  BY <1>2, <1>4, <1>5, <1>7

\* It is split into identifier, action and name.
LEMMA HeadSplit ==
  ASSUME NEW n \in 65 .. 122
  PROVE  StrSplit(HeadOf(n), Newline) = <<<<DeviceId>>, <<None>>, <<n>>>>
<1>1. PICK nl \in Byte : nl = Newline /\ nl # DeviceId /\ nl # None /\ nl # n
  BY DEF Byte, Newline, DeviceId, None
<1>2. PICK x \in Seq(Byte) : /\ x = HeadOf(n) /\ Len(x) = 5
                             /\ x[1] = DeviceId /\ x[2] = nl /\ x[3] = None /\ x[4] = nl /\ x[5] = n
  BY <1>1, HeadPlaces
<1> DEFINE R == PartsOf(x, nl)
<1>3. \A i \in 1 .. Len(x) :
        R[i] = IF Find(x, <<nl>>, i) \in {0, Len(x)} THEN <<SubSeq(x, i, Len(x))>>
               ELSE <<SubSeq(x, i, Find(x, <<nl>>, i) - 1)>> \o R[Find(x, <<nl>>, i) + 1]
  <2>1. IsParts(R, Byte, x, nl)
    BY PartsRecursion
  <2> HIDE DEF R
  <2> QED
    BY <2>1 DEF IsParts
<1>4. R[1] = StrSplit(HeadOf(n), Newline)
  BY <1>1, <1>2, StrSplitIsParts, Zenon
<1> HIDE DEF R
<1>5. ASSUME NEW i \in 1 .. 4, x[i] # nl, x[i + 1] = nl
      PROVE  R[i] = <<<<x[i]>>>> \o R[i + 2]
  <2>o. PICK o \in 1 .. Len(x) : o = i
    BY <1>2
  <2>1. PICK p \in o .. Len(x) :
          o = i /\ p = i + 1 /\ p - 1 = o /\ p + 1 = i + 2 /\ p \notin {0, Len(x)}
    <3>1. i \in 1 .. Len(x) /\ i + 1 \in i .. Len(x) /\ (i + 1) - 1 = i /\ (i + 1) + 1 = i + 2
      BY <1>2
    <3>2. i # 4
      BY <1>1, <1>2, <1>5
    <3>3. i + 1 \notin {0, Len(x)}
      BY <3>2, <1>2
    <3> QED
      BY <2>o, <3>1, <3>3
  <2>2. Find(x, <<nl>>, o) = p
    <3>1. x[p] = nl /\ \A k \in o .. p - 1 : x[k] # nl
      BY <2>1, <1>5
    <3> QED
      BY <3>1, FindFirstSplitter
  <2>3. R[o] = <<SubSeq(x, o, p - 1)>> \o R[p + 1]
    BY <2>1, <2>2, <1>3
  <2>4. SubSeq(x, o, o) = <<x[o]>>
    BY OnePlace
  <2> QED
    BY <2>1, <2>3, <2>4
<1>6. R[5] = <<<<x[5]>>>>
  <2>1. PICK o \in 1 .. Len(x) : o = 5 /\ o = Len(x)
    BY <1>2
  <2>2. Find(x, <<nl>>, o) = 0
    <3> SUFFICES ASSUME Find(x, <<nl>>, o) # 0 PROVE FALSE
      OBVIOUS
    <3>1. PICK f \in o .. Len(x) : x[f] = nl
      BY FindSplitter
    <3>2. f = 5
      BY <2>1, <1>2
    <3> QED
      BY <3>1, <3>2, <1>1, <1>2
  <2>3. R[o] = <<SubSeq(x, o, Len(x))>>
    BY <2>2, <1>3
  <2>4. SubSeq(x, o, o) = <<x[o]>>
    BY OnePlace
  <2> QED
    BY <2>1, <2>3, <2>4
<1>7. R[1] = <<<<x[1]>>>> \o R[3]
  <2>1. 1 \in 1 .. 4 /\ 1 + 1 = 2 /\ 1 + 2 = 3
    OBVIOUS
  <2> QED
    BY <2>1, <1>1, <1>2, <1>5
<1>8. R[3] = <<<<x[3]>>>> \o R[5]
  <2>1. 3 \in 1 .. 4 /\ 3 + 1 = 4 /\ 3 + 2 = 5
    OBVIOUS
  <2> QED
    BY <2>1, <1>1, <1>2, <1>5
<1>9. PICK a \in Seq(Byte), b \in Seq(Byte), d \in Seq(Byte) : a = <<x[1]>> /\ b = <<x[3]>> /\ d = <<x[5]>>
  <2>1. 1 \in 1 .. Len(x) /\ 3 \in 1 .. Len(x) /\ 5 \in 1 .. Len(x)
    BY <1>2
  <2>2. <<x[1]>> \in Seq(Byte) /\ <<x[3]>> \in Seq(Byte) /\ <<x[5]>> \in Seq(Byte)
    BY <2>1
  <2> QED
    BY <2>2
<1>10. R[3] = <<b, d>>
  BY <1>6, <1>8, <1>9, PairOf
<1>11. <<a>> \o <<b, d>> = <<a, b, d>>
  BY TripleOf
<1> QED
  BY <1>2, <1>4, <1>7, <1>9, <1>10, <1>11, Zenon

\* The text of a device before it is written in hexadecimal.
DeviceText(n, c) == (StrToHex(HeadOf(n)) \o <<Newline>>) \o StrToHex(PropertyLines(c))

\* The array of a device is its text in hexadecimal.
LEMMA DeviceArray ==
  ASSUME NEW n, NEW c
  PROVE  DeviceToByteArray(Device(n, c)) = StrToHex(DeviceText(n, c))
<1>1. Device(n, c).action = None /\ Device(n, c).name = <<n>> /\ Device(n, c).content = c
  BY DEF Device
<1> QED
  BY <1>1, Zenon DEF DeviceToByteArray, DeviceText, HeadOf

\* Without properties there is nothing behind the newline.
LEMMA NoPropertyLines ==
  PropertyLines(NoFunction) = <<>>
<1>1. IsContent(NoFunction)
  BY DEF IsContent, NoFunction
<1>2. Ordered(DOMAIN NoFunction) = <<>>
  BY <1>1, KeysOf
<1>3. DOMAIN PropertyStrings(NoFunction) = {}
  BY <1>2 DEF PropertyStrings
<1>4. LinesOf(PropertyStrings(NoFunction), Newline) = <<>>
  BY <1>3 DEF LinesOf
<1>5. FlattenSeq(<<>>) = <<>>
  <2>1. Len(<<>>) = 0
    OBVIOUS
  <2> QED
    BY <2>1, Zenon DEF FlattenSeq
<1>6. StrChop(<<>>, 1) = <<>>
  BY DEF StrChop
<1> QED
  BY <1>4, <1>5, <1>6, PropertyLinesAre, Zenon

\* The text has two halves, and without properties one.
LEMMA DeviceTextSplit ==
  ASSUME NEW n \in 65 .. 122, NEW c, IsContent(c)
  PROVE  /\ DeviceText(n, c) \in Seq(Byte) /\ DeviceText(n, c) # <<>>
         /\ c # NoFunction => StrSplit(DeviceText(n, c), Newline)
                                = <<StrToHex(HeadOf(n)), StrToHex(PropertyLines(c))>>
         /\ c = NoFunction => Len(StrSplit(DeviceText(n, c), Newline)) # 2
<1>1. PICK nl \in Byte : nl = Newline
  BY DEF Byte, Newline
<1>2. PICK a \in Seq(Byte) : a = StrToHex(HeadOf(n)) /\ \A k \in 1 .. Len(a) : a[k] # nl
  BY <1>1, HeadPlaces, HexText
<1>3. PICK p \in Seq(Byte) : /\ p = PropertyLines(c)
                             /\ c # NoFunction => p # <<>>
                             /\ c = NoFunction => p = <<>>
  <2>1. <<>> \in Seq(Byte)
    OBVIOUS
  <2> QED
    BY <2>1, NoPropertyLines, PropertyText
<1>4. PICK b \in Seq(Byte) : /\ b = StrToHex(p) /\ \A k \in 1 .. Len(b) : b[k] # nl
                             /\ c # NoFunction => b # <<>>
                             /\ c = NoFunction => b = <<>>
  BY <1>1, <1>3, HexText
<1>5. PICK w \in Seq(Byte) : w = <<nl>> /\ Len(w) = 1 /\ w[1] = nl
  <2>1. <<nl>> \in Seq(Byte)
    OBVIOUS
  <2> QED
    BY <2>1
<1>6. PICK m \in Seq(Byte) : m = a \o w /\ Len(m) = Len(a) + 1 /\ m[Len(m)] = nl
                             /\ \A k \in 1 .. Len(a) : m[k] = a[k]
  <2> DEFINE y == a \o w
  <2>1. /\ y \in Seq(Byte) /\ Len(y) = Len(a) + Len(w)
        /\ \A j \in 1 .. Len(a) + Len(w) : y[j] = IF j <= Len(a) THEN a[j] ELSE w[j - Len(a)]
    BY ConcatProperties
  <2>2. y = a \o w
    OBVIOUS
  <2> HIDE DEF y
  <2>3. Len(a) \in Nat /\ Len(y) = Len(a) + 1
    BY <1>5, <2>1
  <2>4. y[Len(y)] = nl
    <3>1. Len(y) \in 1 .. Len(a) + Len(w) /\ ~(Len(y) <= Len(a)) /\ Len(y) - Len(a) = 1
      BY <1>5, <2>3
    <3> QED
      BY <3>1, <2>1, <1>5
  <2>5. \A k \in 1 .. Len(a) : y[k] = a[k]
    <3>1. \A k \in 1 .. Len(a) : k \in 1 .. Len(a) + Len(w) /\ k <= Len(a)
      BY <1>5
    <3> QED
      BY <3>1, <2>1
  <2> QED
    BY <2>1, <2>2, <2>3, <2>4, <2>5
<1>7. PICK t \in Seq(Byte) : t = m \o b /\ Len(t) = Len(m) + Len(b)
  <2>1. (m \o b) \in Seq(Byte) /\ Len(m \o b) = Len(m) + Len(b)
    BY ConcatProperties
  <2> QED
    BY <2>1
<1>8. t = DeviceText(n, c)
  BY <1>1, <1>2, <1>3, <1>4, <1>5, <1>6, <1>7, Zenon DEF DeviceText
<1>9. t # <<>>
  <2>1. Len(t) >= 1
    BY <1>6, <1>7
  <2>2. Len(<<>>) = 0
    OBVIOUS
  <2> QED
    BY <2>1, <2>2
<1>10. ASSUME c # NoFunction PROVE StrSplit(t, nl) = <<a, b>>
  <2>1. StrSplit((a \o <<nl>>) \o b, nl) = <<a, b>>
    BY <1>2, <1>4, <1>10, TwoParts
  <2> QED
    BY <2>1, <1>5, <1>6, <1>7, Zenon
<1>11. ASSUME c = NoFunction PROVE Len(StrSplit(t, nl)) # 2
  <2>1. t = m
    BY <1>4, <1>7, <1>11, ConcatEmptySeq
  <2>2. PICK q \in 1 .. Len(m) : q = Len(m) /\ m[q] = nl
    BY <1>6
  <2>3. \A k \in 1 .. q - 1 : m[k] # nl
    BY <2>2, <1>2, <1>6
  <2>4. 1 \in 1 .. Len(m)
    BY <2>2
  <2>5. Find(m, <<nl>>, 1) = Len(m)
    BY <2>2, <2>3, <2>4, FindFirstSplitter
  <2> DEFINE R == PartsOf(m, nl)
  <2>6. \A i \in 1 .. Len(m) : Find(m, <<nl>>, i) \in {0, Len(m)} => R[i] = <<SubSeq(m, i, Len(m))>>
    <3>1. IsParts(R, Byte, m, nl)
      BY PartsRecursion
    <3> HIDE DEF R
    <3> QED
      BY <3>1 DEF IsParts
  <2> HIDE DEF R
  <2>7. Len(R[1]) = 1
    <3>1. R[1] = <<SubSeq(m, 1, Len(m))>>
      BY <2>4, <2>5, <2>6
    <3> QED
      BY <3>1
  <2>8. StrSplit(t, nl) = R[1]
    BY <2>1, StrSplitIsParts, Zenon DEF R
  <2>9. Len(StrSplit(t, nl)) = 1
    BY <2>7, <2>8, Zenon
  <2>10. 1 # 2
    OBVIOUS
  <2> QED
    BY <2>9, <2>10, Zenon
<1> QED
  BY <1>1, <1>2, <1>3, <1>4, <1>8, <1>9, <1>10, <1>11

\* A device read from the array of another is that one, as far as an array carries
\* it, and without properties it is refused.
LEMMA DeviceRead ==
  ASSUME NEW n \in 65 .. 122, NEW c, IsContent(c), NEW d
  PROVE  LET data == DeviceToByteArray(Device(n, c))
             read == DeviceFromByteArray(d, data)
         IN  /\ data \in Seq(Byte) /\ data # <<>>
             /\ \A k \in 1 .. Len(data) : data[k] # Newline
             /\ c # NoFunction => read = [ok |-> TRUE, device |-> Device(n, Restored(c))]
             /\ c = NoFunction => ~read.ok
<1>1. PICK t \in Seq(Byte) : t = DeviceText(n, c) /\ t # <<>>
  BY DeviceTextSplit
<1>2. PICK data \in Seq(Byte) : /\ data = DeviceToByteArray(Device(n, c)) /\ data = StrToHex(t)
                                /\ data # <<>> /\ \A k \in 1 .. Len(data) : data[k] # Newline
  BY <1>1, DeviceArray, HexText
<1>3. StrFromHex(data) = t
  BY <1>2, HexRestores
<1> DEFINE list  == StrSplit(StrFromHex(data), Newline)
           list1 == StrSplit(StrFromHex(list[1]), Newline)
           ok    == data # <<>> /\ Len(list) = 2 /\ Len(list1) = 3
<1>4. DeviceFromByteArray(d, data)
        = [ ok |-> ok,
            device |-> IF ok THEN [ name |-> list1[3], action |-> list1[2][1],
                                    content |-> Properties(StrFromHex(list[2])) ]
                       ELSE d ]
  BY Zenon DEF DeviceFromByteArray
<1>5. list = StrSplit(t, Newline)
  BY <1>3
<1> HIDE DEF list
<1>6. ASSUME c # NoFunction
      PROVE  DeviceFromByteArray(d, data) = [ok |-> TRUE, device |-> Device(n, Restored(c))]
  <2>1. PICK a, b : /\ a = StrToHex(HeadOf(n)) /\ b = StrToHex(PropertyLines(c))
                    /\ list = <<a, b>>
    BY <1>1, <1>5, <1>6, DeviceTextSplit
  <2>2. Len(list) = 2 /\ list[1] = a /\ list[2] = b
    BY <2>1
  <2>3. StrFromHex(a) = HeadOf(n) /\ StrFromHex(b) = PropertyLines(c)
    BY <2>1, <1>6, HeadPlaces, PropertyText, HexRestores
  <2>4. list1 = <<<<DeviceId>>, <<None>>, <<n>>>>
    BY <2>2, <2>3, HeadSplit
  <2> HIDE DEF list1
  <2>5. Len(list1) = 3 /\ list1[3] = <<n>> /\ list1[2][1] = None
    BY <2>4
  <2>6. Properties(StrFromHex(list[2])) = Restored(c)
    BY <2>2, <2>3, <1>6, PropertiesRestored
  <2>7. ok
    BY <2>2, <2>5, <1>2
  <2> HIDE DEF ok
  <2> QED
    BY <2>5, <2>6, <2>7, <1>4 DEF Device
<1>7. ASSUME c = NoFunction PROVE ~DeviceFromByteArray(d, data).ok
  <2>1. Len(list) # 2
    BY <1>1, <1>5, <1>7, DeviceTextSplit
  <2>2. ~ok
    BY <2>1
  <2> HIDE DEF ok
  <2> QED
    BY <2>2, <1>4
<1> QED
  BY <1>2, <1>6, <1>7

(***************************************************************************)
(* The devices of a file, read one after the other.                        *)
(***************************************************************************)

\* Nothing is split into no parts.
LEMMA NothingSplit ==
  ASSUME NEW c
  PROVE  StrSplit(<<>>, c) = <<>>
<1> DEFINE at(i) == Find(<<>>, <<c>>, i)
           Body(i, g) == IF i > Len(<<>>) THEN <<>>
                         ELSE IF at(i) \in {0, Len(<<>>)} THEN <<SubSeq(<<>>, i, Len(<<>>))>>
                         ELSE <<SubSeq(<<>>, i, at(i) - 1)>> \o g[at(i) + 1]
           f == [i \in 1 .. Len(<<>>) + 1 |-> <<>>]
           R == PartsOf(<<>>, c)
<1>1. Len(<<>>) = 0 /\ 1 \in 1 .. Len(<<>>) + 1
      /\ \A i \in 1 .. Len(<<>>) + 1 : i > Len(<<>>)
  OBVIOUS
<1>2. f = [i \in 1 .. Len(<<>>) + 1 |-> Body(i, f)]
  BY <1>1, Zenon
<1> HIDE DEF f
<1>3. R = [i \in 1 .. Len(<<>>) + 1 |-> Body(i, R)]
  BY <1>2, Zenon DEF PartsOf
<1> HIDE DEF R
<1>4. R[1] = Body(1, R)
  <2> HIDE DEF Body
  <2> QED
    BY <1>1, <1>3, Zenon
<1>5. R[1] = <<>>
  BY <1>1, <1>4, Zenon
<1> QED
  BY <1>5, StrSplitIsParts, Zenon DEF R

\* The devices read one after the other, as FromByteArray appends them.
ReadsOf(infos) ==
  LET Read[i \in 0 .. Len(infos)] ==
        LET last == Read[i - 1]
            next == DeviceFromByteArray(NewDevice, infos[i])
        IN  IF i = 0 THEN NoFunction ELSE Append1(last, next.device)
  IN  Read

\* FromByteArray takes the last of them, if every device can be read.
LEMMA ReadsAre ==
  ASSUME NEW data, NEW infos, infos = StrSplit(StrFromHex(data), Newline)
  PROVE  /\ (\A i \in DOMAIN infos : DeviceFromByteArray(NewDevice, infos[i]).ok)
              => DevicesFromByteArray(data) = ReadsOf(infos)[Len(infos)]
         /\ (\E i \in DOMAIN infos : ~DeviceFromByteArray(NewDevice, infos[i]).ok)
              => DevicesFromByteArray(data) = NoFunction
BY Zenon DEF DevicesFromByteArray, ReadsOf

\* What has been read after each device, once there is a function that says so.
LEMMA ReadsRecursion ==
  ASSUME NEW infos, Len(infos) \in Nat, NEW G,
         G = [i \in 0 .. Len(infos) |->
                IF i = 0 THEN NoFunction
                ELSE Append1(G[i - 1], DeviceFromByteArray(NewDevice, infos[i]).device)]
  PROVE  ReadsOf(infos) = G
<1> DEFINE L == Len(infos)
           Body(i, g) == IF i = 0 THEN NoFunction
                         ELSE Append1(g[i - 1], DeviceFromByteArray(NewDevice, infos[i]).device)
           R == ReadsOf(infos)
<1>1. R = [i \in 0 .. L |-> Body(i, R)]
  BY Zenon DEF ReadsOf
<1>2. G = [i \in 0 .. L |-> Body(i, G)]
  BY Zenon
<1> HIDE DEF R
<1> DEFINE S == {n \in Nat : n <= L => R[n] = G[n]}
<1>3. 0 \in S
  <2>1. 0 \in 0 .. L
    OBVIOUS
  <2>2. R[0] = NoFunction /\ G[0] = NoFunction
    BY <2>1, <1>1, <1>2, Zenon
  <2> QED
    BY <2>2
<1>4. ASSUME NEW n \in Nat, n \in S PROVE n + 1 \in S
  <2> SUFFICES ASSUME n + 1 <= L PROVE R[n + 1] = G[n + 1]
    OBVIOUS
  <2>1. n + 1 \in 0 .. L /\ n + 1 # 0 /\ (n + 1) - 1 = n /\ n <= L
    OBVIOUS
  <2>2. R[n] = G[n]
    BY <2>1, <1>4
  <2>3. R[n + 1] = Body(n + 1, R) /\ G[n + 1] = Body(n + 1, G)
    <3> HIDE DEF Body
    <3> QED
      BY <2>1, <1>1, <1>2, Zenon
  <2> QED
    BY <2>1, <2>2, <2>3, Zenon
<1>5. Nat \subseteq S
  <2> HIDE DEF S
  <2> QED
    BY <1>3, <1>4, NumbersInduction
<1>6. ASSUME NEW n \in 0 .. L PROVE R[n] = G[n]
  <2>1. n \in Nat /\ n <= L
    OBVIOUS
  <2> QED
    BY <2>1, <1>5
<1>7. R = G
  <2> HIDE DEF Body
  <2>1. R = [i \in 0 .. L |-> R[i]] /\ G = [i \in 0 .. L |-> G[i]]
    BY <1>1, <1>2
  <2> QED
    BY <2>1, <1>6, Zenon
<1> QED
  BY <1>7 DEF R

\* A file without devices.
LEMMA NothingRead ==
  DevicesFromByteArray(<<>>) = NoFunction
<1>1. StrFromHex(<<>>) = <<>>
  <2>1. <<>> \in Seq(Byte)
    OBVIOUS
  <2> QED
    BY <2>1, HexText, HexRestores
<1>2. StrSplit(StrFromHex(<<>>), Newline) = <<>>
  BY <1>1, NothingSplit, Zenon
<1>3. Len(<<>>) = 0 /\ DOMAIN <<>> = {} /\ 0 .. 0 = {0}
  OBVIOUS
<1> DEFINE G == [i \in {0} |-> NoFunction]
<1>4. G = [i \in 0 .. Len(<<>>) |->
             IF i = 0 THEN NoFunction
             ELSE Append1(G[i - 1], DeviceFromByteArray(NewDevice, <<>>[i]).device)]
  BY <1>3, Zenon
<1>5. G[0] = NoFunction
  OBVIOUS
<1> HIDE DEF G
<1>6. ReadsOf(<<>>) = G
  BY <1>3, <1>4, ReadsRecursion
<1>7. DevicesFromByteArray(<<>>) = ReadsOf(<<>>)[Len(<<>>)]
  BY <1>2, <1>3, ReadsAre, Zenon
<1> QED
  BY <1>3, <1>5, <1>6, <1>7, Zenon

\* A document of devices.
IsDevices(f) ==
  /\ DOMAIN f \subseteq 65 .. 122
  /\ f = [n \in DOMAIN f |-> Device(n, f[n].content)]
  /\ \A n \in DOMAIN f : IsContent(f[n].content)

\* What a file gives back of them.
ReadBack(f) == [n \in DOMAIN f |-> Device(n, Restored(f[n].content))]

\* The lines of a file of devices, before they are written in hexadecimal.
DeviceStrings(f) ==
  [i \in DOMAIN Ordered(DOMAIN f) |-> DeviceToByteArray(f[Ordered(DOMAIN f)[i]])]

\* The array of devices is their lines in hexadecimal.
LEMMA DevicesArray ==
  ASSUME NEW f
  PROVE  DevicesToByteArray(f)
           = StrToHex(StrChop(FlattenSeq(LinesOf(DeviceStrings(f), Newline)), 1))
<1> DEFINE names == Ordered(DOMAIN f)
           L == [i \in DOMAIN names |-> DeviceToByteArray(f[names[i]]) \o <<Newline>>]
<1>1. DOMAIN DeviceStrings(f) = DOMAIN names
  BY DEF DeviceStrings
<1>2. \A i \in DOMAIN names : DeviceStrings(f)[i] = DeviceToByteArray(f[names[i]])
  BY DEF DeviceStrings
<1> HIDE DEF names
<1>3. LinesOf(DeviceStrings(f), Newline) = L
  BY <1>1, <1>2, Zenon DEF LinesOf
<1>4. DevicesToByteArray(f) = StrToHex(StrChop(FlattenSeq(L), 1))
  BY Zenon DEF DevicesToByteArray, names
<1> QED
  BY <1>3, <1>4, Zenon

\* The names of a document in their order.
LEMMA NamesOf ==
  ASSUME NEW f, IsDevices(f)
  PROVE  /\ Ordered(DOMAIN f) \in Seq(65 .. 122)
         /\ \A i \in 1 .. Len(Ordered(DOMAIN f)) : Ordered(DOMAIN f)[i] \in DOMAIN f
         /\ \A i, j \in 1 .. Len(Ordered(DOMAIN f)) :
              Ordered(DOMAIN f)[i] = Ordered(DOMAIN f)[j] => i = j
         /\ \A n \in DOMAIN f : \E i \in 1 .. Len(Ordered(DOMAIN f)) : Ordered(DOMAIN f)[i] = n
<1> DEFINE names == Ordered(DOMAIN f)
<1>1. DOMAIN f \subseteq 65 .. 122
  BY DEF IsDevices
<1>2. /\ names \in Seq(DOMAIN f)
      /\ \A i, j \in 1 .. Len(names) : names[i] = names[j] => i = j
      /\ \A n \in DOMAIN f : \E i \in 1 .. Len(names) : names[i] = n
  <2>1. PICK N \in Nat : DOMAIN f \subseteq 1 .. N
    <3>1. 65 .. 122 \subseteq 1 .. 122 /\ 122 \in Nat
      OBVIOUS
    <3> QED
      BY <3>1, <1>1
  <2> QED
    BY <2>1, OrderedKeys
<1> HIDE DEF names
<1>3. \A i \in 1 .. Len(names) : names[i] \in DOMAIN f
  BY <1>2, ElementOfSeq
<1>4. names \in Seq(65 .. 122)
  BY <1>1, <1>2, <1>3
<1> QED
  BY <1>2, <1>3, <1>4 DEF names

\* Devices without any write an empty line.
LEMMA NoDevices ==
  ASSUME NEW f, IsDevices(f), DOMAIN f = {}
  PROVE  DevicesToByteArray(f) = <<>> /\ f = NoFunction /\ ReadBack(f) = NoFunction
<1>1. DOMAIN DeviceStrings(f) = {}
  <2> DEFINE names == Ordered(DOMAIN f)
  <2>1. names \in Seq(65 .. 122) /\ \A i \in 1 .. Len(names) : names[i] \in DOMAIN f
    BY NamesOf
  <2>2. DOMAIN DeviceStrings(f) = DOMAIN names
    BY DEF DeviceStrings
  <2> HIDE DEF names
  <2>3. DOMAIN names = 1 .. Len(names)
    BY <2>1
  <2> QED
    BY <2>1, <2>2, <2>3
<1>2. LinesOf(DeviceStrings(f), Newline) = <<>>
  BY <1>1 DEF LinesOf
<1>3. FlattenSeq(<<>>) = <<>>
  <2>1. Len(<<>>) = 0
    OBVIOUS
  <2> QED
    BY <2>1, Zenon DEF FlattenSeq
<1>4. StrChop(<<>>, 1) = <<>>
  BY DEF StrChop
<1>5. StrToHex(<<>>) = <<>>
  <2>1. <<>> \in Seq(Byte)
    OBVIOUS
  <2> QED
    BY <2>1, HexText
<1>6. f = NoFunction /\ ReadBack(f) = NoFunction
  BY DEF IsDevices, NoFunction, ReadBack
<1> QED
  BY <1>2, <1>3, <1>4, <1>5, <1>6, DevicesArray, Zenon

\* The lines that are read are the arrays of the devices.
LEMMA DevicesSplit ==
  ASSUME NEW f, IsDevices(f), DOMAIN f # {}
  PROVE  /\ StrSplit(StrFromHex(DevicesToByteArray(f)), Newline) = DeviceStrings(f)
         /\ DOMAIN DeviceStrings(f) = 1 .. Len(Ordered(DOMAIN f))
         /\ Len(DeviceStrings(f)) = Len(Ordered(DOMAIN f))
         /\ Len(Ordered(DOMAIN f)) \in Nat \ {0}
         /\ \A i \in 1 .. Len(Ordered(DOMAIN f)) :
              DeviceStrings(f)[i] = DeviceToByteArray(f[Ordered(DOMAIN f)[i]])
<1>1. PICK names \in Seq(65 .. 122), L \in Nat \ {0} :
        /\ names = Ordered(DOMAIN f) /\ L = Len(names)
        /\ \A i \in 1 .. L : names[i] \in DOMAIN f
  <2> DEFINE keys == Ordered(DOMAIN f)
  <2>1. /\ keys \in Seq(65 .. 122) /\ \A i \in 1 .. Len(keys) : keys[i] \in DOMAIN f
        /\ \E i \in 1 .. Len(keys) : TRUE
    BY NamesOf
  <2> HIDE DEF keys
  <2>2. Len(keys) \in Nat \ {0}
    BY <2>1
  <2> QED
    BY <2>1, <2>2 DEF keys
<1>2. PICK nl \in Byte : nl = Newline
  BY DEF Byte, Newline
<1>3. ASSUME NEW i \in 1 .. L
      PROVE  /\ DeviceToByteArray(f[names[i]]) \in Seq(Byte)
             /\ DeviceToByteArray(f[names[i]]) # <<>>
             /\ \A k \in 1 .. Len(DeviceToByteArray(f[names[i]])) :
                  DeviceToByteArray(f[names[i]])[k] # nl
  <2>1. PICK n \in DOMAIN f : n = names[i]
    BY <1>1
  <2>2. n \in 65 .. 122 /\ IsContent(f[n].content) /\ f[n] = Device(n, f[n].content)
    BY Zenon DEF IsDevices
  <2>3. PICK c : c = f[n].content
    OBVIOUS
  <2>4. LET data == DeviceToByteArray(Device(n, c))
        IN  data \in Seq(Byte) /\ data # <<>> /\ \A k \in 1 .. Len(data) : data[k] # Newline
    BY <2>2, <2>3, DeviceRead
  <2>5. f[names[i]] = Device(n, c)
    BY <2>1, <2>2, <2>3
  <2> QED
    BY <2>4, <2>5, <1>2
<1>4. PICK strings \in Seq(Seq(Byte)) :
        /\ strings = DeviceStrings(f) /\ Len(strings) = L
        /\ \A i \in 1 .. L : strings[i] = DeviceToByteArray(f[names[i]])
  <2> DEFINE g == [i \in 1 .. L |-> DeviceToByteArray(f[names[i]])]
  <2>1. g \in Seq(Seq(Byte)) /\ Len(g) = L
    <3>1. g \in [1 .. L -> Seq(Byte)]
      BY <1>3
    <3> QED
      BY <3>1
  <2>2. DOMAIN names = 1 .. L
    BY <1>1
  <2>3. g = DeviceStrings(f)
    BY <2>2, <1>1, Zenon DEF DeviceStrings
  <2>4. \A i \in 1 .. L : g[i] = DeviceToByteArray(f[names[i]])
    OBVIOUS
  <2> HIDE DEF g
  <2> QED
    BY <2>1, <2>3, <2>4
<1>5. \A i \in 1 .. L : FreeOf(strings[i], nl)
  BY <1>3, <1>4 DEF FreeOf
<1>6. strings[L] # <<>> /\ L = Len(strings)
  <2>1. L \in 1 .. L
    OBVIOUS
  <2> QED
    BY <2>1, <1>3, <1>4
<1> DEFINE text == StrChop(FlattenSeq(LinesOf(strings, nl)), 1)
<1>7. text \in Seq(Byte) /\ StrSplit(text, nl) = strings
  <2>1. AreLines(strings, L, nl)
    BY <1>5, <1>6, Zenon DEF AreLines
  <2> QED
    BY <2>1, LinesSplit
<1>8. DevicesToByteArray(f) = StrToHex(text)
  BY <1>2, <1>4, DevicesArray, Zenon
<1> HIDE DEF text
<1>9. StrFromHex(StrToHex(text)) = text
  BY <1>7, HexRestores
<1>10. StrSplit(StrFromHex(DevicesToByteArray(f)), Newline) = DeviceStrings(f)
  BY <1>2, <1>4, <1>7, <1>8, <1>9, Zenon
<1>11. DOMAIN strings = 1 .. L
  BY <1>4
<1> QED
  BY <1>1, <1>4, <1>10, <1>11

\* A file gives back all the devices it was written from or none.
LEMMA DevicesRead ==
  ASSUME NEW f, IsDevices(f)
  PROVE  LET read == DevicesFromByteArray(DevicesToByteArray(f))
         IN  /\ (\E n \in DOMAIN f : f[n].content = NoFunction) => read = NoFunction
             /\ (\A n \in DOMAIN f : f[n].content # NoFunction) => read = ReadBack(f)
<1>1. CASE DOMAIN f = {}
  <2>1. DevicesFromByteArray(DevicesToByteArray(f)) = NoFunction /\ ReadBack(f) = NoFunction
    BY <1>1, NoDevices, NothingRead
  <2> QED
    BY <2>1
<1>2. CASE DOMAIN f # {}
  <2>1. PICK names \in Seq(65 .. 122), L \in Nat \ {0} :
          /\ names = Ordered(DOMAIN f) /\ L = Len(names)
          /\ \A i \in 1 .. L : names[i] \in DOMAIN f
          /\ \A i, j \in 1 .. L : names[i] = names[j] => i = j
          /\ \A n \in DOMAIN f : \E i \in 1 .. L : names[i] = n
    <3> DEFINE keys == Ordered(DOMAIN f)
    <3>1. /\ keys \in Seq(65 .. 122) /\ \A i \in 1 .. Len(keys) : keys[i] \in DOMAIN f
          /\ \A i, j \in 1 .. Len(keys) : keys[i] = keys[j] => i = j
          /\ \A n \in DOMAIN f : \E i \in 1 .. Len(keys) : keys[i] = n
      BY NamesOf
    <3>2. Len(keys) \in Nat \ {0}
      BY <1>2, DevicesSplit
    <3>3. keys = Ordered(DOMAIN f)
      OBVIOUS
    <3> HIDE DEF keys
    <3> QED
      BY <3>1, <3>2, <3>3
  <2>2. PICK data, infos :
          /\ data = DevicesToByteArray(f) /\ infos = StrSplit(StrFromHex(data), Newline)
          /\ Len(infos) = L /\ DOMAIN infos = 1 .. L
          /\ \A i \in 1 .. L : infos[i] = DeviceToByteArray(f[names[i]])
    BY <1>2, <2>1, DevicesSplit
  <2> DEFINE c(n) == f[n].content
             got(i) == DeviceFromByteArray(NewDevice, infos[i])
  <2>3. ASSUME NEW i \in 1 .. L
        PROVE  /\ c(names[i]) # NoFunction =>
                    got(i) = [ok |-> TRUE, device |-> Device(names[i], Restored(c(names[i])))]
               /\ c(names[i]) = NoFunction => ~got(i).ok
    <3>1. PICK n \in DOMAIN f : n = names[i]
      BY <2>1
    <3>2. n \in 65 .. 122 /\ IsContent(c(n)) /\ f[n] = Device(n, c(n))
      BY Zenon DEF IsDevices
    <3>3. PICK k : k = c(n)
      OBVIOUS
    <3>4. LET read == DeviceFromByteArray(NewDevice, DeviceToByteArray(Device(n, k)))
          IN  /\ k # NoFunction => read = [ok |-> TRUE, device |-> Device(n, Restored(k))]
              /\ k = NoFunction => ~read.ok
      BY <3>2, <3>3, DeviceRead
    <3>5. infos[i] = DeviceToByteArray(Device(n, k))
      BY <2>2, <3>1, <3>2, <3>3
    <3> HIDE DEF c
    <3> QED
      BY <3>1, <3>3, <3>4, <3>5
  <2> HIDE DEF got
  <2>4. ASSUME NEW n \in DOMAIN f, c(n) = NoFunction
        PROVE  DevicesFromByteArray(data) = NoFunction
    <3>1. PICK i \in 1 .. L : names[i] = n
      BY <2>1
    <3>2. ~got(i).ok
      BY <3>1, <2>3, <2>4
    <3>3. \E j \in DOMAIN infos : ~DeviceFromByteArray(NewDevice, infos[j]).ok
      BY <3>2, <2>2 DEF got
    <3> QED
      BY <3>3, <2>2, ReadsAre
  <2>5. ASSUME \A n \in DOMAIN f : c(n) # NoFunction
        PROVE  DevicesFromByteArray(data) = ReadBack(f)
    <3> DEFINE before(i) == {names[j] : j \in 1 .. i}
               dev(n) == Device(n, Restored(c(n)))
               G == [i \in 0 .. L |-> [n \in before(i) |-> dev(n)]]
    <3>1. ASSUME NEW i \in 1 .. L PROVE got(i) = [ok |-> TRUE, device |-> dev(names[i])]
      BY <2>1, <2>3, <2>5
    <3>2. \A i \in DOMAIN infos : DeviceFromByteArray(NewDevice, infos[i]).ok
      BY <3>1, <2>2 DEF got
    <3>3. DevicesFromByteArray(data) = ReadsOf(infos)[L]
      BY <3>2, <2>2, ReadsAre
    <3> HIDE DEF c
    <3>4. \A i \in 0 .. L : G[i] = [n \in before(i) |-> dev(n)]
      OBVIOUS
    <3>5. ASSUME NEW i \in 0 .. L
          PROVE  G[i] = IF i = 0 THEN NoFunction
                        ELSE Append1(G[i - 1], DeviceFromByteArray(NewDevice, infos[i]).device)
      <4>1. CASE i = 0
        <5>1. before(0) = {} /\ 0 \in 0 .. L
          OBVIOUS
        <5>2. [n \in {} |-> dev(n)] = NoFunction
          BY DEF NoFunction
        <5> HIDE DEF before, dev, G
        <5>3. G[0] = NoFunction
          BY <5>1, <5>2, <3>4
        <5> QED
          BY <4>1, <5>3
      <4>2. CASE i # 0
        <5>1. i \in 1 .. L /\ i - 1 \in 0 .. L
          BY <4>2
        <5>2. DeviceFromByteArray(NewDevice, infos[i]).device = dev(names[i])
          <6> HIDE DEF dev
          <6>1. got(i).device = dev(names[i])
            BY <3>1, <5>1
          <6> QED
            BY <6>1, Zenon DEF got
        <5>3. names[i] \notin before(i - 1)
          <6> SUFFICES ASSUME NEW j \in 1 .. i - 1, names[j] = names[i] PROVE FALSE
            OBVIOUS
          <6>1. j \in 1 .. L /\ j # i
            BY <5>1
          <6> QED
            BY <5>1, <6>1, <2>1
        <5>4. before(i) = before(i - 1) \cup {names[i]}
          <6>1. \A j : j \in 1 .. i <=> (j \in 1 .. i - 1 \/ j = i)
            BY <5>1
          <6> QED
            BY <6>1
        <5> HIDE DEF before
        <5>5. DOMAIN G[i - 1] = before(i - 1) /\ \A n \in before(i - 1) : G[i - 1][n] = dev(n)
          <6>1. G[i - 1] = [n \in before(i - 1) |-> dev(n)]
            BY <5>1, <3>4
          <6> HIDE DEF G, dev
          <6> QED
            BY <6>1
        <5>6. G[i] = [n \in before(i) |-> dev(n)]
          BY <3>4
        <5> HIDE DEF G
        <5>7. Append1(G[i - 1], dev(names[i]))
                = [m \in before(i - 1) \cup {names[i]} |-> IF m = names[i] THEN dev(names[i]) ELSE G[i - 1][m]]
          <6>1. PICK g, n, k : g = G[i - 1] /\ n = names[i] /\ k = Restored(c(names[i]))
            OBVIOUS
          <6>2. n \notin DOMAIN g
            BY <5>3, <5>5, <6>1, Zenon
          <6>3. Append1(g, Device(n, k)) = [m \in DOMAIN g \cup {n} |-> IF m = n THEN Device(n, k) ELSE g[m]]
            <7>1. Device(n, k).name[1] = n
              BY DEF Device
            <7> QED
              BY <6>2, <7>1, Zenon DEF Append1
          <6> QED
            BY <5>5, <6>1, <6>3, Zenon DEF dev
        <5> HIDE DEF dev
        <5>8. Append1(G[i - 1], dev(names[i])) = G[i]
          BY <5>4, <5>5, <5>6, <5>7, Zenon
        <5> QED
          BY <4>2, <5>2, <5>8
      <4> QED
        BY <4>1, <4>2
    <3>6. G = [i \in 0 .. L |-> G[i]]
      OBVIOUS
    <3> HIDE DEF G
    <3>7. G = [i \in 0 .. Len(infos) |->
                 IF i = 0 THEN NoFunction
                 ELSE Append1(G[i - 1], DeviceFromByteArray(NewDevice, infos[i]).device)]
      BY <3>5, <3>6, <2>2, Zenon
    <3>8. ReadsOf(infos) = G
      BY <3>7, <2>2, ReadsRecursion
    <3>9. before(L) = DOMAIN f
      <4>1. ASSUME NEW n \in before(L) PROVE n \in DOMAIN f
        BY <2>1
      <4>2. ASSUME NEW n \in DOMAIN f PROVE n \in before(L)
        <5>1. PICK i \in 1 .. L : names[i] = n
          BY <2>1
        <5> QED
          BY <5>1
      <4> QED
        BY <4>1, <4>2
    <3>10. G[L] = ReadBack(f)
      <4>1. L \in 0 .. L
        OBVIOUS
      <4>2. G[L] = [n \in before(L) |-> dev(n)]
        BY <4>1, <3>4
      <4> HIDE DEF before
      <4> QED
        BY <4>2, <3>9, Zenon DEF ReadBack, c
    <3> QED
      BY <3>3, <3>8, <3>10
  <2> QED
    BY <2>2, <2>4, <2>5
<1> QED
  BY <1>1, <1>2

(***************************************************************************)
(* What the steps of Devices keep, and what follows from it.               *)
(***************************************************************************)

\* The lists are devices, and the file is what it was written from.
DevInv ==
  /\ IsDevices(known) /\ IsDevices(saved)
  /\ file = DevicesToByteArray(saved)
  /\ AssignedFromOne

\* What is read back are devices again.
LEMMA ReadBackIsDevices ==
  ASSUME NEW f, IsDevices(f)
  PROVE  IsDevices(ReadBack(f)) /\ IsDevices(NoFunction)
<1> DEFINE r == ReadBack(f)
<1>1. DOMAIN r = DOMAIN f /\ \A n \in DOMAIN f : r[n] = Device(n, Restored(f[n].content))
  BY DEF ReadBack
<1>2. \A n, k : Device(n, k).content = k
  BY DEF Device
<1>3. \A n \in DOMAIN r : r[n].content = Restored(f[n].content)
  BY <1>1, <1>2
<1>4. r = [n \in DOMAIN r |-> Device(n, r[n].content)]
  <2>1. r = [n \in DOMAIN r |-> r[n]]
    BY DEF ReadBack
  <2> HIDE DEF r
  <2>2. \A n \in DOMAIN r : r[n] = Device(n, r[n].content)
    BY <1>1, <1>3
  <2> QED
    BY <2>1, <2>2, Zenon
<1> HIDE DEF r
<1>5. ASSUME NEW n \in DOMAIN r PROVE IsContent(r[n].content)
  <2>1. IsContent(f[n].content)
    BY <1>1 DEF IsDevices
  <2>2. IsContent(Restored(f[n].content))
    BY <2>1, RestoredIsContent
  <2> QED
    BY <2>2, <1>3
<1>6. DOMAIN r \subseteq 65 .. 122
  BY <1>1 DEF IsDevices
<1>7. IsDevices(r)
  BY <1>4, <1>5, <1>6 DEF IsDevices
<1>8. IsDevices(NoFunction)
  BY DEF IsDevices, NoFunction
<1> QED
  BY <1>7, <1>8 DEF r

\* What udev tells of a device is content.
LEMMA ContentsAreContent ==
  ASSUME NEW c \in Contents
  PROVE  IsContent(c)
<1>1. DOMAIN c \subseteq 65 .. 122 /\ c \in [DOMAIN c -> Seq((0 .. 255) \ {Newline})]
  BY DevicesAssumption
<1>2. ASSUME NEW k \in DOMAIN c
      PROVE  c[k] \in Seq(Byte) /\ \A j \in 1 .. Len(c[k]) : c[k][j] # Newline
  <2>1. c[k] \in Seq((0 .. 255) \ {Newline})
    BY <1>1
  <2>2. \A j \in 1 .. Len(c[k]) : c[k][j] \in (0 .. 255) \ {Newline}
    BY <2>1, ElementOfSeq
  <2>3. c[k] \in Seq(Byte)
    BY <2>1, <2>2 DEF Byte
  <2> QED
    BY <2>2, <2>3
<1>3. c \in [DOMAIN c -> Seq(Byte)]
  <2>1. c = [k \in DOMAIN c |-> c[k]]
    BY <1>1
  <2> QED
    BY <2>1, <1>2
<1> QED
  BY <1>1, <1>2, <1>3 DEF IsContent

\* The steps that change a list or a device.
LEMMA ScanKeeps ==
  ASSUME DevInv, NEW nodes \in SUBSET Names, NEW content \in [nodes -> Contents], Scan(nodes, content)
  PROVE  DevInv'
<1>1. known' = [n \in nodes |-> Device(n, content[n])]
  BY DEF Scan
<1>2. \A n, k : Device(n, k).content = k
  BY DEF Device
<1>3. DOMAIN known' = nodes /\ \A n \in nodes : known'[n] = Device(n, content[n])
  BY <1>1
<1>4. \A n \in nodes : known'[n].content = content[n]
  BY <1>2, <1>3
<1>5. known' = [n \in DOMAIN known' |-> Device(n, known'[n].content)]
  BY <1>1, <1>3, <1>4, Zenon
<1>6. \A n \in nodes : IsContent(known'[n].content)
  <2>1. \A n \in nodes : content[n] \in Contents
    OBVIOUS
  <2> QED
    BY <2>1, <1>4, ContentsAreContent
<1>7. nodes \subseteq 65 .. 122
  BY DevicesAssumption
<1>8. IsDevices(known)'
  BY <1>3, <1>5, <1>6, <1>7, Zenon DEF IsDevices
<1>9. UNCHANGED <<file, saved, device, source>>
  BY DEF Scan
<1> QED
  BY <1>8, <1>9 DEF DevInv, AssignedFromOne

\* FromFile reads into the list what ToFile wrote of one.
LEMMA FromFileKeeps ==
  ASSUME DevInv, FromFile
  PROVE  DevInv'
<1>1. known' = DevicesFromByteArray(DevicesToByteArray(saved)) /\ UNCHANGED <<file, saved, device, source>>
  BY DEF FromFile, DevInv
<1>2. known' = NoFunction \/ known' = ReadBack(saved)
  BY <1>1, DevicesRead DEF DevInv
<1>3. IsDevices(known')
  BY <1>2, ReadBackIsDevices DEF DevInv
<1> QED
  BY <1>1, <1>3 DEF DevInv, AssignedFromOne

\* A device taken from the list is the source of the one assigned.
LEMMA TakeDeviceKeeps ==
  ASSUME DevInv, NEW n, TakeDevice(n)
  PROVE  DevInv'
<1>1. /\ n \in DOMAIN known /\ device' = Assign(device, known[n]) /\ source' = known[n]
      /\ UNCHANGED <<known, file, saved>>
  BY DEF TakeDevice
<1>2. PICK c : c = known[n].content /\ IsContent(c) /\ known[n] = Device(n, c) /\ n \in 65 .. 122
  BY <1>1, Zenon DEF DevInv, IsDevices
<1>3. Device(n, c).content = c /\ Device(n, c).name = <<n>>
  BY DEF Device
<1>4. ASSUME c # NoFunction PROVE device' = Device(n, Restored(c))
  <2>1. PICK d : d = [device EXCEPT !.name = known[n].name, !.action = known[n].action]
    OBVIOUS
  <2>2. DeviceFromByteArray(d, DeviceToByteArray(Device(n, c)))
          = [ok |-> TRUE, device |-> Device(n, Restored(c))]
    BY <1>2, <1>4, DeviceRead
  <2>3. device' = DeviceFromByteArray(d, DeviceToByteArray(Device(n, c))).device
    BY <1>1, <1>2, <2>1, Zenon DEF Assign
  <2> HIDE DEF Device
  <2> QED
    BY <2>2, <2>3
<1>5. AssignedFromOne'
  <2> SUFFICES ASSUME source'.content # NoFunction
               PROVE  /\ device'.name = source'.name
                      /\ device'.content = [k \in Carried(source'.content) |-> source'.content[k]]
    BY Zenon DEF AssignedFromOne
  <2>1. source' = Device(n, c) /\ source'.content = c /\ source'.name = <<n>>
    BY <1>1, <1>2, <1>3
  <2>2. device' = Device(n, Restored(c))
    BY <2>1, <1>4
  <2>3. device'.name = <<n>> /\ device'.content = Restored(c)
    BY <2>2 DEF Device
  <2> QED
    BY <2>1, <2>3, Zenon DEF Restored
<1> QED
  BY <1>1, <1>5 DEF DevInv

\* The invariant of Devices.
LEMMA DevInvariant == DevSpec => []DevInv
<1>1. DevInit => DevInv
  <2> SUFFICES ASSUME DevInit PROVE DevInv
    OBVIOUS
  <2>1. IsDevices(NoFunction) /\ DOMAIN NoFunction = {}
    BY DEF IsDevices, NoFunction
  <2>2. known = NoFunction /\ saved = NoFunction /\ file = <<>> /\ source = NewDevice
    BY DEF DevInit
  <2>3. DevicesToByteArray(NoFunction) = <<>>
    BY <2>1, NoDevices
  <2>4. AssignedFromOne
    BY <2>2 DEF AssignedFromOne, NewDevice
  <2> QED
    BY <2>1, <2>2, <2>3, <2>4 DEF DevInv
<1>2. DevInv /\ [DevNext]_devVars => DevInv'
  <2> SUFFICES ASSUME DevInv, [DevNext]_devVars PROVE DevInv'
    OBVIOUS
  <2>1. ASSUME NEW nodes \in SUBSET Names, NEW content \in [nodes -> Contents], Scan(nodes, content)
        PROVE  DevInv'
    BY <2>1, ScanKeeps
  <2>2. CASE ToFile
    BY <2>2 DEF ToFile, DevInv, AssignedFromOne
  <2>3. CASE FromFile
    BY <2>3, FromFileKeeps
  <2>4. ASSUME NEW n \in Names, TakeDevice(n) PROVE DevInv'
    BY <2>4, TakeDeviceKeeps
  <2>5. CASE UNCHANGED devVars
    BY <2>5 DEF devVars, DevInv, AssignedFromOne
  <2> QED
    BY <2>1, <2>2, <2>3, <2>4, <2>5 DEF DevNext
<1> QED
  BY <1>1, <1>2, PTL DEF DevSpec

\* What ArrayRestores states, of the lists and the file of such a state.
LEMMA DevInvRestores == DevInv => ArrayRestores
<1> SUFFICES ASSUME DevInv PROVE ArrayRestores
  OBVIOUS
<1> DEFINE read == DevicesFromByteArray(file)
<1>1. /\ (\E n \in DOMAIN saved : saved[n].content = NoFunction) => read = NoFunction
      /\ (\A n \in DOMAIN saved : saved[n].content # NoFunction) => read = ReadBack(saved)
  BY DevicesRead DEF DevInv
<1> HIDE DEF read
<1>2. ASSUME \E n \in DOMAIN saved : saved[n].content = NoFunction PROVE DOMAIN read = {}
  BY <1>1, <1>2 DEF NoFunction
<1>3. ASSUME \A n \in DOMAIN saved : saved[n].content # NoFunction
      PROVE  /\ DOMAIN read = DOMAIN saved
             /\ \A n \in DOMAIN saved :
                  /\ read[n].name = saved[n].name
                  /\ DOMAIN read[n].content = Carried(saved[n].content)
                  /\ \A k \in DOMAIN read[n].content : read[n].content[k] = saved[n].content[k]
  <2>1. read = ReadBack(saved)
    BY <1>1, <1>3
  <2>2. DOMAIN read = DOMAIN saved
        /\ \A n \in DOMAIN saved : read[n] = Device(n, Restored(saved[n].content))
    BY <2>1 DEF ReadBack
  <2>3. ASSUME NEW n \in DOMAIN saved
        PROVE  /\ read[n].name = saved[n].name
               /\ DOMAIN read[n].content = Carried(saved[n].content)
               /\ \A k \in DOMAIN read[n].content : read[n].content[k] = saved[n].content[k]
    <3>1. PICK c : c = saved[n].content /\ saved[n] = Device(n, c)
      BY Zenon DEF DevInv, IsDevices
    <3>2. read[n] = Device(n, Restored(c))
      BY <2>2, <3>1
    <3>3. read[n].name = <<n>> /\ saved[n].name = <<n>> /\ read[n].content = Restored(c)
      BY <3>1, <3>2 DEF Device
    <3>4. DOMAIN Restored(c) = Carried(c) /\ \A k \in Carried(c) : Restored(c)[k] = c[k]
      BY DEF Restored
    <3> QED
      BY <3>1, <3>3, <3>4
  <2> QED
    BY <2>2, <2>3
<1>4. FileRestores
  BY <1>2, <1>3, Zenon DEF FileRestores, read
<1> QED
  BY <1>4 DEF ArrayRestores, DevInv

\* The devices of such a list have the names they are kept under.
LEMMA NamesOfDevices ==
  ASSUME NEW devices, IsDevices(devices)
  PROVE  \A n \in DOMAIN devices : devices[n].name # <<>>
<1> SUFFICES ASSUME NEW n \in DOMAIN devices PROVE devices[n].name # <<>>
  OBVIOUS
<1>1. PICK c : devices[n] = Device(n, c)
  BY Zenon DEF IsDevices
<1>2. devices[n].name = <<n>>
  BY <1>1 DEF Device
<1> QED
  BY <1>2

\* What DiffFindsChange states, of the lists and the file of such a state.
LEMMA DevInvCompares == DevInv => DiffFindsChange
<1> SUFFICES ASSUME DevInv, Clean(saved)
             PROVE  LET was == DevicesFromByteArray(file)
                    IN  \A how \in Readings :
                          /\ saved = known => Diff(was, known, NoFunction, how) = {}
                          /\ Diff(was, known, NoFunction, how) = {} =>
                               \A n \in DOMAIN known :
                                 /\ n \in DOMAIN saved
                                 /\ Agree(saved[n], known[n])
                                 /\ how = "whole" => saved[n] = known[n]
  BY Zenon DEF DiffFindsChange
<1>1. DevicesFromByteArray(file) = ReadBack(saved)
  <2>1. \A n \in DOMAIN saved : saved[n].content # NoFunction
    BY Zenon DEF Clean
  <2> QED
    BY <2>1, DevicesRead DEF DevInv
<1>2. ReadBack(saved) = saved
  <2>1. ASSUME NEW n \in DOMAIN saved PROVE Restored(saved[n].content) = saved[n].content
    <3>1. PICK c : c = saved[n].content
      OBVIOUS
    <3>2. Carried(c) = DOMAIN c
      BY <3>1, Zenon DEF Clean
    <3>3. c = [k \in DOMAIN c |-> c[k]]
      <4>1. IsContent(c)
        BY <3>1 DEF DevInv, IsDevices
      <4> QED
        BY <4>1 DEF IsContent
    <3>4. Restored(c) = c
      BY <3>2, <3>3, Zenon DEF Restored
    <3> QED
      BY <3>1, <3>4
  <2>2. saved = [n \in DOMAIN saved |-> Device(n, saved[n].content)]
    BY Zenon DEF DevInv, IsDevices
  <2> QED
    BY <2>1, <2>2, Zenon DEF ReadBack
<1>3. \A d : ~ContainsPropery(d, NoFunction)
  BY DEF ContainsPropery, NoFunction
<1>4. ASSUME NEW how \in Readings
      PROVE  /\ saved = known => Diff(saved, known, NoFunction, how) = {}
             /\ Diff(saved, known, NoFunction, how) = {} =>
                  \A n \in DOMAIN known :
                    /\ n \in DOMAIN saved
                    /\ Agree(saved[n], known[n])
                    /\ how = "whole" => saved[n] = known[n]
  <2>1. Diff(saved, known, NoFunction, how)
          = {n \in DOMAIN known : n \notin DOMAIN saved \/ Differ(saved[n], known[n], how)}
    BY <1>3, Zenon DEF Diff
  <2>2. ASSUME NEW n \in DOMAIN saved PROVE ~Differ(saved[n], saved[n], how)
    <3>1. saved[n].content # NoFunction
      BY Zenon DEF Clean
    <3>2. saved[n].name # <<>>
      BY Zenon, NamesOfDevices DEF DevInv
    <3>3. IsStrongEqual(saved[n], saved[n])
      BY <3>1, <3>2, Zenon DEF IsStrongEqual, IsContains
    <3> QED
      BY <3>3, Zenon DEF Differ
  <2>3. ASSUME NEW d, NEW e, ~Differ(d, e, how)
        PROVE  Agree(d, e) /\ (how = "whole" => d = e)
    <3>1. CASE how = "whole"
      BY <2>3, <3>1, Zenon DEF Differ, Agree
    <3>2. CASE how = "strong"
      BY <2>3, <3>2 DEF Differ, IsStrongEqual, IsContains, Agree
    <3>3. CASE how = "strongOther"
      BY <2>3, <3>3 DEF Differ, IsStrongEqual, IsContains, Agree
    <3> QED
      BY <3>1, <3>2, <3>3 DEF Readings
  <2>4. saved = known => Diff(saved, known, NoFunction, how) = {}
    BY <2>1, <2>2
  <2>5. ASSUME Diff(saved, known, NoFunction, how) = {}, NEW n \in DOMAIN known
        PROVE  /\ n \in DOMAIN saved
               /\ Agree(saved[n], known[n])
               /\ how = "whole" => saved[n] = known[n]
    <3>1. n \in DOMAIN saved /\ ~Differ(saved[n], known[n], how)
      BY <2>1, <2>5
    <3> QED
      BY <3>1, <2>3
  <2> QED
    BY <2>4, <2>5
<1> QED
  BY <1>1, <1>2, <1>4, Zenon

\* What has gone through an array is what it was as far as an array can carry it, for
\* any names and contents udev may tell: the file gives back all its devices or none,
\* and an assigned device is one device (ToByteArray, FromByteArray, operator=).
THEOREM ArraySafety == DevSpec => []ArrayRestores
BY DevInvariant, DevInvRestores, PTL

\* For any names and contents: compared with a file that could carry everything, no
\* difference means that nothing known is missing from the file and that the values
\* of what was written and is still there have not changed, however two devices are
\* compared (Diff, IsStrongEqual, FromByteArray).
THEOREM DiffSafety == DevSpec => []DiffFindsChange
BY DevInvariant, DevInvCompares, PTL

=============================================================================
