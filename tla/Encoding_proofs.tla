--------------------------- MODULE Encoding_proofs ---------------------------
(***************************************************************************)
(* What is read is what was sent, for any ids, numbers, keys, hashes and   *)
(* signatures of any size whose messages fit in the receive buffers, and   *)
(* no two blocks with other terms are hashed over the same bytes.  A       *)
(* reading too wide for a short is read as its lower 16 bits.              *)
(*                                                                         *)
(* The digits of a number, the places of the fields in a message and the   *)
(* pieces behind them are given by recursive functions.  What is said of   *)
(* them is shown by induction, which is that a set of numbers that is not  *)
(* empty has a smallest one.                                               *)
(*                                                                         *)
(* The text in front of the binary fields has no separators but its own,   *)
(* so the k-th separator ends the k-th field.  The loop of payload_decoder *)
(* counts them, and stops with the last one of the message: for a message  *)
(* that ends in text because that one is the semicolon, for the others     *)
(* because its number is the one tested for.  What follows it, the bytes   *)
(* of a key or of another message, is never looked at for separators.      *)
(***************************************************************************)
EXTENDS Encoding, FiniteSetTheorems, SequenceTheorems, WellFoundedInduction, TLAPS

-----------------------------------------------------------------------------
(***************************************************************************)
(* Induction                                                               *)
(***************************************************************************)
(* A set of numbers that is not empty has a smallest one.                  *)
LEMMA Smallest ==
    ASSUME NEW K, K \subseteq Nat, K # {}
    PROVE  \E k \in K : \A j \in K : k <= j
  <1> DEFINE Below == {ss \in Nat \X Nat : ss[1] < ss[2]}
  <1>1. IsWellFoundedOn(Below, Nat)
    BY NatLessThanWellFounded DEF OpToRel
  <1>2. \A i, j \in Nat : <<i, j>> \in Below <=> i < j
    OBVIOUS
  <1> HIDE DEF Below
  <1>3. PICK k \in K : \A j \in K : ~(<<j, k>> \in Below)
    BY <1>1, WFMin, Zenon
  <1>4. \A j \in K : ~(j < k)
    BY <1>2, <1>3
  <1> QED
    BY <1>4

(* Induction from m up to n, on the numbers of a set.                      *)
LEMMA Induction ==
    ASSUME NEW S, NEW m \in Nat, NEW n \in Nat,
           \A k \in m..n : (\A j \in m..k - 1 : j \in S) => k \in S
    PROVE  \A k \in m..n : k \in S
  <1> DEFINE Rest == {k \in m..n : k \notin S}
  <1>1. SUFFICES Rest = {}
    OBVIOUS
  <1>2. ASSUME Rest # {} PROVE FALSE
    <2>1. Rest \subseteq Nat
      OBVIOUS
    <2>2. PICK k \in Rest : \A j \in Rest : k <= j
      <3> HIDE DEF Rest
      <3> QED
        BY <1>2, <2>1, Smallest
    <2> QED
      BY <2>2
  <1> QED
    BY <1>2

LEMMA InductionFromZero ==
    ASSUME NEW S, NEW n \in Nat,
           \A k \in 0..n : (\A j \in 0..k - 1 : j \in S) => k \in S
    PROVE  \A k \in 0..n : k \in S
  BY Induction

LEMMA InductionFromOne ==
    ASSUME NEW S, NEW n \in Nat,
           \A k \in 1..n : (\A j \in 1..k - 1 : j \in S) => k \in S
    PROVE  \A k \in 1..n : k \in S
  BY Induction

(* A function that is defined from one argument to the next.               *)
Chain(g, m, n, x, step) ==
    g[m] = x /\ \A i \in m..n : i # m => g[i] = step[i][g[i - 1]]

(* A function that is given by its first value and by the step from each   *)
(* value to the next exists.                                               *)
LEMMA Recursion ==
    ASSUME NEW m \in Nat, NEW n \in Nat, m <= n,
           NEW X, NEW x \in X, NEW step \in [m..n -> [X -> X]]
    PROVE  \E g \in [m..n -> X] : Chain(g, m, n, x, step)
  <1> DEFINE S == {k \in m..n : \E g \in [m..k -> X] : Chain(g, m, k, x, step)}
  <1>1. ASSUME NEW k \in m..n, \A j \in m..k - 1 : j \in S
        PROVE  \E g \in [m..k -> X] : Chain(g, m, k, x, step)
    <2>1. CASE k = m
      <3>1. [i \in m..m |-> x] \in [m..m -> X] /\ Chain([i \in m..m |-> x], m, m, x, step)
        BY DEF Chain
      <3> QED
        BY <2>1, <3>1
    <2>2. CASE k # m
      <3>1. k - 1 \in m..k - 1
        BY <2>2
      <3>2. k - 1 \in S
        BY <1>1, <3>1
      <3>3. PICK g \in [m..k - 1 -> X] : Chain(g, m, k - 1, x, step)
        BY <3>2
      <3>4. step[k][g[k - 1]] \in X
        BY <3>1
      <3> DEFINE more == [i \in m..k |-> IF i = k THEN step[k][g[k - 1]] ELSE g[i]]
      <3>5. more \in [m..k -> X]
        BY <3>4
      <3>6. more[m] = x /\ more[k] = step[k][more[k - 1]]
        <4>1. k - 1 \in m..k /\ m \in m..k - 1 /\ k - 1 # k
          BY <2>2
        <4> QED
          BY <3>3, <4>1 DEF Chain
      <3>7. ASSUME NEW i \in m..k, i # m, i # k PROVE more[i] = step[i][more[i - 1]]
        <4>1. more[i] = g[i] /\ more[i - 1] = g[i - 1]
          BY <3>7
        <4> QED
          BY <3>3, <3>7, <4>1 DEF Chain
      <3>8. Chain(more, m, k, x, step)
        BY <3>6, <3>7 DEF Chain
      <3> QED
        BY <3>5, <3>8
    <2> QED
      BY <2>1, <2>2
  <1>2. \A k \in m..n : (\A j \in m..k - 1 : j \in S) => k \in S
    BY <1>1
  <1> HIDE DEF S
  <1>3. \A k \in m..n : k \in S
    BY <1>2, Induction, Zenon
  <1>4. n \in S
    BY <1>3
  <1> QED
    BY <1>4 DEF S

(* Two functions that are defined in the same way are the same.            *)
Alike(f, g, m, n) ==
    f[m] = g[m] /\ \A i \in m..n : i # m /\ f[i - 1] = g[i - 1] => f[i] = g[i]

(* There is only one such function.                                        *)
LEMMA RecursionUnique ==
    ASSUME NEW m \in Nat, NEW n \in Nat, NEW f, NEW g, Alike(f, g, m, n)
    PROVE  \A i \in m..n : f[i] = g[i]
  <1> DEFINE T == {i \in m..n : f[i] = g[i]}
  <1>1. ASSUME NEW k \in m..n, \A j \in m..k - 1 : j \in T
        PROVE  k \in T
    <2>1. CASE k = m
      BY <2>1 DEF Alike
    <2>2. CASE k # m
      <3>1. k - 1 \in T
        BY <1>1, <2>2
      <3> QED
        BY <2>2, <3>1 DEF Alike
    <2> QED
      BY <2>1, <2>2
  <1>2. \A k \in m..n : (\A j \in m..k - 1 : j \in T) => k \in T
    BY <1>1
  <1> HIDE DEF T
  <1>3. \A k \in m..n : k \in T
    BY <1>2, Induction, Zenon
  <1> QED
    BY <1>3 DEF T

-----------------------------------------------------------------------------
(***************************************************************************)
(* Strings of bytes, one after the other                                   *)
(***************************************************************************)
Strings == Seq(Int)

(* Strings can be put together.                                            *)
LEMMA StringConcat ==
    /\ <<>> \in Strings
    /\ \A s, t \in Strings : s \o t \in Strings
  BY DEF Strings

(* Two strings with the same bytes are the same.                           *)
LEMMA SameBytes ==
    ASSUME NEW s \in Strings, NEW t \in Strings, Len(s) = Len(t),
           \A i \in 1..Len(s) : s[i] = t[i]
    PROVE  s = t
  BY SeqEqual DEF Strings

(* What is found at a place of a string is the part of it there.           *)
LEMMA SubstringIs ==
    ASSUME NEW b \in Strings, NEW m \in Nat, NEW t \in Strings, m + Len(t) <= Len(b),
           \A i \in 1..Len(t) : b[m + i] = t[i]
    PROVE  SubSeq(b, m + 1, m + Len(t)) = t
  <1>0. Len(t) \in Nat
    BY DEF Strings
  <1> SUFFICES ASSUME NEW n \in Nat, n = Len(t)
               PROVE  SubSeq(b, m + 1, m + n) = t
    BY <1>0, Zenon
  <1>1. \A i \in m + 1..m + n : b[i] \in Int
    BY DEF Strings
  <1> DEFINE s == SubSeq(b, m + 1, m + n)
  <1>2. s \in Strings /\ Len(s) = n /\ \A i \in 1..n : s[i] = b[m + i]
    <2>1. /\ s \in Seq(Int)
          /\ Len(s) = IF m + 1 <= m + n THEN (m + n) - (m + 1) + 1 ELSE 0
          /\ \A i \in 1..(m + n) - (m + 1) + 1 : s[i] = b[(m + 1) + i - 1]
      BY <1>1, SubSeqProperties
    <2> HIDE DEF s
    <2>2. \A i \in 1..n : (m + 1) + i - 1 = m + i
      OBVIOUS
    <2> QED
      BY <2>1, <2>2 DEF Strings
  <1> HIDE DEF s
  <1>3. s = t
    BY <1>2, SameBytes
  <1> QED
    BY <1>3 DEF s

(* FlattenSeq of SequencesExt is given by a recursive function.            *)
LEMMA Concatenations ==
    ASSUME NEW n \in Nat \ {0}, NEW fs, \A i \in 1..n : fs[i] \in Strings
    PROVE  \E g \in [1..n -> Strings] :
              g[1] = fs[1] /\ \A i \in 1..n : i # 1 => g[i] = g[i - 1] \o fs[i]
  <1> DEFINE step == [i \in 1..n |-> [s \in Strings |-> s \o fs[i]]]
  <1>1. step \in [1..n -> [Strings -> Strings]]
    BY StringConcat
  <1>2. \A i \in 1..n, s \in Strings : step[i][s] = s \o fs[i]
    OBVIOUS
  <1> HIDE DEF step
  <1>3. 1 \in Nat /\ n \in Nat /\ 1 <= n /\ fs[1] \in Strings
    OBVIOUS
  <1>4. PICK g \in [1..n -> Strings] :
            Chain(g, 1, n, fs[1], step)
    BY <1>1, <1>3, Recursion
  <1>5. \A i \in 1..n : i # 1 => g[i - 1] \in Strings
    OBVIOUS
  <1>6. g[1] = fs[1] /\ \A i \in 1..n : i # 1 => g[i] = g[i - 1] \o fs[i]
    BY <1>2, <1>4, <1>5 DEF Chain
  <1> QED
    BY <1>6

(* Putting a list together is putting its members behind each other, one   *)
(* at a time.                                                              *)
LEMMA FlattenDefined ==
    ASSUME NEW n \in Nat \ {0}, NEW fs, Len(fs) = n, \A i \in 1..n : fs[i] \in Strings
    PROVE  \E g \in [1..n -> Strings] :
              /\ g[1] = fs[1] /\ \A i \in 1..n : i # 1 => g[i] = g[i - 1] \o fs[i]
              /\ FlattenSeq(fs) = g[n]
  <1>1. PICK g \in [1..n -> Strings] :
            g[1] = fs[1] /\ \A i \in 1..n : i # 1 => g[i] = g[i - 1] \o fs[i]
    BY Concatenations
  <1> DEFINE e(f) == [i \in 1..Len(fs) |-> IF i = 1 THEN fs[i] ELSE f[i - 1] \o fs[i]]
             flatten == CHOOSE f : f = e(f)
  <1>2. g = e(g)
    BY <1>1
  <1>3. flatten = e(flatten)
    <2> HIDE DEF e
    <2> QED
      BY <1>2
  <1>4. FlattenSeq(fs) = flatten[n]
    BY DEF FlattenSeq
  <1> HIDE DEF flatten
  <1>5. 1 \in 1..n /\ 1 \in Nat /\ n \in Nat
    OBVIOUS
  <1>6. /\ flatten[1] = fs[1]
        /\ \A i \in 1..n : i # 1 => flatten[i] = flatten[i - 1] \o fs[i]
    <2>1. /\ e(flatten)[1] = fs[1]
          /\ \A i \in 1..n : i # 1 => e(flatten)[i] = flatten[i - 1] \o fs[i]
      BY <1>5
    <2> HIDE DEF e
    <2> QED
      BY <1>3, <2>1
  <1> HIDE DEF e
  <1>7. Alike(flatten, g, 1, n)
    BY <1>1, <1>6, Zenon DEF Alike
  <1>8. \A i \in 1..n : flatten[i] = g[i]
    BY <1>5, <1>7, RecursionUnique
  <1>9. n \in 1..n
    OBVIOUS
  <1> QED
    BY <1>1, <1>4, <1>8, <1>9, Zenon

(* Places that do not go back.                                             *)
Places(p, n) == p[0] = 0 /\ \A k \in 1..n : p[k] \in Nat /\ p[k - 1] <= p[k]

(* The ends of the members are in order, and between two of them nothing   *)
(* is left over.                                                           *)
LEMMA PlacesRise ==
    ASSUME NEW n \in Nat, NEW p, Places(p, n)
    PROVE  /\ \A k \in 0..n : p[k] \in Nat
           /\ \A j, k \in 0..n : j <= k => p[j] <= p[k]
           /\ \A i \in 1..p[n] : \E k \in 1..n : p[k - 1] < i /\ i <= p[k]
  <1>1. \A k \in 0..n : p[k] \in Nat
    BY DEF Places
  <1> DEFINE S == {k \in 0..n : \A j \in 0..k : p[j] <= p[k]}
  <1>2. ASSUME NEW k \in 0..n, \A j \in 0..k - 1 : j \in S
        PROVE  k \in S
    <2>1. CASE k = 0
      BY <1>1, <2>1
    <2>2. CASE k # 0
      <3>1. k - 1 \in S /\ p[k - 1] <= p[k] /\ p[k - 1] \in Nat /\ p[k] \in Nat
        BY <1>1, <1>2, <2>2 DEF Places
      <3>2. ASSUME NEW j \in 0..k, j # k PROVE p[j] <= p[k]
        <4>1. j \in 0..k - 1 /\ j \in 0..n
          BY <3>2
        <4>2. p[j] <= p[k - 1] /\ p[j] \in Nat
          BY <1>1, <3>1, <4>1
        <4> QED
          BY <3>1, <4>2
      <3> QED
        BY <3>1, <3>2
    <2> QED
      BY <2>1, <2>2
  <1>3. \A k \in 0..n : (\A j \in 0..k - 1 : j \in S) => k \in S
    BY <1>2
  <1> HIDE DEF S
  <1>4. \A k \in 0..n : k \in S
    BY <1>3, InductionFromZero
  <1>5. \A j, k \in 0..n : j <= k => p[j] <= p[k]
    BY <1>4 DEF S
  <1>6. ASSUME NEW i \in 1..p[n]
        PROVE  \E k \in 1..n : p[k - 1] < i /\ i <= p[k]
    <2> DEFINE Up == {k \in 0..n : i <= p[k]}
    <2>1. Up \subseteq Nat /\ n \in Up /\ 0 \notin Up
      BY <1>1 DEF Places
    <2> HIDE DEF Up
    <2>2. PICK k \in Up : \A j \in Up : k <= j
      BY <2>1, Smallest
    <2>3. k \in 1..n /\ i <= p[k] /\ k - 1 \in 0..n
      BY <2>1, <2>2 DEF Up
    <2>4. k - 1 \notin Up
      BY <2>2, <2>3
    <2>5. ~(i <= p[k - 1]) /\ p[k - 1] \in Nat
      BY <1>1, <2>3, <2>4 DEF Up
    <2> QED
      BY <2>3, <2>5
  <1> QED
    BY <1>1, <1>5, <1>6

(* s is fs[1], ..., fs[n] one after the other; fs[k] ends at p[k].         *)
Layout(s, fs, n, p) ==
    /\ s \in Strings /\ Places(p, n) /\ p[n] = Len(s)
    /\ \A k \in 1..n : /\ p[k] = p[k - 1] + Len(fs[k])
                       /\ \A i \in 1..Len(fs[k]) : s[p[k - 1] + i] = fs[k][i]

(* Each member of a list is in the string put together from it, at its     *)
(* place.                                                                  *)
LEMMA FlattenLayout ==
    ASSUME NEW n \in Nat \ {0}, NEW fs, Len(fs) = n, \A i \in 1..n : fs[i] \in Strings
    PROVE  \E p : Layout(FlattenSeq(fs), fs, n, p)
  <1>1. PICK g \in [1..n -> Strings] :
            /\ g[1] = fs[1]
            /\ \A i \in 1..n : i # 1 => g[i] = g[i - 1] \o fs[i]
            /\ FlattenSeq(fs) = g[n]
    BY FlattenDefined
  <1> DEFINE p == [k \in 0..n |-> IF k = 0 THEN 0 ELSE Len(g[k])]
             S == {k \in 1..n : Layout(g[k], fs, k, p)}
  <1>2. p[0] = 0 /\ \A k \in 1..n : p[k] = Len(g[k]) /\ p[k] \in Nat
    BY DEF Strings
  <1> HIDE DEF p
  <1>3. ASSUME NEW k \in 1..n, \A j \in 1..k - 1 : j \in S
        PROVE  Layout(g[k], fs, k, p)
    <2>0. g[k] \in Strings /\ p[k] = Len(g[k]) /\ p[k] \in Nat /\ fs[k] \in Strings
      BY <1>2
    <2>1. CASE k = 1
      <3>1. Len(fs[1]) = p[1] /\ fs[1] = g[1] /\ Len(fs[1]) \in Nat
        BY <1>1, <2>0, <2>1
      <3>2. \A i \in 1..Len(fs[1]) : 0 + i = i
        BY <3>1
      <3> QED
        BY <1>2, <2>0, <2>1, <3>1, <3>2 DEF Layout, Places
    <2>2. CASE k # 1
      <3>1. k - 1 \in 1..n /\ Layout(g[k - 1], fs, k - 1, p)
        BY <1>3, <2>2
      <3>2. g[k] = g[k - 1] \o fs[k] /\ g[k - 1] \in Strings /\ p[k - 1] = Len(g[k - 1])
        BY <1>1, <1>2, <2>2, <3>1
      <3>3. /\ p[k] = p[k - 1] + Len(fs[k]) /\ p[k - 1] <= p[k]
            /\ \A i \in 1..Len(fs[k]) : g[k][p[k - 1] + i] = fs[k][i]
            /\ \A i \in 1..p[k - 1] : g[k][i] = g[k - 1][i]
        BY <2>0, <3>2 DEF Strings
      <3>4. Places(p, k)
        BY <1>2, <3>1, <3>3 DEF Layout, Places
      <3>5. ASSUME NEW j \in 1..k - 1, NEW i \in 1..Len(fs[j])
            PROVE  g[k][p[j - 1] + i] = fs[j][i]
        <4>1. /\ Places(p, k - 1) /\ p[j] = p[j - 1] + Len(fs[j])
              /\ g[k - 1][p[j - 1] + i] = fs[j][i]
          BY <3>1 DEF Layout
        <4>2. p[j] <= p[k - 1] /\ p[j] \in Nat /\ p[j - 1] \in Nat
          BY <4>1, <3>1, PlacesRise
        <4>3. Len(fs[j]) \in Nat
          <5>1. fs[j] \in Strings
            BY <3>1
          <5> QED
            BY <5>1 DEF Strings
        <4>4. i \in Nat /\ 1 <= i /\ i <= Len(fs[j])
          BY <4>3
        <4>5. p[j - 1] + i \in 1..p[k - 1]
          <5> HIDE DEF S
          <5>1. p[k - 1] \in Nat
            BY <1>2, <3>1
          <5> QED
            BY <4>1, <4>2, <4>3, <4>4, <5>1
        <4> QED
          BY <3>3, <4>1, <4>5
      <3>6. \A j \in 1..k - 1 : p[j] = p[j - 1] + Len(fs[j])
        BY <3>1 DEF Layout
      <3>7. ASSUME NEW j \in 1..k
            PROVE  /\ p[j] = p[j - 1] + Len(fs[j])
                   /\ \A i \in 1..Len(fs[j]) : g[k][p[j - 1] + i] = fs[j][i]
        <4>1. CASE j = k
          BY <3>3, <4>1
        <4>2. CASE j # k
          BY <3>5, <3>6, <4>2
        <4> QED
          BY <4>1, <4>2
      <3> QED
        BY <2>0, <3>4, <3>7 DEF Layout
    <2> QED
      BY <2>1, <2>2
  <1>4. \A k \in 1..n : (\A j \in 1..k - 1 : j \in S) => k \in S
    BY <1>3
  <1> HIDE DEF S
  <1>5. \A k \in 1..n : k \in S
    BY <1>4, InductionFromOne
  <1>6. n \in S
    BY <1>5
  <1> QED
    BY <1>1, <1>6 DEF S

-----------------------------------------------------------------------------
(***************************************************************************)
(* Numbers as text                                                         *)
(***************************************************************************)
(* What Digits returns for a number below or above ten.                    *)
LastDigit(n) == Zero + (n % 10)

(* What the conversions do with one digit; no separator is one.            *)
LEMMA DigitFacts ==
    /\ \A n \in Nat : n < 10 => Zero + n \in Digit
    /\ \A n \in Nat : LastDigit(n) \in Digit
    /\ \A n \in Nat : ~(n < 10) => n \div 10 \in 0..n - 1
    /\ \A n \in Nat : 10 * (n \div 10) + LastDigit(n) - Zero = n
    /\ Digit \subseteq Int
    /\ Comma \notin Digit /\ Semicolon \notin Digit /\ Minus \notin Digit /\ NUL \notin Digit
  BY DEF LastDigit, Digit, Zero, Comma, Semicolon, Minus, NUL

LEMMA MaxIntIsNat == MaxInt \in Nat
  BY DEF MaxInt

(* Digits is the function its equation says it is.                         *)
LEMMA DigitsDefined ==
    \A n \in 0..MaxInt :
        Digits[n] = IF n < 10 THEN <<Zero + n>> ELSE Append(Digits[n \div 10], LastDigit(n))
  <1> DEFINE As(g, n) == IF n < 10 THEN <<Zero + n>> ELSE Append(g[n \div 10], LastDigit(n))
             S == {k \in 0..MaxInt : \E g : \A n \in 0..k : g[n] = As(g, n)}
  <1>1. ASSUME NEW k \in 0..MaxInt, \A j \in 0..k - 1 : j \in S
        PROVE  \E g : \A n \in 0..k : g[n] = As(g, n)
    <2>1. CASE k = 0
      <3>1. \A n \in 0..k : [i \in 0..0 |-> <<Zero + i>>][n] = As([i \in 0..0 |-> <<Zero + i>>], n)
        BY <2>1
      <3> HIDE DEF As
      <3> QED
        BY <3>1
    <2>2. CASE k # 0
      <3>0. k - 1 \in 0..k - 1
        BY <2>2, MaxIntIsNat
      <3>1. k - 1 \in S
        BY <1>1, <3>0, Zenon
      <3>2. PICK g : \A n \in 0..k - 1 : g[n] = As(g, n)
        BY <3>1
      <3> DEFINE more == [n \in 0..k |-> IF n = k THEN As(g, k) ELSE g[n]]
      <3>3. ASSUME NEW n \in 0..k PROVE more[n] = As(more, n)
        <4>1. ~(n < 10) => n \div 10 \in 0..k - 1 /\ n \div 10 \in 0..k /\ n \div 10 # k
          BY DigitFacts, MaxIntIsNat
        <4>2. As(more, n) = As(g, n)
          BY <4>1
        <4>3. n # k => n \in 0..k - 1
          BY MaxIntIsNat
        <4>4. more[n] = As(g, n)
          BY <3>2, <4>3
        <4> QED
          BY <4>2, <4>4
      <3> HIDE DEF As, more
      <3> QED
        BY <3>3
    <2> QED
      BY <2>1, <2>2
  <1>2. \A k \in 0..MaxInt : (\A j \in 0..k - 1 : j \in S) => k \in S
    BY <1>1
  <1> HIDE DEF S
  <1>3. \A k \in 0..MaxInt : k \in S
    BY <1>2, InductionFromZero, MaxIntIsNat
  <1>4. MaxInt \in S
    BY <1>3, MaxIntIsNat
  <1>5. PICK g : \A n \in 0..MaxInt : g[n] = As(g, n)
    BY <1>4 DEF S
  <1> DEFINE e(f) == [n \in 0..MaxInt |-> As(f, n)]
             h == [n \in 0..MaxInt |-> g[n]]
  <1>6. h = e(h)
    <2>1. ASSUME NEW n \in 0..MaxInt PROVE h[n] = As(h, n)
      <3>1. ~(n < 10) => n \div 10 \in 0..MaxInt
        BY DigitFacts, MaxIntIsNat
      <3>2. As(h, n) = As(g, n)
        BY <3>1
      <3> QED
        BY <1>5, <3>2
    <2> HIDE DEF As
    <2> QED
      BY <2>1
  <1>7. Digits = CHOOSE f : f = e(f)
    BY DEF Digits, LastDigit
  <1>8. Digits = e(Digits)
    <2> HIDE DEF e, h
    <2> QED
      BY <1>6, <1>7
  <1> QED
    BY <1>8, Zenon

(* Digits returns nothing but digits, and at least one.                    *)
LEMMA DigitsAreDigits ==
    \A n \in 0..MaxInt : /\ Digits[n] \in Strings /\ Len(Digits[n]) \in Nat \ {0}
                         /\ \A i \in 1..Len(Digits[n]) : Digits[n][i] \in Digit
  <1> DEFINE Fine(s) == s \in Strings /\ Len(s) \in Nat \ {0} /\ \A i \in 1..Len(s) : s[i] \in Digit
             S == {n \in 0..MaxInt : Fine(Digits[n])}
  <1>1. \A c \in Digit : Fine(<<c>>)
    BY DigitFacts DEF Strings
  <1>2. \A s, c : Fine(s) /\ c \in Digit => Fine(Append(s, c))
    BY DigitFacts DEF Strings
  <1> HIDE DEF Fine
  <1>3. ASSUME NEW n \in 0..MaxInt, \A j \in 0..n - 1 : j \in S
        PROVE  n \in S
    <2>0. n \in Nat
      BY MaxIntIsNat
    <2>1. CASE n < 10
      BY <1>1, <2>0, <2>1, DigitsDefined, DigitFacts
    <2>2. CASE ~(n < 10)
      <3>1. Fine(Digits[n \div 10])
        BY <1>3, <2>0, <2>2, DigitFacts
      <3>2. LastDigit(n) \in Digit
        BY <2>0, DigitFacts
      <3> QED
        BY <1>2, <2>2, <3>1, <3>2, DigitsDefined
    <2> QED
      BY <2>1, <2>2
  <1>4. \A k \in 0..MaxInt : (\A j \in 0..k - 1 : j \in S) => k \in S
    BY <1>3
  <1> HIDE DEF S
  <1>5. \A k \in 0..MaxInt : k \in S
    BY <1>4, InductionFromZero, MaxIntIsNat
  <1> QED
    BY <1>5 DEF S, Fine

(* value[k] is what the first k digits of s say.                           *)
Reading(value, s) ==
    value[0] = 0 /\ \A k \in 1..Len(s) : value[k] = 10 * value[k - 1] + s[k] - Zero

(* Read digit by digit, the digits of a number say that number.            *)
LEMMA DigitsSayNumber ==
    \A n \in 0..MaxInt : \A value : Reading(value, Digits[n]) => value[Len(Digits[n])] = n
  <1> DEFINE S == {n \in 0..MaxInt :
                      \A value : Reading(value, Digits[n]) => value[Len(Digits[n])] = n}
  <1>1. ASSUME NEW n \in 0..MaxInt, \A j \in 0..n - 1 : j \in S,
               NEW value, Reading(value, Digits[n])
        PROVE  value[Len(Digits[n])] = n
    <2>0. n \in Nat
      BY MaxIntIsNat
    <2>1. CASE n < 10
      <3>1. Digits[n] = <<Zero + n>>
        BY <2>1, DigitsDefined
      <3>2. Len(Digits[n]) = 1 /\ Digits[n][1] = Zero + n
        BY <3>1
      <3>3. 1 \in 1..1 /\ 1 - 1 = 0
        OBVIOUS
      <3>4. value[0] = 0 /\ value[1] = 10 * value[0] + (Zero + n) - Zero
        BY <1>1, <3>2, <3>3 DEF Reading
      <3>5. value[1] = n
        BY <2>0, <3>4 DEF Zero
      <3> QED
        BY <3>2, <3>5
    <2>2. CASE ~(n < 10)
      <3>1. n \div 10 \in 0..n - 1 /\ n \div 10 \in 0..MaxInt
        BY <2>0, <2>2, DigitFacts, MaxIntIsNat
      <3> DEFINE d == Digits[n \div 10]
      <3>2. d \in Strings /\ Len(d) \in Nat
        BY <3>1, DigitsAreDigits
      <3>3. Digits[n] = Append(d, LastDigit(n)) /\ LastDigit(n) \in Int
        BY <2>0, <2>2, DigitsDefined, DigitFacts
      <3> HIDE DEF d
      <3>4. /\ Len(Digits[n]) = Len(d) + 1
            /\ \A k \in 1..Len(d) : Digits[n][k] = d[k]
            /\ Digits[n][Len(d) + 1] = LastDigit(n)
        BY <3>2, <3>3 DEF Strings
      <3>5. Reading(value, d)
        <4>1. \A k \in 1..Len(d) : k \in 1..Len(Digits[n])
          BY <3>2, <3>4
        <4> QED
          BY <1>1, <3>4, <4>1, Zenon DEF Reading
      <3>6. value[Len(d)] = n \div 10
        BY <1>1, <3>1, <3>5 DEF d
      <3>7. Len(d) + 1 \in 1..Len(d) + 1 /\ (Len(d) + 1) - 1 = Len(d)
        BY <3>2
      <3>8. value[Len(d) + 1] = 10 * value[Len(d)] + LastDigit(n) - Zero
        BY <1>1, <3>4, <3>7 DEF Reading
      <3> QED
        BY <2>0, <3>4, <3>6, <3>8, DigitFacts
    <2> QED
      BY <2>1, <2>2
  <1>2. \A k \in 0..MaxInt : (\A j \in 0..k - 1 : j \in S) => k \in S
    BY <1>1
  <1> HIDE DEF S
  <1>3. \A k \in 0..MaxInt : k \in S
    BY <1>2, InductionFromZero, MaxIntIsNat
  <1> QED
    BY <1>3 DEF S

(* atoi reads all of a string of digits ...                                *)
LEMMA LeadingOfDigits ==
    ASSUME NEW s \in Strings, \A i \in 1..Len(s) : s[i] \in Digit
    PROVE  Leading(s) = Len(s)
  <1> DEFINE P(k) == /\ \A i \in 1..k : s[i] \in Digit
                     /\ k < Len(s) => s[k + 1] \notin Digit
  <1>1. Len(s) \in Nat
    BY DEF Strings
  <1>2. Len(s) \in 0..Len(s) /\ P(Len(s))
    BY <1>1
  <1>3. \A k \in 0..Len(s) : P(k) => k = Len(s)
    BY <1>1
  <1>4. Leading(s) = CHOOSE k \in 0..Len(s) : P(k)
    BY DEF Leading
  <1> HIDE DEF P
  <1> QED
    BY <1>2, <1>3, <1>4

(* ... digit by digit.                                                     *)
LEMMA NaturalReads ==
    ASSUME NEW s \in Strings, \A i \in 1..Len(s) : s[i] \in Digit
    PROVE  \E value : Reading(value, s) /\ Natural(s) = value[Len(s)]
  <1> SUFFICES ASSUME NEW n \in Nat, Len(s) = n
               PROVE  \E value : Reading(value, s) /\ Natural(s) = value[n]
    BY DEF Strings
  <1>1. \A i \in 1..n : s[i] \in Int
    BY DigitFacts
  <1> DEFINE step == [k \in 0..n |-> [x \in Int |-> IF k = 0 THEN x ELSE 10 * x + s[k] - Zero]]
  <1>2. step \in [0..n -> [Int -> Int]]
    BY <1>1 DEF Zero
  <1>3. \A k \in 1..n, x \in Int : step[k][x] = 10 * x + s[k] - Zero
    OBVIOUS
  <1> HIDE DEF step
  <1>4. 0 \in Nat /\ 0 <= n /\ 0 \in Int
    OBVIOUS
  <1>5. PICK g \in [0..n -> Int] : Chain(g, 0, n, 0, step)
    BY <1>2, <1>4, Recursion
  <1>6. g[0] = 0 /\ \A k \in 1..n : g[k] = 10 * g[k - 1] + s[k] - Zero
    <2>1. \A k \in 1..n : k \in 0..n /\ k # 0 /\ k - 1 \in 0..n
      OBVIOUS
    <2> QED
      BY <1>3, <1>5, <2>1 DEF Chain
  <1> DEFINE e(f) == [k \in 0..Leading(s) |-> IF k = 0 THEN 0 ELSE 10 * f[k - 1] + s[k] - Zero]
             value == CHOOSE f : f = e(f)
  <1>7. Leading(s) = n
    BY LeadingOfDigits
  <1>8. g = e(g)
    BY <1>6, <1>7
  <1>9. value = e(value)
    <2> HIDE DEF e
    <2> QED
      BY <1>8
  <1>10. Natural(s) = value[n]
    BY <1>7 DEF Natural
  <1> HIDE DEF value
  <1>11. e(value)[0] = 0 /\ \A k \in 1..n : e(value)[k] = 10 * value[k - 1] + s[k] - Zero
    BY <1>7
  <1> HIDE DEF e
  <1>12. Reading(value, s)
    BY <1>9, <1>11 DEF Reading
  <1> QED
    BY <1>10, <1>12

(* atoi reads what "%i" wrote, whatever the number, and no separator is    *)
(* written (communication.c:95-141 against main.c:138, server.py:70-94).   *)
THEOREM TextIsRead ==
    ASSUME NEW n \in -MaxInt..MaxInt
    PROVE  /\ Text(n) \in Strings
           /\ \A i \in 1..Len(Text(n)) : Text(n)[i] \notin {Comma, Semicolon}
           /\ atoi(Text(n)) = n
  <1>1. ASSUME NEW m \in 0..MaxInt PROVE Natural(Digits[m]) = m
    <2>1. /\ Digits[m] \in Strings
          /\ \A i \in 1..Len(Digits[m]) : Digits[m][i] \in Digit
      BY DigitsAreDigits
    <2>2. PICK value : Reading(value, Digits[m]) /\ Natural(Digits[m]) = value[Len(Digits[m])]
      BY <2>1, NaturalReads
    <2> QED
      BY <2>2, DigitsSayNumber
  <1>2. CASE n < 0
    <2> DEFINE d == Digits[-n]
    <2>1. -n \in 0..MaxInt /\ -(-n) = n
      BY <1>2, MaxIntIsNat
    <2>2. /\ d \in Strings /\ Len(d) \in Nat \ {0}
          /\ \A i \in 1..Len(d) : d[i] \in Digit
          /\ Natural(d) = -n
      BY <1>1, <2>1, DigitsAreDigits
    <2>3. Text(n) = <<Minus>> \o d
      BY <1>2 DEF Text
    <2> HIDE DEF d
    <2>4. /\ Text(n) \in Strings /\ Text(n) # <<>>
          /\ Head(Text(n)) = Minus /\ Tail(Text(n)) = d
      BY <2>2, <2>3 DEF Strings, Minus
    <2>5. ASSUME NEW i \in 1..Len(Text(n)) PROVE Text(n)[i] \notin {Comma, Semicolon}
      <3>1. CASE i = 1
        BY <2>2, <2>3, <3>1 DEF Strings, Minus, Comma, Semicolon
      <3>2. CASE i # 1
        <4>1. Text(n)[i] = d[i - 1] /\ i - 1 \in 1..Len(d)
          BY <2>2, <2>3, <3>2 DEF Strings, Minus
        <4> QED
          BY <2>2, <4>1, DigitFacts
      <3> QED
        BY <3>1, <3>2
    <2>6. atoi(Text(n)) = n
      BY <2>1, <2>2, <2>4 DEF atoi
    <2> QED
      BY <2>4, <2>5, <2>6
  <1>3. CASE ~(n < 0)
    <2>1. n \in 0..MaxInt /\ Text(n) = Digits[n]
      BY <1>3, MaxIntIsNat DEF Text
    <2>2. /\ Text(n) \in Strings /\ Len(Text(n)) \in Nat \ {0}
          /\ \A i \in 1..Len(Text(n)) : Text(n)[i] \in Digit
          /\ Natural(Text(n)) = n
      BY <1>1, <2>1, DigitsAreDigits
    <2>3. Head(Text(n)) # Minus
      BY <2>2, DigitFacts DEF Strings
    <2> QED
      BY <2>2, <2>3, DigitFacts DEF atoi
  <1> QED
    BY <1>2, <1>3, MaxIntIsNat

-----------------------------------------------------------------------------
(***************************************************************************)
(* What payload_decoder makes of fields and separators                     *)
(***************************************************************************)
Separator == {Comma, Semicolon}

(* b begins with the fields f[1], ..., f[n], each before the separator     *)
(* at p[k].                                                                *)
Fields(b, f, n, p) ==
    /\ b \in Strings /\ Places(p, n) /\ p[n] <= Len(b)
    /\ \A k \in 1..n :
          /\ f[k] \in Strings /\ p[k] = p[k - 1] + Len(f[k]) + 1
          /\ b[p[k]] \in Separator
          /\ \A i \in 1..Len(f[k]) : f[k][i] \notin Separator /\ b[p[k - 1] + i] = f[k][i]

(* The separators up to p[n] are at p[1], ..., p[n], in this order.        *)
Fenced(b, n, p) ==
    /\ \A k \in 0..n : p[k] \in Nat
    /\ \A k \in 1..n : p[k] \in 1..p[n] /\ p[k - 1] < p[k]
    /\ \A j, k \in 0..n : j < k <=> p[j] < p[k]
    /\ \A i \in 1..p[n] : b[i] \in Separator <=> \E k \in 1..n : i = p[k]

(* The separators of a text made of fields are those behind the fields.    *)
LEMMA SeparatorsOfFields ==
    ASSUME NEW b, NEW f, NEW n \in Nat \ {0}, NEW p, Fields(b, f, n, p)
    PROVE  Fenced(b, n, p)
  <1>1. Places(p, n) /\ n \in Nat
    BY DEF Fields
  <1>2. /\ \A k \in 0..n : p[k] \in Nat
        /\ \A j, k \in 0..n : j <= k => p[j] <= p[k]
        /\ \A i \in 1..p[n] : \E k \in 1..n : p[k - 1] < i /\ i <= p[k]
    BY <1>1, PlacesRise
  <1>3. ASSUME NEW k \in 1..n
        PROVE  /\ Len(f[k]) \in Nat /\ p[k] \in Nat /\ p[k - 1] \in Nat
               /\ p[k] = p[k - 1] + Len(f[k]) + 1
    <2>1. f[k] \in Strings /\ p[k] = p[k - 1] + Len(f[k]) + 1
      BY DEF Fields
    <2> QED
      BY <1>2, <2>1 DEF Strings
  <1>4. ASSUME NEW k \in 1..n PROVE p[k] \in 1..p[n] /\ p[k - 1] < p[k]
    <2>1. k \in 0..n /\ n \in 0..n /\ k <= n
      OBVIOUS
    <2>2. p[k] <= p[n] /\ p[n] \in Nat
      BY <1>2, <2>1
    <2> QED
      BY <1>3, <2>2
  <1>5. ASSUME NEW j \in 0..n, NEW k \in 0..n PROVE j < k <=> p[j] < p[k]
    <2>1. CASE j < k
      <3>1. k \in 1..n /\ j <= k - 1 /\ k - 1 \in 0..n
        BY <2>1
      <3>2. p[j] <= p[k - 1] /\ p[k - 1] < p[k] /\ p[j] \in Nat /\ p[k - 1] \in Nat /\ p[k] \in Nat
        BY <1>2, <1>4, <3>1
      <3> QED
        BY <2>1, <3>2
    <2>2. CASE k <= j
      BY <1>2, <2>2
    <2> QED
      BY <2>1, <2>2
  <1>6. ASSUME NEW i \in 1..p[n], b[i] \in Separator
        PROVE  \E k \in 1..n : i = p[k]
    <2>1. PICK k \in 1..n : p[k - 1] < i /\ i <= p[k]
      BY <1>2
    <2>2. CASE i # p[k]
      <3>0. /\ Len(f[k]) \in Nat /\ p[k] \in Nat /\ p[k - 1] \in Nat
            /\ p[k] = p[k - 1] + Len(f[k]) + 1 /\ i \in Int
        BY <1>3
      <3>1. i - p[k - 1] \in 1..Len(f[k]) /\ p[k - 1] + (i - p[k - 1]) = i
        BY <2>1, <2>2, <3>0
      <3>2. b[i] = f[k][i - p[k - 1]] /\ f[k][i - p[k - 1]] \notin Separator
        BY <3>1 DEF Fields
      <3> QED
        BY <1>6, <3>2
    <2> QED
      BY <2>2
  <1>7. \A k \in 1..n : b[p[k]] \in Separator
    BY DEF Fields
  <1> QED
    BY <1>2, <1>4, <1>5, <1>6, <1>7 DEF Fenced

(* commaCounter counts the fields.                                         *)
FirstPlaces(p, k) == {p[j] : j \in 1..k}

(* At the end of the k-th field the loop has counted k.                    *)
LEMMA FieldsCounted ==
    ASSUME NEW b, NEW f, NEW n \in Nat \ {0}, NEW p, Fields(b, f, n, p), NEW k \in 1..n
    PROVE  /\ commaCounter(b, p[k]) = k
           /\ Cardinality(FirstPlaces(p, k)) = k
  <1> DEFINE T == {p[j] : j \in 1..k}
  <1>0. Fenced(b, n, p)
    BY SeparatorsOfFields
  <1>1. /\ \A j \in 0..n : p[j] \in Nat
        /\ \A j \in 1..n : p[j] \in 1..p[n]
        /\ \A i, j \in 0..n : i < j <=> p[i] < p[j]
        /\ \A i \in 1..p[n] : b[i] \in Separator <=> \E j \in 1..n : i = p[j]
    BY <1>0, Zenon DEF Fenced
  <1>2. b \in Strings /\ p[n] <= Len(b) /\ Len(b) \in Nat
    BY DEF Fields, Strings
  <1>3. p[k] \in 1..p[n] /\ p[n] \in Nat
    BY <1>1
  <1>4. /\ DOMAIN SubSeq(b, 1, p[k]) = 1..p[k]
        /\ \A i \in 1..p[k] : SubSeq(b, 1, p[k])[i] = b[i]
    BY <1>2, <1>3 DEF Strings
  <1>5. Separators(SubSeq(b, 1, p[k])) = {i \in 1..p[k] : b[i] \in Separator}
    BY <1>4 DEF Separators, Separator
  <1>6. {i \in 1..p[k] : b[i] \in Separator} = T
    <2>1. ASSUME NEW i \in 1..p[k], b[i] \in Separator PROVE i \in T
      <3>1. PICK j \in 1..n : i = p[j]
        BY <1>1, <1>3, <2>1
      <3>2. ~(p[k] < p[j])
        BY <1>1, <3>1
      <3>3. ~(k < j)
        BY <1>1, <3>2
      <3> QED
        BY <3>1, <3>3
    <2>2. ASSUME NEW j \in 1..k PROVE p[j] \in 1..p[k] /\ b[p[j]] \in Separator
      <3>1. j \in 1..n
        OBVIOUS
      <3>2. p[j] \in 1..p[n] /\ b[p[j]] \in Separator
        BY <1>1, <3>1
      <3>3. ~(k < j) /\ p[j] \in Nat /\ p[k] \in Nat
        BY <1>1
      <3>4. ~(p[k] < p[j])
        BY <1>1, <3>1, <3>3
      <3> QED
        BY <3>2, <3>3, <3>4
    <2> QED
      BY <2>1, <2>2
  <1>7. Cardinality(T) = k
    <2> DEFINE g == [j \in 1..k |-> p[j]]
    <2>1. g \in [1..k -> T]
      OBVIOUS
    <2>2. \A i, j \in 1..k : g[i] = g[j] => i = j
      <3> SUFFICES ASSUME NEW i \in 1..k, NEW j \in 1..k, p[i] = p[j] PROVE i = j
        OBVIOUS
      <3>1. ~(p[i] < p[j]) /\ ~(p[j] < p[i]) /\ i \in 0..n /\ j \in 0..n
        BY <1>1
      <3>2. ~(i < j) /\ ~(j < i)
        BY <1>1, <3>1
      <3> QED
        BY <3>2
    <2>3. \A t \in T : \E j \in 1..k : g[j] = t
      OBVIOUS
    <2> HIDE DEF T, g
    <2>4. g \in Injection(1..k, T)
      BY <2>1, <2>2 DEF Injection, IsInjective
    <2>9. g \in Surjection(1..k, T)
      BY <2>1, <2>3, Zenon DEF Surjection
    <2>5. ExistsBijection(1..k, T)
      BY <2>4, <2>9, Zenon DEF ExistsBijection, Bijection
    <2>6. IsFiniteSet(1..k) /\ Cardinality(1..k) = k
      BY FS_Interval
    <2> QED
      BY <2>5, <2>6, FS_Bijection
  <1> QED
    BY <1>5, <1>6, <1>7 DEF commaCounter, FirstPlaces

EndsAt(b, n, p) == \A k \in 1..n : Stops(b, p[k]) <=> k = n

(* When the loop ends at the n-th separator and not before, payload_decoder*)
(* finds the fields, and no others.                                        *)
LEMMA FieldsFound ==
    ASSUME NEW b, NEW f, NEW n \in Nat \ {0}, NEW p, Fields(b, f, n, p), EndsAt(b, n, p)
    PROVE  /\ Cardinality(Reached(b)) = n
           /\ Cut(b, n) = p[n]
           /\ DOMAIN tmp_parameters(b) = 1..n
           /\ \A k \in 1..n : tmp_parameters(b)[k] = f[k]
  <1>0. Fenced(b, n, p)
    BY SeparatorsOfFields
  <1>1. /\ \A j \in 0..n : p[j] \in Nat
        /\ \A j \in 1..n : p[j] \in 1..p[n]
        /\ \A i, j \in 0..n : i < j <=> p[i] < p[j]
        /\ \A i \in 1..p[n] : b[i] \in Separator <=> \E j \in 1..n : i = p[j]
    BY <1>0, Zenon DEF Fenced
  <1>2. b \in Strings /\ p[n] <= Len(b) /\ Len(b) \in Nat /\ p[n] \in Nat /\ DOMAIN b = 1..Len(b)
    BY <1>1 DEF Fields, Strings
  <1>3. Separators(b) = {i \in 1..Len(b) : b[i] \in Separator}
    BY <1>2 DEF Separators, Separator
  <1>4. \A k \in 1..n : p[k] \in Separators(b)
    BY <1>1, <1>2, <1>3
  <1>5. Reached(b) = {p[k] : k \in 1..n}
    <2>1. ASSUME NEW i \in Reached(b) PROVE \E k \in 1..n : i = p[k]
      <3>1. i \in Separators(b) /\ \A j \in Separators(b) : j < i => ~Stops(b, j)
        BY DEF Reached
      <3>2. ~(p[n] < i)
        BY <1>4, <3>1 DEF EndsAt
      <3>3. i \in 1..p[n] /\ b[i] \in Separator
        BY <1>2, <1>3, <3>1, <3>2
      <3> QED
        BY <1>1, <3>3
    <2>2. ASSUME NEW k \in 1..n PROVE p[k] \in Reached(b)
      <3>1. ASSUME NEW j \in Separators(b), j < p[k] PROVE ~Stops(b, j)
        <4>1. j \in 1..p[n] /\ b[j] \in Separator
          BY <1>1, <1>2, <1>3, <3>1
        <4>2. PICK l \in 1..n : j = p[l]
          BY <1>1, <4>1
        <4>3. l < k
          BY <1>1, <3>1, <4>2
        <4> QED
          BY <4>2, <4>3 DEF EndsAt
      <3> QED
        BY <1>4, <3>1 DEF Reached
    <2> QED
      BY <2>1, <2>2
  <1>6. \A k \in 1..n : commaCounter(b, p[k]) = k
    BY FieldsCounted
  <1>7. Cardinality(Reached(b)) = n
    <2>1. n \in 1..n
      OBVIOUS
    <2>2. Reached(b) = FirstPlaces(p, n)
      BY <1>5 DEF FirstPlaces
    <2> QED
      BY <2>1, <2>2, FieldsCounted
  <1>8. ASSUME NEW k \in 0..n PROVE Cut(b, k) = p[k]
    <2>1. CASE k = 0
      BY <2>1 DEF Cut, Fields, Places
    <2>2. CASE k # 0
      <3>1. p[k] \in Reached(b) /\ commaCounter(b, p[k]) = k
        BY <1>5, <1>6, <2>2
      <3>2. \A i \in Reached(b) : commaCounter(b, i) = k => i = p[k]
        BY <1>5, <1>6, <2>2
      <3> QED
        BY <2>2, <3>1, <3>2 DEF Cut
    <2> QED
      BY <2>1, <2>2
  <1>9. tmp_parameters(b) = [k \in 1..n |-> SubSeq(b, Cut(b, k - 1) + 1, Cut(b, k) - 1)]
    BY <1>7 DEF tmp_parameters
  <1>10. ASSUME NEW k \in 1..n PROVE tmp_parameters(b)[k] = f[k]
    <2>1. Cut(b, k) = p[k] /\ Cut(b, k - 1) = p[k - 1]
      BY <1>8
    <2>2. /\ p[k] = p[k - 1] + Len(f[k]) + 1 /\ f[k] \in Strings
          /\ \A i \in 1..Len(f[k]) : b[p[k - 1] + i] = f[k][i]
      BY DEF Fields
    <2>3. p[k] \in 1..p[n] /\ p[k - 1] \in Nat /\ p[k] \in Nat
      BY <1>1
    <2>4. Len(f[k]) \in Nat
      BY <2>2 DEF Strings
    <2>5. p[k] - 1 = p[k - 1] + Len(f[k]) /\ p[k - 1] + Len(f[k]) <= Len(b)
      BY <1>2, <2>2, <2>3, <2>4
    <2>6. SubSeq(b, p[k - 1] + 1, p[k - 1] + Len(f[k])) = f[k]
      BY <1>2, <2>2, <2>3, <2>5, SubstringIs
    <2> QED
      BY <1>9, <2>1, <2>5, <2>6
  <1>11. n \in 0..n
    OBVIOUS
  <1> QED
    BY <1>7, <1>8, <1>9, <1>10, <1>11

LEMMA PlusOne == \A i, j \in Nat : i + (j + 1) = i + j + 1
  OBVIOUS

(* The same fields behind each other, each followed by a comma.            *)
LEMMA ListedFields ==
    ASSUME NEW n \in Nat \ {0}, NEW f, Len(f) = n, DOMAIN f = 1..n,
           \A k \in 1..n : f[k] \in Strings /\ \A i \in 1..Len(f[k]) : f[k][i] \notin Separator
    PROVE  \E p : /\ Fields(Listed(f), f, n, p) /\ p[n] = Len(Listed(f))
                  /\ \A k \in 1..n : Listed(f)[p[k]] = Comma
  <1> DEFINE fs == [k \in 1..n |-> Append(f[k], Comma)]
  <1>1. ASSUME NEW k \in 1..n
        PROVE  /\ fs[k] \in Strings /\ Len(f[k]) \in Nat /\ Len(fs[k]) = Len(f[k]) + 1
               /\ fs[k][Len(f[k]) + 1] = Comma
               /\ \A i \in 1..Len(f[k]) : fs[k][i] = f[k][i]
    BY DEF Strings, Comma
  <1>2. Listed(f) = FlattenSeq(fs) /\ Len(fs) = n
    BY DEF Listed
  <1> HIDE DEF fs
  <1>3. PICK p : Layout(FlattenSeq(fs), fs, n, p)
    BY <1>1, <1>2, FlattenLayout
  <1> DEFINE s == FlattenSeq(fs)
  <1>4. s \in Strings /\ Places(p, n) /\ p[n] = Len(s)
    BY <1>3 DEF Layout
  <1>5. \A k \in 0..n : p[k] \in Nat
    BY <1>4, PlacesRise
  <1> HIDE DEF s
  <1>6. ASSUME NEW k \in 1..n
        PROVE  /\ p[k] = p[k - 1] + Len(f[k]) + 1 /\ s[p[k]] = Comma
               /\ \A i \in 1..Len(f[k]) : s[p[k - 1] + i] = f[k][i]
    <2>1. /\ p[k] = p[k - 1] + Len(fs[k])
          /\ \A i \in 1..Len(fs[k]) : s[p[k - 1] + i] = fs[k][i]
      BY <1>3 DEF Layout, s
    <2>2. p[k - 1] \in Nat
      BY <1>5
    <2>3. p[k] = p[k - 1] + (Len(f[k]) + 1) /\ Len(f[k]) + 1 \in 1..Len(fs[k])
      BY <1>1, <2>1, <2>2
    <2>7. fs[k][Len(f[k]) + 1] = Comma
      BY <1>1
    <2>4. s[p[k - 1] + (Len(f[k]) + 1)] = Comma
      BY <2>1, <2>3, <2>7
    <2>5. p[k] = p[k - 1] + Len(f[k]) + 1 /\ s[p[k]] = Comma
      <3>1. Len(f[k]) \in Nat
        BY <1>1
      <3>2. p[k] = p[k - 1] + Len(f[k]) + 1
        BY <2>2, <2>3, <3>1, PlusOne, Zenon
      <3>3. s[p[k]] = Comma
        BY <2>3, <2>4, Zenon
      <3> QED
        BY <3>2, <3>3
    <2>6. ASSUME NEW i \in 1..Len(f[k]) PROVE s[p[k - 1] + i] = f[k][i]
      <3>1. i \in 1..Len(fs[k])
        BY <1>1
      <3> QED
        BY <1>1, <2>1, <3>1
    <2> QED
      BY <2>5, <2>6
  <1>7. Comma \in Separator /\ Len(s) \in Nat
    BY <1>4 DEF Separator, Strings
  <1>8. Fields(s, f, n, p)
    BY <1>4, <1>6, <1>7 DEF Fields
  <1> QED
    BY <1>2, <1>4, <1>6, <1>8 DEF s

(* What follows the last separator is of no importance, nor is which       *)
(* separator that is.                                                      *)
LEMMA FieldsFollowed ==
    ASSUME NEW b, NEW f, NEW n \in Nat \ {0}, NEW p, Fields(b, f, n, p),
           NEW c \in Strings, p[n] <= Len(c), c[p[n]] \in Separator,
           \A i \in 1..p[n] : i # p[n] => c[i] = b[i]
    PROVE  Fields(c, f, n, p)
  <1>0. Fenced(b, n, p)
    BY SeparatorsOfFields
  <1>1. /\ \A j \in 0..n : p[j] \in Nat
        /\ \A j \in 1..n : p[j] \in 1..p[n]
    BY <1>0, Zenon DEF Fenced
  <1>2. ASSUME NEW k \in 1..n
        PROVE  /\ f[k] \in Strings /\ p[k] = p[k - 1] + Len(f[k]) + 1
               /\ c[p[k]] \in Separator
               /\ \A i \in 1..Len(f[k]) : f[k][i] \notin Separator /\ c[p[k - 1] + i] = f[k][i]
    <2>1. /\ f[k] \in Strings /\ p[k] = p[k - 1] + Len(f[k]) + 1
          /\ b[p[k]] \in Separator
          /\ \A i \in 1..Len(f[k]) : f[k][i] \notin Separator /\ b[p[k - 1] + i] = f[k][i]
      BY DEF Fields
    <2>2. c[p[k]] \in Separator
      BY <1>1, <2>1
    <2>3. ASSUME NEW i \in 1..Len(f[k]) PROVE c[p[k - 1] + i] = f[k][i]
      <3>0. k - 1 \in 0..n /\ k \in 0..n /\ n \in 0..n
        OBVIOUS
      <3>1. /\ p[k - 1] \in Nat /\ p[k] \in Nat /\ p[n] \in Nat /\ p[k] \in 1..p[n]
            /\ Len(f[k]) \in Nat
        <4>1. Len(f[k]) \in Nat
          BY <2>1 DEF Strings
        <4> QED
          BY <1>1, <3>0, <4>1, Zenon
      <3>2. p[k - 1] + i \in 1..p[n] /\ p[k - 1] + i # p[n]
        BY <2>1, <3>1
      <3> QED
        BY <2>1, <3>2
    <2> QED
      BY <2>1, <2>2, <2>3
  <1>3. Places(p, n)
    BY DEF Fields
  <1> QED
    BY <1>2, <1>3 DEF Fields

-----------------------------------------------------------------------------
(***************************************************************************)
(* Signatures in hex                                                       *)
(***************************************************************************)
LEMMA HexDigitFacts ==
    /\ \A d \in 0..15 : /\ HexDigit(d) \in Int /\ HexDigit(d) \notin Separator
                        /\ HexValue(HexDigit(d)) = d
    /\ \A x \in 0..255 : /\ x \div 16 \in 0..15 /\ x % 16 \in 0..15
                         /\ 16 * (x \div 16) + (x % 16) = x
  <1>1. ASSUME NEW d \in 0..15
        PROVE  /\ HexDigit(d) \in Int /\ HexDigit(d) \notin Separator
               /\ HexValue(HexDigit(d)) = d
    <2>1. CASE d < 10
      BY <2>1 DEF HexDigit, HexValue, Separator, Digit, Zero, Comma, Semicolon
    <2>2. CASE ~(d < 10)
      BY <2>2 DEF HexDigit, HexValue, Separator, Digit, Zero, Comma, Semicolon
    <2> QED
      BY <2>1, <2>2
  <1>2. ASSUME NEW x \in 0..255
        PROVE  /\ x \div 16 \in 0..15 /\ x % 16 \in 0..15
               /\ 16 * (x \div 16) + (x % 16) = x
    OBVIOUS
  <1> QED
    BY <1>1, <1>2

(* The fields of bytes are strings of their size.                          *)
LEMMA OctetsAreStrings ==
    ASSUME NEW n \in Nat, NEW s \in Octets(n)
    PROVE  s \in Strings /\ Len(s) = n /\ s \in [1..n -> 0..255]
  <1>1. s \in [1..n -> Bytes] /\ Bytes \subseteq 0..255
    BY SizesAssumption DEF Octets
  <1>2. s \in [1..n -> 0..255]
    BY <1>1
  <1>3. s \in Seq(Int) /\ Len(s) = n
    <2>1. Bytes \subseteq Int
      BY <1>1
    <2>2. s \in [1..n -> Int]
      BY <1>1, <2>1
    <2> QED
      BY <2>2
  <1> QED
    BY <1>2, <1>3 DEF Strings

(* A signature sent in hex is read back, whatever its bytes, and has no    *)
(* separator in it (main.c:131-139, 540-547).                              *)
THEOREM HexIsRead ==
    ASSUME NEW s \in Octets(SignatureSize)
    PROVE  /\ Hex(s) \in Strings
           /\ \A i \in 1..Len(Hex(s)) : Hex(s)[i] \notin Separator
           /\ Unhex(Hex(s)) = s
  <1> SUFFICES ASSUME NEW n \in Nat, n = SignatureSize
               PROVE  /\ Hex(s) \in Strings
                      /\ \A i \in 1..Len(Hex(s)) : Hex(s)[i] \notin Separator
                      /\ Unhex(Hex(s)) = s
    BY SizesAssumption
  <1>1. Len(s) = n /\ s \in [1..n -> 0..255]
    BY OctetsAreStrings
  <1> DEFINE half(i) == IF i % 2 = 1 THEN s[(i + 1) \div 2] \div 16 ELSE s[i \div 2] % 16
             h == [i \in 1..2 * n |-> HexDigit(half(i))]
  <1>2. Hex(s) = h
    BY <1>1 DEF Hex
  <1>3. ASSUME NEW i \in 1..2 * n PROVE half(i) \in 0..15
    <2>1. CASE i % 2 = 1
      <3>1. (i + 1) \div 2 \in 1..n
        BY <2>1
      <3> QED
        BY <1>1, <2>1, <3>1, HexDigitFacts
    <2>2. CASE i % 2 # 1
      <3>1. i \div 2 \in 1..n
        BY <2>2
      <3> QED
        BY <1>1, <2>2, <3>1, HexDigitFacts
    <2> QED
      BY <2>1, <2>2
  <1>4. \A i \in 1..n : half(2 * i - 1) = s[i] \div 16 /\ half(2 * i) = s[i] % 16
    <2> SUFFICES ASSUME NEW i \in 1..n
                 PROVE  half(2 * i - 1) = s[i] \div 16 /\ half(2 * i) = s[i] % 16
      OBVIOUS
    <2>1. /\ (2 * i - 1) % 2 = 1 /\ ((2 * i - 1) + 1) \div 2 = i
          /\ (2 * i) % 2 = 0 /\ (2 * i) \div 2 = i
      OBVIOUS
    <2> QED
      BY <2>1
  <1> HIDE DEF half
  <1>5. h \in Strings /\ Len(h) = 2 * n
    BY <1>3, HexDigitFacts DEF Strings
  <1>6. \A i \in 1..2 * n : h[i] \notin Separator
    BY <1>3, HexDigitFacts
  <1>7. ASSUME NEW i \in 1..n PROVE 16 * HexValue(h[2 * i - 1]) + HexValue(h[2 * i]) = s[i]
    <2>1. 2 * i - 1 \in 1..2 * n /\ 2 * i \in 1..2 * n
      OBVIOUS
    <2>2. h[2 * i - 1] = HexDigit(s[i] \div 16) /\ h[2 * i] = HexDigit(s[i] % 16)
      BY <1>4, <2>1
    <2>3. s[i] \in 0..255
      BY <1>1
    <2> QED
      BY <2>2, <2>3, HexDigitFacts
  <1> HIDE DEF h
  <1>8. Unhex(h) = [i \in 1..n |-> 16 * HexValue(h[2 * i - 1]) + HexValue(h[2 * i])]
    BY DEF Unhex
  <1>9. Unhex(h) = [i \in 1..n |-> s[i]]
    BY <1>7, <1>8
  <1>10. Unhex(h) = s
    BY <1>1, <1>9
  <1> QED
    BY <1>2, <1>5, <1>6, <1>10

-----------------------------------------------------------------------------
(***************************************************************************)
(* The kinds of messages                                                   *)
(***************************************************************************)
Names == {"pni", "par", "plc", "atd", "bcd", "bca", "bpa", "bcb"}

FieldCount(h) == Numbers[h] + (IF h \in Signed THEN 2 ELSE 1)

LEMMA Domains ==
    /\ DOMAIN Header = Names
    /\ DOMAIN Binary = {"bca", "bpa", "bcb"} /\ DOMAIN BinaryAt = {"bca", "bpa", "bcb"}
  BY DEF Header, Names, Binary, BinaryAt

(* At most five fields, and of a header with binary ones the last is the   *)
(* one tested for.                                                         *)
LEMMA Counts ==
    ASSUME NEW h \in Names
    PROVE  /\ Numbers[h] \in 1..4 /\ FieldCount(h) \in 2..5
           /\ h \in DOMAIN Binary => h \notin Signed /\ BinaryAt[h] = FieldCount(h)
  BY Domains DEF Names, Numbers, FieldCount, Signed, BinaryAt

(* The headers have three letters, and no two are the same.                *)
LEMMA Headers ==
    /\ \A h \in Names : /\ Header[h] \in Strings /\ Len(Header[h]) = 3
                        /\ \A i \in 1..3 : Header[h][i] \notin Separator
    /\ \A g, h \in Names : Header[g] = Header[h] => g = h
  <1>1. ASSUME NEW h \in Names
        PROVE  /\ Header[h] \in Strings /\ Len(Header[h]) = 3
               /\ Header[h][1] \in 97..122 /\ Header[h][2] \in 97..122 /\ Header[h][3] \in 97..122
    <2> DEFINE Letters == 97..122
    <2>1. 97 \in Letters /\ 98 \in Letters /\ 99 \in Letters /\ 100 \in Letters /\ 105 \in Letters
      OBVIOUS
    <2>2. 108 \in Letters /\ 110 \in Letters /\ 112 \in Letters /\ 114 \in Letters /\ 116 \in Letters
      OBVIOUS
    <2>3. Letters \subseteq Int
      OBVIOUS
    <2> HIDE DEF Letters
    <2>4. \E x, y, z \in Letters : Header[h] = <<x, y, z>>
      <3>1. /\ Header["pni"] = <<112, 110, 105>> /\ Header["par"] = <<112, 97, 114>>
            /\ Header["plc"] = <<112, 108, 99>> /\ Header["atd"] = <<97, 116, 100>>
            /\ Header["bcd"] = <<98, 99, 100>> /\ Header["bca"] = <<98, 99, 97>>
            /\ Header["bpa"] = <<98, 112, 97>> /\ Header["bcb"] = <<98, 99, 98>>
        BY DEF Header
      <3>2. CASE h = "pni"
        <4>1. Header[h] = <<112, 110, 105>>
          BY <3>1, <3>2
        <4> QED
          BY <2>1, <2>2, <4>1, Zenon
      <3>3. CASE h = "par"
        <4>1. Header[h] = <<112, 97, 114>>
          BY <3>1, <3>3
        <4> QED
          BY <2>1, <2>2, <4>1, Zenon
      <3>4. CASE h = "plc"
        <4>1. Header[h] = <<112, 108, 99>>
          BY <3>1, <3>4
        <4> QED
          BY <2>1, <2>2, <4>1, Zenon
      <3>5. CASE h = "atd"
        <4>1. Header[h] = <<97, 116, 100>>
          BY <3>1, <3>5
        <4> QED
          BY <2>1, <2>2, <4>1, Zenon
      <3>6. CASE h = "bcd"
        <4>1. Header[h] = <<98, 99, 100>>
          BY <3>1, <3>6
        <4> QED
          BY <2>1, <2>2, <4>1, Zenon
      <3>7. CASE h = "bca"
        <4>1. Header[h] = <<98, 99, 97>>
          BY <3>1, <3>7
        <4> QED
          BY <2>1, <2>2, <4>1, Zenon
      <3>8. CASE h = "bpa"
        <4>1. Header[h] = <<98, 112, 97>>
          BY <3>1, <3>8
        <4> QED
          BY <2>1, <2>2, <4>1, Zenon
      <3>9. CASE h = "bcb"
        <4>1. Header[h] = <<98, 99, 98>>
          BY <3>1, <3>9
        <4> QED
          BY <2>1, <2>2, <4>1, Zenon
      <3> QED
        BY <3>2, <3>3, <3>4, <3>5, <3>6, <3>7, <3>8, <3>9, Zenon DEF Names
    <2>5. PICK x \in Letters, y \in Letters, z \in Letters : Header[h] = <<x, y, z>>
      BY <2>4
    <2>6. /\ Header[h] \in Strings /\ Len(Header[h]) = 3
          /\ Header[h][1] = x /\ Header[h][2] = y /\ Header[h][3] = z
      BY <2>3, <2>5 DEF Strings
    <2> QED
      BY <2>6 DEF Letters
  <1>2. \A x \in 97..122 : x \notin Separator
    BY DEF Separator, Comma, Semicolon
  <1>3. \A i \in 1..3 : i = 1 \/ i = 2 \/ i = 3
    OBVIOUS
  <1>4. \A h \in Names : \A i \in 1..3 : Header[h][i] \notin Separator
    BY <1>1, <1>2, <1>3
  <1>5. ASSUME NEW g \in Names, NEW h \in Names, Header[g] = Header[h] PROVE g = h
    <2>1. Header[g][1] = Header[h][1] /\ Header[g][2] = Header[h][2] /\ Header[g][3] = Header[h][3]
      BY <1>5
    <2> QED
      BY <2>1 DEF Names, Header
  <1> QED
    BY <1>1, <1>4, <1>5

LEMMA BinarySizes ==
    ASSUME NEW h \in DOMAIN Binary
    PROVE  /\ Len(Binary[h]) \in Nat \ {0} /\ DOMAIN Binary[h] = 1..Len(Binary[h])
           /\ \A k \in 1..Len(Binary[h]) : Binary[h][k] \in Nat
  <1>1. h \in {"bca", "bpa", "bcb"} /\ KeySize \in Nat /\ HashSize \in Nat /\ SignatureSize \in Nat
    BY Domains, SizesAssumption
  <1>2. CASE h = "bca"
    BY <1>1, <1>2 DEF Binary
  <1>3. CASE h = "bpa"
    BY <1>1, <1>3 DEF Binary
  <1>4. CASE h = "bcb"
    BY <1>1, <1>4 DEF Binary
  <1> QED
    BY <1>1, <1>2, <1>3, <1>4

WellFormed(m) ==
    /\ m = Message(m.header, m.numbers, m.binary) /\ m.header \in Names
    /\ m.numbers \in [1..Numbers[m.header] -> -MaxInt..MaxInt]
    /\ IF m.header \in DOMAIN Binary
       THEN /\ m.binary \in Seq(Strings) /\ Len(m.binary) = Len(Binary[m.header])
            /\ \A k \in 1..Len(m.binary) : m.binary[k] \in Octets(Binary[m.header][k])
       ELSE IF m.header \in Signed
       THEN m.binary = <<m.binary[1]>> /\ m.binary[1] \in Octets(SignatureSize)
       ELSE m.binary = <<>>

(* The members of an interval, and of the shorts.                          *)
LEMMA Between == \A a, b \in Int : \A i : i \in a..b <=> i \in Int /\ a <= i /\ i <= b
  OBVIOUS

LEMMA MaxShortFits == MaxShort \in Nat /\ MaxShort <= MaxInt - 1
  BY DEF MaxShort, MaxInt

LEMMA InShort == \A i : i \in ShortRange <=> i \in Int /\ -MaxShort - 1 <= i /\ i <= MaxShort
  <1>1. -MaxShort - 1 \in Int /\ MaxShort \in Int
    BY MaxShortFits
  <1> QED
    BY <1>1, Between, Zenon DEF ShortRange

(* What an int is as a short: the same, or one with the same lower bits.   *)
LEMMA ShortIs ==
    \A i \in Int :
        /\ Short(i) \in ShortRange
        /\ (Short(i) - i) % 65536 = 0
        /\ i \in ShortRange => Short(i) = i
  <1>1. ASSUME NEW i \in Int
        PROVE  /\ Short(i) \in Int /\ -MaxShort - 1 <= Short(i) /\ Short(i) <= MaxShort
               /\ (Short(i) - i) % 65536 = 0
    BY DEF Short, MaxShort
  <1>2. ASSUME NEW i \in Int, -MaxShort - 1 <= i, i <= MaxShort PROVE Short(i) = i
    BY <1>2 DEF Short, MaxShort
  <1> QED
    BY <1>1, <1>2, InShort

LEMMA ShortsInInt ==
    /\ 0..MaxShort \subseteq ShortRange /\ -1 \in ShortRange
    /\ ShortRange \subseteq -MaxInt..MaxInt
  <1>1. \A i \in 0..MaxShort : i \in ShortRange
    BY InShort, MaxShortFits
  <1>2. -1 \in ShortRange
    BY InShort, MaxShortFits
  <1>3. \A i \in ShortRange : i \in -MaxInt..MaxInt
    BY InShort, MaxShortFits, MaxIntIsNat
  <1> QED
    BY <1>1, <1>2, <1>3

(* What the modules send are shorts.                                       *)
LEMMA ShortsTyped ==
    \A i \in Holders \cup Prices \cup Durations \cup Phases \cup Amperages : i \in ShortRange
  <1>1. \A a \in Readings : a \in Int
    BY MaxIntIsNat, NumbersAssumption
  <1>2. \A i \in Amperages : i \in ShortRange
    BY <1>1, ShortIs, ShortsInInt DEF Amperages
  <1>3. Ids \cup Prices \cup Durations \cup Phases \subseteq ShortRange
    BY ShortsInInt, NumbersAssumption
  <1>4. \A i \in Holders : i \in ShortRange
    BY <1>3, ShortsInInt DEF Holders, NoId
  <1> QED
    BY <1>2, <1>3, <1>4

(* What a message holds are ints other than the lowest.                    *)
LEMMA NumbersTyped ==
    /\ \A i \in Ids \cup Holders \cup Prices \cup Durations \cup Phases
                \cup Readings \cup Amperages \cup Loads :
          i \in -MaxInt..MaxInt
    /\ \A i \in -MaxInt..MaxInt : <<i>> \in [1..1 -> -MaxInt..MaxInt]
    /\ \A i, j \in -MaxInt..MaxInt : <<i, j>> \in [1..2 -> -MaxInt..MaxInt]
    /\ \A i, j, k \in -MaxInt..MaxInt : <<i, j, k>> \in [1..3 -> -MaxInt..MaxInt]
  <1> DEFINE I == -MaxInt..MaxInt
  <1>1. Readings \cup Loads \subseteq I
    BY NumbersAssumption
  <1>2. \A i \in Ids : i \in Holders
    BY DEF Holders
  <1>3. ShortRange \subseteq I
    BY ShortsInInt
  <1> HIDE DEF I
  <1>4. \A i \in Ids \cup Holders \cup Prices \cup Durations \cup Phases
                \cup Readings \cup Amperages \cup Loads : i \in I
    BY <1>1, <1>2, <1>3, ShortsTyped
  <1>5. /\ \A i \in I : <<i>> \in [1..1 -> I]
        /\ \A i, j \in I : <<i, j>> \in [1..2 -> I]
        /\ \A i, j, k \in I : <<i, j, k>> \in [1..3 -> I]
    OBVIOUS
  <1> QED
    BY <1>4, <1>5 DEF I

(* An acceptance has the sender's id and its signature.                    *)
LEMMA AtdIs ==
    ASSUME NEW m \in Atd
    PROVE  \E i \in Holders, s \in Octets(SignatureSize) : m = Message("atd", <<i>>, <<s>>)
  BY SMT DEF Atd, Message

LEMMA OctetSizes ==
    /\ \A s \in Octets(KeySize) : s \in Strings
    /\ \A s \in Octets(HashSize) : s \in Strings
    /\ \A s \in Octets(SignatureSize) : s \in Strings
  BY OctetsAreStrings, SizesAssumption

(* Every message has as many numbers and binary fields as its header       *)
(* says.                                                                   *)
LEMMA SentWellFormed ==
    ASSUME NEW m \in Datagram \cup Reply
    PROVE  WellFormed(m)
  <1>1. ASSUME NEW h \in {"pni", "par", "plc"}, NEW i \in Holders \cup Readings \cup Loads,
               m = Message(h, <<i>>, <<>>)
        PROVE  WellFormed(m)
    <2>1. m.header = h /\ m.numbers = <<i>> /\ m.binary = <<>>
      BY <1>1 DEF Message
    <2>2. h \in Names /\ h \notin DOMAIN Binary /\ h \notin Signed /\ Numbers[h] = 1
      BY Domains DEF Names, Signed, Numbers
    <2>3. <<i>> \in [1..1 -> -MaxInt..MaxInt]
      BY NumbersTyped
    <2> QED
      BY <1>1, <2>1, <2>2, <2>3 DEF WellFormed
  <1>2. ASSUME NEW h \in Signed, NEW s \in Octets(SignatureSize), NEW numbers,
               numbers \in [1..Numbers[h] -> -MaxInt..MaxInt],
               m = Message(h, numbers, <<s>>)
        PROVE  WellFormed(m)
    <2>1. m.header = h /\ m.numbers = numbers /\ m.binary = <<s>>
      BY <1>2 DEF Message
    <2>2. h \in Names /\ h \notin DOMAIN Binary
      BY Domains DEF Names, Signed
    <2>3. m.binary[1] = s
      BY <2>1
    <2> QED
      BY <1>2, <2>1, <2>2, <2>3 DEF WellFormed
  <1>3. ASSUME NEW h \in DOMAIN Binary, NEW numbers, NEW binary \in Seq(Strings),
               numbers \in [1..Numbers[h] -> -MaxInt..MaxInt],
               Len(binary) = Len(Binary[h]),
               \A k \in 1..Len(Binary[h]) : binary[k] \in Octets(Binary[h][k]),
               m = Message(h, numbers, binary)
        PROVE  WellFormed(m)
    <2>1. m.header = h /\ m.numbers = numbers /\ m.binary = binary
      BY <1>3 DEF Message
    <2>2. h \in Names
      BY Domains DEF Names
    <2> QED
      BY <1>3, <2>1, <2>2 DEF WellFormed
  <1>4. ASSUME NEW t \in Holders \X Prices \X Durations, NEW s \in Octets(SignatureSize),
               m = Message("bcd", t, <<s>>)
        PROVE  WellFormed(m)
    <2>1. "bcd" \in Signed /\ Numbers["bcd"] = 3
      BY DEF Signed, Numbers
    <2>2. PICK i \in Holders, p \in Prices, d \in Durations : t = <<i, p, d>>
      OBVIOUS
    <2>3. t \in [1..3 -> -MaxInt..MaxInt]
      BY <2>2, NumbersTyped
    <2> QED
      BY <1>2, <1>4, <2>1, <2>3
  <1>5. ASSUME NEW i \in Holders, NEW s \in Octets(SignatureSize), m = Message("atd", <<i>>, <<s>>)
        PROVE  WellFormed(m)
    <2>1. "atd" \in Signed /\ Numbers["atd"] = 1
      BY DEF Signed, Numbers
    <2>2. <<i>> \in [1..1 -> -MaxInt..MaxInt]
      BY NumbersTyped
    <2> QED
      BY <1>2, <1>5, <2>1, <2>2
  <1>6. ASSUME NEW t \in Holders \X Amperages, NEW k \in Octets(KeySize),
               m = Message("bca", t, <<k>>)
        PROVE  WellFormed(m)
    <2>1. "bca" \in DOMAIN Binary /\ Numbers["bca"] = 2 /\ Binary["bca"] = <<KeySize>>
      BY Domains DEF Numbers, Binary
    <2>2. PICK i \in Holders, a \in Amperages : t = <<i, a>>
      OBVIOUS
    <2>3. t \in [1..2 -> -MaxInt..MaxInt]
      BY <2>2, NumbersTyped
    <2>4. /\ <<k>> \in Seq(Strings) /\ Len(<<k>>) = Len(Binary["bca"])
          /\ \A j \in 1..Len(Binary["bca"]) : <<k>>[j] \in Octets(Binary["bca"][j])
      BY <2>1, OctetSizes
    <2> QED
      BY <1>3, <1>6, <2>1, <2>3, <2>4
  <1>7. ASSUME NEW t \in Holders \X Phases \X Durations, NEW x \in Octets(HashSize),
               m = Message("bpa", t, <<x>>)
        PROVE  WellFormed(m)
    <2>1. "bpa" \in DOMAIN Binary /\ Numbers["bpa"] = 3 /\ Binary["bpa"] = <<HashSize>>
      BY Domains DEF Numbers, Binary
    <2>2. PICK i \in Holders, p \in Phases, d \in Durations : t = <<i, p, d>>
      OBVIOUS
    <2>3. t \in [1..3 -> -MaxInt..MaxInt]
      BY <2>2, NumbersTyped
    <2>4. /\ <<x>> \in Seq(Strings) /\ Len(<<x>>) = Len(Binary["bpa"])
          /\ \A j \in 1..Len(Binary["bpa"]) : <<x>>[j] \in Octets(Binary["bpa"][j])
      BY <2>1, OctetSizes
    <2> QED
      BY <1>3, <1>7, <2>1, <2>3, <2>4
  <1>8. ASSUME NEW t \in Terms,
               NEW c \in Octets(HashSize) \X Octets(SignatureSize)
                            \X Octets(SignatureSize) \X Octets(HashSize),
               m = Message("bcb", t, c)
        PROVE  WellFormed(m)
    <2>0. PICK p \in Octets(HashSize), s \in Octets(SignatureSize),
               b \in Octets(SignatureSize), x \in Octets(HashSize) : c = <<p, s, b, x>>
      OBVIOUS
    <2>1. /\ "bcb" \in DOMAIN Binary /\ Numbers["bcb"] = 4
          /\ Binary["bcb"] = <<HashSize, SignatureSize, SignatureSize, HashSize>>
      BY Domains DEF Numbers, Binary
    <2>2. t \in [1..4 -> -MaxInt..MaxInt]
      <3>1. PICK i \in Ids, q \in Prices, d \in Durations, j \in Ids : t = <<i, q, d, j>>
        BY DEF Terms
      <3> DEFINE I == -MaxInt..MaxInt
      <3>2. i \in I /\ q \in I /\ d \in I /\ j \in I
        BY NumbersTyped
      <3> HIDE DEF I
      <3>3. t \in [1..4 -> I]
        BY <3>1, <3>2
      <3> QED
        BY <3>3 DEF I
    <2>3. /\ c \in Seq(Strings) /\ Len(c) = Len(Binary["bcb"])
          /\ \A j \in 1..Len(Binary["bcb"]) : c[j] \in Octets(Binary["bcb"][j])
      <3>1. c \in Seq(Strings) /\ Len(c) = 4 /\ Len(Binary["bcb"]) = 4
        BY <2>0, <2>1, OctetSizes
      <3>2. \A j \in 1..4 : j = 1 \/ j = 2 \/ j = 3 \/ j = 4
        OBVIOUS
      <3>3. /\ c[1] \in Octets(Binary["bcb"][1]) /\ c[2] \in Octets(Binary["bcb"][2])
            /\ c[3] \in Octets(Binary["bcb"][3]) /\ c[4] \in Octets(Binary["bcb"][4])
        BY <2>0, <2>1
      <3> QED
        BY <3>1, <3>2, <3>3
    <2> QED
      BY <1>3, <1>8, <2>1, <2>2, <2>3
  <1>9. CASE m \in Reply
    <2>1. \E h \in {"pni", "par", "plc"}, i \in Holders \cup Readings \cup Loads : m = Message(h, <<i>>, <<>>)
      BY <1>9, Zenon DEF Reply
    <2> QED
      BY <1>1, <2>1, Zenon
  <1>10. CASE m \in Datagram
    <2>1. m \in Atd \/ m \in Bcd \/ m \in Bca \/ m \in Bpa \/ m \in Bcb
      BY <1>10, Zenon DEF Datagram
    <2>2. CASE m \in Atd
      <3>1. \E i \in Holders, s \in Octets(SignatureSize) : m = Message("atd", <<i>>, <<s>>)
        BY <2>2, AtdIs, Zenon
      <3> QED
        BY <1>5, <3>1, Zenon
    <2>3. CASE m \in Bcd
      <3>1. \E t \in Holders \X Prices \X Durations, s \in Octets(SignatureSize) : m = Message("bcd", t, <<s>>)
        BY <2>3 DEF Bcd
      <3> QED
        BY <1>4, <3>1, Zenon
    <2>4. CASE m \in Bca
      <3>1. \E t \in Holders \X Amperages, k \in Octets(KeySize) : m = Message("bca", t, <<k>>)
        BY <2>4 DEF Bca
      <3> QED
        BY <1>6, <3>1, Zenon
    <2>5. CASE m \in Bpa
      <3>1. \E t \in Holders \X Phases \X Durations, x \in Octets(HashSize) : m = Message("bpa", t, <<x>>)
        BY <2>5 DEF Bpa
      <3> QED
        BY <1>7, <3>1, Zenon
    <2>6. CASE m \in Bcb
      <3>1. \E t \in Terms, c \in Octets(HashSize) \X Octets(SignatureSize)
                                      \X Octets(SignatureSize) \X Octets(HashSize) :
               m = Message("bcb", t, c)
        BY <2>6 DEF Bcb
      <3> QED
        BY <1>8, <3>1, Zenon
    <2> QED
      BY <2>1, <2>2, <2>3, <2>4, <2>5, <2>6
  <1> QED
    BY <1>9, <1>10

-----------------------------------------------------------------------------
(***************************************************************************)
(* What a message is on the wire                                           *)
(***************************************************************************)
TextParts(f, m, q, n) ==
    /\ Len(f) = n /\ DOMAIN f = 1..n
    /\ \A k \in 1..n : f[k] \in Strings /\ \A i \in 1..Len(f[k]) : f[k][i] \notin Separator
    /\ f[1] = Header[m.header]
    /\ \A k \in 1..q : f[k + 1] = Text(m.numbers[k])
    /\ m.header \in Signed => f[q + 2] = Hex(m.binary[1])

LEMMA Joined ==
    ASSUME NEW F, NEW s \in Seq(F), NEW t \in Seq(F)
    PROVE  /\ s \o t \in Seq(F) /\ Len(s \o t) = Len(s) + Len(t)
           /\ \A k \in 1..Len(s) : (s \o t)[k] = s[k]
           /\ \A k \in 1..Len(t) : (s \o t)[Len(s) + k] = t[k]
  OBVIOUS

LEMMA Replaced ==
    ASSUME NEW s \in Strings, NEW x \in Int
    PROVE  /\ [s EXCEPT ![Len(s)] = x] \in Strings /\ Len([s EXCEPT ![Len(s)] = x]) = Len(s)
           /\ \A i \in 1..Len(s) : i # Len(s) => [s EXCEPT ![Len(s)] = x][i] = s[i]
  <1> SUFFICES ASSUME NEW n \in Nat, n = Len(s)
               PROVE  /\ [s EXCEPT ![n] = x] \in Strings /\ Len([s EXCEPT ![n] = x]) = n
                      /\ \A i \in 1..n : i # n => [s EXCEPT ![n] = x][i] = s[i]
    BY DEF Strings
  <1>1. s \in [1..n -> Int]
    BY DEF Strings
  <1> DEFINE c == [s EXCEPT ![n] = x]
  <1>2. c \in [1..n -> Int] /\ \A i \in 1..n : i # n => c[i] = s[i]
    BY <1>1
  <1> HIDE DEF c
  <1>3. c \in Strings /\ Len(c) = n
    BY <1>2 DEF Strings
  <1> QED
    BY <1>2, <1>3 DEF c

(* The text of a message is its header, its numbers and, where there is    *)
(* one, its signature, none of which has a separator in it.                *)
LEMMA TextFieldsAre ==
    ASSUME NEW m, WellFormed(m)
    PROVE  TextParts(TextFields(m), m, Numbers[m.header], FieldCount(m.header))
  <1> DEFINE a == <<Header[m.header]>>
             t == [i \in DOMAIN m.numbers |-> Text(m.numbers[i])]
             z == IF m.header \in Signed THEN <<Hex(m.binary[1])>> ELSE <<>>
             Field == {x \in Strings : \A i \in 1..Len(x) : x[i] \notin Separator}
             S == m.header \in Signed
  <1> SUFFICES ASSUME NEW q \in 1..4, NEW n \in 2..5,
                      q = Numbers[m.header], n = FieldCount(m.header)
               PROVE  TextParts(TextFields(m), m, q, n)
    BY Counts DEF WellFormed
  <1>1. m.header \in Names /\ n = q + (IF S THEN 2 ELSE 1)
    BY DEF WellFormed, FieldCount
  <1>2. TextFields(m) = a \o t \o z
    BY DEF TextFields
  <1>3. a \in Seq(Field) /\ Len(a) = 1 /\ a[1] = Header[m.header]
    <2>1. Header[m.header] \in Field
      BY <1>1, Headers DEF Strings
    <2> HIDE DEF Field
    <2> QED
      BY <2>1
  <1>4. t \in Seq(Field) /\ Len(t) = q /\ \A k \in 1..q : t[k] = Text(m.numbers[k])
    <2>1. m.numbers \in [1..q -> -MaxInt..MaxInt]
      BY DEF WellFormed
    <2>2. \A k \in 1..q : Text(m.numbers[k]) \in Field
      BY <2>1, TextIsRead DEF Separator
    <2>3. DOMAIN m.numbers = 1..q
      BY <2>1
    <2> HIDE DEF Field
    <2> QED
      BY <2>2, <2>3
  <1>5. z \in Seq(Field) /\ (S => Len(z) = 1 /\ z[1] = Hex(m.binary[1])) /\ (~S => Len(z) = 0)
    <2>1. CASE S
      <3>1. m.binary[1] \in Octets(SignatureSize)
        BY <1>1, <2>1, Counts DEF WellFormed
      <3>2. Hex(m.binary[1]) \in Field
        BY <3>1, HexIsRead
      <3> HIDE DEF Field
      <3> QED
        BY <2>1, <3>2
    <2>2. CASE ~S
      <3> HIDE DEF Field
      <3> QED
        BY <2>2
    <2> QED
      BY <2>1, <2>2
  <1> HIDE DEF a, t, z
  <1> DEFINE f == a \o t \o z
  <1>6. /\ f \in Seq(Field) /\ Len(f) = n /\ f[1] = a[1]
        /\ \A k \in 1..q : f[k + 1] = t[k]
        /\ S => f[q + 2] = z[1]
    <2> HIDE DEF Field, S
    <2> DEFINE g == a \o t
    <2>3. /\ g \in Seq(Field) /\ Len(g) = Len(a) + Len(t)
          /\ \A k \in 1..Len(a) : g[k] = a[k]
          /\ \A k \in 1..Len(t) : g[Len(a) + k] = t[k]
      <3>1. a \in Seq(Field) /\ t \in Seq(Field)
        BY <1>3, <1>4
      <3>2. g = a \o t
        OBVIOUS
      <3> HIDE DEF g
      <3> QED
        BY <3>1, <3>2, Joined
    <2>4. f = g \o z
      OBVIOUS
    <2> HIDE DEF g, f
    <2>5. Len(g) = 1 + q /\ g[1] = a[1] /\ \A k \in 1..q : g[1 + k] = t[k]
      BY <1>3, <1>4, <2>3
    <2>6. /\ f \in Seq(Field) /\ Len(f) = Len(g) + Len(z)
          /\ \A k \in 1..Len(g) : f[k] = g[k]
          /\ \A k \in 1..Len(z) : f[Len(g) + k] = z[k]
      BY <1>5, <2>3, <2>4, Joined
    <2>7. 1 \in 1..Len(g) /\ \A k \in 1..q : 1 + k \in 1..Len(g) /\ k + 1 = 1 + k
      BY <2>5
    <2>8. f[1] = a[1] /\ \A k \in 1..q : f[k + 1] = t[k]
      BY <2>5, <2>6, <2>7
    <2>1. CASE S
      <3>1. Len(z) = 1 /\ n = q + 2 /\ 1 \in 1..Len(z) /\ Len(g) = 1 + q /\ (1 + q) + 1 = q + 2
        <4>1. n = q + 2 /\ (1 + q) + 1 = q + 2
          BY <1>1, <2>1
        <4>3. Len(z) = 1
          BY <1>5, <2>1, Zenon
        <4>4. 1 \in 1..1
          OBVIOUS
        <4>2. Len(z) = 1 /\ 1 \in 1..Len(z)
          BY <4>3, <4>4, Zenon
        <4> QED
          BY <2>5, <4>1, <4>2, Zenon
      <3>2. f[(1 + q) + 1] = z[1] /\ Len(f) = (1 + q) + 1
        BY <2>6, <3>1, Zenon
      <3> QED
        BY <2>6, <2>8, <3>1, <3>2, Zenon
    <2>2. CASE ~S
      <3>1. Len(z) = 0 /\ n = 1 + q /\ (1 + q) + 0 = 1 + q
        BY <1>1, <1>5, <2>2
      <3> QED
        BY <2>2, <2>5, <2>6, <2>8, <3>1, Zenon
    <2> QED
      BY <2>1, <2>2
  <1> HIDE DEF f
  <1>7. \A k \in 1..n : f[k] \in Field
    <2> HIDE DEF Field
    <2> QED
      BY <1>6
  <1>8. Len(f) = n /\ DOMAIN f = 1..n
    <2> HIDE DEF Field
    <2> QED
      BY <1>6
  <1>9. TextParts(f, m, q, n)
    BY <1>3, <1>4, <1>5, <1>6, <1>7, <1>8 DEF TextParts
  <1> QED
    BY <1>2, <1>9 DEF f

(* b begins with the bytes of m: its fields end at p[1], ..., p[n], its    *)
(* binary fields o[1], ..., o[r] bytes behind p[n].                        *)
Holds(b, m, n, p, r, o) ==
    /\ Fields(b, TextFields(m), n, p)
    /\ \A k \in 1..n : b[p[k]] = IF m.header \in DOMAIN Binary \/ k # n THEN Comma ELSE Semicolon
    /\ m.header \in DOMAIN Binary =>
          /\ Places(o, r) /\ p[n] + o[r] <= Len(b)
          /\ \A k \in 1..r :
                /\ o[k] = o[k - 1] + Len(m.binary[k])
                /\ \A i \in 1..Len(m.binary[k]) : b[p[n] + o[k - 1] + i] = m.binary[k][i]

(* A message on the wire holds these fields, each with a separator behind  *)
(* it, and the binary ones behind the last.                                *)
LEMMA EncodedHolds ==
    ASSUME NEW m, WellFormed(m)
    PROVE  /\ Encoded(m) \in Strings
           /\ \E p, o : Holds(Encoded(m), m, FieldCount(m.header), p, Len(m.binary), o)
  <1> DEFINE f == TextFields(m)
             text == Listed(f)
  <1> SUFFICES ASSUME NEW n \in Nat \ {0}, n = FieldCount(m.header)
               PROVE  /\ Encoded(m) \in Strings
                      /\ \E p, o : Holds(Encoded(m), m, n, p, Len(m.binary), o)
    BY Counts DEF WellFormed
  <1>1. TextParts(f, m, Numbers[m.header], n)
    BY TextFieldsAre
  <1>2. /\ Len(f) = n /\ DOMAIN f = 1..n
        /\ \A k \in 1..n : f[k] \in Strings /\ \A i \in 1..Len(f[k]) : f[k][i] \notin Separator
    BY <1>1, Zenon DEF TextParts
  <1> HIDE DEF f
  <1>3. PICK p : /\ Fields(text, f, n, p) /\ p[n] = Len(text)
                 /\ \A k \in 1..n : text[p[k]] = Comma
    BY <1>2, ListedFields
  <1>4. text \in Strings /\ Len(text) \in Nat /\ Fenced(text, n, p)
    <2>1. text \in Strings
      BY <1>3 DEF Fields
    <2>2. Fenced(text, n, p)
      BY <1>3, SeparatorsOfFields
    <2> QED
      BY <2>1, <2>2 DEF Strings
  <1> HIDE DEF text
  <1>5. \A k \in 1..n : p[k] \in 1..p[n] /\ (k # n => p[k] # p[n])
    BY <1>4 DEF Fenced
  <1>6. Comma \in Separator /\ Semicolon \in Separator /\ Comma \in Int /\ Semicolon \in Int
    BY DEF Separator, Comma, Semicolon
  <1>7. CASE m.header \notin DOMAIN Binary
    <2> DEFINE c == [text EXCEPT ![Len(text)] = Semicolon]
    <2>1. Encoded(m) = c
      BY <1>7 DEF Encoded, text, f
    <2>2. /\ c \in Strings /\ Len(c) = Len(text)
          /\ \A i \in 1..Len(text) : i # Len(text) => c[i] = text[i]
      BY <1>4, <1>6, Replaced
    <2>3. n \in 1..n
      OBVIOUS
    <2>4. c[Len(text)] = Semicolon
      BY <1>3, <1>4, <1>5, <2>3 DEF Strings
    <2> HIDE DEF c
    <2>5. Fields(c, f, n, p)
      BY <1>3, <1>4, <1>6, <2>2, <2>4, FieldsFollowed
    <2>6. \A k \in 1..n : c[p[k]] = IF k # n THEN Comma ELSE Semicolon
      BY <1>3, <1>5, <2>2, <2>4
    <2>7. Holds(c, m, n, p, Len(m.binary), p)
      BY <1>7, <2>5, <2>6 DEF Holds, f
    <2> QED
      BY <2>1, <2>2, <2>7
  <1>8. CASE m.header \in DOMAIN Binary
    <2> DEFINE d == m.binary
               t == FlattenSeq(d)
    <2> SUFFICES ASSUME NEW r \in Nat \ {0}, r = Len(d)
                 PROVE  /\ Encoded(m) \in Strings
                        /\ \E q, o : Holds(Encoded(m), m, n, q, r, o)
      BY <1>8, BinarySizes DEF WellFormed
    <2>1. \A k \in 1..r : d[k] \in Strings
      BY <1>8 DEF WellFormed
    <2>2. PICK o : Layout(t, d, r, o)
      <3> HIDE DEF d
      <3> QED
        BY <2>1, FlattenLayout
    <2>3. Encoded(m) = text \o t
      BY <1>8 DEF Encoded, text, f
    <2> HIDE DEF t
    <2>4. t \in Strings /\ Len(t) \in Nat /\ Places(o, r) /\ o[r] = Len(t)
      BY <2>2 DEF Layout, Strings
    <2> DEFINE c == text \o t
    <2>5. /\ c \in Strings /\ Len(c) = Len(text) + Len(t)
          /\ \A i \in 1..Len(text) : c[i] = text[i]
          /\ \A i \in 1..Len(t) : c[Len(text) + i] = t[i]
      BY <1>4, <2>4 DEF Strings
    <2> HIDE DEF c
    <2>6. n \in 1..n /\ p[n] <= Len(c) /\ p[n] \in 1..Len(text) /\ c[p[n]] = Comma
      BY <1>3, <1>4, <1>5, <2>4, <2>5
    <2>7. Fields(c, f, n, p)
      BY <1>3, <1>6, <2>5, <2>6, FieldsFollowed
    <2>8. \A k \in 1..n : c[p[k]] = Comma
      BY <1>3, <1>5, <2>5
    <2>9. \A k \in 0..r : o[k] \in Nat /\ o[k] <= o[r]
      <3>1. r \in 0..r
        OBVIOUS
      <3> QED
        BY <2>4, <3>1, PlacesRise
    <2>10. ASSUME NEW k \in 1..r
           PROVE  /\ o[k] = o[k - 1] + Len(d[k])
                  /\ \A i \in 1..Len(d[k]) : c[p[n] + o[k - 1] + i] = d[k][i]
      <3>1. /\ o[k] = o[k - 1] + Len(d[k])
            /\ \A i \in 1..Len(d[k]) : t[o[k - 1] + i] = d[k][i]
        BY <2>2 DEF Layout
      <3>2. o[k - 1] \in Nat /\ o[k] \in Nat /\ o[k] <= Len(t) /\ Len(d[k]) \in Nat
        <4>1. k - 1 \in 0..r /\ k \in 0..r
          OBVIOUS
        <4>2. Len(d[k]) \in Nat
          BY <2>1 DEF Strings
        <4> QED
          BY <2>4, <2>9, <4>1, <4>2, Zenon
      <3>3. ASSUME NEW i \in 1..Len(d[k]) PROVE c[p[n] + o[k - 1] + i] = d[k][i]
        <4>1. o[k - 1] + i \in 1..Len(t) /\ Len(text) + (o[k - 1] + i) = Len(text) + o[k - 1] + i
          <5>1. o[k] = o[k - 1] + Len(d[k])
            BY <3>1
          <5>2. Len(t) \in Nat /\ Len(text) \in Nat
            BY <1>4, <2>4
          <5>3. i \in Nat \ {0} /\ o[k - 1] + i <= o[k]
            BY <3>2, <5>1
          <5>4. o[k - 1] + i \in 1..Len(t)
            BY <3>2, <5>2, <5>3
          <5>5. \A x, y, z \in Nat : z + (x + y) = z + x + y
            OBVIOUS
          <5>6. Len(text) + (o[k - 1] + i) = Len(text) + o[k - 1] + i
            BY <3>2, <5>2, <5>3, <5>5
          <5> QED
            BY <5>4, <5>6
        <4>2. c[Len(text) + (o[k - 1] + i)] = t[o[k - 1] + i]
          BY <2>5, <4>1
        <4> QED
          BY <1>3, <3>1, <4>1, <4>2
      <3> QED
        BY <3>1, <3>3
    <2>11. p[n] + o[r] <= Len(c)
      BY <1>3, <2>4, <2>5
    <2>12. Holds(c, m, n, p, r, o)
      BY <1>8, <2>4, <2>7, <2>8, <2>10, <2>11 DEF Holds, f
    <2> QED
      BY <2>3, <2>5, <2>12 DEF c
  <1> QED
    BY <1>7, <1>8

LEMMA Within ==
    \A a, x, y, z, l \in Nat :
       /\ \A i \in Nat \ {0} : x + i <= y /\ y <= z /\ a + z <= l => a + x + i \in 1..l
       /\ \A i \in Nat : y = x + i /\ y <= z /\ a + z <= l => a + x \in Nat /\ a + x + i <= l
  OBVIOUS

(* It does so at the beginning of a longer string, too.                    *)
LEMMA HoldsFollowed ==
    ASSUME NEW m, NEW b, NEW n \in Nat \ {0}, NEW p, NEW r \in Nat, NEW o, Holds(b, m, n, p, r, o),
           NEW c \in Strings, Len(b) <= Len(c), \A i \in 1..Len(b) : c[i] = b[i]
    PROVE  Holds(c, m, n, p, r, o)
  <1> DEFINE f == TextFields(m)
  <1>1. /\ Fields(b, f, n, p)
        /\ \A k \in 1..n : b[p[k]] = IF m.header \in DOMAIN Binary \/ k # n THEN Comma ELSE Semicolon
    BY DEF Holds
  <1> HIDE DEF f
  <1>2. Fenced(b, n, p)
    BY <1>1, SeparatorsOfFields
  <1>3. /\ b \in Strings /\ p[n] <= Len(b) /\ Len(b) \in Nat /\ Len(c) \in Nat
        /\ \A k \in 1..n : p[k] \in 1..p[n]
    <2>1. b \in Strings /\ p[n] <= Len(b)
      BY <1>1 DEF Fields
    <2>2. \A k \in 1..n : p[k] \in 1..p[n]
      BY <1>2 DEF Fenced
    <2> QED
      BY <2>1, <2>2 DEF Strings
  <1>4. n \in 1..n /\ p[n] \in 1..Len(b)
    BY <1>3
  <1>5. \A k \in 1..n : c[p[k]] = b[p[k]]
    BY <1>3, <1>4
  <1>6. Fields(c, f, n, p)
    <2>1. b[p[n]] \in Separator
      BY <1>1, <1>4 DEF Fields
    <2>2. c[p[n]] \in Separator
      BY <1>4, <1>5, <2>1
    <2>3. p[n] <= Len(c) /\ \A i \in 1..p[n] : c[i] = b[i]
      BY <1>3, <1>4
    <2> QED
      BY <1>1, <2>2, <2>3, FieldsFollowed
  <1>7. ASSUME m.header \in DOMAIN Binary
        PROVE  /\ Places(o, r) /\ p[n] + o[r] <= Len(c)
               /\ \A k \in 1..r :
                     /\ o[k] = o[k - 1] + Len(m.binary[k])
                     /\ \A i \in 1..Len(m.binary[k]) : c[p[n] + o[k - 1] + i] = m.binary[k][i]
    <2>1. /\ Places(o, r) /\ p[n] + o[r] <= Len(b)
          /\ \A k \in 1..r :
                /\ o[k] = o[k - 1] + Len(m.binary[k])
                /\ \A i \in 1..Len(m.binary[k]) : b[p[n] + o[k - 1] + i] = m.binary[k][i]
      BY <1>7 DEF Holds
    <2>2. \A k \in 0..r : o[k] \in Nat /\ o[k] <= o[r]
      <3>1. r \in 0..r
        OBVIOUS
      <3> QED
        BY <2>1, <3>1, PlacesRise
    <2>3. ASSUME NEW k \in 1..r, NEW i \in 1..Len(m.binary[k])
          PROVE  c[p[n] + o[k - 1] + i] = m.binary[k][i]
      <3>1. k - 1 \in 0..r /\ k \in 0..r /\ r \in 0..r
        OBVIOUS
      <3>2. o[k - 1] \in Nat /\ o[k] \in Nat /\ o[r] \in Nat /\ o[k] <= o[r] /\ p[n] \in Nat
        BY <1>3, <1>4, <2>2, <3>1
      <3>3. o[k] = o[k - 1] + Len(m.binary[k])
        BY <2>1
      <3>4. p[n] + o[k - 1] + i \in 1..Len(b)
        <4>1. i \in Nat \ {0} /\ o[k - 1] + i <= o[k]
          BY <3>2, <3>3
        <4>2. p[n] + o[r] <= Len(b) /\ Len(b) \in Nat
          BY <1>3, <2>1
        <4> QED
          BY <3>2, <4>1, <4>2, Within, Zenon
      <3> QED
        BY <2>1, <3>4
    <2>4. p[n] + o[r] <= Len(c)
      <3>1. r \in 0..r
        OBVIOUS
      <3>2. p[n] \in Nat /\ o[r] \in Nat
        BY <1>3, <1>4, <2>2, <3>1
      <3> QED
        BY <1>3, <2>1, <3>2
    <2> QED
      BY <2>1, <2>3, <2>4
  <1> QED
    BY <1>1, <1>5, <1>6, <1>7 DEF Holds, f

(* What a receive of the messages in s leaves in the buffer.               *)
Received(s) == Padded(FlattenSeq([i \in DOMAIN s |-> Encoded(s[i])]), BufferSize(s[1]))

SentSet == {<<m>> : m \in Datagram \cup Reply} \cup (Reply \X Reply)

(* What is sent at once is one or two messages.                            *)
LEMMA SentIs ==
    ASSUME NEW s \in SentSet
    PROVE  /\ \E n \in {1, 2} : Len(s) = n /\ DOMAIN s = 1..n
           /\ \A i \in DOMAIN s : s[i] \in Datagram \cup Reply
           /\ 1 \in DOMAIN s
  <1>1. CASE s \in {<<m>> : m \in Datagram \cup Reply}
    <2>1. PICK m \in Datagram \cup Reply : s = <<m>>
      BY <1>1
    <2> QED
      BY <2>1
  <1>2. CASE s \in Reply \X Reply
    <2>1. PICK m1 \in Reply, m2 \in Reply : s = <<m1, m2>>
      BY <1>2
    <2> QED
      BY <2>1
  <1> QED
    BY <1>1, <1>2 DEF SentSet

(* The receive buffer holds the first of them, though the second may be    *)
(* cut off.                                                                *)
LEMMA BufferHolds ==
    ASSUME NEW s \in SentSet
    PROVE  /\ WellFormed(s[1]) /\ Received(s) \in Strings
           /\ \E p, o : Holds(Received(s), s[1], FieldCount(s[1].header), p, Len(s[1].binary), o)
  <1> DEFINE m == s[1]
             e == Encoded(m)
             es == [i \in DOMAIN s |-> Encoded(s[i])]
             t == FlattenSeq(es)
             size == BufferSize(m)
             c == Padded(t, size)
  <1>1. PICK l \in {1, 2} : Len(s) = l /\ DOMAIN s = 1..l
    BY SentIs
  <1>2. m \in Datagram \cup Reply /\ 1 \in DOMAIN s
    BY SentIs
  <1>3. WellFormed(m) /\ Len(e) <= size /\ size \in Nat
    BY <1>2, SentWellFormed, BufferAssumption, SizesAssumption DEF BufferSize
  <1>4. e \in Strings /\ \E p, o : Holds(e, m, FieldCount(m.header), p, Len(m.binary), o)
    BY <1>3, EncodedHolds
  <1>5. \A i \in 1..l : es[i] \in Strings
    <2>1. \A i \in 1..l : s[i] \in Datagram \cup Reply
      BY <1>1, SentIs
    <2> QED
      BY <1>1, <2>1, SentWellFormed, EncodedHolds
  <1>6. l \in Nat \ {0} /\ Len(es) = l /\ es[1] = e /\ 1 \in 1..l
    BY <1>1
  <1> HIDE DEF es
  <1>7. PICK p : Layout(t, es, l, p)
    BY <1>5, <1>6, FlattenLayout
  <1>8. /\ t \in Strings /\ Len(t) \in Nat /\ Len(e) <= Len(t)
        /\ \A i \in 1..Len(e) : t[i] = e[i]
    <2>1. t \in Strings /\ Places(p, l) /\ p[l] = Len(t)
      BY <1>7 DEF Layout
    <2>2. p[1] = p[0] + Len(es[1]) /\ \A i \in 1..Len(es[1]) : t[p[0] + i] = es[1][i]
      <3>1. p[1] = p[1 - 1] + Len(es[1]) /\ \A i \in 1..Len(es[1]) : t[p[1 - 1] + i] = es[1][i]
        BY <1>6, <1>7, Zenon DEF Layout
      <3> QED
        BY <3>1
    <2>3. p[0] = 0 /\ p[1] <= p[l]
      <3>1. 1 \in 0..l /\ l \in 0..l /\ 1 <= l /\ l \in Nat
        BY <1>6
      <3> QED
        BY <2>1, <3>1, PlacesRise DEF Places
    <2>4. Len(e) \in Nat /\ Len(t) \in Nat
      BY <1>4, <2>1 DEF Strings
    <2> HIDE DEF e, t
    <2>5. p[1] = Len(e) /\ \A i \in 1..Len(e) : t[i] = e[i]
      BY <1>6, <2>2, <2>3, <2>4
    <2> QED
      BY <2>1, <2>3, <2>4, <2>5
  <1> HIDE DEF t, e, size
  <1>9. /\ c \in Strings /\ Len(c) = size
        /\ \A i \in 1..Len(e) : c[i] = e[i]
    <2> SUFFICES ASSUME NEW z \in Nat, z = size
                 PROVE  /\ c \in Strings /\ Len(c) = z
                        /\ \A i \in 1..Len(e) : c[i] = e[i]
      BY <1>3
    <2>1. \A i \in 1..Len(t) : t[i] \in Int
      BY <1>8 DEF Strings
    <2>2. c = [i \in 1..z |-> IF i <= Len(t) THEN t[i] ELSE NUL]
      BY DEF Padded
    <2>3. c \in [1..z -> Int]
      BY <1>8, <2>1, <2>2 DEF NUL
    <2>4. \A i \in 1..Len(e) : c[i] = e[i]
      <3>1. Len(e) \in Nat
        BY <1>4 DEF Strings
      <3> QED
        BY <1>3, <1>8, <2>2, <3>1
    <2> HIDE DEF c
    <2> QED
      BY <2>3, <2>4 DEF Strings
  <1> HIDE DEF c, m
  <1>10. PICK q, o : Holds(e, m, FieldCount(m.header), q, Len(m.binary), o)
    BY <1>4
  <1>11. FieldCount(m.header) \in Nat \ {0} /\ Len(m.binary) \in Nat
    <2>1. m.header \in Names
      BY <1>3 DEF WellFormed
    <2>2. Len(m.binary) \in Nat
      <3>1. CASE m.header \in DOMAIN Binary
        BY <1>3, <3>1, BinarySizes DEF WellFormed
      <3>2. CASE m.header \notin DOMAIN Binary
        <4>1. m.binary = <<m.binary[1]>> \/ m.binary = <<>>
          BY <1>3, <3>2 DEF WellFormed
        <4>2. CASE m.binary = <<m.binary[1]>>
          <5> SUFFICES ASSUME NEW x, m.binary = <<x>> PROVE Len(m.binary) \in Nat
            BY <4>2
          <5> QED
            OBVIOUS
        <4>3. CASE m.binary = <<>>
          BY <4>3
        <4> QED
          BY <4>1, <4>2, <4>3
      <3> QED
        BY <3>1, <3>2
    <2> QED
      BY <2>1, <2>2, Counts
  <1>12. Holds(c, m, FieldCount(m.header), q, Len(m.binary), o)
    BY <1>3, <1>9, <1>10, <1>11, HoldsFollowed
  <1>13. Received(s) = c
    BY DEF Received, c, t, es, size, m
  <1> QED
    BY <1>3, <1>9, <1>12, <1>13 DEF m


-----------------------------------------------------------------------------
(***************************************************************************)
(* What payload_decoder makes of a message                                 *)
(***************************************************************************)
LEMMA HeaderIsFound ==
    ASSUME NEW b, NEW m, NEW n \in 2..5, NEW p, NEW r, NEW o,
           WellFormed(m), n = FieldCount(m.header), Holds(b, m, n, p, r, o)
    PROVE  HeaderOf(b) = m.header
  <1> DEFINE f == TextFields(m)
             t == Header[m.header]
  <1>1. Fields(b, f, n, p)
    BY DEF Holds
  <1>2. f[1] = t
    BY TextFieldsAre DEF TextParts
  <1>3. m.header \in Names /\ t \in Strings /\ Len(t) = 3
    BY Headers DEF WellFormed
  <1> HIDE DEF f, t
  <1>4. /\ b \in Strings /\ p[0] = 0 /\ p[n] <= Len(b)
        /\ p[1] = p[1 - 1] + Len(t) + 1
        /\ \A i \in 1..Len(t) : b[p[1 - 1] + i] = t[i]
    <2>1. 1 \in 1..n
      OBVIOUS
    <2>2. b \in Strings /\ Places(p, n) /\ p[n] <= Len(b)
      BY <1>1 DEF Fields
    <2>3. /\ p[1] = p[1 - 1] + Len(f[1]) + 1
          /\ \A i \in 1..Len(f[1]) : b[p[1 - 1] + i] = f[1][i]
      <3>1. ASSUME NEW k \in 1..n
            PROVE  /\ p[k] = p[k - 1] + Len(f[k]) + 1
                   /\ \A i \in 1..Len(f[k]) : b[p[k - 1] + i] = f[k][i]
        BY <1>1 DEF Fields
      <3> QED
        BY <2>1, <3>1
    <2>4. p[0] = 0
      BY <2>2 DEF Places
    <2> QED
      BY <1>2, <2>2, <2>3, <2>4
  <1>5. p[n] \in Nat /\ p[1] <= p[n]
    <2>1. Places(p, n)
      BY <1>1 DEF Fields
    <2>2. 1 \in 0..n /\ n \in 0..n /\ n \in Nat /\ 1 <= n
      OBVIOUS
    <2> QED
      BY <2>1, <2>2, PlacesRise
  <1>6. p[1] = 4 /\ \A i \in 1..3 : b[0 + i] = t[i]
    BY <1>3, <1>4
  <1>7. Len(b) \in Nat /\ 0 + Len(t) <= Len(b)
    BY <1>3, <1>4, <1>5, <1>6 DEF Strings
  <1>8. SubSeq(b, 0 + 1, 0 + Len(t)) = t
    <2>1. 0 \in Nat /\ \A i \in 1..Len(t) : b[0 + i] = t[i]
      BY <1>3, <1>6
    <2> QED
      BY <1>3, <1>4, <1>7, <2>1, SubstringIs
  <1>9. SubSeq(b, 1, 3) = t
    BY <1>3, <1>8
  <1>10. \A h \in Names : SubSeq(b, 1, 3) = Header[h] <=> h = m.header
    BY <1>3, <1>9, Headers DEF t
  <1> QED
    BY <1>3, <1>10, Domains, Zenon DEF HeaderOf

(* The loop stops with the last separator of the message, and with none    *)
(* before.                                                                 *)
LEMMA StopsAtTheLast ==
    ASSUME NEW b, NEW m, NEW n \in 2..5, NEW p, NEW r, NEW o,
           WellFormed(m), n = FieldCount(m.header), Holds(b, m, n, p, r, o)
    PROVE  EndsAt(b, n, p)
  <1> DEFINE h == m.header
             B == DOMAIN Binary
  <1>1. HeaderOf(b) = h /\ h \in Names /\ B = {"bca", "bpa", "bcb"} /\ DOMAIN BinaryAt = B
    BY HeaderIsFound, Domains DEF WellFormed
  <1>2. ASSUME NEW k \in 1..n
        PROVE  commaCounter(b, p[k]) = k /\ b[p[k]] = IF h \in B \/ k # n THEN Comma ELSE Semicolon
    <2>1. n \in Nat \ {0} /\ Fields(b, TextFields(m), n, p)
      BY DEF Holds
    <2>2. commaCounter(b, p[k]) = k
      BY <2>1, FieldsCounted
    <2> QED
      BY <2>2 DEF Holds
  <1>3. h \in B => BinaryAt[h] = n
    BY <1>1, Counts
  <1>4. Comma # Semicolon
    BY DEF Comma, Semicolon
  <1> HIDE DEF h, B
  <1>5. ASSUME NEW k \in 1..n PROVE Stops(b, p[k]) <=> k = n
    <2>1. CASE h \in B
      <3>1. b[p[k]] # Semicolon
        BY <1>2, <1>4, <2>1
      <3> QED
        BY <1>1, <1>2, <1>3, <2>1, <3>1, Zenon DEF Stops
    <2>2. CASE h \notin B
      <3>1. h \notin {"bca", "bcb"}
        BY <1>1, <2>2
      <3>2. b[p[k]] = Semicolon <=> k = n
        BY <1>2, <1>4, <2>2
      <3> QED
        BY <1>1, <2>2, <3>1, <3>2, Zenon DEF Stops
    <2> QED
      BY <2>1, <2>2
  <1> QED
    BY <1>5 DEF EndsAt

(* s has the pieces d[1], ..., d[r] behind x, which end at o[1], ..., o[r].*)
Behind(b, x, r, o, d, sizes) ==
    /\ Places(o, r) /\ x + o[r] <= Len(b)
    /\ \A k \in 1..r : /\ o[k] = o[k - 1] + Len(d[k]) /\ sizes[k] = Len(d[k])
                       /\ \A i \in 1..Len(d[k]) : b[x + o[k - 1] + i] = d[k][i]

(* The binary fields are cut where they were put together.                 *)
LEMMA PiecesAre ==
    ASSUME NEW b \in Strings, NEW x \in Nat, NEW r \in Nat \ {0}, NEW o,
           NEW d \in Seq(Strings), NEW sizes, DOMAIN d = 1..r, DOMAIN sizes = 1..r,
           Behind(b, x, r, o, d, sizes)
    PROVE  Pieces(b, x + 1, sizes) = d
  <1> DEFINE e(g) == [k \in DOMAIN sizes |-> IF k = 1 THEN x + 1 ELSE g[k - 1] + sizes[k - 1]]
             first == CHOOSE g : g = e(g)
             w == [k \in 1..r |-> x + o[k - 1] + 1]
  <1>0. /\ Places(o, r) /\ x + o[r] <= Len(b)
        /\ \A k \in 1..r : /\ o[k] = o[k - 1] + Len(d[k]) /\ sizes[k] = Len(d[k])
                           /\ \A i \in 1..Len(d[k]) : b[x + o[k - 1] + i] = d[k][i]
    BY DEF Behind
  <1>1. \A k \in 0..r : o[k] \in Nat /\ o[k] <= o[r]
    <2>1. r \in 0..r
      OBVIOUS
    <2> QED
      BY <1>0, <2>1, PlacesRise
  <1>2. \A k \in 1..r : d[k] \in Strings /\ Len(d[k]) \in Nat
    BY DEF Strings
  <1>3. w = e(w)
    <2>1. ASSUME NEW k \in 1..r
          PROVE  w[k] = IF k = 1 THEN x + 1 ELSE w[k - 1] + sizes[k - 1]
      <3>1. CASE k = 1
        BY <1>0, <3>1 DEF Places
      <3>2. CASE k # 1
        <4>1. k - 1 \in 1..r /\ (k - 1) - 1 \in 0..r
          BY <3>2
        <4>2. w[k - 1] = x + o[(k - 1) - 1] + 1 /\ w[k] = x + o[k - 1] + 1
          BY <4>1
        <4>3. o[k - 1] = o[(k - 1) - 1] + sizes[k - 1] /\ o[(k - 1) - 1] \in Nat /\ sizes[k - 1] \in Nat
          BY <1>0, <1>1, <1>2, <4>1
        <4> QED
          BY <3>2, <4>2, <4>3
      <3> QED
        BY <3>1, <3>2
    <2>2. DOMAIN w = 1..r
      OBVIOUS
    <2>3. w = [k \in 1..r |-> w[k]]
      OBVIOUS
    <2> HIDE DEF w
    <2> QED
      BY <2>1, <2>3
  <1>4. first = e(first)
    <2> HIDE DEF e
    <2> QED
      BY <1>3
  <1>5. Pieces(b, x + 1, sizes) = [k \in 1..r |-> SubSeq(b, first[k], first[k] + sizes[k] - 1)]
    BY DEF Pieces
  <1> HIDE DEF first
  <1>6. Alike(first, w, 1, r)
    <2>1. /\ e(first)[1] = x + 1
          /\ \A i \in 1..r : i # 1 => e(first)[i] = first[i - 1] + sizes[i - 1]
      OBVIOUS
    <2>2. /\ e(w)[1] = x + 1
          /\ \A i \in 1..r : i # 1 => e(w)[i] = w[i - 1] + sizes[i - 1]
      OBVIOUS
    <2> HIDE DEF e, w
    <2>3. /\ first[1] = w[1]
          /\ \A i \in 1..r : i # 1 => /\ first[i] = first[i - 1] + sizes[i - 1]
                                      /\ w[i] = w[i - 1] + sizes[i - 1]
      BY <1>3, <1>4, <2>1, <2>2, Zenon
    <2> QED
      BY <2>3 DEF Alike
  <1>7. \A i \in 1..r : first[i] = w[i]
    <2>1. 1 \in Nat /\ r \in Nat
      OBVIOUS
    <2>2. ASSUME NEW g, NEW v, Alike(g, v, 1, r) PROVE \A i \in 1..r : g[i] = v[i]
      BY <2>1, <2>2, RecursionUnique
    <2> HIDE DEF e, w
    <2> QED
      BY <1>6, <2>2, Zenon
  <1> HIDE DEF e
  <1>8. ASSUME NEW k \in 1..r PROVE SubSeq(b, first[k], first[k] + sizes[k] - 1) = d[k]
    <2> DEFINE y == x + o[k - 1]
    <2>1. k - 1 \in 0..r /\ k \in 0..r /\ r \in 0..r
      OBVIOUS
    <2>2. /\ o[k - 1] \in Nat /\ o[k] \in Nat /\ o[r] \in Nat /\ o[k] <= o[r]
          /\ o[k] = o[k - 1] + Len(d[k]) /\ sizes[k] = Len(d[k])
          /\ d[k] \in Strings /\ Len(d[k]) \in Nat /\ Len(b) \in Nat
      BY <1>0, <1>1, <1>2, <2>1 DEF Strings
    <2>3. y \in Nat /\ y + Len(d[k]) <= Len(b)
      BY <1>0, <2>2, Within, Zenon
    <2>4. \A i \in 1..Len(d[k]) : b[y + i] = d[k][i]
      BY <1>0
    <2>5. first[k] = y + 1
      BY <1>7
    <2> HIDE DEF y
    <2>6. first[k] + sizes[k] - 1 = y + Len(d[k])
      BY <2>2, <2>3, <2>5
    <2>7. SubSeq(b, y + 1, y + Len(d[k])) = d[k]
      BY <2>2, <2>3, <2>4, SubstringIs
    <2> QED
      BY <2>5, <2>6, <2>7
  <1>9. d = [k \in 1..r |-> d[k]]
    OBVIOUS
  <1> QED
    BY <1>5, <1>8, <1>9

(* What payload_decoder keeps of a message: its numbers are stored in      *)
(* shorts, but for the load calculation (models.h:25-32).                  *)
Kept(m) ==
    Message(m.header,
            [k \in 1..Numbers[m.header] |->
                IF m.header = "plc" THEN m.numbers[k] ELSE Short(m.numbers[k])],
            m.binary)

(* What the buffer holds is what payload_decoder returns                   *)
(* (communication.c:39-148).                                               *)
LEMMA MessageIsRead ==
    ASSUME NEW b \in Strings, NEW m, NEW n \in 2..5, NEW p, NEW r, NEW o,
           WellFormed(m), n = FieldCount(m.header), r = Len(m.binary), Holds(b, m, n, p, r, o)
    PROVE  Cardinality(Reached(b)) = n /\ payload_decoder(b) = Kept(m)
  <1> DEFINE f == TextFields(m)
             h == m.header
             tmp == tmp_parameters(b)
             field(k) == IF k \in DOMAIN tmp THEN tmp[k] ELSE <<>>
             number(k) == IF h = "plc" THEN atof(field(k + 1)) ELSE Short(atoi(field(k + 1)))
             numbers == [k \in 1..Numbers[h] |-> number(k)]
             binary == IF h \in DOMAIN Binary
                       THEN Pieces(b, Cut(b, Cardinality(Reached(b))) + 1, Binary[h])
                       ELSE IF h \in Signed THEN <<Unhex(field(Numbers[h] + 2))>>
                       ELSE <<>>
  <1>1. HeaderOf(b) = h /\ h \in Names
    BY HeaderIsFound DEF WellFormed
  <1>2. EndsAt(b, n, p)
    BY StopsAtTheLast
  <1>3. Fields(b, f, n, p)
    BY DEF Holds
  <1>4. /\ Cardinality(Reached(b)) = n /\ Cut(b, n) = p[n] /\ DOMAIN tmp = 1..n
        /\ \A k \in 1..n : tmp[k] = f[k]
    <2>1. n \in Nat \ {0}
      OBVIOUS
    <2> HIDE DEF f
    <2> QED
      BY <1>2, <1>3, <2>1, FieldsFound DEF tmp
  <1>5. TextParts(f, m, Numbers[h], n)
    BY TextFieldsAre
  <1>6. payload_decoder(b) = Message(h, numbers, binary)
    BY <1>1, Zenon DEF payload_decoder
  <1>7. Numbers[h] \in 1..4 /\ n = Numbers[h] + (IF h \in Signed THEN 2 ELSE 1)
    BY <1>1, Counts DEF FieldCount
  <1> HIDE DEF f, tmp
  <1>8. \A k \in 1..n : field(k) = f[k]
    BY <1>4
  <1>9. numbers = [k \in 1..Numbers[h] |->
                      IF h = "plc" THEN m.numbers[k] ELSE Short(m.numbers[k])]
    <2>1. m.numbers \in [1..Numbers[h] -> -MaxInt..MaxInt]
      BY DEF WellFormed
    <2>2. ASSUME NEW k \in 1..Numbers[h] PROVE atoi(field(k + 1)) = m.numbers[k]
      <3>1. k + 1 \in 1..n
        BY <1>7
      <3>2. field(k + 1) = f[k + 1]
        BY <1>8, <3>1
      <3>3. f[k + 1] = Text(m.numbers[k])
        BY <1>5 DEF TextParts
      <3>4. m.numbers[k] \in -MaxInt..MaxInt
        BY <2>1
      <3> QED
        BY <3>2, <3>3, <3>4, TextIsRead
    <2> HIDE DEF field
    <2>3. \A k \in 1..Numbers[h] :
             number(k) = IF h = "plc" THEN m.numbers[k] ELSE Short(m.numbers[k])
      BY <2>2, Zenon DEF atof
    <2> HIDE DEF number
    <2> QED
      BY <2>3, Zenon
  <1>10. binary = m.binary
    <2>1. CASE h \in DOMAIN Binary
      <3> DEFINE d == m.binary
                 sizes == Binary[h]
      <3>1. /\ d \in Seq(Strings) /\ Len(d) = Len(sizes)
            /\ \A k \in 1..Len(d) : d[k] \in Octets(sizes[k])
        BY <2>1 DEF WellFormed
      <3>2. /\ Len(sizes) \in Nat \ {0} /\ DOMAIN sizes = 1..Len(sizes)
            /\ \A k \in 1..Len(sizes) : sizes[k] \in Nat
        BY <2>1, BinarySizes
      <3>3. DOMAIN d = 1..r /\ r \in Nat \ {0} /\ DOMAIN sizes = 1..r
        BY <3>1, <3>2
      <3>4. \A k \in 1..r : sizes[k] = Len(d[k])
        BY <3>1, <3>2, OctetsAreStrings
      <3>5. /\ Places(o, r) /\ p[n] + o[r] <= Len(b)
            /\ \A k \in 1..r :
                  /\ o[k] = o[k - 1] + Len(d[k])
                  /\ \A i \in 1..Len(d[k]) : b[p[n] + o[k - 1] + i] = d[k][i]
        BY <2>1 DEF Holds
      <3>6. p[n] \in Nat
        <4>1. n \in 0..n /\ n \in Nat
          OBVIOUS
        <4>2. Places(p, n)
          BY <1>3 DEF Fields
        <4> QED
          BY <4>1, <4>2, PlacesRise
      <3>7. binary = Pieces(b, p[n] + 1, sizes)
        BY <1>4, <2>1
      <3> HIDE DEF d, sizes, binary
      <3>9. Behind(b, p[n], r, o, d, sizes)
        BY <3>4, <3>5 DEF Behind
      <3>8. Pieces(b, p[n] + 1, sizes) = d
        BY <3>1, <3>3, <3>6, <3>9, PiecesAre
      <3> QED
        BY <3>7, <3>8 DEF d
    <2>2. CASE h \notin DOMAIN Binary /\ h \in Signed
      <3>1. m.binary = <<m.binary[1]>> /\ m.binary[1] \in Octets(SignatureSize)
        BY <2>2 DEF WellFormed
      <3>2. field(Numbers[h] + 2) = Hex(m.binary[1])
        <4>1. Numbers[h] + 2 \in 1..n
          BY <1>7, <2>2
        <4> HIDE DEF field
        <4> QED
          BY <1>5, <1>8, <2>2, <4>1 DEF TextParts
      <3>3. Unhex(field(Numbers[h] + 2)) = m.binary[1]
        BY <3>1, <3>2, HexIsRead
      <3> HIDE DEF field
      <3> QED
        BY <2>2, <3>1, <3>3
    <2>3. CASE h \notin DOMAIN Binary /\ h \notin Signed
      BY <2>3 DEF WellFormed
    <2> QED
      BY <2>1, <2>2, <2>3
  <1> HIDE DEF numbers, binary
  <1> QED
    BY <1>4, <1>6, <1>9, <1>10 DEF Kept


-----------------------------------------------------------------------------
(***************************************************************************)
(* The bytes a block is hashed over                                        *)
(***************************************************************************)
(* Two strings agree up to the end of the shorter one, if they are not     *)
(* equally long, and but for the last byte, if they are.                   *)
Agree(a, b, x, y) == \A i \in 1..x : i <= y /\ (i < x \/ i < y) => a[i] = b[i]

LEMMA AgreeBothWays ==
    ASSUME NEW a, NEW b, NEW x \in Nat, NEW y \in Nat, Agree(a, b, x, y)
    PROVE  Agree(b, a, y, x)
  BY DEF Agree

(* Of two texts that agree the fields end at the same places ...           *)
LEMMA FieldNotShorter ==
    ASSUME NEW a, NEW b, NEW n \in Nat \ {0}, NEW p, NEW q, NEW k \in 1..n,
           Fenced(a, n, p), Fenced(b, n, q), Agree(a, b, p[n], q[n]), p[k - 1] = q[k - 1]
    PROVE  ~(p[k] < q[k])
  <1> SUFFICES ASSUME p[k] < q[k] PROVE FALSE
    OBVIOUS
  <1>1. /\ p[n] \in Nat /\ q[n] \in Nat /\ p[k] \in 1..p[n] /\ q[k] \in 1..q[n]
        /\ p[k - 1] < p[k] /\ p[k - 1] \in Nat
    <2>1. k - 1 \in 0..n /\ n \in 0..n
      OBVIOUS
    <2> QED
      BY <2>1 DEF Fenced
  <1>2. p[k] \in 1..q[n] /\ p[k] < q[n]
    BY <1>1
  <1>3. a[p[k]] = b[p[k]]
    BY <1>1, <1>2 DEF Agree
  <1>4. a[p[k]] \in Separator
    BY <1>1 DEF Fenced
  <1>5. PICK l \in 1..n : p[k] = q[l]
    BY <1>2, <1>3, <1>4 DEF Fenced
  <1>6. q[k - 1] < q[l] /\ q[l] < q[k]
    BY <1>1, <1>5
  <1>7. k - 1 < l /\ l < k
    <2>1. k - 1 \in 0..n /\ k \in 0..n /\ l \in 0..n
      OBVIOUS
    <2> QED
      BY <1>6, <2>1 DEF Fenced
  <1> QED
    BY <1>7

(* ... and so are the same.                                                *)
LEMMA SameFields ==
    ASSUME NEW a, NEW b, NEW n \in Nat \ {0}, NEW p, NEW q, NEW f, NEW g,
           Fields(a, f, n, p), Fields(b, g, n, q), Agree(a, b, p[n], q[n])
    PROVE  \A k \in 1..n : f[k] = g[k]
  <1>1. Fenced(a, n, p) /\ Fenced(b, n, q)
    BY SeparatorsOfFields
  <1>2. /\ \A k \in 0..n : p[k] \in Nat /\ q[k] \in Nat
        /\ \A k \in 1..n : p[k] \in 1..p[n] /\ q[k] \in 1..q[n]
    BY <1>1 DEF Fenced
  <1>3. n \in 0..n /\ n \in Nat /\ p[n] \in Nat /\ q[n] \in Nat
    <2>1. n \in 0..n /\ n \in Nat
      OBVIOUS
    <2> QED
      BY <1>2, <2>1
  <1>4. Agree(b, a, q[n], p[n])
    BY <1>3, AgreeBothWays
  <1> DEFINE S == {k \in 0..n : p[k] = q[k]}
  <1>5. ASSUME NEW k \in 0..n, \A j \in 0..k - 1 : j \in S PROVE k \in S
    <2>1. CASE k = 0
      <3>1. p[0] = 0 /\ q[0] = 0
        BY DEF Fields, Places
      <3> QED
        BY <2>1, <3>1
    <2>2. CASE k # 0
      <3>1. k \in 1..n /\ k - 1 \in 0..k - 1
        BY <2>2
      <3>2. p[k - 1] = q[k - 1] /\ q[k - 1] = p[k - 1]
        BY <1>5, <3>1
      <3>3. ~(p[k] < q[k])
        BY <1>1, <3>1, <3>2, FieldNotShorter
      <3>4. ~(q[k] < p[k])
        BY <1>1, <1>4, <3>1, <3>2, FieldNotShorter
      <3> QED
        BY <1>2, <3>3, <3>4
    <2> QED
      BY <2>1, <2>2
  <1>6. \A k \in 0..n : (\A j \in 0..k - 1 : j \in S) => k \in S
    BY <1>5
  <1> HIDE DEF S
  <1>7. \A k \in 0..n : k \in S
    BY <1>3, <1>6, InductionFromZero, Zenon
  <1>8. \A k \in 0..n : p[k] = q[k]
    BY <1>7 DEF S
  <1>9. ASSUME NEW k \in 1..n PROVE f[k] = g[k]
    <2>1. /\ f[k] \in Strings /\ p[k] = p[k - 1] + Len(f[k]) + 1
          /\ \A i \in 1..Len(f[k]) : a[p[k - 1] + i] = f[k][i]
      BY DEF Fields
    <2>2. /\ g[k] \in Strings /\ q[k] = q[k - 1] + Len(g[k]) + 1
          /\ \A i \in 1..Len(g[k]) : b[q[k - 1] + i] = g[k][i]
      BY DEF Fields
    <2>3. k - 1 \in 0..n /\ k \in 0..n
      OBVIOUS
    <2>4. /\ p[k - 1] = q[k - 1] /\ p[k] = q[k] /\ p[n] = q[n]
          /\ p[k - 1] \in Nat /\ p[k] \in 1..p[n] /\ Len(f[k]) \in Nat /\ Len(g[k]) \in Nat
      BY <1>2, <1>3, <1>8, <2>1, <2>2, <2>3 DEF Strings
    <2>5. Len(f[k]) = Len(g[k])
      BY <2>1, <2>2, <2>4
    <2>6. ASSUME NEW i \in 1..Len(f[k]) PROVE f[k][i] = g[k][i]
      <3>1. p[k - 1] + i \in 1..p[n] /\ p[k - 1] + i < p[n] /\ p[k - 1] + i <= q[n]
        BY <1>3, <2>1, <2>4
      <3>2. a[p[k - 1] + i] = b[p[k - 1] + i]
        BY <3>1 DEF Agree
      <3> QED
        BY <2>1, <2>2, <2>4, <2>5, <3>2
    <2> QED
      BY <2>1, <2>2, <2>5, <2>6, SameBytes
  <1> QED
    BY <1>9

TextsOf(t) == [i \in DOMAIN t |-> Text(t[i])]

LEMMA FourPlaces ==
    \A n1, n2, n3, n4 \in Nat : n1 + n2 + n3 + n4 <= 6 =>
       \A x0, x1, x2, x3, x4 :
          /\ x0 = 0 /\ x1 = x0 + n1 + 1 /\ x2 = x1 + n2 + 1
          /\ x3 = x2 + n3 + 1 /\ x4 = x3 + n4 + 1
          => x4 \in 1..10
  OBVIOUS

(* The numbers in the bytes of HashedText.                                 *)
LEMMA HashedFields ==
    ASSUME NEW t \in Terms
    PROVE  \E p : /\ Fields(Listed(TextsOf(t)), TextsOf(t), 4, p) /\ p[4] \in 1..10
                  /\ \A i \in 1..9 : i <= p[4] => HashedText(t)[i + 1] = Listed(TextsOf(t))[i]
  <1> DEFINE f == TextsOf(t)
             L == Listed(f)
             text == <<Comma>> \o L
  <1>1. PICK i \in Ids, c \in Prices, d \in Durations, j \in Ids : t = <<i, c, d, j>>
    BY DEF Terms
  <1>2. DOMAIN t = 1..4 /\ \A k \in 1..4 : t[k] \in -MaxInt..MaxInt
    <2> DEFINE I == -MaxInt..MaxInt
    <2>1. i \in I /\ c \in I /\ d \in I /\ j \in I
      BY NumbersTyped
    <2> HIDE DEF I
    <2>2. DOMAIN t = 1..4 /\ \A k \in 1..4 : t[k] \in I
      BY <1>1, <2>1
    <2> QED
      BY <2>2 DEF I
  <1>3. /\ Len(f) = 4 /\ DOMAIN f = 1..4
        /\ \A k \in 1..4 : /\ f[k] = Text(t[k]) /\ f[k] \in Strings
                           /\ \A l \in 1..Len(f[k]) : f[k][l] \notin Separator
    BY <1>2, TextIsRead DEF TextsOf, Separator
  <1> HIDE DEF f
  <1>4. PICK p : Fields(L, f, 4, p) /\ p[4] = Len(L)
    <2>1. 4 \in Nat \ {0}
      OBVIOUS
    <2> QED
      BY <1>3, <2>1, ListedFields
  <1> HIDE DEF L
  <1>5. /\ p[0] = 0 /\ L \in Strings
        /\ \A k \in 1..4 : p[k] = p[k - 1] + Len(f[k]) + 1
    BY <1>4 DEF Fields, Places
  <1>6. p[4] \in 1..10
    <2>1. /\ Len(f[1]) \in Nat /\ Len(f[2]) \in Nat /\ Len(f[3]) \in Nat /\ Len(f[4]) \in Nat
          /\ Len(f[1]) + Len(f[2]) + Len(f[3]) + Len(f[4]) <= 6
      BY <1>3, TermsAssumption DEF Strings
    <2>2. p[1] = p[0] + Len(f[1]) + 1 /\ p[2] = p[1] + Len(f[2]) + 1
      BY <1>5
    <2>3. p[3] = p[2] + Len(f[3]) + 1 /\ p[4] = p[3] + Len(f[4]) + 1
      BY <1>5
    <2>4. p[0] = 0
      BY <1>5
    <2> QED
      BY <2>1, <2>2, <2>3, <2>4, FourPlaces
  <1>7. /\ text \in Strings /\ Len(text) = 1 + Len(L)
        /\ \A k \in 1..Len(L) : text[k + 1] = L[k]
    BY <1>5 DEF Strings, Comma
  <1> HIDE DEF text
  <1> DEFINE w == Padded(text, 16)
  <1>8. w \in [1..16 -> Int] /\ \A k \in 1..16 : k <= Len(text) => w[k] = text[k]
    <2>1. \A k \in 1..Len(text) : text[k] \in Int
      BY <1>7 DEF Strings
    <2>2. Len(text) \in Nat
      BY <1>7 DEF Strings
    <2> QED
      BY <2>1, <2>2 DEF Padded, NUL
  <1> HIDE DEF w
  <1>9. \A k \in 1..10 : SubSeq(w, 1, 10)[k] = w[k]
    BY <1>8
  <1>10. HashedText(t) = SubSeq(w, 1, 10)
    BY DEF HashedText, HashedSize, w, text, L, f, TextsOf
  <1>11. ASSUME NEW k \in 1..9, k <= p[4] PROVE HashedText(t)[k + 1] = L[k]
    <2>1. k \in 1..Len(L) /\ k + 1 \in 1..10 /\ k + 1 \in 1..16 /\ k + 1 <= Len(text)
      BY <1>4, <1>6, <1>7, <1>11
    <2> QED
      BY <1>7, <1>8, <1>9, <1>10, <2>1
  <1> QED
    BY <1>4, <1>6, <1>11 DEF L, f

(* Two terms that are hashed over the same bytes are the same              *)
(* (chain.c:195-210).                                                      *)
LEMMA HashedTextTells ==
    ASSUME NEW t \in Terms, NEW u \in Terms, HashedText(t) = HashedText(u)
    PROVE  t = u
  <1>1. PICK p : /\ Fields(Listed(TextsOf(t)), TextsOf(t), 4, p) /\ p[4] \in 1..10
                 /\ \A i \in 1..9 : i <= p[4] => HashedText(t)[i + 1] = Listed(TextsOf(t))[i]
    BY HashedFields
  <1>2. PICK q : /\ Fields(Listed(TextsOf(u)), TextsOf(u), 4, q) /\ q[4] \in 1..10
                 /\ \A i \in 1..9 : i <= q[4] => HashedText(u)[i + 1] = Listed(TextsOf(u))[i]
    BY HashedFields
  <1>3. Agree(Listed(TextsOf(t)), Listed(TextsOf(u)), p[4], q[4])
    <2>1. ASSUME NEW i \in 1..p[4], i <= q[4], i < p[4] \/ i < q[4]
          PROVE  Listed(TextsOf(t))[i] = Listed(TextsOf(u))[i]
      <3>1. i \in 1..9 /\ i <= p[4]
        BY <1>1, <1>2, <2>1
      <3> QED
        BY <1>1, <1>2, <2>1, <3>1
    <2> QED
      BY <2>1 DEF Agree
  <1>4. \A k \in 1..4 : TextsOf(t)[k] = TextsOf(u)[k]
    <2>1. 4 \in Nat \ {0}
      OBVIOUS
    <2> QED
      <3>1. ASSUME NEW a, NEW b, NEW f, NEW g,
                   Fields(a, f, 4, p), Fields(b, g, 4, q), Agree(a, b, p[4], q[4])
            PROVE  \A k \in 1..4 : f[k] = g[k]
        BY <2>1, <3>1, SameFields
      <3>2. Fields(Listed(TextsOf(t)), TextsOf(t), 4, p) /\ Fields(Listed(TextsOf(u)), TextsOf(u), 4, q)
        BY <1>1, <1>2
      <3> QED
        BY <1>3, <3>1, <3>2
  <1>5. PICK i \in Ids, c \in Prices, d \in Durations, j \in Ids : t = <<i, c, d, j>>
    BY DEF Terms
  <1>6. PICK k \in Ids, e \in Prices, g \in Durations, l \in Ids : u = <<k, e, g, l>>
    BY DEF Terms
  <1>7. Text(i) = Text(k) /\ Text(c) = Text(e) /\ Text(d) = Text(g) /\ Text(j) = Text(l)
    <2>1. /\ TextsOf(t)[1] = Text(i) /\ TextsOf(t)[2] = Text(c)
          /\ TextsOf(t)[3] = Text(d) /\ TextsOf(t)[4] = Text(j)
      BY <1>5 DEF TextsOf
    <2>2. /\ TextsOf(u)[1] = Text(k) /\ TextsOf(u)[2] = Text(e)
          /\ TextsOf(u)[3] = Text(g) /\ TextsOf(u)[4] = Text(l)
      BY <1>6 DEF TextsOf
    <2>3. /\ TextsOf(t)[1] = TextsOf(u)[1] /\ TextsOf(t)[2] = TextsOf(u)[2]
          /\ TextsOf(t)[3] = TextsOf(u)[3] /\ TextsOf(t)[4] = TextsOf(u)[4]
      BY <1>4
    <2> QED
      BY <2>1, <2>2, <2>3, Zenon
  <1>8. /\ atoi(Text(i)) = i /\ atoi(Text(k)) = k /\ atoi(Text(c)) = c /\ atoi(Text(e)) = e
        /\ atoi(Text(d)) = d /\ atoi(Text(g)) = g /\ atoi(Text(j)) = j /\ atoi(Text(l)) = l
    BY NumbersTyped, TextIsRead
  <1> QED
    BY <1>5, <1>6, <1>7, <1>8, Zenon

(* Only what the server says of readings and loads may be no short.        *)
LEMMA SentShort ==
    ASSUME NEW m \in Datagram \cup Reply, m.header \notin {"par", "plc"}
    PROVE  \A k \in 1..Numbers[m.header] : m.numbers[k] \in ShortRange
  <1>0. Numbers["pni"] = 1 /\ Numbers["atd"] = 1 /\ Numbers["bcd"] = 3 /\ Numbers["bca"] = 2
        /\ Numbers["bpa"] = 3 /\ Numbers["bcb"] = 4
    BY DEF Numbers
  <1>1. CASE m \in Reply
    <2>1. PICK i \in Holders : m = Message("pni", <<i>>, <<>>)
      BY <1>1 DEF Reply, Message
    <2>2. m.header = "pni" /\ m.numbers = <<i>>
      BY <2>1 DEF Message
    <2>3. i \in ShortRange
      BY ShortsTyped
    <2> QED
      BY <1>0, <2>2, <2>3
  <1>2. CASE m \in Atd
    <2>1. PICK i \in Holders, s \in Octets(SignatureSize) : m = Message("atd", <<i>>, <<s>>)
      BY <1>2, AtdIs, Zenon
    <2>2. m.header = "atd" /\ m.numbers = <<i>>
      BY <2>1 DEF Message
    <2>3. i \in ShortRange
      BY ShortsTyped
    <2> QED
      BY <1>0, <2>2, <2>3
  <1>3. CASE m \in Bcd
    <2>1. PICK t \in Holders \X Prices \X Durations, s \in Octets(SignatureSize) :
             m = Message("bcd", t, <<s>>)
      BY <1>3 DEF Bcd
    <2>2. PICK i \in Holders, p \in Prices, d \in Durations : t = <<i, p, d>>
      OBVIOUS
    <2>3. m.header = "bcd" /\ m.numbers = <<i, p, d>>
      BY <2>1, <2>2 DEF Message
    <2>4. i \in ShortRange /\ p \in ShortRange /\ d \in ShortRange
      BY ShortsTyped
    <2> QED
      BY <1>0, <2>3, <2>4
  <1>4. CASE m \in Bca
    <2>1. PICK t \in Holders \X Amperages, k \in Octets(KeySize) : m = Message("bca", t, <<k>>)
      BY <1>4 DEF Bca
    <2>2. PICK i \in Holders, a \in Amperages : t = <<i, a>>
      OBVIOUS
    <2>3. m.header = "bca" /\ m.numbers = <<i, a>>
      BY <2>1, <2>2 DEF Message
    <2>4. i \in ShortRange /\ a \in ShortRange
      BY ShortsTyped
    <2> QED
      BY <1>0, <2>3, <2>4
  <1>5. CASE m \in Bpa
    <2>1. PICK t \in Holders \X Phases \X Durations, x \in Octets(HashSize) :
             m = Message("bpa", t, <<x>>)
      BY <1>5 DEF Bpa
    <2>2. PICK i \in Holders, p \in Phases, d \in Durations : t = <<i, p, d>>
      OBVIOUS
    <2>3. m.header = "bpa" /\ m.numbers = <<i, p, d>>
      BY <2>1, <2>2 DEF Message
    <2>4. i \in ShortRange /\ p \in ShortRange /\ d \in ShortRange
      BY ShortsTyped
    <2> QED
      BY <1>0, <2>3, <2>4
  <1>6. CASE m \in Bcb
    <2>1. PICK t \in Terms, c \in Octets(HashSize) \X Octets(SignatureSize)
                                   \X Octets(SignatureSize) \X Octets(HashSize) :
             m = Message("bcb", t, c)
      BY <1>6 DEF Bcb
    <2>2. PICK i \in Ids, p \in Prices, d \in Durations, j \in Ids : t = <<i, p, d, j>>
      BY DEF Terms
    <2>3. m.header = "bcb" /\ m.numbers = <<i, p, d, j>>
      BY <2>1, <2>2 DEF Message
    <2>4. i \in ShortRange /\ p \in ShortRange /\ d \in ShortRange /\ j \in ShortRange
      BY ShortsTyped DEF Holders
    <2> QED
      BY <1>0, <2>3, <2>4
  <1> QED
    BY <1>1, <1>2, <1>3, <1>4, <1>5, <1>6, Zenon DEF Datagram

(* What is kept of a message is what FirstIsRead says of it.               *)
LEMMA KeptIs ==
    ASSUME NEW m \in Datagram \cup Reply
    PROVE  /\ Kept(m) = Message(m.header, Kept(m).numbers, m.binary)
           /\ DOMAIN Kept(m).numbers = DOMAIN m.numbers
           /\ \A k \in DOMAIN Kept(m).numbers :
                 ReadAs(m.header, m.numbers[k], Kept(m).numbers[k])
           /\ m.header # "par" => Kept(m).numbers = m.numbers
  <1> DEFINE q == Numbers[m.header]
             I == -MaxInt..MaxInt
  <1>1. m.numbers \in [1..q -> I]
    BY SentWellFormed DEF WellFormed
  <1>2. I \subseteq Int
    BY MaxIntIsNat
  <1>3. m.header \notin {"par", "plc"} => \A k \in 1..q : m.numbers[k] \in ShortRange
    BY SentShort
  <1>4. /\ Kept(m).header = m.header /\ Kept(m).binary = m.binary
        /\ Kept(m).numbers = [k \in 1..q |-> IF m.header = "plc" THEN m.numbers[k]
                                                                ELSE Short(m.numbers[k])]
    BY DEF Kept, Message
  <1>5. Kept(m) = Message(m.header, Kept(m).numbers, m.binary)
    BY <1>4, Zenon DEF Kept
  <1> HIDE DEF q, I
  <1>6. \A k \in 1..q : m.numbers[k] \in Int
    BY <1>1, <1>2
  <1>7. \A k \in 1..q :
           Kept(m).numbers[k] = IF m.header = "plc" THEN m.numbers[k] ELSE Short(m.numbers[k])
    BY <1>4
  <1>8. DOMAIN Kept(m).numbers = 1..q /\ DOMAIN m.numbers = 1..q
    BY <1>1, <1>4
  <1>9. ASSUME NEW k \in 1..q PROVE ReadAs(m.header, m.numbers[k], Kept(m).numbers[k])
    BY <1>6, <1>7, ShortIs DEF ReadAs
  <1>10. ASSUME m.header # "par" PROVE Kept(m).numbers = m.numbers
    <2>1. \A k \in 1..q : Kept(m).numbers[k] = m.numbers[k]
      BY <1>3, <1>6, <1>7, <1>10, ShortIs
    <2>2. Kept(m).numbers = [k \in 1..q |-> Kept(m).numbers[k]]
      BY <1>4
    <2> QED
      BY <1>1, <2>1, <2>2
  <1> QED
    BY <1>5, <1>8, <1>9, <1>10

(* Only a block announcement has the header of one.                        *)
LEMMA BlockTerms ==
    ASSUME NEW m \in Datagram \cup Reply, m.header = "bcb"
    PROVE  m.numbers \in Terms
  <1>1. m \notin Reply
    <2>1. m \in Reply => m.header \in {"pni", "par", "plc"}
      BY DEF Reply, Message
    <2> QED
      BY <2>1
  <1>2. m \notin Atd
    BY DEF Atd, Message
  <1>3. m \notin Bcd
    BY DEF Bcd, Message
  <1>4. m \notin Bca
    BY DEF Bca, Message
  <1>5. m \notin Bpa
    BY DEF Bpa, Message
  <1>6. m \in Bcb
    BY <1>1, <1>2, <1>3, <1>4, <1>5, Zenon DEF Datagram
  <1>7. PICK t \in Terms, c \in Octets(HashSize) \X Octets(SignatureSize)
                                   \X Octets(SignatureSize) \X Octets(HashSize) :
            m = Message("bcb", t, c)
    BY <1>6 DEF Bcb
  <1> QED
    BY <1>7 DEF Message

-----------------------------------------------------------------------------
(***************************************************************************)
(* The theorems                                                            *)
(***************************************************************************)
(* The buffer is empty or holds what the senders wrote, and what has been  *)
(* decoded is the first of it.                                             *)
ReadInv ==
    /\ sent \in SentSet
    /\ rx_buffer = <<>> \/ rx_buffer = Received(sent)
    /\ FirstIsRead

(* The receive buffer is read as the message that was sent first.          *)
LEMMA BufferIsRead ==
    ASSUME NEW s \in SentSet
    PROVE  Cardinality(Reached(Received(s))) \in 2..5 /\ payload_decoder(Received(s)) = Kept(s[1])
  <1>1. /\ WellFormed(s[1]) /\ Received(s) \in Strings
        /\ \E p, o : Holds(Received(s), s[1], FieldCount(s[1].header), p, Len(s[1].binary), o)
    BY BufferHolds
  <1>2. FieldCount(s[1].header) \in 2..5
    BY <1>1, Counts DEF WellFormed
  <1> QED
    BY <1>1, <1>2, MessageIsRead

LEMMA ReadInvInit == Init => ReadInv
  BY DEF Init, ReadInv, SentSet, FirstIsRead

(* What has been read stays right, and Decode reads it right.              *)
LEMMA ReadInvNext == ReadInv /\ [Next]_vars => ReadInv'
  <1> SUFFICES ASSUME ReadInv, [Next]_vars PROVE ReadInv'
    OBVIOUS
  <1>1. CASE Receive
    BY <1>1 DEF ReadInv, Receive, Received, FirstIsRead
  <1>2. CASE Decode
    <2>1. sent' = sent /\ rx_buffer' = rx_buffer /\ payload' = payload_decoder(rx_buffer)
          /\ rx_buffer = Received(sent) /\ sent \in SentSet
      BY <1>2 DEF ReadInv, Decode
    <2>2. payload' = Kept(sent[1])
      BY <2>1, BufferIsRead
    <2>3. sent[1] \in Datagram \cup Reply
      BY <2>1, SentIs
    <2>4. FirstIsRead'
      BY <2>1, <2>2, <2>3, KeptIs, Zenon DEF FirstIsRead
    <2>5. Received(sent') = Received(sent)
      BY <2>1
    <2> QED
      BY <2>1, <2>4, <2>5 DEF ReadInv
  <1>3. CASE UNCHANGED vars
    BY <1>3 DEF ReadInv, FirstIsRead, vars
  <1> QED
    BY <1>1, <1>2, <1>3 DEF Next

LEMMA ReadInvHolds == Spec => []ReadInv
  BY ReadInvInit, ReadInvNext, PTL DEF Spec

(* payload_decoder returns the message that was sent, or of two answers    *)
(* in one segment the first, its reading cut to a short if it is wider     *)
(* (models.h:25-32, communication.c:60-144).                               *)
THEOREM ReadAsSent == Spec => []FirstIsRead
  <1>1. ReadInv => FirstIsRead
    BY DEF ReadInv
  <1> QED
    BY <1>1, ReadInvHolds, PTL

(* The decoder never has more than five fields for its nine places, though *)
(* nothing compares their number with that (communication.c:40, 61-92).    *)
THEOREM NoFieldTooMany == Spec => []FieldsFit
  <1>1. ReadInv => FieldsFit
    <2> SUFFICES ASSUME ReadInv, rx_buffer # <<>> PROVE Cardinality(Reached(rx_buffer)) <= 9
      BY DEF FieldsFit
    <2>1. rx_buffer = Received(sent) /\ sent \in SentSet
      BY DEF ReadInv
    <2>2. Cardinality(Reached(rx_buffer)) \in 2..5
      BY <2>1, BufferIsRead
    <2> QED
      BY <2>2
  <1> QED
    BY <1>1, ReadInvHolds, PTL

(* The terms of a block can be told from the bytes they leave of it in     *)
(* what is hashed: only their last comma is ever lost (chain.c:195-210).   *)
THEOREM HashTellsTerms == Spec => []HashedApart
  <1>1. ReadInv => HashedApart
    <2> SUFFICES ASSUME ReadInv, payload.header = "bcb", NEW t \in Terms,
                        HashedTexts[t] = HashedText(payload.numbers)
                 PROVE  t = payload.numbers
      BY DEF HashedApart
    <2>1. payload # Nothing
      BY DEF Nothing
    <2>2. /\ payload = Message(sent[1].header, payload.numbers, sent[1].binary)
          /\ sent[1].header # "par" => payload.numbers = sent[1].numbers
          /\ sent[1] \in Datagram \cup Reply
      BY <2>1, SentIs DEF ReadInv, FirstIsRead
    <2>3. sent[1].header = "bcb"
      BY <2>2 DEF Message
    <2>5. payload.numbers \in Terms
      BY <2>2, <2>3, BlockTerms
    <2>4. HashedTexts[t] = HashedText(t)
      BY DEF HashedTexts
    <2> QED
      BY <2>4, <2>5, HashedTextTells
  <1> QED
    BY <1>1, ReadInvHolds, PTL


=============================================================================
