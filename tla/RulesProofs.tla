------------------------------ MODULE RulesProofs ------------------------------
(***************************************************************************)
(* The comparison of binary digits in util.lua decides whether an address  *)
(* lies in a network, and the two limiters choose the rule the section     *)
(* means: for addresses of any size and sections of any length.            *)
(*                                                                         *)
(* Induction over numbers is NumbersBelong of ShDictProofs.                *)
(***************************************************************************)
EXTENDS Rules, ShDictProofs

-----------------------------------------------------------------------------
(* Functions defined by recursion over the numbers 0..n.                   *)

\* f starts with b and goes on from each number to the next by G.
Runs(f, G, b, n) == f[0] = b /\ \A i \in 1..n : f[i] = G[i][f[i - 1]]

\* Two functions that go on in the same way are the same.
LEMMA RunsSame ==
  ASSUME NEW n \in Nat, NEW b, NEW G, NEW f, NEW g, Runs(f, G, b, n), Runs(g, G, b, n)
  PROVE  \A i \in 0..n : f[i] = g[i]
<1> DEFINE S == {i \in Nat : i <= n => f[i] = g[i]}
<1>1. 0 \in S
  BY DEF Runs
<1>2. ASSUME NEW i \in Nat, i \in S PROVE i + 1 \in S
  <2>1. SUFFICES ASSUME i + 1 <= n PROVE f[i + 1] = g[i + 1]
    OBVIOUS
  <2>2. f[i] = g[i] /\ i + 1 \in 1..n /\ (i + 1) - 1 = i
    BY <1>2, <2>1
  <2>3. f[i + 1] = G[i + 1][f[i]] /\ g[i + 1] = G[i + 1][g[i]]
    BY <2>2 DEF Runs
  <2>4. QED
    BY <2>2, <2>3
<1>3. \A i \in Nat : i \in S
  <2> HIDE DEF S
  <2>1. QED
    BY <1>1, <1>2, NumbersBelong
<1>4. QED
  BY <1>3

\* There is such a function for every n.
LEMMA RunsExists ==
  ASSUME NEW n \in Nat, NEW T, NEW b \in T, NEW G, \A i \in Nat : \A x \in T : G[i][x] \in T
  PROVE  \E f \in [0..n -> T] : Runs(f, G, b, n)
<1> DEFINE S == {m \in Nat : \E f \in [0..m -> T] : Runs(f, G, b, m)}
<1>1. 0 \in S
  <2>1. [i \in 0..0 |-> b] \in [0..0 -> T] /\ Runs([i \in 0..0 |-> b], G, b, 0)
    BY DEF Runs
  <2>2. QED
    BY <2>1
<1>2. ASSUME NEW m \in Nat, m \in S PROVE m + 1 \in S
  <2>1. PICK f \in [0..m -> T] : Runs(f, G, b, m)
    BY <1>2
  <2> DEFINE g == [i \in 0..(m + 1) |-> IF i = m + 1 THEN G[m + 1][f[m]] ELSE f[i]]
  <2>2. g \in [0..(m + 1) -> T]
    <3>1. f[m] \in T /\ G[m + 1][f[m]] \in T
      OBVIOUS
    <3>2. ASSUME NEW i \in 0..(m + 1) PROVE g[i] \in T
      <4>1. CASE i = m + 1
        BY <3>1, <4>1
      <4>2. CASE i # m + 1
        <5>1. i \in 0..m /\ g[i] = f[i]
          BY <4>2
        <5>2. QED
          BY <5>1
      <4>3. QED
        BY <4>1, <4>2
    <3>3. QED
      BY <3>2
  <2>3. g[0] = b
    BY <2>1 DEF Runs
  <2>4. ASSUME NEW i \in 1..(m + 1) PROVE g[i] = G[i][g[i - 1]]
    <3>1. CASE i = m + 1
      <4>1. g[i] = G[m + 1][f[m]] /\ g[i - 1] = f[m]
        BY <3>1
      <4>2. QED
        BY <3>1, <4>1
    <3>2. CASE i # m + 1
      <4>1. i \in 1..m /\ g[i] = f[i] /\ g[i - 1] = f[i - 1]
        BY <3>2
      <4>2. QED
        BY <2>1, <4>1 DEF Runs
    <3>3. QED
      BY <3>1, <3>2
  <2>5. Runs(g, G, b, m + 1)
    BY <2>3, <2>4 DEF Runs
  <2>6. \E F \in [0..(m + 1) -> T] : Runs(F, G, b, m + 1)
    <3> HIDE DEF g
    <3>1. QED
      BY <2>2, <2>5
  <2>7. QED
    BY <2>6
<1>3. n \in S
  <2> HIDE DEF S
  <2>1. QED
    BY <1>1, <1>2, NumbersBelong
<1>4. QED
  BY <1>3

-----------------------------------------------------------------------------
(* Powers of two and halving.                                              *)

\* The powers of two: the definition by recursion is sound.
LEMMA PowDefined ==
  Pow2 = [n \in Nat |-> IF n = 0 THEN 1 ELSE 2 * Pow2[n - 1]]
<1> DEFINE G == [i \in Nat |-> [x \in Nat |-> 2 * x]]
           P(n) == CHOOSE f \in [0..n -> Nat] : Runs(f, G, 1, n)
           p == [n \in Nat |-> P(n)[n]]
<1>1. \A i \in Nat : \A x \in Nat : G[i][x] = 2 * x /\ G[i][x] \in Nat
  OBVIOUS
<1> HIDE DEF G
<1>2. ASSUME NEW n \in Nat PROVE P(n) \in [0..n -> Nat] /\ Runs(P(n), G, 1, n)
  <2>1. \E f \in [0..n -> Nat] : Runs(f, G, 1, n)
    BY <1>1, RunsExists
  <2>2. QED
    BY <2>1
<1> HIDE DEF P
<1>3. p[0] = 1
  BY <1>2 DEF Runs
<1>4. ASSUME NEW n \in Nat, n # 0 PROVE p[n] = 2 * p[n - 1]
  <2>1. n - 1 \in Nat /\ n \in 1..n /\ n - 1 \in 0..(n - 1) /\ n - 1 \in 0..n
    BY <1>4
  <2>2. Runs(P(n), G, 1, n) /\ P(n) \in [0..n -> Nat]
    BY <1>2
  <2>3. Runs(P(n), G, 1, n - 1)
    BY <2>1, <2>2 DEF Runs
  <2>4. Runs(P(n - 1), G, 1, n - 1)
    BY <1>2, <2>1
  <2>5. P(n)[n - 1] = P(n - 1)[n - 1]
    BY <2>1, <2>3, <2>4, RunsSame
  <2>6. P(n)[n] = G[n][P(n)[n - 1]]
    BY <2>1, <2>2 DEF Runs
  <2>7. P(n)[n - 1] \in Nat
    BY <2>1, <2>2
  <2>8. P(n)[n] = 2 * P(n)[n - 1]
    BY <1>1, <2>6, <2>7
  <2>9. QED
    BY <2>1, <2>5, <2>8
<1>5. p = [n \in Nat |-> IF n = 0 THEN 1 ELSE 2 * p[n - 1]]
  <2> DEFINE g == [n \in Nat |-> IF n = 0 THEN 1 ELSE 2 * p[n - 1]]
  <2>1. ASSUME NEW n \in Nat PROVE p[n] = g[n]
    BY <1>3, <1>4
  <2>2. QED
    BY <2>1
<1>6. QED
  <2> HIDE DEF p
  <2>1. QED
    BY <1>5 DEF Pow2

\* 2^0 = 1 and 2^(n+1) = 2 * 2^n, and they are positive.
LEMMA PowStep ==
  /\ Pow2[0] = 1
  /\ \A n \in Nat : Pow2[n + 1] = 2 * Pow2[n] /\ Pow2[n] \in Nat \ {0}
<1>1. Pow2[0] = 1
  BY PowDefined
<1>2. ASSUME NEW n \in Nat PROVE Pow2[n + 1] = 2 * Pow2[n]
  <2>1. n + 1 \in Nat /\ n + 1 # 0 /\ (n + 1) - 1 = n
    OBVIOUS
  <2>2. QED
    BY <2>1, PowDefined
<1> DEFINE S == {n \in Nat : Pow2[n] \in Nat \ {0}}
<1>3. 0 \in S
  BY <1>1
<1>4. ASSUME NEW n \in Nat, n \in S PROVE n + 1 \in S
  BY <1>2, <1>4
<1>5. \A n \in Nat : n \in S
  <2> HIDE DEF S
  <2>1. QED
    BY <1>3, <1>4, NumbersBelong
<1>6. QED
  BY <1>1, <1>2, <1>5

\* What is left of N without its last k binary digits.
Quot(N, k) == N \div Pow2[k]

\* The quotient by a positive number.
LEMMA Division ==
  ASSUME NEW a \in Nat, NEW c \in Nat \ {0}
  PROVE  a \div c \in Nat /\ a \div (2 * c) = (a \div c) \div 2 /\ (a < c => a \div c = 0)
<1>1. a \div c \in Nat
  BY SMT
<1>2. a \div (2 * c) = (a \div c) \div 2
  BY SMT
<1>3. a < c => a \div c = 0
  BY SMT
<1>4. QED
  BY <1>1, <1>2, <1>3

\* One digit more is one halving more.
LEMMA QuotStep ==
  ASSUME NEW N \in Nat
  PROVE  /\ Quot(N, 0) = N
         /\ \A k \in Nat : Quot(N, k) \in Nat /\ Quot(N, k + 1) = Quot(N, k) \div 2
<1>1. Quot(N, 0) = N
  BY PowStep DEF Quot
<1>2. ASSUME NEW k \in Nat PROVE Quot(N, k) \in Nat /\ Quot(N, k + 1) = Quot(N, k) \div 2
  <2>1. Pow2[k] \in Nat \ {0} /\ Pow2[k + 1] = 2 * Pow2[k]
    BY PowStep
  <2>2. QED
    BY <2>1, Division DEF Quot
<1>3. QED
  BY <1>1, <1>2

\* Leaving out k digits and then j is leaving out k + j.
LEMMA QuotTwice ==
  ASSUME NEW N \in Nat, NEW k \in Nat, NEW j \in Nat
  PROVE  Quot(Quot(N, k), j) = Quot(N, k + j)
<1> DEFINE S == {i \in Nat : Quot(Quot(N, k), i) = Quot(N, k + i)}
<1>0. Quot(N, k) \in Nat
  BY QuotStep
<1>1. 0 \in S
  BY <1>0, QuotStep
<1>2. ASSUME NEW i \in Nat, i \in S PROVE i + 1 \in S
  <2>1. Quot(Quot(N, k), i + 1) = Quot(Quot(N, k), i) \div 2
    BY <1>0, QuotStep
  <2>2. k + i \in Nat /\ k + (i + 1) = (k + i) + 1
    OBVIOUS
  <2>3. Quot(N, (k + i) + 1) = Quot(N, k + i) \div 2
    BY <2>2, QuotStep
  <2>4. QED
    BY <1>2, <2>1, <2>2, <2>3
<1>3. j \in S
  <2> HIDE DEF S
  <2>1. QED
    BY <1>1, <1>2, NumbersBelong
<1>4. QED
  BY <1>3

\* A number that is followed by an octet x: leaving out digits of the octet.
LEMMA OctetAppended ==
  ASSUME NEW N \in Nat, NEW B \in Nat, NEW x \in Nat, NEW k \in 0..B
  PROVE  Quot(N * Pow2[B] + x, k) = N * Pow2[B - k] + Quot(x, k)
<1> DEFINE M == N * Pow2[B] + x
           S == {i \in Nat : i <= B => Quot(M, i) = N * Pow2[B - i] + Quot(x, i)}
<1>0. M \in Nat
  BY PowStep
<1>1. 0 \in S
  <2>1. Quot(M, 0) = M
    BY <1>0, QuotStep
  <2>2. Quot(x, 0) = x /\ B - 0 = B
    BY QuotStep
  <2>3. QED
    BY <2>1, <2>2
<1>2. ASSUME NEW i \in Nat, i \in S PROVE i + 1 \in S
  <2>1. SUFFICES ASSUME i + 1 <= B PROVE Quot(M, i + 1) = N * Pow2[B - (i + 1)] + Quot(x, i + 1)
    OBVIOUS
  <2>2. Quot(M, i) = N * Pow2[B - i] + Quot(x, i)
    BY <1>2, <2>1
  <2>3. B - (i + 1) \in Nat /\ B - i = (B - (i + 1)) + 1
    BY <2>1
  <2>4. Pow2[B - i] = 2 * Pow2[B - (i + 1)] /\ Pow2[B - (i + 1)] \in Nat
    BY <2>3, PowStep
  <2>5. PICK z \in Nat : z = N * Pow2[B - (i + 1)]
    BY <2>4
  <2>6. N * Pow2[B - i] = 2 * z
    BY <2>4, <2>5
  <2>7. Quot(M, i + 1) = (2 * z + Quot(x, i)) \div 2
    <3>1. Quot(M, i + 1) = Quot(M, i) \div 2
      BY <1>0, QuotStep
    <3>2. QED
      BY <2>2, <2>6, <3>1
  <2>8. Quot(x, i + 1) = Quot(x, i) \div 2 /\ Quot(x, i) \in Nat
    BY QuotStep
  <2>9. QED
    BY <2>5, <2>7, <2>8
<1>3. k \in S
  <2> HIDE DEF S
  <2>1. QED
    BY <1>1, <1>2, NumbersBelong
<1>4. QED
  BY <1>3

\* Without the octet the number is left, and the octet has the last digits.
LEMMA OctetDigits ==
  ASSUME NEW N \in Nat, NEW B \in Nat, NEW x \in 0..(Pow2[B] - 1)
  PROVE  /\ Quot(N * Pow2[B] + x, B) = N
         /\ \A k \in 0..(B - 1) : Quot(N * Pow2[B] + x, k) % 2 = Quot(x, k) % 2
<1>0. x \in Nat /\ Pow2[B] \in Nat \ {0} /\ x < Pow2[B]
  BY PowStep
<1>1. Quot(N * Pow2[B] + x, B) = N
  <2>1. Quot(N * Pow2[B] + x, B) = N * Pow2[B - B] + Quot(x, B)
    BY <1>0, OctetAppended
  <2>2. Quot(x, B) = 0
    BY <1>0, Division DEF Quot
  <2>3. Pow2[B - B] = 1
    BY PowStep
  <2>4. QED
    BY <2>1, <2>2, <2>3
<1>2. ASSUME NEW k \in 0..(B - 1) PROVE Quot(N * Pow2[B] + x, k) % 2 = Quot(x, k) % 2
  <2>1. Quot(N * Pow2[B] + x, k) = N * Pow2[B - k] + Quot(x, k)
    BY <1>0, OctetAppended
  <2>2. B - k - 1 \in Nat /\ B - k = (B - k - 1) + 1
    OBVIOUS
  <2>3. Pow2[B - k] = 2 * Pow2[B - k - 1] /\ Pow2[B - k - 1] \in Nat
    BY <2>2, PowStep
  <2>4. PICK z \in Nat : z = N * Pow2[B - k - 1]
    BY <2>3
  <2>5. N * Pow2[B - k] = 2 * z
    BY <2>3, <2>4
  <2>6. Quot(x, k) \in Nat
    <3>1. k \in Nat
      OBVIOUS
    <3>2. QED
      BY <1>0, <3>1, QuotStep
  <2>7. QED
    BY <2>1, <2>5, <2>6
<1>3. QED
  BY <1>1, <1>2
-----------------------------------------------------------------------------
(* The digits of dec2bin and ipToBinary.                                   *)

\* What is left of a number after each turn of the loop in dec2bin.
Rest(num) == CHOOSE f : f = [k \in 0..OctetBits |-> IF k = 0 THEN num ELSE f[k - 1] \div 2]

\* After k turns the last k digits are gone.
LEMMA RestIsQuot ==
  ASSUME NEW num \in Nat
  PROVE  \A k \in 0..OctetBits : Rest(num)[k] = Quot(num, k)
<1> DEFINE h == Rest(num)
           f == [k \in 0..OctetBits |-> Quot(num, k)]
           g == [k \in 0..OctetBits |-> IF k = 0 THEN num ELSE f[k - 1] \div 2]
<1>0. OctetBits \in Nat
  BY RulesAssumption
<1>1. f = g
  <2>1. ASSUME NEW k \in 0..OctetBits PROVE f[k] = g[k]
    <3>1. CASE k = 0
      BY <3>1, QuotStep
    <3>2. CASE k # 0
      <4>1. k - 1 \in Nat /\ k - 1 \in 0..OctetBits /\ (k - 1) + 1 = k
        BY <1>0, <3>2
      <4>2. Quot(num, (k - 1) + 1) = Quot(num, k - 1) \div 2
        BY <4>1, QuotStep
      <4>3. f[k] = Quot(num, k) /\ f[k - 1] = Quot(num, k - 1) /\ g[k] = f[k - 1] \div 2
        BY <3>2, <4>1
      <4>4. QED
        BY <4>1, <4>2, <4>3
    <3>3. QED
      BY <3>1, <3>2
  <2>2. QED
    BY <2>1
<1>2. h = [k \in 0..OctetBits |-> IF k = 0 THEN num ELSE h[k - 1] \div 2]
  <2> HIDE DEF f
  <2>1. QED
    BY <1>1 DEF Rest
<1> HIDE DEF h
<1> DEFINE S == {k \in Nat : k <= OctetBits => h[k] = Quot(num, k)}
<1>3. 0 \in S
  BY <1>0, <1>2, QuotStep
<1>4. ASSUME NEW k \in Nat, k \in S PROVE k + 1 \in S
  <2>1. SUFFICES ASSUME k + 1 <= OctetBits PROVE h[k + 1] = Quot(num, k + 1)
    OBVIOUS
  <2>2. h[k] = Quot(num, k) /\ k + 1 \in 0..OctetBits /\ k + 1 # 0 /\ (k + 1) - 1 = k
    BY <1>0, <1>4, <2>1
  <2>3. h[k + 1] = h[k] \div 2
    BY <1>2, <2>2
  <2>4. QED
    BY <2>2, <2>3, QuotStep
<1>5. \A k \in Nat : k \in S
  <2> HIDE DEF S
  <2>1. QED
    BY <1>3, <1>4, NumbersBelong
<1>6. QED
  BY <1>0, <1>5 DEF h

\* The digits of an octet.
LEMMA Dec2bin ==
  ASSUME NEW num \in Nat
  PROVE  dec2bin(num) = [i \in 1..OctetBits |-> Quot(num, OctetBits - i) % 2]
<1>1. dec2bin(num) = [i \in 1..OctetBits |-> Rest(num)[OctetBits - i] % 2]
  BY DEF dec2bin, Rest
<1>2. \A i \in 1..OctetBits : OctetBits - i \in 0..OctetBits
  BY RulesAssumption
<1>3. \A i \in 1..OctetBits : Rest(num)[OctetBits - i] = Quot(num, OctetBits - i)
  BY <1>2, RestIsQuot
<1>4. QED
  BY <1>1, <1>3

\* The number of the first octets of an address.
UpTo(ip) == CHOOSE f : f = [i \in 0..Octets |-> IF i = 0 THEN 0
                                                ELSE f[i - 1] * Pow2[OctetBits] + ip[i]]

\* The first octets as a number.
LEMMA UpToDefined ==
  ASSUME NEW ip \in Address
  PROVE  /\ Number(ip) = UpTo(ip)[Octets]
         /\ UpTo(ip)[0] = 0
         /\ \A i \in 0..Octets : UpTo(ip)[i] \in Nat
         /\ \A i \in 1..Octets : UpTo(ip)[i] = UpTo(ip)[i - 1] * Pow2[OctetBits] + ip[i]
<1> DEFINE h == UpTo(ip)
           G == [i \in Nat |-> [x \in Nat |-> x * Pow2[OctetBits] + (IF i \in 1..Octets THEN ip[i] ELSE 0)]]
<1>0. Octets \in Nat /\ OctetBits \in Nat /\ Pow2[OctetBits] \in Nat \ {0}
  BY RulesAssumption, PowStep
<1>1. \A i \in 1..Octets : ip[i] \in Nat
  BY <1>0 DEF Address
<1>2. ASSUME NEW i \in Nat, NEW x \in Nat PROVE G[i][x] \in Nat
  <2>1. (IF i \in 1..Octets THEN ip[i] ELSE 0) \in Nat
    BY <1>1
  <2>2. x * Pow2[OctetBits] \in Nat
    BY <1>0
  <2>3. QED
    BY <2>1, <2>2
<1>3. ASSUME NEW i \in 1..Octets, NEW x \in Nat PROVE G[i][x] = x * Pow2[OctetBits] + ip[i]
  BY <1>0
<1> HIDE DEF G
<1>4. PICK f \in [0..Octets -> Nat] : Runs(f, G, 0, Octets)
  BY <1>0, <1>2, RunsExists
<1> DEFINE g == [i \in 0..Octets |-> IF i = 0 THEN 0 ELSE f[i - 1] * Pow2[OctetBits] + ip[i]]
<1>5. f = g
  <2>1. ASSUME NEW i \in 0..Octets PROVE f[i] = g[i]
    <3>1. CASE i = 0
      BY <1>4, <3>1 DEF Runs
    <3>2. CASE i # 0
      <4>1. i \in 1..Octets /\ i - 1 \in 0..Octets /\ f[i - 1] \in Nat
        BY <1>0, <3>2
      <4>2. f[i] = f[i - 1] * Pow2[OctetBits] + ip[i]
        BY <1>3, <1>4, <4>1 DEF Runs
      <4>3. QED
        BY <3>2, <4>2
    <3>3. QED
      BY <3>1, <3>2
  <2>2. QED
    BY <2>1
<1>6. h = [i \in 0..Octets |-> IF i = 0 THEN 0 ELSE h[i - 1] * Pow2[OctetBits] + ip[i]]
  BY <1>5 DEF UpTo
<1> HIDE DEF h
<1>7. h[0] = 0
  BY <1>0, <1>6
<1>8. ASSUME NEW i \in 1..Octets PROVE h[i] = h[i - 1] * Pow2[OctetBits] + ip[i]
  <2>1. i \in 0..Octets /\ i # 0
    BY <1>0
  <2>2. QED
    BY <1>6, <2>1
<1> DEFINE S == {i \in Nat : i <= Octets => h[i] \in Nat}
<1>9. 0 \in S
  BY <1>7
<1>10. ASSUME NEW i \in Nat, i \in S PROVE i + 1 \in S
  <2>1. SUFFICES ASSUME i + 1 <= Octets PROVE h[i + 1] \in Nat
    OBVIOUS
  <2>2. i + 1 \in 1..Octets /\ (i + 1) - 1 = i /\ h[i] \in Nat
    BY <1>0, <1>10, <2>1
  <2>3. h[i + 1] = h[i] * Pow2[OctetBits] + ip[i + 1] /\ ip[i + 1] \in Nat
    BY <1>1, <1>8, <2>2
  <2>4. h[i] * Pow2[OctetBits] \in Nat
    BY <1>0, <2>2
  <2>5. QED
    BY <2>3, <2>4
<1>11. \A i \in Nat : i \in S
  <2> HIDE DEF S
  <2>1. QED
    BY <1>9, <1>10, NumbersBelong
<1>12. Number(ip) = h[Octets]
  BY DEF Number, UpTo, h
<1>13. QED
  BY <1>7, <1>8, <1>11, <1>12 DEF h

\* An address without its last octet, and the digits of that octet.
LEMMA UpToStep ==
  ASSUME NEW ip \in Address, NEW i \in 1..Octets
  PROVE  /\ ip[i] \in Nat
         /\ Quot(UpTo(ip)[i], OctetBits) = UpTo(ip)[i - 1]
         /\ \A k \in 0..(OctetBits - 1) : Quot(UpTo(ip)[i], k) % 2 = Quot(ip[i], k) % 2
<1>0. OctetBits \in Nat /\ Octets \in Nat
  BY RulesAssumption
<1>1. ip[i] \in 0..(Pow2[OctetBits] - 1)
  BY DEF Address
<1>2. UpTo(ip)[i - 1] \in Nat
  <2>1. i - 1 \in 0..Octets
    BY <1>0
  <2>2. QED
    BY <2>1, UpToDefined
<1>3. UpTo(ip)[i] = UpTo(ip)[i - 1] * Pow2[OctetBits] + ip[i]
  BY UpToDefined
<1>4. QED
  BY <1>0, <1>1, <1>2, <1>3, OctetDigits
\* The digits of the first i octets, as digits of their number.
Digits(ip, i) == [p \in 1..(OctetBits * i) |-> Quot(UpTo(ip)[i], OctetBits * i - p) % 2]

\* A function on 1..n is a sequence of length n.
LEMMA SequenceOn ==
  ASSUME NEW T, NEW n \in Nat, NEW s \in [1..n -> T]
  PROVE  s \in Seq(T) /\ Len(s) = n
OBVIOUS

\* Digits and octets are sequences.
LEMMA DigitsType ==
  ASSUME NEW ip \in Address, NEW i \in 0..Octets
  PROVE  /\ OctetBits * i \in Nat
         /\ Digits(ip, i) \in Seq({0, 1}) /\ Len(Digits(ip, i)) = OctetBits * i
         /\ i > 0 => dec2bin(ip[i]) \in Seq({0, 1}) /\ Len(dec2bin(ip[i])) = OctetBits
<1>0. OctetBits \in Nat /\ Octets \in Nat /\ i \in Nat
  BY RulesAssumption
<1>1. OctetBits * i \in Nat
  BY <1>0
<1>2. \A N, k \in Nat : Quot(N, k) % 2 \in {0, 1}
  <2>1. \A N, k \in Nat : Quot(N, k) \in Nat
    BY QuotStep
  <2>2. \A x \in Nat : x % 2 \in {0, 1}
    OBVIOUS
  <2>3. QED
    BY <2>1, <2>2
<1>3. Digits(ip, i) \in [1..(OctetBits * i) -> {0, 1}]
  <2>1. UpTo(ip)[i] \in Nat
    BY UpToDefined
  <2>2. \A p \in 1..(OctetBits * i) : OctetBits * i - p \in Nat
    BY <1>1
  <2>3. \A p \in 1..(OctetBits * i) : Quot(UpTo(ip)[i], OctetBits * i - p) % 2 \in {0, 1}
    BY <1>2, <2>1, <2>2
  <2>4. QED
    BY <2>3 DEF Digits
<1>4. ASSUME i > 0 PROVE dec2bin(ip[i]) \in [1..OctetBits -> {0, 1}]
  <2>1. ip[i] \in Nat
    BY <1>0, <1>4, UpToStep
  <2>2. \A j \in 1..OctetBits : OctetBits - j \in Nat
    BY <1>0
  <2>3. \A j \in 1..OctetBits : Quot(ip[i], OctetBits - j) % 2 \in {0, 1}
    BY <1>2, <2>1, <2>2
  <2>4. QED
    BY <2>1, <2>3, Dec2bin
<1>5. QED
  BY <1>0, <1>1, <1>3, <1>4, SequenceOn

\* The digits of one octet more.
LEMMA DigitsStep ==
  ASSUME NEW ip \in Address, NEW i \in 1..Octets
  PROVE  Digits(ip, i) = Digits(ip, i - 1) \o dec2bin(ip[i])
<1>0. OctetBits \in Nat /\ Octets \in Nat /\ i \in Nat /\ i - 1 \in 0..Octets /\ i \in 0..Octets /\ i > 0
  BY RulesAssumption
<1> DEFINE d == Digits(ip, i - 1)
           e == dec2bin(ip[i])
           D == Digits(ip, i)
<1>1. PICK c \in Nat : c = OctetBits * (i - 1)
  BY <1>0
<1>2. OctetBits * i = c + OctetBits
  BY <1>0, <1>1
<1>3. d \in Seq({0, 1}) /\ Len(d) = c
  BY <1>0, <1>1, DigitsType
<1>4. D \in Seq({0, 1}) /\ Len(D) = c + OctetBits
  BY <1>0, <1>2, DigitsType
<1>5. e \in Seq({0, 1}) /\ Len(e) = OctetBits
  BY <1>0, DigitsType
<1>6. UpTo(ip)[i] \in Nat /\ UpTo(ip)[i - 1] \in Nat
  BY <1>0, UpToDefined
<1>7. ASSUME NEW p \in 1..c PROVE D[p] = d[p]
  <2>1. c - p \in Nat /\ (c + OctetBits) - p = OctetBits + (c - p) /\ p \in 1..(c + OctetBits)
    BY <1>0
  <2>2. d[p] = Quot(UpTo(ip)[i - 1], c - p) % 2
    BY <1>1 DEF Digits
  <2>3. D[p] = Quot(UpTo(ip)[i], (c + OctetBits) - p) % 2
    BY <1>2, <2>1 DEF Digits
  <2>4. Quot(Quot(UpTo(ip)[i], OctetBits), c - p) = Quot(UpTo(ip)[i], OctetBits + (c - p))
    <3>1. OctetBits \in Nat /\ c - p \in Nat
      BY <1>0, <2>1
    <3>2. QED
      BY <1>6, <3>1, QuotTwice, Zenon
  <2>5. Quot(UpTo(ip)[i], OctetBits) = UpTo(ip)[i - 1]
    BY UpToStep
  <2>6. QED
    BY <2>1, <2>2, <2>3, <2>4, <2>5
<1>8. ASSUME NEW j \in 1..OctetBits PROVE D[c + j] = e[j]
  <2>1. c + j \in 1..(c + OctetBits) /\ (c + OctetBits) - (c + j) = OctetBits - j
        /\ OctetBits - j \in 0..(OctetBits - 1)
    BY <1>0
  <2>2. D[c + j] = Quot(UpTo(ip)[i], OctetBits - j) % 2
    BY <1>2, <2>1 DEF Digits
  <2>3. Quot(UpTo(ip)[i], OctetBits - j) % 2 = Quot(ip[i], OctetBits - j) % 2
    BY <2>1, UpToStep
  <2>4. e[j] = Quot(ip[i], OctetBits - j) % 2
    BY UpToStep, Dec2bin
  <2>5. QED
    BY <2>2, <2>3, <2>4
<1> HIDE DEF d, e, D
<1>9. d \o e \in Seq({0, 1}) /\ Len(d \o e) = c + OctetBits
  BY <1>3, <1>5
<1>10. ASSUME NEW p \in 1..(c + OctetBits) PROVE D[p] = (d \o e)[p]
  <2>1. CASE p <= c
    <3>1. (d \o e)[p] = d[p]
      BY <1>0, <1>3, <1>5, <2>1
    <3>2. QED
      BY <1>7, <2>1, <3>1
  <2>2. CASE p > c
    <3>1. p - c \in 1..OctetBits /\ c + (p - c) = p
      BY <1>0, <2>2
    <3>2. (d \o e)[p] = e[p - c]
      BY <1>0, <1>3, <1>5, <2>2
    <3>3. D[c + (p - c)] = e[p - c]
      BY <1>8, <3>1
    <3>4. QED
      BY <3>1, <3>2, <3>3
  <2>3. p <= c \/ p > c
    OBVIOUS
  <2>4. QED
    BY <2>1, <2>2, <2>3
<1>11. D = d \o e
  BY <1>4, <1>9, <1>10, SeqEqual
<1>12. QED
  BY <1>11 DEF d, e, D
\* The loop of ipToBinary over the octets, as FlattenSeq has it.
Flat(seqs) == CHOOSE f : f = [i \in 1..Len(seqs) |-> IF i = 1 THEN seqs[i] ELSE f[i - 1] \o seqs[i]]

\* The digits of an address are those of its number.
LEMMA IpToBinary ==
  ASSUME NEW ip \in Address
  PROVE  ipToBinary(ip) = Digits(ip, Octets)
<1> DEFINE seqs == [i \in 1..Len(ip) |-> dec2bin(ip[i])]
           h == Flat(seqs)
           f == [i \in 1..Octets |-> Digits(ip, i)]
           g == [i \in 1..Octets |-> IF i = 1 THEN seqs[i] ELSE f[i - 1] \o seqs[i]]
<1>0. OctetBits \in Nat /\ Octets \in Nat \ {0}
  BY RulesAssumption
<1>1. Len(ip) = Octets
  BY <1>0, SequenceOn DEF Address
<1>2. Len(seqs) = Octets /\ \A i \in 1..Octets : seqs[i] = dec2bin(ip[i])
  <2>1. seqs \in [1..Octets -> {dec2bin(ip[i]) : i \in 1..Octets}]
    BY <1>1
  <2>2. QED
    BY <1>0, <1>1, <2>1, SequenceOn
<1> HIDE DEF seqs
<1>3. \A i \in 1..Octets : f[i] = IF i = 1 THEN seqs[i] ELSE f[i - 1] \o seqs[i]
  <2> SUFFICES ASSUME NEW i \in 1..Octets PROVE f[i] = IF i = 1 THEN seqs[i] ELSE f[i - 1] \o seqs[i]
    OBVIOUS
  <2>1. Digits(ip, i) = Digits(ip, i - 1) \o seqs[i]
    BY <1>2, DigitsStep
  <2>2. CASE i = 1
    <3>1. 0 \in 0..Octets /\ 1 \in 0..Octets /\ OctetBits * 0 = 0
      BY <1>0
    <3>2. Digits(ip, 0) \in Seq({0, 1}) /\ Len(Digits(ip, 0)) = 0 /\ seqs[1] \in Seq({0, 1})
      BY <1>2, <2>2, <3>1, DigitsType
    <3>3. Digits(ip, 0) = <<>>
      BY <3>2, EmptySeq
    <3>4. <<>> \o seqs[1] = seqs[1]
      BY <3>2, ConcatEmptySeq
    <3>5. Digits(ip, 1) = Digits(ip, 0) \o seqs[1]
      BY <2>1, <2>2
    <3>6. f[i] = Digits(ip, 1)
      BY <2>2
    <3>7. QED
      BY <2>2, <3>3, <3>4, <3>5, <3>6
  <2>3. CASE i # 1
    <3>1. i - 1 \in 1..Octets
      BY <1>0, <2>3
    <3>2. f[i] = Digits(ip, i) /\ f[i - 1] = Digits(ip, i - 1)
      BY <3>1
    <3>3. QED
      BY <2>1, <2>3, <3>2
  <2>4. QED
    BY <2>2, <2>3
<1>4. f = g
  BY <1>3
<1>5. h = [i \in 1..Octets |-> IF i = 1 THEN seqs[i] ELSE h[i - 1] \o seqs[i]]
  <2> HIDE DEF f
  <2>1. QED
    BY <1>2, <1>4 DEF Flat
<1> HIDE DEF h
<1> DEFINE S == {i \in Nat : i + 1 <= Octets => h[i + 1] = Digits(ip, i + 1)}
<1>6. 0 \in S
  <2>1. 1 \in 1..Octets /\ 0 + 1 = 1
    BY <1>0
  <2>2. h[1] = seqs[1] /\ f[1] = seqs[1]
    BY <1>3, <1>5, <2>1
  <2>3. QED
    BY <2>1, <2>2
<1>7. ASSUME NEW i \in Nat, i \in S PROVE i + 1 \in S
  <2>1. SUFFICES ASSUME (i + 1) + 1 <= Octets PROVE h[(i + 1) + 1] = Digits(ip, (i + 1) + 1)
    OBVIOUS
  <2> DEFINE j == (i + 1) + 1
  <2>2. j \in 1..Octets /\ j # 1 /\ j - 1 = i + 1 /\ h[i + 1] = Digits(ip, i + 1) /\ i + 1 \in 1..Octets
    BY <1>0, <1>7, <2>1
  <2> HIDE DEF j
  <2>3. h[j] = h[j - 1] \o seqs[j] /\ f[j] = f[j - 1] \o seqs[j]
    BY <1>3, <1>5, <2>2
  <2>4. f[j] = Digits(ip, j) /\ f[j - 1] = Digits(ip, i + 1)
    BY <2>2
  <2>5. h[j] = Digits(ip, j)
    BY <2>2, <2>3, <2>4
  <2>6. QED
    BY <2>5 DEF j
<1>8. h[Octets] = Digits(ip, Octets)
  <2>1. \A i \in Nat : i \in S
    <3> HIDE DEF S
    <3>1. QED
      BY <1>6, <1>7, NumbersBelong
  <2>2. Octets - 1 \in S /\ (Octets - 1) + 1 = Octets
    BY <1>0, <2>1
  <2>3. QED
    BY <1>0, <2>2
<1>9. ipToBinary(ip) = FlattenSeq(seqs)
  BY DEF ipToBinary, seqs
<1>10. FlattenSeq(seqs) = h[Octets]
  BY <1>0, <1>2 DEF FlattenSeq, Flat, h
<1>11. QED
  BY <1>8, <1>9, <1>10

-----------------------------------------------------------------------------
(* Digits and quotients.                                                    *)

\* A number whose digits end at L: nothing is left without them.
LEMMA AddressFits ==
  ASSUME NEW ip \in Address
  PROVE  Quot(Number(ip), Bits) = 0
<1> DEFINE u == UpTo(ip)
           S == {i \in Nat : i <= Octets => Quot(u[i], OctetBits * i) = 0}
<1>0. OctetBits \in Nat /\ Octets \in Nat
  BY RulesAssumption
<1>1. 0 \in S
  <2>1. u[0] = 0 /\ OctetBits * 0 = 0
    BY <1>0, UpToDefined
  <2>2. Quot(0, 0) = 0
    BY QuotStep
  <2>3. QED
    BY <2>1, <2>2
<1>2. ASSUME NEW i \in Nat, i \in S PROVE i + 1 \in S
  <2>1. SUFFICES ASSUME i + 1 <= Octets PROVE Quot(u[i + 1], OctetBits * (i + 1)) = 0
    OBVIOUS
  <2>2. i + 1 \in 1..Octets /\ i + 1 \in 0..Octets /\ (i + 1) - 1 = i /\ Quot(u[i], OctetBits * i) = 0
    BY <1>0, <1>2, <2>1
  <2>3. u[i + 1] \in Nat
    BY <2>2, UpToDefined
  <2>4. Quot(u[i + 1], OctetBits) = u[i]
    BY <2>2, UpToStep
  <2>5. PICK c \in Nat : c = OctetBits * i
    BY <1>0
  <2>6. OctetBits * (i + 1) = OctetBits + c
    BY <1>0, <2>5
  <2>7. Quot(Quot(u[i + 1], OctetBits), c) = Quot(u[i + 1], OctetBits + c)
    <3>1. OctetBits \in Nat
      BY <1>0
    <3>2. QED
      BY <2>3, <3>1, QuotTwice, Zenon
  <2>8. QED
    BY <2>2, <2>4, <2>5, <2>6, <2>7
<1>3. Octets \in S
  <2> HIDE DEF S
  <2>1. QED
    BY <1>0, <1>1, <1>2, NumbersBelong
<1>4. QED
  BY <1>0, <1>3, UpToDefined DEF Bits

\* Numbers that agree in their first m of L digits have the same first part.
LEMMA SameDigits ==
  ASSUME NEW N \in Nat, NEW M \in Nat, NEW L \in Nat, Quot(N, L) = 0, Quot(M, L) = 0,
         NEW m \in 0..L
  PROVE  (\A p \in 1..m : Quot(N, L - p) % 2 = Quot(M, L - p) % 2)
           <=> Quot(N, L - m) = Quot(M, L - m)
<1> DEFINE Agree(i) == \A p \in 1..i : Quot(N, L - p) % 2 = Quot(M, L - p) % 2
           S == {i \in Nat : i <= L => (Agree(i) <=> Quot(N, L - i) = Quot(M, L - i))}
<1>1. 0 \in S
  <2>1. L - 0 = L /\ Agree(0)
    OBVIOUS
  <2>2. QED
    BY <2>1
<1>2. ASSUME NEW i \in Nat, i \in S PROVE i + 1 \in S
  <2>1. SUFFICES ASSUME i + 1 <= L
                 PROVE  Agree(i + 1) <=> Quot(N, L - (i + 1)) = Quot(M, L - (i + 1))
    OBVIOUS
  <2> DEFINE a == Quot(N, L - (i + 1))
             b == Quot(M, L - (i + 1))
  <2>2. L - (i + 1) \in Nat /\ (L - (i + 1)) + 1 = L - i
    BY <2>1
  <2>3. a \in Nat /\ b \in Nat /\ Quot(N, L - i) = a \div 2 /\ Quot(M, L - i) = b \div 2
    <3>1. Quot(N, (L - (i + 1)) + 1) = a \div 2 /\ Quot(M, (L - (i + 1)) + 1) = b \div 2
      BY <2>2, QuotStep
    <3>2. a \in Nat /\ b \in Nat
      BY <2>2, QuotStep
    <3>3. QED
      BY <2>2, <3>1, <3>2
  <2>4. Agree(i) <=> a \div 2 = b \div 2
    BY <1>2, <2>1, <2>3
  <2>5. Agree(i + 1) <=> (Agree(i) /\ a % 2 = b % 2)
    <3>1. \A p \in 1..(i + 1) : p \in 1..i \/ p = i + 1
      OBVIOUS
    <3>2. \A p \in 1..i : p \in 1..(i + 1)
      OBVIOUS
    <3>3. i + 1 \in 1..(i + 1)
      OBVIOUS
    <3>4. QED
      BY <3>1, <3>2, <3>3
  <2> HIDE DEF a, b
  <2>6. a = b <=> (a \div 2 = b \div 2 /\ a % 2 = b % 2)
    BY <2>3
  <2>7. Agree(i + 1) <=> a = b
    <3> HIDE DEF Agree
    <3>1. QED
      BY <2>4, <2>5, <2>6
  <2>8. QED
    BY <2>7 DEF a, b
<1>3. m \in S
  <2> HIDE DEF S
  <2>1. QED
    BY <1>1, <1>2, NumbersBelong
<1>4. QED
  BY <1>3
\* isIPInRange compares the numbers up to the size of the network.
LEMMA RangeIsQuot ==
  ASSUME NEW ip \in Address, NEW net \in Address, NEW mask \in 0..Bits
  PROVE  isIPInRange(ip, net, mask)
           <=> Quot(Number(ip), Bits - mask) = Quot(Number(net), Bits - mask)
<1> DEFINE a == ipToBinary(ip)
           b == ipToBinary(net)
<1>0. OctetBits \in Nat /\ Octets \in Nat /\ Bits \in Nat /\ Octets \in 0..Octets
  BY RulesAssumption DEF Bits
<1>1. a \in Seq({0, 1}) /\ Len(a) = Bits /\ b \in Seq({0, 1}) /\ Len(b) = Bits
  BY <1>0, IpToBinary, DigitsType DEF Bits
<1>2. \A p \in 1..Bits : a[p] = Quot(Number(ip), Bits - p) % 2 /\ b[p] = Quot(Number(net), Bits - p) % 2
  BY IpToBinary, UpToDefined DEF Digits, Bits
<1> HIDE DEF a, b
<1>3. SubSeq(a, 1, mask) = SubSeq(b, 1, mask) <=> \A p \in 1..mask : a[p] = b[p]
  <2>1. mask \in 0..Len(a) /\ mask \in 0..Len(b)
    BY <1>1
  <2> DEFINE s == SubSeq(a, 1, mask)
             t == SubSeq(b, 1, mask)
  <2>2. /\ s \in Seq({0, 1}) /\ Len(s) = mask /\ \A p \in 1..mask : s[p] = a[p]
        /\ t \in Seq({0, 1}) /\ Len(t) = mask /\ \A p \in 1..mask : t[p] = b[p]
    BY <1>1, <2>1, PrefixOf
  <2> HIDE DEF s, t
  <2>3. (\A p \in 1..mask : s[p] = t[p]) => s = t
    BY <2>2, SeqEqual
  <2>4. s = t <=> \A p \in 1..mask : a[p] = b[p]
    BY <2>2, <2>3
  <2>5. QED
    BY <2>4 DEF s, t
<1>4. \A p \in 1..mask : p \in 1..Bits
  BY <1>0
<1>5. (\A p \in 1..mask : a[p] = b[p])
        <=> \A p \in 1..mask : Quot(Number(ip), Bits - p) % 2 = Quot(Number(net), Bits - p) % 2
  BY <1>2, <1>4
<1>6. Number(ip) \in Nat /\ Number(net) \in Nat
  BY <1>0, UpToDefined
<1>7. Quot(Number(ip), Bits) = 0 /\ Quot(Number(net), Bits) = 0
  BY AddressFits
<1>8. (\A p \in 1..mask : Quot(Number(ip), Bits - p) % 2 = Quot(Number(net), Bits - p) % 2)
        <=> Quot(Number(ip), Bits - mask) = Quot(Number(net), Bits - mask)
  BY <1>0, <1>6, <1>7, SameDigits
<1>9. isIPInRange(ip, net, mask) <=> SubSeq(a, 1, mask) = SubSeq(b, 1, mask)
  BY DEF isIPInRange, a, b
<1>10. QED
  BY <1>3, <1>5, <1>8, <1>9

\* Two addresses with the same number are the same.
LEMMA NumberOfOne ==
  ASSUME NEW ip \in Address, NEW net \in Address, Number(ip) = Number(net)
  PROVE  ip = net
<1> DEFINE u == UpTo(ip)
           w == UpTo(net)
           S == {i \in Nat : i <= Octets /\ u[i] = w[i] => \A j \in 1..i : ip[j] = net[j]}
<1>0. Octets \in Nat /\ OctetBits \in Nat /\ Pow2[OctetBits] \in Nat
  BY RulesAssumption, PowStep
<1>1. 0 \in S
  OBVIOUS
<1>2. ASSUME NEW i \in Nat, i \in S PROVE i + 1 \in S
  <2>1. SUFFICES ASSUME i + 1 <= Octets, u[i + 1] = w[i + 1]
                 PROVE  \A j \in 1..(i + 1) : ip[j] = net[j]
    OBVIOUS
  <2>2. i + 1 \in 1..Octets /\ (i + 1) - 1 = i /\ i \in 0..Octets
    BY <1>0, <2>1
  <2>3. u[i] = w[i]
    BY <2>1, <2>2, UpToStep
  <2>4. /\ u[i + 1] = u[i] * Pow2[OctetBits] + ip[i + 1]
        /\ w[i + 1] = w[i] * Pow2[OctetBits] + net[i + 1]
    BY <2>2, UpToDefined
  <2>5. ip[i + 1] \in Nat /\ net[i + 1] \in Nat /\ u[i] \in Nat
    BY <2>2, UpToDefined, UpToStep
  <2>6. PICK z \in Nat : z = u[i] * Pow2[OctetBits]
    BY <1>0, <2>5
  <2>7. ip[i + 1] = net[i + 1]
    <3>1. u[i + 1] = z + ip[i + 1] /\ w[i + 1] = z + net[i + 1]
      BY <2>3, <2>4, <2>6
    <3>2. z + ip[i + 1] = z + net[i + 1]
      BY <2>1, <3>1
    <3>3. \A x, y, v \in Nat : v + x = v + y => x = y
      OBVIOUS
    <3>4. QED
      BY <2>5, <3>2, <3>3, Zenon
  <2>8. \A j \in 1..i : ip[j] = net[j]
    <3>1. i <= Octets
      BY <2>2
    <3>2. QED
      BY <1>2, <2>3, <3>1
  <2>9. \A j \in 1..(i + 1) : j \in 1..i \/ j = i + 1
    OBVIOUS
  <2>10. QED
    BY <2>7, <2>8, <2>9
<1>3. Octets \in S
  <2> HIDE DEF S
  <2>1. QED
    BY <1>0, <1>1, <1>2, NumbersBelong
<1>4. u[Octets] = w[Octets]
  BY UpToDefined
<1>5. \A j \in 1..Octets : ip[j] = net[j]
  BY <1>0, <1>3, <1>4
<1>6. ip = [j \in 1..Octets |-> ip[j]] /\ net = [j \in 1..Octets |-> net[j]]
  BY DEF Address
<1>7. QED
  BY <1>5, <1>6

\* is_in_SubnetMask, which compares strings of binary digits, decides
\* whether the address lies in the network as an interval of numbers.
THEOREM RangeIsNetwork ==
  ASSUME NEW ip \in Address, NEW key, IsKey(key)
  PROVE  is_in_SubnetMask(ip, key) <=> InNetwork(ip, key)
<1>0. Bits \in Nat
  BY RulesAssumption DEF Bits
<1>1. CASE key.mask = Nil
  <2>1. is_in_SubnetMask(ip, key) <=> ip = key.ip
    BY <1>1 DEF is_in_SubnetMask
  <2>2. InNetwork(ip, key) <=> key.ip \in Address /\ Quot(Number(ip), 0) = Quot(Number(key.ip), 0)
    BY <1>1 DEF InNetwork, Quot
  <2>3. ASSUME key.ip \in Address
        PROVE  Quot(Number(ip), 0) = Number(ip) /\ Quot(Number(key.ip), 0) = Number(key.ip)
    <3>1. Number(ip) \in Nat /\ Number(key.ip) \in Nat
      BY <2>3, UpToDefined, RulesAssumption
    <3>2. QED
      BY <3>1, QuotStep
  <2>4. ASSUME key.ip \in Address, Number(ip) = Number(key.ip) PROVE ip = key.ip
    BY <2>4, NumberOfOne
  <2>5. QED
    BY <2>1, <2>2, <2>3, <2>4
<1>2. CASE key.mask # Nil
  <2>1. key.ip \in Address /\ key.mask \in 0..Bits
    BY <1>2 DEF IsKey
  <2>2. is_in_SubnetMask(ip, key) <=> isIPInRange(ip, key.ip, key.mask)
    BY <1>2 DEF is_in_SubnetMask
  <2>3. InNetwork(ip, key) <=> Quot(Number(ip), Bits - key.mask) = Quot(Number(key.ip), Bits - key.mask)
    BY <1>2, <2>1 DEF InNetwork, Quot
  <2>4. QED
    BY <2>1, <2>2, <2>3, RangeIsQuot
<1>3. QED
  BY <1>1, <1>2
-----------------------------------------------------------------------------
(* The choice of a rule.                                                    *)

\* i is the first of the positions S.
FirstOf(S, i) == i \in S /\ \A j \in S : i <= j

\* SelectInSeq finds the first position, or answers 0 when there is none.
LEMMA FirstFound ==
  ASSUME NEW n \in Nat, NEW S \in SUBSET (1..n)
  PROVE  LET i == IF S # {} THEN Min(S) ELSE 0
         IN  /\ (i = 0) <=> (S = {})
             /\ S # {} => FirstOf(S, i)
<1>1. CASE S # {}
  <2>1. S \in SUBSET Nat
    OBVIOUS
  <2>2. \E m \in S : \A y \in S : m <= y
    BY <1>1, <2>1, SmallestNumber
  <2>3. Min(S) \in S /\ \A y \in S : Min(S) <= y
    BY <2>2 DEF Min
  <2>4. Min(S) # 0
    BY <2>3
  <2>5. QED
    BY <1>1, <2>3, <2>4 DEF FirstOf
<1>2. CASE S = {}
  BY <1>2
<1>3. QED
  BY <1>1, <1>2

\* The rules of limit_args that are about c under the name given.
About(conf, c, name) == {i \in DOMAIN conf.limit_args : AppliesTo(conf, conf.limit_args[i], c, name)}

\* The common rules of a location.
Commons(conf, location) == {i \in DOMAIN conf.default_args : conf.default_args[i].limit_location = location}

\* What IsRuleFor says, with its sets named.
LEMMA MeantRule ==
  ASSUME NEW conf, NEW c, NEW r
  PROVE  IsRuleFor(conf, c, r) <=>
    LET own    == About(conf, c, c.user)
        shared == About(conf, c, conf.limit_default_user)
        common == Commons(conf, c.location)
        self   == IF conf.limit_type = "user" THEN [user |-> c.user] ELSE [ip |-> c.ip, mask |-> Nil]
    IN  IF own # {} THEN \E i \in own : FirstOf(own, i) /\ r = conf.limit_args[i]
        ELSE IF conf.limit_type # "user" \/ (c.user # Nil /\ conf.limit_common_on)
        THEN IF common = {} THEN r = Nil
             ELSE \E i \in common : FirstOf(common, i) /\ r = Personal(conf.default_args[i], self)
        ELSE IF shared = {} THEN r = Nil
             ELSE \E i \in shared : FirstOf(shared, i) /\ r = conf.limit_args[i]
BY Zenon DEF IsRuleFor, About, Commons, FirstOf

\* The common rule, under the client's own name.
LEMMA CommonMeant ==
  ASSUME NEW conf, IsSection(conf), NEW key, NEW location
  PROVE  LET common == Commons(conf, location)
         IN  IF common = {} THEN Common(conf, key, location) = Nil
             ELSE \E i \in common : /\ FirstOf(common, i)
                                    /\ Common(conf, key, location) = Personal(conf.default_args[i], key)
<1> DEFINE S == Commons(conf, location)
           i == IF S # {} THEN Min(S) ELSE 0
<1>1. Len(conf.default_args) \in Nat /\ S \in SUBSET (1..Len(conf.default_args))
  BY DEF IsSection, Commons
<1>2. (i = 0 <=> S = {}) /\ (S # {} => FirstOf(S, i))
  <2> HIDE DEF S
  <2>1. QED
    BY <1>1, FirstFound
<1>3. S = {j \in 1..Len(conf.default_args) : conf.default_args[j].limit_location = location}
  BY DEF IsSection, Commons
<1>4. SelectInSeq(conf.default_args, LAMBDA v : v.limit_location = location) = i
  BY <1>3 DEF SelectInSeq
<1>5. Common(conf, key, location) = IF i = 0 THEN Nil ELSE Personal(conf.default_args[i], key)
  BY <1>4 DEF Common
<1> HIDE DEF i, S
<1>6. QED
  BY <1>2, <1>5 DEF FirstOf, S

\* get_ip_config: the first network that contains the address, or the
\* common rule.
LEMMA AddressRule ==
  ASSUME NEW conf, IsSection(conf), conf.limit_type # "user", NEW c, c.ip \in Address
  PROVE  IsRuleFor(conf, c, get_ip_config(conf, c.ip, c.location))
<1> DEFINE S == About(conf, c, c.user)
           i == IF S # {} THEN Min(S) ELSE 0
           key == [ip |-> c.ip, mask |-> Nil]
           r == get_ip_config(conf, c.ip, c.location)
<1>0. Len(conf.limit_args) \in Nat /\ DOMAIN conf.limit_args = 1..Len(conf.limit_args)
  BY DEF IsSection
<1>1. S = {j \in 1..Len(conf.limit_args) :
             is_in_SubnetMask(c.ip, conf.limit_args[j].key) /\ conf.limit_args[j].limit_location = c.location}
  <2>1. ASSUME NEW j \in DOMAIN conf.limit_args
        PROVE  is_in_SubnetMask(c.ip, conf.limit_args[j].key) <=> InNetwork(c.ip, conf.limit_args[j].key)
    <3>1. IsKey(conf.limit_args[j].key)
      BY DEF IsSection
    <3>2. QED
      BY <3>1, RangeIsNetwork
  <2>2. ASSUME NEW j \in DOMAIN conf.limit_args
        PROVE  AppliesTo(conf, conf.limit_args[j], c, c.user) <=>
                 /\ is_in_SubnetMask(c.ip, conf.limit_args[j].key)
                 /\ conf.limit_args[j].limit_location = c.location
    BY <2>1 DEF AppliesTo
  <2>3. QED
    BY <1>0, <2>2 DEF About
<1>2. S \in SUBSET (1..Len(conf.limit_args))
  BY <1>1
<1>3. (i = 0 <=> S = {}) /\ (S # {} => FirstOf(S, i))
  <2> HIDE DEF S
  <2>1. QED
    BY <1>0, <1>2, FirstFound
<1>4. SelectInSeq(conf.limit_args, LAMBDA v : is_in_SubnetMask(c.ip, v.key) /\ v.limit_location = c.location) = i
  BY <1>1 DEF SelectInSeq
<1>5. r = IF i # 0 THEN conf.limit_args[i] ELSE Common(conf, key, c.location)
  BY <1>4 DEF get_ip_config
<1> HIDE DEF i, S, r
<1>6. CASE S # {}
  <2>1. \E k \in S : FirstOf(S, k) /\ r = conf.limit_args[k]
    BY <1>3, <1>5, <1>6 DEF FirstOf
  <2>2. QED
    BY <1>6, <2>1, MeantRule DEF S, r
<1>7. CASE S = {}
  <2>1. r = Common(conf, key, c.location)
    BY <1>3, <1>5, <1>7
  <2>2. LET common == Commons(conf, c.location)
        IN  IF common = {} THEN r = Nil
            ELSE \E k \in common : FirstOf(common, k) /\ r = Personal(conf.default_args[k], key)
    BY <2>1, CommonMeant
  <2>3. QED
    BY <1>7, <2>2, MeantRule DEF S, r
<1>8. QED
  BY <1>6, <1>7
\* The rule of limit_args for a user.
LEMMA UserFound ==
  ASSUME NEW conf, IsSection(conf), conf.limit_type = "user", NEW c, NEW name
  PROVE  LET S == About(conf, c, name)
             i == SelectInSeq(conf.limit_args,
                              LAMBDA v : v.key = [user |-> name] /\ v.limit_location = c.location)
         IN  (i = 0 <=> S = {}) /\ (S # {} => FirstOf(S, i))
<1> DEFINE S == About(conf, c, name)
           i == IF S # {} THEN Min(S) ELSE 0
<1>0. Len(conf.limit_args) \in Nat /\ DOMAIN conf.limit_args = 1..Len(conf.limit_args)
  BY DEF IsSection
<1>1. S = {j \in 1..Len(conf.limit_args) :
             conf.limit_args[j].key = [user |-> name] /\ conf.limit_args[j].limit_location = c.location}
  BY <1>0 DEF About, AppliesTo
<1>2. S \in SUBSET (1..Len(conf.limit_args))
  BY <1>1
<1>3. (i = 0 <=> S = {}) /\ (S # {} => FirstOf(S, i))
  <2> HIDE DEF S
  <2>1. QED
    BY <1>0, <1>2, FirstFound
<1>4. SelectInSeq(conf.limit_args, LAMBDA v : v.key = [user |-> name] /\ v.limit_location = c.location) = i
  BY <1>1 DEF SelectInSeq
<1>5. QED
  BY <1>3, <1>4

\* get_user_config: the user's own rule, the common one, or the default
\* user's.
LEMMA UserRule ==
  ASSUME NEW conf, IsSection(conf), conf.limit_type = "user", NEW c
  PROVE  IsRuleFor(conf, c, get_user_config(conf, c.user, c.location))
<1> DEFINE RuleOf(name) == SelectInSeq(conf.limit_args,
                              LAMBDA v : v.key = [user |-> name] /\ v.limit_location = c.location)
           S(name) == About(conf, c, name)
           key == [user |-> c.user]
           named == c.user # Nil /\ conf.limit_common_on
           i == RuleOf(c.user)
           d == RuleOf(conf.limit_default_user)
           own == S(c.user)
           shared == S(conf.limit_default_user)
           r == get_user_config(conf, c.user, c.location)
<1>1. r = IF i # 0 THEN conf.limit_args[i]
          ELSE IF named THEN Common(conf, key, c.location)
          ELSE IF d # 0 THEN conf.limit_args[d] ELSE Nil
  BY DEF get_user_config
<1>2. (i = 0 <=> own = {}) /\ (own # {} => FirstOf(own, i))
  BY UserFound
<1>3. (d = 0 <=> shared = {}) /\ (shared # {} => FirstOf(shared, d))
  BY UserFound
<1>4. LET common == Commons(conf, c.location)
      IN  IF common = {} THEN Common(conf, key, c.location) = Nil
          ELSE \E k \in common : /\ FirstOf(common, k)
                                 /\ Common(conf, key, c.location) = Personal(conf.default_args[k], key)
  BY CommonMeant
<1>5. IsRuleFor(conf, c, r) <=>
        IF own # {} THEN \E k \in own : FirstOf(own, k) /\ r = conf.limit_args[k]
        ELSE IF named
        THEN IF Commons(conf, c.location) = {} THEN r = Nil
             ELSE \E k \in Commons(conf, c.location) :
                    FirstOf(Commons(conf, c.location), k) /\ r = Personal(conf.default_args[k], key)
        ELSE IF shared = {} THEN r = Nil
             ELSE \E k \in shared : FirstOf(shared, k) /\ r = conf.limit_args[k]
  BY MeantRule
<1> HIDE DEF RuleOf, S, key, named, i, d, own, shared, r
<1>6. CASE own # {}
  <2>1. i # 0 /\ FirstOf(own, i) /\ i \in own
    BY <1>2, <1>6 DEF FirstOf
  <2>2. QED
    BY <1>1, <1>5, <1>6, <2>1 DEF r
<1>7. CASE own = {} /\ named
  <2>1. r = Common(conf, key, c.location)
    BY <1>1, <1>2, <1>7
  <2>2. QED
    BY <1>4, <1>5, <1>7, <2>1 DEF r
<1>8. CASE own = {} /\ ~named
  <2>1. r = IF d # 0 THEN conf.limit_args[d] ELSE Nil
    BY <1>1, <1>2, <1>8
  <2>2. shared # {} => d \in shared
    BY <1>3 DEF FirstOf
  <2>3. QED
    BY <1>3, <1>5, <1>8, <2>1, <2>2 DEF r
<1>9. QED
  BY <1>6, <1>7, <1>8

\* The rule a limiter applies to a client is the one the section means for
\* it, in every section and for every client.
THEOREM RuleForCorrect ==
  ASSUME NEW conf, IsSection(conf), NEW c, c.ip \in Address
  PROVE  IsRuleFor(conf, c, RuleFor(conf, c))
<1>1. CASE conf.limit_type = "user"
  BY <1>1, UserRule DEF RuleFor
<1>2. CASE conf.limit_type # "user"
  BY <1>2, AddressRule DEF RuleFor
<1>3. QED
  BY <1>1, <1>2
=============================================================================
