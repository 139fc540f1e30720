----------------------------- MODULE ShDictProofs -----------------------------
(***************************************************************************)
(* What the operations of the shared dictionary do to the queue, for any   *)
(* size of the dictionary and any number of attempts to make room.         *)
(***************************************************************************)
EXTENDS ShDict, FiniteSetTheorems, SequenceTheorems, WellFoundedInduction, TLAPS

-----------------------------------------------------------------------------

\* A set of numbers has a smallest one.
LEMMA SmallestNumber ==
  ASSUME NEW S \in SUBSET Nat, S # {}
  PROVE  \E m \in S : \A y \in S : m <= y
<1>1. PICK m \in S : \A y \in S : ~(<<y, m>> \in OpToRel(<, Nat))
  BY NatLessThanWellFounded, WFMin
<1>2. ASSUME NEW y \in S PROVE ~(y < m)
  <2>1. y \in Nat /\ m \in Nat
    OBVIOUS
  <2>2. ASSUME y < m PROVE <<y, m>> \in OpToRel(<, Nat)
    BY <2>1, <2>2 DEF OpToRel
  <2>3. QED
    BY <1>1, <2>2, Zenon
<1>3. QED
  BY <1>2

\* A set that has 0 and with each number the next one has all numbers.
LEMMA NumbersBelong ==
  ASSUME NEW S, 0 \in S, \A n \in Nat : n \in S => n + 1 \in S
  PROVE  \A n \in Nat : n \in S
<1> SUFFICES ASSUME Nat \ S # {} PROVE FALSE
  OBVIOUS
<1>1. PICK m \in Nat \ S : \A y \in Nat \ S : m <= y
  BY SmallestNumber
<1>2. m # 0 /\ m - 1 \in Nat /\ m - 1 \notin Nat \ S
  BY <1>1
<1>3. QED
  BY <1>2

-----------------------------------------------------------------------------

\* One entry per key.
Unique(q) == \A i, j \in DOMAIN q : q[i].key = q[j].key => i = j

\* p is what is left of q when entries at its cold end are gone; the entries
\* that went satisfy nothing, or had all expired.
Cut(p, q) == \E n \in 0..Len(q) : p = SubSeq(q, 1, n)
Trim(p, q, now) == \E n \in 0..Len(q) : /\ p = SubSeq(q, 1, n)
                                        /\ \A i \in (n + 1)..Len(q) : Expired(q[i], now)

\* The elements of a prefix.
LEMMA PrefixOf ==
  ASSUME NEW E, NEW q \in Seq(E), NEW n \in 0..Len(q)
  PROVE  /\ SubSeq(q, 1, n) \in Seq(E) /\ Len(SubSeq(q, 1, n)) = n
         /\ DOMAIN SubSeq(q, 1, n) = 1..n
         /\ \A i \in 1..n : SubSeq(q, 1, n)[i] = q[i]
  OBVIOUS

\* A queue that was not shortened at all.
LEMMA WholePrefix ==
  ASSUME NEW E, NEW q \in Seq(E), NEW now
  PROVE  Cut(q, q) /\ Trim(q, q, now)
BY SubSeqFull DEF Cut, Trim

\* Shortening a shortened queue.
LEMMA PrefixOfPrefix ==
  ASSUME NEW E, NEW q \in Seq(E), NEW n \in 0..Len(q), NEW m \in 0..n
  PROVE  SubSeq(SubSeq(q, 1, n), 1, m) = SubSeq(q, 1, m)
<1> DEFINE p == SubSeq(q, 1, n)
<1>1. p \in Seq(E) /\ Len(p) = n
  BY PrefixOf
<1>2. SubSeq(p, 1, m) \in Seq(E) /\ SubSeq(q, 1, m) \in Seq(E)
  BY <1>1, PrefixOf
<1>3. Len(SubSeq(p, 1, m)) = m /\ Len(SubSeq(q, 1, m)) = m
  BY <1>1, PrefixOf
<1>4. \A i \in 1..m : SubSeq(p, 1, m)[i] = SubSeq(q, 1, m)[i]
  BY <1>1, PrefixOf
<1>5. QED
  BY <1>2, <1>3, <1>4, SeqEqual

\* Cutting a cut queue cuts the queue.
LEMMA CutTwice ==
  ASSUME NEW E, NEW q \in Seq(E), NEW p, NEW o, Cut(p, q), Cut(o, p)
  PROVE  Cut(o, q)
<1>1. PICK n \in 0..Len(q) : p = SubSeq(q, 1, n)
  BY DEF Cut
<1>2. PICK m \in 0..Len(p) : o = SubSeq(p, 1, m)
  BY DEF Cut
<1>3. Len(p) = n
  BY <1>1, PrefixOf
<1>4. QED
  BY <1>1, <1>2, <1>3, PrefixOfPrefix DEF Cut

\* Trimming a trimmed queue trims the queue.
LEMMA TrimTwice ==
  ASSUME NEW E, NEW q \in Seq(E), NEW now, NEW p, NEW o, Trim(p, q, now), Trim(o, p, now)
  PROVE  Trim(o, q, now)
<1>1. PICK n \in 0..Len(q) : p = SubSeq(q, 1, n) /\ \A i \in (n + 1)..Len(q) : Expired(q[i], now)
  BY DEF Trim
<1>2. PICK m \in 0..Len(p) : o = SubSeq(p, 1, m) /\ \A i \in (m + 1)..Len(p) : Expired(p[i], now)
  BY DEF Trim
<1>3. Len(p) = n /\ \A i \in 1..n : p[i] = q[i]
  BY <1>1, PrefixOf
<1>4. o = SubSeq(q, 1, m) /\ m \in 0..Len(q)
  BY <1>1, <1>2, <1>3, PrefixOfPrefix
<1>5. ASSUME NEW i \in (m + 1)..Len(q) PROVE Expired(q[i], now)
  <2>1. CASE i <= n
    BY <1>2, <1>3, <2>1
  <2>2. CASE i > n
    BY <1>1, <2>2
  <2>3. QED
    BY <2>1, <2>2
<1>6. QED
  BY <1>4, <1>5 DEF Trim

\* A trimmed queue is a queue, with one entry per key.
LEMMA CutKeeps ==
  ASSUME NEW E, NEW q \in Seq(E), NEW p, Cut(p, q)
  PROVE  p \in Seq(E) /\ (Unique(q) => Unique(p)) /\ Keys(p) \subseteq Keys(q)
<1>1. PICK n \in 0..Len(q) : p = SubSeq(q, 1, n)
  BY DEF Cut
<1>2. /\ p \in Seq(E) /\ Len(p) = n /\ DOMAIN p = 1..n
      /\ \A i \in 1..n : p[i] = q[i]
  BY <1>1, PrefixOf
<1>3. DOMAIN p \subseteq DOMAIN q
  BY <1>2
<1>4. QED
  BY <1>2, <1>3 DEF Unique, Keys

\* A trimmed queue is a cut one.
LEMMA TrimIsCut ==
  ASSUME NEW p, NEW q, NEW now, Trim(p, q, now)
  PROVE  Cut(p, q)
BY DEF Trim, Cut

\* DropTail removes nothing but an expired entry at the end.
LEMMA DropTailTrims ==
  ASSUME NEW E, NEW q \in Seq(E), NEW now
  PROVE  Trim(DropTail(q, now), q, now)
<1>1. CASE q # <<>> /\ Expired(Last(q), now)
  <2>1. Len(q) - 1 \in 0..Len(q)
    BY <1>1, EmptySeq
  <2>2. DropTail(q, now) = SubSeq(q, 1, Len(q) - 1)
    BY <1>1 DEF DropTail, Front
  <2>3. \A i \in (Len(q) - 1 + 1)..Len(q) : Expired(q[i], now)
    BY <1>1, <2>1 DEF Last
  <2>4. QED
    BY <2>1, <2>2, <2>3 DEF Trim
<1>2. CASE ~(q # <<>> /\ Expired(Last(q), now))
  BY <1>2, WholePrefix DEF DropTail
<1>3. QED
  BY <1>1, <1>2

\* ngx_http_lua_shdict_expire(ctx, 1) only takes expired entries at the cold end.
LEMMA ExpireSomeTrims ==
  ASSUME NEW E, NEW q \in Seq(E), NEW now
  PROVE  Trim(expireSome(q, now), q, now)
<1> DEFINE p == DropTail(q, now)
<1>1. Trim(p, q, now)
  BY DropTailTrims
<1>2. p \in Seq(E)
  BY <1>1, TrimIsCut, CutKeeps
<1>3. Trim(DropTail(p, now), p, now)
  BY <1>2, DropTailTrims
<1>4. QED
  BY <1>1, <1>3, TrimTwice DEF expireSome

\* The forced removal takes entries from the cold end only.
LEMMA ExpireForcedCuts ==
  ASSUME NEW E, NEW q \in Seq(E), NEW now
  PROVE  Cut(expireForced(q, now), q)
<1>1. CASE q = <<>>
  BY <1>1, WholePrefix DEF expireForced
<1>2. CASE q # <<>>
  <2> DEFINE p == Front(q)
  <2>1. Len(q) - 1 \in 0..Len(q) /\ p = SubSeq(q, 1, Len(q) - 1)
    BY <1>2, EmptySeq DEF Front
  <2>2. Cut(p, q)
    BY <2>1 DEF Cut
  <2>3. p \in Seq(E)
    BY <2>2, CutKeeps
  <2>4. Cut(expireSome(p, now), p)
    BY <2>3, ExpireSomeTrims, TrimIsCut
  <2>5. expireForced(q, now) = expireSome(p, now)
    BY <1>2 DEF expireForced, expireSome
  <2>6. QED
    BY <2>2, <2>4, <2>5, CutTwice
<1>3. QED
  BY <1>1, <1>2

\* What the loop at the label insert leaves after each attempt.
Tries(q, now) == CHOOSE f : f = [i \in 0..Attempts |-> IF i = 0 THEN q ELSE expireForced(f[i - 1], now)]

\* The loop has a result: its definition by recursion is sound.
LEMMA LoopDefined ==
  ASSUME NEW q, NEW now
  PROVE  Tries(q, now) = [i \in 0..Attempts |-> IF i = 0 THEN q
                                               ELSE expireForced(Tries(q, now)[i - 1], now)]
<1> DEFINE Good(f, n) == /\ f = [i \in 0..n |-> f[i]] /\ f[0] = q
                         /\ \A i \in 1..n : f[i] = expireForced(f[i - 1], now)
           S == {n \in Nat : \E f : Good(f, n)}
<1>1. 0 \in S
  <2>1. Good([i \in 0..0 |-> q], 0)
    OBVIOUS
  <2>2. QED
    BY <2>1
<1>2. ASSUME NEW n \in Nat, n \in S PROVE n + 1 \in S
  <2>1. PICK f : Good(f, n)
    BY <1>2
  <2> DEFINE g == [i \in 0..(n + 1) |-> IF i = n + 1 THEN expireForced(f[n], now) ELSE f[i]]
  <2>2. g = [i \in 0..(n + 1) |-> g[i]] /\ g[0] = q
    BY <2>1
  <2>3. ASSUME NEW i \in 1..(n + 1) PROVE g[i] = expireForced(g[i - 1], now)
    <3>1. CASE i = n + 1
      <4>1. g[i] = expireForced(f[n], now) /\ g[i - 1] = f[n]
        BY <3>1
      <4>2. QED
        BY <4>1
    <3>2. CASE i # n + 1
      <4>1. i \in 1..n /\ g[i] = f[i] /\ g[i - 1] = f[i - 1]
        BY <3>2
      <4>2. QED
        BY <2>1, <4>1
    <3>3. QED
      BY <3>1, <3>2
  <2>4. Good(g, n + 1)
    BY <2>2, <2>3
  <2>5. \E F : Good(F, n + 1)
    <3> HIDE DEF g
    <3>1. QED
      BY <2>4
  <2>6. QED
    <3> HIDE DEF Good
    <3>1. QED
      BY <2>5
<1>3. Attempts \in S
  <2> HIDE DEF S
  <2>1. QED
    BY <1>1, <1>2, NumbersBelong, ShDictAssumption
<1>4. PICK f : Good(f, Attempts)
  BY <1>3
<1> DEFINE h == [i \in 0..Attempts |-> IF i = 0 THEN q ELSE expireForced(f[i - 1], now)]
<1>5. f = h
  <2>1. ASSUME NEW i \in 0..Attempts PROVE f[i] = h[i]
    <3>1. CASE i = 0
      <4>1. h[i] = q
        BY <3>1
      <4>2. QED
        BY <1>4, <3>1, <4>1
    <3>2. CASE i # 0
      <4>1. i \in 1..Attempts /\ h[i] = expireForced(f[i - 1], now)
        BY <3>2, ShDictAssumption
      <4>2. QED
        BY <1>4, <4>1
    <3>3. QED
      BY <3>1, <3>2
  <2>2. QED
    BY <1>4, <2>1
<1>6. QED
  BY <1>5 DEF Tries

\* Every entry that a forced removal takes has expired, but for the coldest.
LEMMA ExpireForcedSpares ==
  ASSUME NEW E, NEW q \in Seq(E), NEW now
  PROVE  \E m \in 0..Len(q) : /\ expireForced(q, now) = SubSeq(q, 1, m)
                              /\ \A i \in (m + 1)..Len(q) : i = Len(q) \/ Expired(q[i], now)
<1>1. CASE q = <<>>
  <2>1. Len(q) = 0 /\ SubSeq(q, 1, 0) = q
    BY <1>1, SubSeqFull, EmptySeq
  <2>2. QED
    BY <1>1, <2>1 DEF expireForced
<1>2. CASE q # <<>>
  <2> DEFINE p == Front(q)
  <2>1. Len(q) - 1 \in 0..Len(q) /\ p = SubSeq(q, 1, Len(q) - 1)
    BY <1>2, EmptySeq DEF Front
  <2>2. p \in Seq(E) /\ Len(p) = Len(q) - 1 /\ \A i \in 1..Len(p) : p[i] = q[i]
    <3>1. PICK n \in 0..Len(q) : n = Len(q) - 1
      BY <2>1
    <3>2. QED
      BY <2>1, <3>1, PrefixOf
  <2>3. PICK m \in 0..Len(p) : /\ expireSome(p, now) = SubSeq(p, 1, m)
                               /\ \A i \in (m + 1)..Len(p) : Expired(p[i], now)
    BY <2>2, ExpireSomeTrims DEF Trim
  <2>4. expireForced(q, now) = SubSeq(q, 1, m) /\ m \in 0..Len(q)
    BY <1>2, <2>1, <2>2, <2>3, PrefixOfPrefix DEF expireForced, expireSome
  <2>5. ASSUME NEW i \in (m + 1)..Len(q), i # Len(q) PROVE Expired(q[i], now)
    BY <2>2, <2>3, <2>5
  <2>6. QED
    BY <2>4, <2>5
<1>3. QED
  BY <1>1, <1>2

\* What is left of the queue q, when what went and had not expired went
\* because there was no room for len units as long as it was there.
Spared(p, q, now, len) ==
    \A j \in (Len(p) + 1)..Len(q) : Expired(q[j], now) \/ ~Fits(SubSeq(q, 1, j), len)

\* The loop at the label insert.
LEMMA LoopCuts ==
  ASSUME NEW E, NEW q \in Seq(E), NEW now, NEW len, NEW i \in 0..Attempts,
         \A j \in 0..(i - 1) : ~Fits(Tries(q, now)[j], len)
  PROVE  Cut(Tries(q, now)[i], q) /\ Spared(Tries(q, now)[i], q, now, len)
<1> DEFINE f == Tries(q, now)
           S == {n \in Nat : n <= i => Cut(f[n], q) /\ Spared(f[n], q, now, len)}
<1>0. i \in Nat /\ Attempts \in Nat
  BY ShDictAssumption
<1>1. f[0] = q /\ \A n \in 1..Attempts : f[n] = expireForced(f[n - 1], now)
  BY <1>0, LoopDefined
<1> HIDE DEF f
<1>2. 0 \in S
  BY <1>1, WholePrefix DEF Spared
<1>3. ASSUME NEW n \in Nat, n \in S PROVE n + 1 \in S
  <2> SUFFICES ASSUME n + 1 <= i PROVE Cut(f[n + 1], q) /\ Spared(f[n + 1], q, now, len)
    OBVIOUS
  <2>1. n <= i /\ n + 1 \in 1..Attempts /\ n \in 0..(i - 1)
    BY <1>0
  <2>2. Cut(f[n], q) /\ Spared(f[n], q, now, len) /\ ~Fits(f[n], len)
    BY <1>3, <2>1 DEF f
  <2>3. PICK p : p = f[n]
    OBVIOUS
  <2>4. f[n + 1] = expireForced(p, now)
    BY <1>1, <2>1, <2>3
  <2>5. p \in Seq(E)
    BY <2>2, <2>3, CutKeeps
  <2>6. PICK k \in 0..Len(q) : p = SubSeq(q, 1, k)
    BY <2>2, <2>3 DEF Cut
  <2>7. Len(p) = k /\ \A j \in 1..k : p[j] = q[j]
    BY <2>6, PrefixOf
  <2>8. PICK m \in 0..Len(p) : /\ expireForced(p, now) = SubSeq(p, 1, m)
                               /\ \A j \in (m + 1)..Len(p) : j = Len(p) \/ Expired(p[j], now)
    BY <2>5, ExpireForcedSpares
  <2>9. f[n + 1] = SubSeq(q, 1, m) /\ m \in 0..Len(q)
    BY <2>4, <2>6, <2>7, <2>8, PrefixOfPrefix
  <2>10. Len(f[n + 1]) = m
    BY <2>9, PrefixOf
  <2>11. ASSUME NEW j \in (m + 1)..Len(q) PROVE Expired(q[j], now) \/ ~Fits(SubSeq(q, 1, j), len)
    <3>1. CASE j > k
      BY <2>2, <2>3, <2>7, <3>1 DEF Spared
    <3>2. CASE j = k
      BY <2>2, <2>3, <2>6, <3>2
    <3>3. CASE j < k
      BY <2>7, <2>8, <3>3
    <3>4. QED
      BY <3>1, <3>2, <3>3
  <2>12. QED
    BY <2>9, <2>10, <2>11 DEF Cut, Spared
<1>4. i \in S
  <2> HIDE DEF S
  <2>1. QED
    BY <1>0, <1>2, <1>3, NumbersBelong
<1>5. QED
  BY <1>0, <1>4 DEF f

\* The label insert: what it removes is at the cold end, and was in the way.
LEMMA InsertResult ==
  ASSUME NEW E, NEW q \in Seq(E), NEW now, NEW e
  PROVE  \E p : /\ Cut(p, q) /\ Spared(p, q, now, e.len)
                /\ \/ insert(q, now, e) = [q |-> p, rc |-> "no memory"]
                   \/ /\ insert(q, now, e) = [q |-> <<e>> \o p, rc |-> "ok"]
                      /\ Fits(p, e.len)
<1> DEFINE f == Tries(q, now)
           enough == {i \in 0..Attempts : Fits(f[i], e.len)}
           first == CHOOSE i \in enough : \A j \in enough : i <= j
<1>1. insert(q, now, e) = IF enough = {} THEN [q |-> f[Attempts], rc |-> "no memory"]
                          ELSE [q |-> <<e>> \o f[first], rc |-> "ok"]
  BY DEF insert, Tries
<1> HIDE DEF f
<1>2. CASE enough = {}
  <2>1. Attempts \in 0..Attempts /\ \A j \in 0..(Attempts - 1) : ~Fits(f[j], e.len)
    BY <1>2, ShDictAssumption
  <2>2. Cut(f[Attempts], q) /\ Spared(f[Attempts], q, now, e.len)
    BY <2>1, LoopCuts DEF f
  <2>3. QED
    BY <1>1, <1>2, <2>2
<1>3. CASE enough # {}
  <2>1. first \in enough /\ \A j \in enough : first <= j
    <3>1. enough \in SUBSET Nat
      BY ShDictAssumption
    <3>2. \E i \in enough : \A j \in enough : i <= j
      BY <1>3, <3>1, SmallestNumber
    <3>3. QED
      BY <3>2
  <2>2. first \in 0..Attempts /\ Fits(f[first], e.len)
    BY <2>1
  <2> HIDE DEF first
  <2>3. \A j \in 0..(first - 1) : ~Fits(f[j], e.len)
    BY <2>1, <2>2, ShDictAssumption
  <2>4. Cut(f[first], q) /\ Spared(f[first], q, now, e.len)
    BY <2>2, <2>3, LoopCuts DEF f
  <2>5. QED
    BY <1>1, <1>3, <2>2, <2>4
<1>4. QED
  BY <1>2, <1>3

-----------------------------------------------------------------------------

\* A queue as the dictionary keeps it, and the entries in it.
Queue(E, q) == q \in Seq(E) /\ Unique(q)
Entries(q) == {q[i] : i \in DOMAIN q}

\* The entry of a key is the only one with that key.
LEMMA TheEntry ==
  ASSUME NEW q, NEW k, Has(q, k)
  PROVE  /\ Place(q, k) \in DOMAIN q /\ EntryOf(q, k) \in Entries(q) /\ EntryOf(q, k).key = k
         /\ Unique(q) => \A i \in DOMAIN q : q[i].key = k => i = Place(q, k)
         /\ Unique(q) => \A e \in Entries(q) : e.key = k => e = EntryOf(q, k)
<1>1. Place(q, k) \in DOMAIN q /\ q[Place(q, k)].key = k
  BY DEF Has, Place
<1>2. Unique(q) => \A i \in DOMAIN q : q[i].key = k => i = Place(q, k)
  BY <1>1 DEF Unique
<1>3. QED
  BY <1>1, <1>2 DEF EntryOf, Entries

\* One entry taken out of a sequence.
LEMMA RemoveAtShifts ==
  ASSUME NEW E, NEW q \in Seq(E), NEW i \in 1..Len(q)
  PROVE  /\ RemoveAt(q, i) \in Seq(E) /\ Len(RemoveAt(q, i)) = Len(q) - 1
         /\ \A j \in 1..(Len(q) - 1) : RemoveAt(q, i)[j] = IF j < i THEN q[j] ELSE q[j + 1]
<1> DEFINE a == SubSeq(q, 1, i - 1)
           b == SubSeq(q, i + 1, Len(q))
<1>1. a \in Seq(E) /\ Len(a) = i - 1 /\ \A j \in 1..(i - 1) : a[j] = q[j]
  OBVIOUS
<1>2. b \in Seq(E) /\ Len(b) = Len(q) - i /\ \A j \in 1..(Len(q) - i) : b[j] = q[i + j]
  OBVIOUS
<1>3. RemoveAt(q, i) = a \o b
  BY DEF RemoveAt
<1> HIDE DEF a, b
<1>4. a \o b \in Seq(E) /\ Len(a \o b) = Len(q) - 1
  <2>1. a \o b \in Seq(E) /\ Len(a \o b) = Len(a) + Len(b)
    BY <1>1, <1>2, ConcatProperties
  <2>2. Len(q) \in Nat
    OBVIOUS
  <2>3. QED
    BY <1>1, <1>2, <2>1, <2>2
<1>5. ASSUME NEW j \in 1..(Len(q) - 1) PROVE (a \o b)[j] = IF j < i THEN q[j] ELSE q[j + 1]
  <2>1. j \in 1..(Len(a) + Len(b))
    BY <1>1, <1>2
  <2>2. (a \o b)[j] = IF j <= Len(a) THEN a[j] ELSE b[j - Len(a)]
    BY <1>1, <1>2, <2>1, ConcatProperties
  <2>3. CASE j < i
    BY <1>1, <2>2, <2>3
  <2>4. CASE ~(j < i)
    <3>1. j - Len(a) \in 1..(Len(q) - i) /\ i + (j - Len(a)) = j + 1 /\ ~(j <= Len(a))
      BY <1>1, <2>4
    <3>2. QED
      BY <1>2, <2>2, <2>4, <3>1
  <2>5. QED
    BY <2>3, <2>4
<1>6. QED
  BY <1>3, <1>4, <1>5

\* A key taken out of the queue; everything else stays.
LEMMA WithoutResult ==
  ASSUME NEW E, NEW q, Queue(E, q), NEW k
  PROVE  /\ Queue(E, Without(q, k))
         /\ Entries(Without(q, k)) = {e \in Entries(q) : e.key # k}
<1>1. CASE ~Has(q, k)
  BY <1>1 DEF Without, Has, Entries
<1>2. CASE Has(q, k)
  <2> DEFINE i == Place(q, k)
             p == RemoveAt(q, i)
  <2>0. q \in Seq(E) /\ DOMAIN q = 1..Len(q) /\ Len(q) \in Nat
    BY DEF Queue
  <2>1. i \in 1..Len(q) /\ q[i].key = k /\ \A j \in 1..Len(q) : q[j].key = k => j = i
    BY <1>2, <2>0, TheEntry DEF Queue, EntryOf
  <2> HIDE DEF i
  <2>2. /\ p \in Seq(E) /\ Len(p) = Len(q) - 1
        /\ \A j \in 1..(Len(q) - 1) : p[j] = IF j < i THEN q[j] ELSE q[j + 1]
    BY <2>0, <2>1, RemoveAtShifts
  <2> HIDE DEF p
  <2>3. DOMAIN p = 1..(Len(q) - 1)
    BY <2>2
  <2>4. Without(q, k) = p
    BY <1>2 DEF Without, p, i
  <2> DEFINE from(j) == IF j < i THEN j ELSE j + 1
  <2>5. \A j \in DOMAIN p : from(j) \in 1..Len(q) /\ from(j) # i /\ p[j] = q[from(j)]
    BY <2>0, <2>1, <2>2, <2>3
  <2>6. Unique(p)
    <3>1. SUFFICES ASSUME NEW j \in DOMAIN p, NEW l \in DOMAIN p, p[j].key = p[l].key PROVE j = l
      BY DEF Unique
    <3>2. q[from(j)].key = q[from(l)].key
      BY <2>5, <3>1
    <3>3. from(j) = from(l)
      BY <2>0, <2>5, <3>2 DEF Queue, Unique
    <3>4. QED
      BY <2>0, <2>1, <2>3, <3>3
  <2>7. ASSUME NEW e \in Entries(p) PROVE e \in Entries(q) /\ e.key # k
    BY <2>0, <2>1, <2>5 DEF Entries
  <2>8. ASSUME NEW e \in Entries(q), e.key # k PROVE e \in Entries(p)
    <3>1. PICK j \in 1..Len(q) : e = q[j]
      BY <2>0 DEF Entries
    <3>2. j # i
      BY <2>1, <2>8, <3>1
    <3>3. CASE j < i
      BY <2>0, <2>1, <2>2, <2>3, <3>1, <3>3 DEF Entries
    <3>4. CASE j > i
      <4>1. j - 1 \in 1..(Len(q) - 1) /\ p[j - 1] = q[j]
        BY <2>0, <2>1, <2>2, <3>4
      <4>2. QED
        BY <2>3, <3>1, <4>1 DEF Entries
    <3>5. QED
      BY <2>0, <2>1, <3>2, <3>3, <3>4
  <2>9. QED
    BY <2>2, <2>4, <2>6, <2>7, <2>8 DEF Queue
<1>3. QED
  BY <1>1, <1>2

\* An entry put at the hot end of a queue that lacks its key.
LEMMA FrontResult ==
  ASSUME NEW E, NEW q, Queue(E, q), NEW e \in E, ~Has(q, e.key)
  PROVE  Queue(E, <<e>> \o q) /\ Entries(<<e>> \o q) = {e} \cup Entries(q)
<1> DEFINE p == <<e>> \o q
<1>0. q \in Seq(E) /\ DOMAIN q = 1..Len(q) /\ Len(q) \in Nat
  BY DEF Queue
<1>1. /\ p \in Seq(E) /\ Len(p) = Len(q) + 1 /\ DOMAIN p = 1..(Len(q) + 1)
      /\ p[1] = e /\ \A j \in 2..(Len(q) + 1) : p[j] = q[j - 1]
  BY <1>0
<1> HIDE DEF p
<1>2. \A j \in 1..Len(q) : q[j].key # e.key
  BY <1>0 DEF Has
<1>3. Unique(p)
  <2>1. SUFFICES ASSUME NEW i \in 1..(Len(q) + 1), NEW j \in 1..(Len(q) + 1), p[i].key = p[j].key
                 PROVE  i = j
    BY <1>1 DEF Unique
  <2>2. CASE i = 1 /\ j = 1
    BY <2>2
  <2>3. CASE i = 1 /\ j # 1
    <3>1. j - 1 \in 1..Len(q) /\ p[j] = q[j - 1]
      BY <1>0, <1>1, <2>3
    <3>2. QED
      BY <1>1, <1>2, <2>1, <2>3, <3>1
  <2>4. CASE i # 1 /\ j = 1
    <3>1. i - 1 \in 1..Len(q) /\ p[i] = q[i - 1]
      BY <1>0, <1>1, <2>4
    <3>2. QED
      BY <1>1, <1>2, <2>1, <2>4, <3>1
  <2>5. CASE i # 1 /\ j # 1
    <3>1. i - 1 \in 1..Len(q) /\ p[i] = q[i - 1] /\ j - 1 \in 1..Len(q) /\ p[j] = q[j - 1]
      BY <1>0, <1>1, <2>5
    <3>2. i - 1 = j - 1
      BY <1>0, <2>1, <3>1 DEF Queue, Unique
    <3>3. QED
      BY <1>0, <3>2
  <2>6. QED
    BY <2>2, <2>3, <2>4, <2>5
<1>4. Entries(p) = {e} \cup Entries(q)
  <2>1. ASSUME NEW x \in Entries(p) PROVE x \in {e} \cup Entries(q)
    <3>1. PICK j \in 1..(Len(q) + 1) : x = p[j]
      BY <1>1 DEF Entries
    <3>2. CASE j = 1
      BY <1>1, <3>1, <3>2
    <3>3. CASE j # 1
      <4>1. j - 1 \in 1..Len(q) /\ p[j] = q[j - 1]
        BY <1>0, <1>1, <3>3
      <4>2. QED
        BY <1>0, <3>1, <4>1 DEF Entries
    <3>4. QED
      BY <3>2, <3>3
  <2>2. e \in Entries(p)
    BY <1>0, <1>1 DEF Entries
  <2>3. ASSUME NEW x \in Entries(q) PROVE x \in Entries(p)
    <3>1. PICK j \in 1..Len(q) : x = q[j]
      BY <1>0 DEF Entries
    <3>2. j + 1 \in 1..(Len(q) + 1) /\ p[j + 1] = q[j]
      BY <1>0, <1>1
    <3>3. QED
      BY <1>1, <3>1, <3>2 DEF Entries
  <2>4. QED
    BY <2>1, <2>2, <2>3
<1>5. QED
  BY <1>1, <1>3, <1>4 DEF Queue, p

\* Shortening a queue.
LEMMA CutResult ==
  ASSUME NEW E, NEW q, Queue(E, q), NEW p, Cut(p, q)
  PROVE  Queue(E, p) /\ Entries(p) \subseteq Entries(q)
<1>1. PICK n \in 0..Len(q) : p = SubSeq(q, 1, n)
  BY DEF Cut
<1>2. q \in Seq(E) /\ DOMAIN p = 1..n /\ \A i \in 1..n : p[i] = q[i]
  BY <1>1, PrefixOf DEF Queue
<1>3. DOMAIN p \subseteq DOMAIN q
  BY <1>2
<1>4. Entries(p) \subseteq Entries(q)
  BY <1>2, <1>3 DEF Entries
<1>5. QED
  BY <1>4, CutKeeps DEF Queue

\* ngx_http_lua_shdict_expire(ctx, 1) takes nothing that has not expired.
LEMMA ExpireSomeResult ==
  ASSUME NEW E, NEW q, Queue(E, q), NEW now
  PROVE  /\ Queue(E, expireSome(q, now))
         /\ Entries(expireSome(q, now)) \subseteq Entries(q)
         /\ \A e \in Entries(q) : e \in Entries(expireSome(q, now)) \/ Expired(e, now)
<1> DEFINE p == expireSome(q, now)
<1>0. q \in Seq(E)
  BY DEF Queue
<1>1. Trim(p, q, now)
  BY <1>0, ExpireSomeTrims
<1> HIDE DEF p
<1>2. Queue(E, p) /\ Entries(p) \subseteq Entries(q)
  BY <1>1, TrimIsCut, CutResult
<1>3. PICK n \in 0..Len(q) : p = SubSeq(q, 1, n) /\ \A i \in (n + 1)..Len(q) : Expired(q[i], now)
  BY <1>1 DEF Trim
<1>4. DOMAIN p = 1..n /\ \A i \in 1..n : p[i] = q[i]
  BY <1>0, <1>3, PrefixOf
<1>5. ASSUME NEW e \in Entries(q), ~Expired(e, now) PROVE e \in Entries(p)
  <2>1. PICK i \in 1..Len(q) : e = q[i]
    BY <1>0 DEF Entries
  <2>2. i \in 1..n
    BY <1>0, <1>3, <1>5, <2>1
  <2>3. QED
    BY <1>4, <2>1, <2>2 DEF Entries
<1>6. QED
  BY <1>2, <1>5 DEF p

\* A key is there when an entry has it.
LEMMA HasEntry ==
  ASSUME NEW q, NEW k
  PROVE  Has(q, k) <=> \E e \in Entries(q) : e.key = k
BY DEF Has, Entries

\* An entry replaced, at the hot end.
LEMMA ToFrontResult ==
  ASSUME NEW E, NEW q, Queue(E, q), NEW e \in E
  PROVE  /\ Queue(E, ToFront(q, e))
         /\ Entries(ToFront(q, e)) = {e} \cup {x \in Entries(q) : x.key # e.key}
<1> DEFINE p == Without(q, e.key)
<1>1. Queue(E, p) /\ Entries(p) = {x \in Entries(q) : x.key # e.key}
  BY WithoutResult
<1> HIDE DEF p
<1>2. ~Has(p, e.key)
  BY <1>1, HasEntry
<1>3. ToFront(q, e) = <<e>> \o p
  BY DEF ToFront, p
<1>4. QED
  BY <1>1, <1>2, <1>3, FrontResult

\* The entries of a queue.
LEMMA EntriesOf ==
  ASSUME NEW E, NEW q, Queue(E, q)
  PROVE  Entries(q) \subseteq E
BY DEF Queue, Entries

\* A lookup moves an entry, and changes none.
LEMMA TouchResult ==
  ASSUME NEW E, NEW q, Queue(E, q), NEW now, NEW k
  PROVE  Queue(E, Touch(q, now, k)) /\ Entries(Touch(q, now, k)) = Entries(q)
<1>1. CASE lookup(q, now, k) # "ok"
  BY <1>1 DEF Touch
<1>2. CASE lookup(q, now, k) = "ok"
  <2>1. Has(q, k)
    BY <1>2 DEF lookup
  <2>2. PICK e : e = EntryOf(q, k)
    OBVIOUS
  <2>3. e \in Entries(q) /\ e.key = k /\ \A x \in Entries(q) : x.key = k => x = e
    BY <2>1, <2>2, TheEntry DEF Queue
  <2>4. e \in E /\ Touch(q, now, k) = ToFront(q, e)
    BY <1>2, <2>2, <2>3, EntriesOf DEF Touch
  <2>5. /\ Queue(E, ToFront(q, e))
        /\ Entries(ToFront(q, e)) = {e} \cup {x \in Entries(q) : x.key # e.key}
    BY <2>4, ToFrontResult
  <2>6. {e} \cup {x \in Entries(q) : x.key # e.key} = Entries(q)
    BY <2>3
  <2>7. QED
    BY <2>4, <2>5, <2>6
<1>3. QED
  BY <1>1, <1>2

\* ngx_http_lua_ffi_shdict_get takes nothing that has not expired.
LEMMA GetResult ==
  ASSUME NEW E, NEW q, Queue(E, q), NEW now, NEW k
  PROVE  /\ Queue(E, getQueue(q, now, k))
         /\ Entries(getQueue(q, now, k)) \subseteq Entries(q)
         /\ \A e \in Entries(q) : e \in Entries(getQueue(q, now, k)) \/ Expired(e, now)
<1> DEFINE p == expireSome(q, now)
<1>1. /\ Queue(E, p) /\ Entries(p) \subseteq Entries(q)
      /\ \A e \in Entries(q) : e \in Entries(p) \/ Expired(e, now)
  BY ExpireSomeResult
<1> HIDE DEF p
<1>2. Queue(E, Touch(p, now, k)) /\ Entries(Touch(p, now, k)) = Entries(p)
  BY <1>1, TouchResult
<1>3. getQueue(q, now, k) = Touch(p, now, k)
  BY DEF getQueue, p
<1>4. QED
  BY <1>1, <1>2, <1>3

\* A store leaves entries that were there before, and the one it is for.
LEMMA StoreResult ==
  ASSUME NEW E, NEW q0, Queue(E, q0), NEW now, NEW op, op # "delete", NEW k, NEW v, NEW len, NEW ttl,
         Entry(k, v, len, IF ttl > 0 THEN now + ttl ELSE 0) \in E
  PROVE  /\ Queue(E, store(q0, now, op, k, v, len, ttl).q)
         /\ Entries(store(q0, now, op, k, v, len, ttl).q)
              \subseteq Entries(q0) \cup {Entry(k, v, len, IF ttl > 0 THEN now + ttl ELSE 0)}
<1> DEFINE q == getQueue(q0, now, k)
           e == Entry(k, v, len, IF ttl > 0 THEN now + ttl ELSE 0)
           res == store(q0, now, op, k, v, len, ttl)
<1>1. Queue(E, q) /\ Entries(q) \subseteq Entries(q0)
  BY GetResult
<1>2. e \in E /\ e.key = k /\ e.len = len
  BY DEF Entry
<1>3. \/ res.q = q
      \/ res.q = ToFront(q, e)
      \/ res = insert(Without(q, k), now, e)
  BY DEF store, getQueue
<1> HIDE DEF q, e, res
<1>4. CASE res.q = q
  BY <1>1, <1>4 DEF res, e
<1>5. CASE res.q = ToFront(q, e)
  <2>1. Queue(E, ToFront(q, e)) /\ Entries(ToFront(q, e)) \subseteq {e} \cup Entries(q)
    BY <1>1, <1>2, ToFrontResult
  <2>2. QED
    BY <1>1, <1>5, <2>1 DEF res, e
<1>6. CASE res = insert(Without(q, k), now, e)
  <2>1. PICK o : o = Without(q, k)
    OBVIOUS
  <2>2. Queue(E, o) /\ Entries(o) = {x \in Entries(q) : x.key # k}
    BY <1>1, <2>1, WithoutResult
  <2>3. PICK p : /\ Cut(p, o)
                 /\ \/ res = [q |-> p, rc |-> "no memory"]
                    \/ res = [q |-> <<e>> \o p, rc |-> "ok"]
    BY <1>6, <2>1, <2>2, InsertResult DEF Queue
  <2>4. Queue(E, p) /\ Entries(p) \subseteq Entries(o)
    BY <2>2, <2>3, CutResult
  <2>5. ~Has(p, e.key)
    BY <1>2, <2>2, <2>4, HasEntry
  <2>6. Queue(E, <<e>> \o p) /\ Entries(<<e>> \o p) = {e} \cup Entries(p)
    BY <1>2, <2>4, <2>5, FrontResult
  <2>7. res.q = p \/ res.q = <<e>> \o p
    <3>1. CASE res = [q |-> p, rc |-> "no memory"]
      BY <3>1
    <3>2. CASE res = [q |-> <<e>> \o p, rc |-> "ok"]
      BY <3>2
    <3>3. QED
      BY <2>3, <3>1, <3>2
  <2>8. Queue(E, res.q) /\ Entries(res.q) \subseteq Entries(q0) \cup {e}
    BY <1>1, <2>2, <2>4, <2>6, <2>7
  <2>9. QED
    BY <2>8 DEF res, e
<1>7. QED
  BY <1>3, <1>4, <1>5, <1>6

\* After a set the key has the new entry or none, and no older one.
LEMMA StoreReplaces ==
  ASSUME NEW E, NEW q0, Queue(E, q0), NEW now, NEW k, NEW v, NEW len, NEW ttl,
         Entry(k, v, len, IF ttl > 0 THEN now + ttl ELSE 0) \in E
  PROVE  \A x \in Entries(store(q0, now, "set", k, v, len, ttl).q) :
           x.key = k => x = Entry(k, v, len, IF ttl > 0 THEN now + ttl ELSE 0)
<1> DEFINE q == getQueue(q0, now, k)
           e == Entry(k, v, len, IF ttl > 0 THEN now + ttl ELSE 0)
           res == store(q0, now, "set", k, v, len, ttl)
<1>1. Queue(E, q)
  BY GetResult
<1>2. e \in E /\ e.key = k
  BY DEF Entry
<1>3. res.q = ToFront(q, e) \/ res = insert(Without(q, k), now, e)
  BY DEF store, getQueue
<1> HIDE DEF q, e, res
<1>4. CASE res.q = ToFront(q, e)
  <2>1. Entries(ToFront(q, e)) = {e} \cup {x \in Entries(q) : x.key # e.key}
    BY <1>1, <1>2, ToFrontResult
  <2>2. QED
    BY <1>2, <1>4, <2>1 DEF res, e
<1>5. CASE res = insert(Without(q, k), now, e)
  <2>1. PICK o : o = Without(q, k)
    OBVIOUS
  <2>2. Queue(E, o) /\ Entries(o) = {x \in Entries(q) : x.key # k}
    BY <1>1, <2>1, WithoutResult
  <2>3. PICK p : /\ Cut(p, o)
                 /\ \/ res = [q |-> p, rc |-> "no memory"]
                    \/ res = [q |-> <<e>> \o p, rc |-> "ok"]
    BY <1>5, <2>1, <2>2, InsertResult DEF Queue
  <2>4. Queue(E, p) /\ Entries(p) \subseteq Entries(o)
    BY <2>2, <2>3, CutResult
  <2>5. ~Has(p, e.key)
    BY <1>2, <2>2, <2>4, HasEntry
  <2>6. Entries(<<e>> \o p) = {e} \cup Entries(p)
    BY <1>2, <2>4, <2>5, FrontResult
  <2>7. res.q = p \/ res.q = <<e>> \o p
    <3>1. CASE res = [q |-> p, rc |-> "no memory"]
      BY <3>1
    <3>2. CASE res = [q |-> <<e>> \o p, rc |-> "ok"]
      BY <3>2
    <3>3. QED
      BY <2>3, <3>1, <3>2
  <2>8. \A x \in Entries(res.q) : x.key = k => x = e
    BY <2>2, <2>4, <2>6, <2>7
  <2>9. QED
    BY <2>8 DEF res, e
<1>6. QED
  BY <1>3, <1>4, <1>5

\* A delete takes one key and what has expired.
LEMMA DeleteResult ==
  ASSUME NEW E, NEW q0, Queue(E, q0), NEW now, NEW k, NEW v, NEW len, NEW ttl
  PROVE  /\ Queue(E, store(q0, now, "delete", k, v, len, ttl).q)
         /\ Entries(store(q0, now, "delete", k, v, len, ttl).q) \subseteq Entries(q0)
         /\ \A e \in Entries(q0) : \/ e \in Entries(store(q0, now, "delete", k, v, len, ttl).q)
                                   \/ Expired(e, now) \/ e.key = k
<1> DEFINE q == getQueue(q0, now, k)
<1>1. /\ Queue(E, q) /\ Entries(q) \subseteq Entries(q0)
      /\ \A e \in Entries(q0) : e \in Entries(q) \/ Expired(e, now)
  BY GetResult
<1>2. store(q0, now, "delete", k, v, len, ttl).q = Without(q, k)
  BY DEF store, getQueue
<1> HIDE DEF q
<1>3. Queue(E, Without(q, k)) /\ Entries(Without(q, k)) = {e \in Entries(q) : e.key # k}
  BY <1>1, WithoutResult
<1>4. QED
  BY <1>1, <1>2, <1>3

-----------------------------------------------------------------------------

\* A family of sets that has a subset of D as soon as it has all that lack
\* one element less has all subsets of D.
LEMMA SubsetsBelong ==
  ASSUME NEW D, IsFiniteSet(D), NEW W,
         \A s \in SUBSET D : (\A x \in s : s \ {x} \in W) => s \in W
  PROVE  \A s \in SUBSET D : s \in W
<1> DEFINE S == {n \in Nat : \A s \in SUBSET D : Cardinality(s) = n => s \in W}
<1>1. \A s \in SUBSET D : IsFiniteSet(s) /\ Cardinality(s) \in Nat
  BY FS_Subset, FS_CardinalityType
<1>2. 0 \in S
  <2>1. ASSUME NEW s \in SUBSET D, Cardinality(s) = 0 PROVE s \in W
    <3>1. s = {}
      BY <1>1, <2>1, FS_EmptySet
    <3>2. QED
      BY <3>1
  <2>2. QED
    BY <2>1
<1>3. ASSUME NEW n \in Nat, n \in S PROVE n + 1 \in S
  <2>1. ASSUME NEW s \in SUBSET D, Cardinality(s) = n + 1 PROVE s \in W
    <3>1. ASSUME NEW x \in s PROVE s \ {x} \in W
      <4>1. Cardinality(s \ {x}) = n
        BY <1>1, <2>1, <3>1, FS_RemoveElement
      <4>2. QED
        BY <1>3, <4>1
    <3>2. QED
      BY <3>1
  <2>2. QED
    BY <2>1
<1>4. \A n \in Nat : n \in S
  <2> HIDE DEF S
  <2>1. QED
    BY <1>2, <1>3, NumbersBelong
<1>5. QED
  BY <1>1, <1>4

\* The memory of the entries at the places of a set s, as the fold of Used
\* adds it up.
Pick(s) == CHOOSE x \in s : TRUE
Less(s, x) == s \ {x}
Part(q, D) == CHOOSE f : f = [s \in SUBSET D |->
                                IF s = {} THEN 0 ELSE q[Pick(s)].len + f[Less(s, Pick(s))]]
Total(q, D) == Part(q, D)[D]

\* The memory of a queue as the fold over its places.
LEMMA UsedIsTotal ==
  ASSUME NEW q
  PROVE  Used(q) = Total(q, DOMAIN q)
BY DEF Used, FoldSeq, FoldFunction, FoldFunctionOnSet, MapThenFoldSet, Part, Pick, Less, Total

\* The fold has a result.
LEMMA PartDefined ==
  ASSUME NEW q, NEW D, IsFiniteSet(D)
  PROVE  /\ Part(q, D)[{}] = 0
         /\ \A s \in SUBSET D : s # {} =>
              /\ Pick(s) \in s
              /\ Part(q, D)[s] = q[Pick(s)].len + Part(q, D)[Less(s, Pick(s))]
<1> DEFINE Small(n) == {s \in SUBSET D : Cardinality(s) <= n}
           Body(f, s) == IF s = {} THEN 0 ELSE q[Pick(s)].len + f[Less(s, Pick(s))]
           Good(f, n) == f = [s \in Small(n) |-> f[s]] /\ \A s \in Small(n) : f[s] = Body(f, s)
           S == {n \in Nat : \E f : Good(f, n)}
<1>1. \A s \in SUBSET D : IsFiniteSet(s) /\ Cardinality(s) \in Nat
  BY FS_Subset, FS_CardinalityType
<1>2. \A s \in SUBSET D : s # {} => Pick(s) \in s
  BY DEF Pick
<1>3. ASSUME NEW n \in Nat, NEW s \in Small(n), s # {} PROVE Less(s, Pick(s)) \in Small(n - 1)
  <2>1. Cardinality(Less(s, Pick(s))) = Cardinality(s) - 1
    BY <1>1, <1>2, <1>3, FS_RemoveElement DEF Less
  <2>2. Less(s, Pick(s)) \in SUBSET D
    BY DEF Less
  <2>3. QED
    BY <1>1, <1>3, <2>1, <2>2
<1>4. 0 \in S
  <2> DEFINE g == [s \in Small(0) |-> 0]
  <2>1. ASSUME NEW s \in Small(0) PROVE s = {}
    BY <1>1, FS_EmptySet
  <2>2. \A s \in Small(0) : g[s] = Body(g, s)
    BY <2>1
  <2>3. Good(g, 0)
    BY <2>2
  <2>4. \E f : Good(f, 0)
    <3> HIDE DEF g
    <3>1. QED
      BY <2>3
  <2>5. QED
    <3> HIDE DEF Good
    <3>1. QED
      BY <2>4
<1>5. ASSUME NEW n \in Nat, n \in S PROVE n + 1 \in S
  <2>1. PICK f : Good(f, n)
    BY <1>5
  <2> DEFINE g == [s \in Small(n + 1) |-> Body(f, s)]
  <2>2. ASSUME NEW s \in Small(n) PROVE s \in Small(n + 1) /\ g[s] = f[s]
    <3>1. s \in Small(n + 1)
      BY <1>1
    <3>2. QED
      BY <2>1, <3>1
  <2>3. ASSUME NEW s \in Small(n + 1) PROVE g[s] = Body(g, s)
    <3>1. CASE s = {}
      BY <3>1
    <3>2. CASE s # {}
      <4>1. Less(s, Pick(s)) \in Small(n)
        BY <1>3, <3>2
      <4>2. g[Less(s, Pick(s))] = f[Less(s, Pick(s))]
        BY <2>2, <4>1
      <4>3. g[s] = q[Pick(s)].len + f[Less(s, Pick(s))]
        BY <3>2
      <4>4. QED
        BY <3>2, <4>2, <4>3
    <3>3. QED
      BY <3>1, <3>2
  <2>4. g = [s \in Small(n + 1) |-> g[s]]
    OBVIOUS
  <2>5. \E h : Good(h, n + 1)
    <3> HIDE DEF g
    <3>1. QED
      BY <2>3, <2>4
  <2>6. QED
    <3> HIDE DEF Good
    <3>1. QED
      BY <2>5
<1>6. Cardinality(D) \in S
  <2> HIDE DEF S
  <2>1. QED
    BY <1>1, <1>4, <1>5, NumbersBelong
<1>7. PICK f : Good(f, Cardinality(D))
  BY <1>6
<1>8. Small(Cardinality(D)) = SUBSET D
  BY FS_Subset
<1>9. f = [s \in SUBSET D |-> Body(f, s)]
  BY <1>7, <1>8
<1>10. Part(q, D) = [s \in SUBSET D |-> Body(Part(q, D), s)]
  BY <1>9 DEF Part
<1>11. PICK F : F = Part(q, D)
  OBVIOUS
<1>12. F = [s \in SUBSET D |-> Body(F, s)]
  BY <1>10, <1>11
<1>13. F[{}] = 0
  BY <1>12
<1>14. ASSUME NEW s \in SUBSET D, s # {} PROVE F[s] = q[Pick(s)].len + F[Less(s, Pick(s))]
  BY <1>12, <1>14
<1>15. QED
  BY <1>2, <1>11, <1>13, <1>14

\* The lengths of the entries at the places of D are numbers.
Sized(q, D) == IsFiniteSet(D) /\ \A i \in D : q[i].len \in Nat

\* Sizes are numbers.
LEMMA PartNat ==
  ASSUME NEW q, NEW D, Sized(q, D)
  PROVE  \A s \in SUBSET D : Part(q, D)[s] \in Nat
<1> DEFINE F == Part(q, D)
           W == {s \in SUBSET D : F[s] \in Nat}
<1>1. /\ F[{}] = 0
      /\ \A s \in SUBSET D : s # {} => Pick(s) \in s /\ F[s] = q[Pick(s)].len + F[Less(s, Pick(s))]
  BY PartDefined DEF Sized
<1> HIDE DEF F
<1>2. ASSUME NEW s \in SUBSET D, \A x \in s : s \ {x} \in W PROVE s \in W
  <2>1. CASE s = {}
    BY <1>1, <2>1
  <2>2. CASE s # {}
    <3>1. Pick(s) \in s /\ F[s] = q[Pick(s)].len + F[Less(s, Pick(s))]
      BY <1>1, <2>2
    <3>2. F[Less(s, Pick(s))] \in Nat /\ q[Pick(s)].len \in Nat
      BY <1>2, <3>1 DEF Sized, Less
    <3>3. QED
      BY <3>1, <3>2
  <2>3. QED
    BY <2>1, <2>2
<1>3. \A s \in SUBSET D : s \in W
  <2> HIDE DEF W
  <2>1. QED
    BY <1>2, SubsetsBelong DEF Sized
<1>4. QED
  BY <1>3 DEF F

\* The order in which the fold takes the entries does not matter.
LEMMA PartAny ==
  ASSUME NEW q, NEW D, Sized(q, D)
  PROVE  \A s \in SUBSET D : \A x \in s : Part(q, D)[s] = q[x].len + Part(q, D)[Less(s, x)]
<1> DEFINE F == Part(q, D)
           W == {s \in SUBSET D : \A x \in s : F[s] = q[x].len + F[Less(s, x)]}
<1>1. \A s \in SUBSET D : s # {} => Pick(s) \in s /\ F[s] = q[Pick(s)].len + F[Less(s, Pick(s))]
  BY PartDefined DEF Sized
<1>2. \A s \in SUBSET D : F[s] \in Nat
  BY PartNat
<1>3. \A x \in D : q[x].len \in Nat
  BY DEF Sized
<1> HIDE DEF F
<1>4. ASSUME NEW s \in SUBSET D, \A x \in s : s \ {x} \in W PROVE s \in W
  <2>1. SUFFICES ASSUME NEW x \in s PROVE F[s] = q[x].len + F[Less(s, x)]
    OBVIOUS
  <2>2. PICK y : y = Pick(s)
    OBVIOUS
  <2>3. y \in s /\ F[s] = q[y].len + F[Less(s, y)]
    BY <1>1, <2>1, <2>2
  <2>4. CASE x = y
    BY <2>3, <2>4
  <2>5. CASE x # y
    <3>1. F[Less(s, y)] = q[x].len + F[Less(Less(s, y), x)]
      BY <1>4, <2>1, <2>3, <2>5 DEF Less
    <3>2. F[Less(s, x)] = q[y].len + F[Less(Less(s, x), y)]
      BY <1>4, <2>1, <2>3, <2>5 DEF Less
    <3>3. Less(Less(s, y), x) = Less(Less(s, x), y)
      BY DEF Less
    <3>4. PICK r \in SUBSET D : r = Less(Less(s, x), y)
      BY DEF Less
    <3>5. F[r] \in Nat /\ q[x].len \in Nat /\ q[y].len \in Nat
      BY <1>2, <1>3, <2>1, <2>3, <3>4
    <3>6. F[Less(s, y)] = q[x].len + F[r] /\ F[Less(s, x)] = q[y].len + F[r]
      BY <3>1, <3>2, <3>3, <3>4
    <3>7. F[s] = q[y].len + (q[x].len + F[r])
      BY <2>3, <3>6
    <3>8. q[y].len + (q[x].len + F[r]) = q[x].len + (q[y].len + F[r])
      BY <3>5
    <3>9. QED
      BY <3>6, <3>7, <3>8
  <2>6. QED
    BY <2>4, <2>5
<1>5. \A s \in SUBSET D : s \in W
  <2> HIDE DEF W
  <2>1. QED
    BY <1>4, SubsetsBelong DEF Sized
<1>6. QED
  BY <1>5 DEF F

\* The places g moves s to.
Moved(g, s) == {g[x] : x \in s}

\* Entries of the same lengths, at other places of another queue, are as long.
LEMMA PartMoved ==
  ASSUME NEW q, NEW D, Sized(q, D), NEW p, NEW C, Sized(p, C), NEW g \in [D -> C],
         \A x, y \in D : g[x] = g[y] => x = y, \A x \in D : p[g[x]].len = q[x].len
  PROVE  \A s \in SUBSET D : Part(q, D)[s] = Part(p, C)[Moved(g, s)]
<1> DEFINE F == Part(q, D)
           G == Part(p, C)
           Im(s) == Moved(g, s)
           W == {s \in SUBSET D : F[s] = G[Im(s)]}
<1>1. F[{}] = 0 /\ G[{}] = 0
  BY PartDefined DEF Sized
<1>2. \A s \in SUBSET D : \A x \in s : F[s] = q[x].len + F[Less(s, x)]
  BY PartAny
<1>3. \A s \in SUBSET C : \A x \in s : G[s] = p[x].len + G[Less(s, x)]
  BY PartAny
<1> HIDE DEF F, G
<1>4. ASSUME NEW s \in SUBSET D, \A x \in s : s \ {x} \in W PROVE s \in W
  <2>1. CASE s = {}
    <3>1. Im(s) = {}
      BY <2>1 DEF Moved
    <3>2. QED
      BY <1>1, <2>1, <3>1
  <2>2. CASE s # {}
    <3>1. PICK x \in s : TRUE
      BY <2>2
    <3>2. F[s] = q[x].len + F[Less(s, x)] /\ F[Less(s, x)] = G[Im(Less(s, x))]
      BY <1>2, <1>4, <3>1 DEF Less
    <3>3. Im(Less(s, x)) = Less(Im(s), g[x]) /\ g[x] \in Im(s) /\ Im(s) \in SUBSET C
      BY <3>1 DEF Less, Moved
    <3>4. G[Im(s)] = p[g[x]].len + G[Less(Im(s), g[x])]
      BY <1>3, <3>3
    <3>5. p[g[x]].len = q[x].len
      BY <3>1
    <3>6. QED
      BY <3>2, <3>3, <3>4, <3>5
  <2>3. QED
    BY <2>1, <2>2
<1>5. \A s \in SUBSET D : s \in W
  <2> HIDE DEF W
  <2>1. QED
    BY <1>4, SubsetsBelong DEF Sized
<1>6. QED
  BY <1>5 DEF F, G

-----------------------------------------------------------------------------

\* The same for whole sets.
Moves(g, q, D, p, C) == /\ g \in [D -> C] /\ \A x, y \in D : g[x] = g[y] => x = y
                        /\ \A x \in D : p[g[x]].len = q[x].len
                        /\ \A z \in C : \E x \in D : g[x] = z
\* The same entries at other places take the same memory.
LEMMA TotalMoved ==
  ASSUME NEW q, NEW D, Sized(q, D), NEW p, NEW C, Sized(p, C), NEW g, Moves(g, q, D, p, C)
  PROVE  Total(q, D) = Total(p, C)
<1>1. D \in SUBSET D /\ Moved(g, D) = C
  BY DEF Moved, Moves
<1>2. Part(q, D)[D] = Part(p, C)[Moved(g, D)]
  BY <1>1, PartMoved DEF Moves
<1>3. QED
  BY <1>1, <1>2 DEF Total

\* The part of a fold is the fold of the part.
LEMMA PartIsTotal ==
  ASSUME NEW q, NEW D, Sized(q, D), NEW s \in SUBSET D
  PROVE  Sized(q, s) /\ Part(q, D)[s] = Total(q, s)
<1>1. Sized(q, s)
  BY FS_Subset DEF Sized
<1> DEFINE g == [x \in s |-> x]
<1>2. g \in [s -> D] /\ (\A x, y \in s : g[x] = g[y] => x = y) /\ \A x \in s : q[g[x]].len = q[x].len
  OBVIOUS
<1>3. Moved(g, s) = s /\ s \in SUBSET s
  BY DEF Moved
<1> HIDE DEF g
<1>4. \A t \in SUBSET s : Part(q, s)[t] = Part(q, D)[Moved(g, t)]
  BY <1>1, <1>2, PartMoved
<1>5. QED
  BY <1>1, <1>3, <1>4 DEF Total

\* Adding up: nothing, one more entry, a part of the entries.
LEMMA TotalProperties ==
  ASSUME NEW q, NEW D, Sized(q, D)
  PROVE  /\ Total(q, {}) = 0 /\ Total(q, D) \in Nat
         /\ \A x \in D : Total(q, D) = q[x].len + Total(q, Less(D, x))
         /\ \A s \in SUBSET D : Total(q, s) \in Nat /\ Total(q, s) <= Total(q, D)
<1> DEFINE F == Part(q, D)
           W == {t \in SUBSET D : \A s \in SUBSET t : F[s] <= F[t]}
<1>1. F[{}] = 0
  BY PartDefined DEF Sized
<1>2. \A s \in SUBSET D : F[s] \in Nat
  BY PartNat
<1>3. \A s \in SUBSET D : \A x \in s : F[s] = q[x].len + F[Less(s, x)]
  BY PartAny
<1>4. \A s \in SUBSET D : F[s] = Total(q, s)
  BY PartIsTotal
<1>5. \A x \in D : q[x].len \in Nat
  BY DEF Sized
<1> HIDE DEF F
<1>6. ASSUME NEW t \in SUBSET D, \A x \in t : t \ {x} \in W PROVE t \in W
  <2>1. SUFFICES ASSUME NEW s \in SUBSET t PROVE F[s] <= F[t]
    OBVIOUS
  <2>2. CASE s = t
    BY <1>2, <2>2
  <2>3. CASE s # t
    <3>1. PICK x \in t : x \notin s
      BY <2>3
    <3>2. s \in SUBSET Less(t, x) /\ Less(t, x) \in SUBSET D /\ s \in SUBSET D
      BY <3>1 DEF Less
    <3>3. F[s] <= F[Less(t, x)]
      BY <1>6, <3>1, <3>2 DEF Less
    <3>4. F[t] = q[x].len + F[Less(t, x)]
      BY <1>3, <3>1
    <3>5. F[s] \in Nat /\ F[Less(t, x)] \in Nat /\ q[x].len \in Nat
      BY <1>2, <1>5, <3>1, <3>2
    <3>6. QED
      BY <3>3, <3>4, <3>5
  <2>4. QED
    BY <2>2, <2>3
<1>7. \A t \in SUBSET D : t \in W
  <2> HIDE DEF W
  <2>1. QED
    BY <1>6, SubsetsBelong DEF Sized
<1>8. D \in SUBSET D /\ {} \in SUBSET D /\ \A x \in D : Less(D, x) \in SUBSET D
  BY DEF Less
<1>9. Total(q, {}) = 0 /\ Total(q, D) \in Nat
  BY <1>1, <1>2, <1>4, <1>8
<1>10. ASSUME NEW x \in D PROVE Total(q, D) = q[x].len + Total(q, Less(D, x))
  BY <1>3, <1>4, <1>8
<1>11. ASSUME NEW s \in SUBSET D PROVE Total(q, s) \in Nat /\ Total(q, s) <= Total(q, D)
  BY <1>2, <1>4, <1>7, <1>8
<1>12. QED
  BY <1>9, <1>10, <1>11

-----------------------------------------------------------------------------

\* Entries with a length.
Long(E) == \A e \in E : e.len \in Nat

\* The memory of a queue is a number.
LEMMA UsedNat ==
  ASSUME NEW E, Long(E), NEW q \in Seq(E)
  PROVE  Sized(q, DOMAIN q) /\ Used(q) \in Nat
<1>1. DOMAIN q = 1..Len(q) /\ \A i \in 1..Len(q) : q[i] \in E
  BY LenProperties
<1>2. IsFiniteSet(1..Len(q))
  BY FS_Interval
<1>3. Sized(q, DOMAIN q)
  BY <1>1, <1>2 DEF Sized, Long
<1>4. QED
  BY <1>3, UsedIsTotal, TotalProperties

\* A shortened queue takes less.
LEMMA UsedPrefix ==
  ASSUME NEW E, Long(E), NEW q \in Seq(E), NEW n \in 0..Len(q)
  PROVE  Used(SubSeq(q, 1, n)) = Total(q, 1..n) /\ Used(SubSeq(q, 1, n)) <= Used(q)
<1> DEFINE p == SubSeq(q, 1, n)
           g == [i \in 1..n |-> i]
<1>1. p \in Seq(E) /\ DOMAIN p = 1..n /\ \A i \in 1..n : p[i] = q[i]
  BY PrefixOf
<1> HIDE DEF p
<1>2. Sized(q, DOMAIN q) /\ Sized(p, 1..n)
  BY <1>1, UsedNat
<1>3. 1..n \in SUBSET DOMAIN q
  BY LenProperties
<1>4. Sized(q, 1..n)
  BY <1>2, <1>3, PartIsTotal
<1>5. /\ g \in [1..n -> 1..n] /\ \A x, y \in 1..n : g[x] = g[y] => x = y
      /\ \A x \in 1..n : q[g[x]].len = p[x].len
      /\ \A z \in 1..n : \E x \in 1..n : g[x] = z
  BY <1>1
<1> HIDE DEF g
<1>6. Total(p, 1..n) = Total(q, 1..n)
  <2>1. PICK D : D = 1..n
    OBVIOUS
  <2>2. Sized(p, D) /\ Sized(q, D) /\ Moves(g, p, D, q, D)
    BY <1>2, <1>4, <1>5, <2>1 DEF Moves
  <2>3. Total(p, D) = Total(q, D)
    BY <2>2, TotalMoved
  <2>4. QED
    BY <2>1, <2>3
<1>7. Total(q, 1..n) <= Total(q, DOMAIN q)
  BY <1>2, <1>3, TotalProperties
<1>8. QED
  BY <1>1, <1>6, <1>7, UsedIsTotal DEF p

\* A cut queue takes no more memory.
LEMMA UsedCut ==
  ASSUME NEW E, Long(E), NEW q \in Seq(E), NEW p, Cut(p, q)
  PROVE  Used(p) <= Used(q)
BY UsedPrefix DEF Cut

\* One more entry.
LEMMA UsedFront ==
  ASSUME NEW E, Long(E), NEW q \in Seq(E), NEW e \in E
  PROVE  Used(<<e>> \o q) = e.len + Used(q)
<1> DEFINE p == <<e>> \o q
           n == Len(q)
           g == [i \in 2..(n + 1) |-> i - 1]
<1>0. n \in Nat /\ DOMAIN q = 1..n
  OBVIOUS
<1>1. /\ p \in Seq(E) /\ DOMAIN p = 1..(n + 1)
      /\ p[1] = e /\ \A j \in 2..(n + 1) : p[j] = q[j - 1]
  OBVIOUS
<1> HIDE DEF p, n
<1>2. Sized(q, 1..n) /\ Sized(p, 1..(n + 1))
  BY <1>0, <1>1, UsedNat
<1>3. 2..(n + 1) \in SUBSET (1..(n + 1)) /\ 1 \in 1..(n + 1)
  BY <1>0
<1>4. Less(1..(n + 1), 1) = 2..(n + 1)
  BY <1>0 DEF Less
<1>5. Sized(p, 2..(n + 1))
  BY <1>2, <1>3, PartIsTotal
<1>6. /\ g \in [2..(n + 1) -> 1..n] /\ \A x, y \in 2..(n + 1) : g[x] = g[y] => x = y
      /\ \A x \in 2..(n + 1) : q[g[x]].len = p[x].len
  BY <1>0, <1>1
<1>7. \A z \in 1..n : \E x \in 2..(n + 1) : g[x] = z
  <2>1. ASSUME NEW z \in 1..n PROVE z + 1 \in 2..(n + 1) /\ g[z + 1] = z
    BY <1>0
  <2>2. QED
    BY <2>1
<1> HIDE DEF g
<1>8. PICK C, D, A : C = 1..n /\ D = 2..(n + 1) /\ A = 1..(n + 1)
  OBVIOUS
<1>9. Total(p, D) = Total(q, C)
  <2>1. Sized(p, D) /\ Sized(q, C) /\ Moves(g, p, D, q, C)
    BY <1>2, <1>5, <1>6, <1>7, <1>8 DEF Moves
  <2>2. QED
    BY <2>1, TotalMoved
<1>10. Sized(p, A) /\ Less(A, 1) = D /\ 1 \in A
  BY <1>2, <1>3, <1>4, <1>8
<1>11. Total(p, A) = p[1].len + Total(p, D)
  BY <1>10, TotalProperties
<1>12. QED
  BY <1>0, <1>1, <1>8, <1>9, <1>11, UsedIsTotal DEF p

\* One entry less.
LEMMA UsedRemove ==
  ASSUME NEW E, Long(E), NEW q \in Seq(E), NEW i \in 1..Len(q)
  PROVE  Used(q) = q[i].len + Used(RemoveAt(q, i))
<1> DEFINE p == RemoveAt(q, i)
           n == Len(q)
           D == Less(1..n, i)
           g == [j \in D |-> IF j < i THEN j ELSE j - 1]
<1>0. n \in Nat /\ DOMAIN q = 1..n
  OBVIOUS
<1>1. /\ p \in Seq(E) /\ DOMAIN p = 1..(n - 1)
      /\ \A j \in 1..(n - 1) : p[j] = IF j < i THEN q[j] ELSE q[j + 1]
  BY RemoveAtShifts
<1> HIDE DEF p
<1>2. i \in 1..n
  OBVIOUS
<1> HIDE DEF n
<1>3. Sized(q, 1..n) /\ Sized(p, 1..(n - 1))
  BY <1>0, <1>1, UsedNat
<1>4. \A j : j \in D <=> j \in 1..n /\ j # i
  BY DEF Less
<1>5. D \in SUBSET (1..n)
  BY <1>4
<1> HIDE DEF D
<1>6. Sized(q, D)
  BY <1>3, <1>5, PartIsTotal
<1>7. ASSUME NEW x \in D PROVE g[x] \in 1..(n - 1) /\ p[g[x]].len = q[x].len
  BY <1>0, <1>1, <1>2, <1>4
<1>8. ASSUME NEW x \in D, NEW y \in D, g[x] = g[y] PROVE x = y
  BY <1>0, <1>2, <1>4, <1>8
<1>9. ASSUME NEW z \in 1..(n - 1) PROVE \E x \in D : g[x] = z
  <2>1. CASE z < i
    <3>1. z \in D
      BY <1>0, <1>2, <1>4, <2>1
    <3>2. QED
      BY <2>1, <3>1
  <2>2. CASE ~(z < i)
    <3>1. z + 1 \in D /\ ~(z + 1 < i) /\ (z + 1) - 1 = z
      BY <1>0, <1>2, <1>4, <2>2
    <3>2. g[z + 1] = z
      BY <3>1
    <3>3. QED
      BY <3>1, <3>2
  <2>3. QED
    BY <2>1, <2>2
<1>10. g \in [D -> 1..(n - 1)]
  BY <1>7
<1> HIDE DEF g
<1>11. Total(q, D) = Total(p, 1..(n - 1))
  <2>1. PICK C : C = 1..(n - 1)
    OBVIOUS
  <2>2. Sized(q, D) /\ Sized(p, C) /\ Moves(g, q, D, p, C)
    BY <1>3, <1>6, <1>7, <1>8, <1>9, <1>10, <2>1 DEF Moves
  <2>3. Total(q, D) = Total(p, C)
    BY <2>2, TotalMoved
  <2>4. QED
    BY <2>1, <2>3
<1>12. Total(q, 1..n) = q[i].len + Total(q, D)
  BY <1>2, <1>3, TotalProperties DEF D
<1>13. QED
  BY <1>0, <1>1, <1>11, <1>12, UsedIsTotal DEF p

\* A key taken out gives its memory back.
LEMMA UsedWithout ==
  ASSUME NEW E, Long(E), NEW q, Queue(E, q), NEW k
  PROVE  /\ Has(q, k) => Used(q) = EntryOf(q, k).len + Used(Without(q, k))
         /\ Used(Without(q, k)) <= Used(q)
<1>0. q \in Seq(E) /\ Used(q) \in Nat /\ DOMAIN q = 1..Len(q)
  BY UsedNat DEF Queue
<1>1. CASE ~Has(q, k)
  BY <1>0, <1>1 DEF Without
<1>2. CASE Has(q, k)
  <2>1. PICK i : i = Place(q, k)
    OBVIOUS
  <2>2. i \in 1..Len(q)
    BY <1>0, <1>2, <2>1, TheEntry
  <2>3. Without(q, k) = RemoveAt(q, i) /\ EntryOf(q, k) = q[i]
    BY <1>2, <2>1 DEF Without, EntryOf
  <2>4. Used(q) = q[i].len + Used(RemoveAt(q, i))
    BY <1>0, <2>2, UsedRemove
  <2>5. RemoveAt(q, i) \in Seq(E) /\ q[i] \in E
    BY <1>0, <2>2, RemoveAtShifts
  <2>6. Used(RemoveAt(q, i)) \in Nat /\ q[i].len \in Nat
    BY <2>5, UsedNat DEF Long
  <2>7. QED
    BY <1>2, <2>3, <2>4, <2>6
<1>3. QED
  BY <1>1, <1>2

\* An entry replaced by one of the same size takes the same memory.
LEMMA UsedToFront ==
  ASSUME NEW E, Long(E), NEW q, Queue(E, q), NEW e \in E, Has(q, e.key), EntryOf(q, e.key).len = e.len
  PROVE  Used(ToFront(q, e)) = Used(q)
<1>1. PICK p : p = Without(q, e.key)
  OBVIOUS
<1>2. p \in Seq(E)
  BY <1>1, WithoutResult DEF Queue
<1>3. Used(<<e>> \o p) = e.len + Used(p)
  BY <1>2, UsedFront
<1>4. Used(q) = e.len + Used(p)
  BY <1>1, UsedWithout
<1>5. QED
  BY <1>1, <1>3, <1>4 DEF ToFront

\* Looking an entry up changes no sizes.
LEMMA UsedTouch ==
  ASSUME NEW E, Long(E), NEW q, Queue(E, q), NEW now, NEW k
  PROVE  Used(Touch(q, now, k)) = Used(q)
<1>1. CASE lookup(q, now, k) # "ok"
  BY <1>1 DEF Touch
<1>2. CASE lookup(q, now, k) = "ok"
  <2>1. Has(q, k)
    BY <1>2 DEF lookup
  <2>2. PICK e : e = EntryOf(q, k)
    OBVIOUS
  <2>3. e \in E /\ e.key = k
    BY <2>1, <2>2, TheEntry, EntriesOf
  <2>4. QED
    BY <1>2, <2>1, <2>2, <2>3, UsedToFront DEF Touch
<1>3. QED
  BY <1>1, <1>2

\* A get never needs memory.
LEMMA UsedGet ==
  ASSUME NEW E, Long(E), NEW q, Queue(E, q), NEW now, NEW k
  PROVE  Used(getQueue(q, now, k)) <= Used(q)
<1>1. PICK p : p = expireSome(q, now)
  OBVIOUS
<1>2. Queue(E, p) /\ Cut(p, q)
  BY <1>1, ExpireSomeResult, ExpireSomeTrims, TrimIsCut DEF Queue
<1>3. Used(p) <= Used(q)
  BY <1>2, UsedCut DEF Queue
<1>4. Used(Touch(p, now, k)) = Used(p)
  BY <1>2, UsedTouch
<1>5. QED
  BY <1>1, <1>3, <1>4 DEF getQueue

\* A store keeps within the memory of the zone.
LEMMA UsedStore ==
  ASSUME NEW E, Long(E), NEW q0, Queue(E, q0), Used(q0) <= Capacity,
         NEW now, NEW op, NEW k, NEW v, NEW len, NEW ttl,
         Entry(k, v, len, IF ttl > 0 THEN now + ttl ELSE 0) \in E
  PROVE  Used(store(q0, now, op, k, v, len, ttl).q) <= Capacity
<1> DEFINE q == getQueue(q0, now, k)
           e == Entry(k, v, len, IF ttl > 0 THEN now + ttl ELSE 0)
           res == store(q0, now, op, k, v, len, ttl)
<1>0. Capacity \in Nat /\ Used(q0) \in Nat
  BY ShDictAssumption, UsedNat DEF Queue
<1>1. Queue(E, q) /\ Used(q) <= Used(q0)
  BY GetResult, UsedGet
<1>2. e \in E /\ e.key = k /\ e.len = len
  BY DEF Entry
<1>3. \/ res.q = q
      \/ res.q = Without(q, k)
      \/ res.q = ToFront(q, e) /\ Has(q, k) /\ EntryOf(q, k).len = len
      \/ res = insert(Without(q, k), now, e)
  BY DEF store, getQueue, lookup
<1>4. PICK o : o = Without(q, k)
  OBVIOUS
<1> HIDE DEF q, e, res
<1>5. Queue(E, o) /\ Used(o) <= Used(q)
  BY <1>1, <1>4, WithoutResult, UsedWithout
<1>6. Used(q) \in Nat /\ Used(o) \in Nat
  BY <1>1, <1>5, UsedNat DEF Queue
<1>7. Used(q) <= Capacity /\ Used(o) <= Capacity
  BY <1>0, <1>1, <1>5, <1>6
<1>8. CASE res.q = q \/ res.q = Without(q, k)
  BY <1>4, <1>7, <1>8 DEF res
<1>9. CASE res.q = ToFront(q, e) /\ Has(q, k) /\ EntryOf(q, k).len = len
  <2>1. Used(ToFront(q, e)) = Used(q)
    BY <1>1, <1>2, <1>9, UsedToFront
  <2>2. QED
    BY <1>7, <1>9, <2>1 DEF res
<1>10. CASE res = insert(Without(q, k), now, e)
  <2>1. PICK p : /\ Cut(p, o)
                 /\ \/ res = [q |-> p, rc |-> "no memory"]
                    \/ res = [q |-> <<e>> \o p, rc |-> "ok"] /\ Fits(p, e.len)
    BY <1>4, <1>5, <1>10, InsertResult DEF Queue
  <2>2. p \in Seq(E) /\ Used(p) <= Used(o)
    BY <1>5, <2>1, CutKeeps, UsedCut DEF Queue
  <2>3. Used(p) \in Nat
    BY <2>2, UsedNat
  <2>4. CASE res = [q |-> p, rc |-> "no memory"]
    <3>1. res.q = p
      BY <2>4
    <3>2. QED
      BY <1>0, <1>6, <1>7, <2>2, <2>3, <3>1 DEF res
  <2>5. CASE res = [q |-> <<e>> \o p, rc |-> "ok"] /\ Fits(p, e.len)
    <3>1. res.q = <<e>> \o p
      BY <2>5
    <3>2. Used(<<e>> \o p) = e.len + Used(p)
      BY <1>2, <2>2, UsedFront
    <3>3. e.len \in Nat
      BY <1>2 DEF Long
    <3>4. Used(<<e>> \o p) <= Capacity
      BY <1>0, <2>3, <2>5, <3>2, <3>3 DEF Fits
    <3>5. QED
      BY <3>1, <3>4 DEF res
  <2>6. QED
    BY <2>1, <2>4, <2>5
<1>11. QED
  BY <1>3, <1>8, <1>9, <1>10

\* An empty queue takes no memory.
LEMMA EmptyUsed == Used(<<>>) = 0
<1>1. PICK p : p = <<>>
  OBVIOUS
<1>2. DOMAIN p = {}
  BY <1>1
<1>3. Total(p, {}) = 0
  BY FS_EmptySet, PartDefined DEF Total
<1>4. QED
  BY <1>1, <1>2, <1>3, UsedIsTotal

-----------------------------------------------------------------------------
(***************************************************************************)
(* The order of the queue.                                                 *)
(***************************************************************************)

\* The entries of p other than that of key k come from q, in the same order.
Follows(p, q, k) ==
    /\ \A a \in DOMAIN p : p[a].key # k => p[a] \in Entries(q)
    /\ \A a, b \in DOMAIN p : a < b /\ p[a].key # k /\ p[b].key # k
         => \E c, d \in DOMAIN q : c < d /\ q[c] = p[a] /\ q[d] = p[b]

\* The entry of key k, if there is one, is the most recently used one.
Leads(p, k) == \A a \in DOMAIN p : p[a].key = k => a = 1

\* Two changes one after the other.
LEMMA FollowsTwice ==
  ASSUME NEW k, NEW p, NEW q, NEW r, Follows(p, q, k), Follows(q, r, k)
  PROVE  Follows(p, r, k)
<1>1. ASSUME NEW a \in DOMAIN p, p[a].key # k PROVE p[a] \in Entries(r)
  <2>1. PICK c \in DOMAIN q : q[c] = p[a]
    BY <1>1 DEF Follows, Entries
  <2>2. QED
    BY <1>1, <2>1 DEF Follows
<1>2. ASSUME NEW a \in DOMAIN p, NEW b \in DOMAIN p, a < b, p[a].key # k, p[b].key # k
      PROVE  \E c, d \in DOMAIN r : c < d /\ r[c] = p[a] /\ r[d] = p[b]
  <2>1. PICK c \in DOMAIN q, d \in DOMAIN q : c < d /\ q[c] = p[a] /\ q[d] = p[b]
    BY <1>2 DEF Follows
  <2>2. PICK x \in DOMAIN r, y \in DOMAIN r : x < y /\ r[x] = q[c] /\ r[y] = q[d]
    BY <1>2, <2>1 DEF Follows
  <2>3. QED
    BY <2>1, <2>2
<1>3. QED
  BY <1>1, <1>2 DEF Follows

\* Nothing changed.
LEMMA FollowsSame ==
  ASSUME NEW q, NEW k
  PROVE  Follows(q, q, k)
BY DEF Follows, Entries

\* Entries at the cold end gone.
LEMMA FollowsCut ==
  ASSUME NEW E, NEW q \in Seq(E), NEW p, Cut(p, q), NEW k
  PROVE  Follows(p, q, k)
<1>1. PICK n \in 0..Len(q) : p = SubSeq(q, 1, n)
  BY DEF Cut
<1>2. DOMAIN p = 1..n /\ \A i \in 1..n : p[i] = q[i]
  BY <1>1, PrefixOf
<1>3. DOMAIN p \subseteq DOMAIN q
  BY <1>2
<1>4. QED
  BY <1>2, <1>3 DEF Follows, Entries

\* One entry gone.
LEMMA FollowsWithout ==
  ASSUME NEW E, NEW q, Queue(E, q), NEW k
  PROVE  Follows(Without(q, k), q, k) /\ ~Has(Without(q, k), k)
<1>0. q \in Seq(E) /\ DOMAIN q = 1..Len(q) /\ Len(q) \in Nat
  BY DEF Queue
<1>1. CASE ~Has(q, k)
  BY <1>1, FollowsSame DEF Without
<1>2. CASE Has(q, k)
  <2>1. PICK i : i = Place(q, k)
    OBVIOUS
  <2>2. i \in 1..Len(q)
    BY <1>0, <1>2, <2>1, TheEntry
  <2>3. PICK p : p = RemoveAt(q, i)
    OBVIOUS
  <2>4. Without(q, k) = p
    BY <1>2, <2>1, <2>3 DEF Without
  <2>5. /\ p \in Seq(E) /\ Len(p) = Len(q) - 1
        /\ \A j \in 1..(Len(q) - 1) : p[j] = IF j < i THEN q[j] ELSE q[j + 1]
    BY <1>0, <2>2, <2>3, RemoveAtShifts
  <2>6. DOMAIN p = 1..(Len(q) - 1)
    BY <2>5
  <2>7. ASSUME NEW a \in DOMAIN p PROVE p[a] \in Entries(q)
    <3>1. (a \in DOMAIN q /\ p[a] = q[a]) \/ (a + 1 \in DOMAIN q /\ p[a] = q[a + 1])
      BY <1>0, <2>5, <2>6
    <3>2. QED
      BY <3>1 DEF Entries
  <2>8. ASSUME NEW a \in DOMAIN p, NEW b \in DOMAIN p, a < b
        PROVE  \E c, d \in DOMAIN q : c < d /\ q[c] = p[a] /\ q[d] = p[b]
    <3>1. PICK c : c = IF a < i THEN a ELSE a + 1
      OBVIOUS
    <3>2. PICK d : d = IF b < i THEN b ELSE b + 1
      OBVIOUS
    <3>3. c \in DOMAIN q /\ d \in DOMAIN q /\ c < d
      BY <1>0, <2>2, <2>6, <2>8, <3>1, <3>2
    <3>4. q[c] = p[a] /\ q[d] = p[b]
      BY <2>5, <2>6, <3>1, <3>2
    <3>5. QED
      BY <3>3, <3>4
  <2>9. ~Has(p, k)
    BY <2>4, WithoutResult, HasEntry
  <2>10. QED
    BY <2>4, <2>7, <2>8, <2>9 DEF Follows
<1>3. QED
  BY <1>1, <1>2

\* A new entry at the hot end.
LEMMA FollowsFront ==
  ASSUME NEW E, NEW p \in Seq(E), NEW e \in E, NEW q, Follows(p, q, e.key), ~Has(p, e.key)
  PROVE  Follows(<<e>> \o p, q, e.key) /\ Leads(<<e>> \o p, e.key)
<1>1. PICK r : r = <<e>> \o p
  OBVIOUS
<1>2. /\ DOMAIN r = 1..(Len(p) + 1) /\ DOMAIN p = 1..Len(p) /\ Len(p) \in Nat
      /\ r[1] = e /\ \A j \in 2..(Len(p) + 1) : r[j] = p[j - 1]
  BY <1>1
<1>3. ASSUME NEW a \in DOMAIN r, a # 1
      PROVE  a - 1 \in DOMAIN p /\ r[a] = p[a - 1] /\ p[a - 1].key # e.key
  <2>1. a \in 2..(Len(p) + 1) /\ a - 1 \in 1..Len(p)
    BY <1>2, <1>3
  <2>2. a - 1 \in DOMAIN p /\ r[a] = p[a - 1]
    BY <1>2, <2>1
  <2>3. QED
    BY <2>2 DEF Has
<1>4. Leads(r, e.key)
  BY <1>3 DEF Leads
<1>5. ASSUME NEW a \in DOMAIN r, r[a].key # e.key PROVE r[a] \in Entries(q)
  <2>1. a # 1
    BY <1>2, <1>5
  <2>2. QED
    BY <1>3, <2>1 DEF Follows
<1>6. ASSUME NEW a \in DOMAIN r, NEW b \in DOMAIN r, a < b, r[a].key # e.key, r[b].key # e.key
      PROVE  \E c, d \in DOMAIN q : c < d /\ q[c] = r[a] /\ q[d] = r[b]
  <2>1. a # 1 /\ b # 1
    BY <1>2, <1>6
  <2>2. /\ a - 1 \in DOMAIN p /\ r[a] = p[a - 1] /\ b - 1 \in DOMAIN p /\ r[b] = p[b - 1]
        /\ p[a - 1].key # e.key /\ p[b - 1].key # e.key
    BY <1>3, <2>1
  <2>3. a - 1 < b - 1
    BY <1>2, <1>6
  <2>4. \E c, d \in DOMAIN q : c < d /\ q[c] = p[a - 1] /\ q[d] = p[b - 1]
    BY <2>2, <2>3 DEF Follows
  <2>5. QED
    BY <2>2, <2>4
<1>7. QED
  BY <1>1, <1>4, <1>5, <1>6 DEF Follows

\* An entry put at the hot end, in place of the one of its key.
LEMMA FollowsToFront ==
  ASSUME NEW E, NEW q, Queue(E, q), NEW e \in E
  PROVE  Follows(ToFront(q, e), q, e.key) /\ Leads(ToFront(q, e), e.key)
<1>1. PICK p : p = Without(q, e.key)
  OBVIOUS
<1>2. p \in Seq(E) /\ Follows(p, q, e.key) /\ ~Has(p, e.key)
  BY <1>1, WithoutResult, FollowsWithout DEF Queue
<1>3. QED
  BY <1>1, <1>2, FollowsFront DEF ToFront

\* A lookup moves only the entry it is for, and that one to the hot end if
\* it is alive.
LEMMA FollowsGet ==
  ASSUME NEW E, NEW q, Queue(E, q), NEW now, NEW k
  PROVE  /\ Follows(getQueue(q, now, k), q, k)
         /\ lookup(getQueue(q, now, k), now, k) \in {"ok", "declined"} => Leads(getQueue(q, now, k), k)
<1>1. PICK p : p = expireSome(q, now)
  OBVIOUS
<1>2. Queue(E, p) /\ Cut(p, q)
  BY <1>1, ExpireSomeResult, ExpireSomeTrims, TrimIsCut DEF Queue
<1>3. Follows(p, q, k)
  BY <1>2, FollowsCut DEF Queue
<1>4. getQueue(q, now, k) = Touch(p, now, k)
  BY <1>1 DEF getQueue
<1>5. CASE lookup(p, now, k) # "ok"
  <2>1. getQueue(q, now, k) = p
    BY <1>4, <1>5 DEF Touch
  <2>2. lookup(p, now, k) = "declined" => ~Has(p, k)
    BY DEF lookup
  <2>3. QED
    BY <1>3, <1>5, <2>1, <2>2 DEF Leads, Has
<1>6. CASE lookup(p, now, k) = "ok"
  <2>1. Has(p, k)
    BY <1>6 DEF lookup
  <2>2. PICK e : e = EntryOf(p, k)
    OBVIOUS
  <2>3. e \in E /\ e.key = k
    BY <1>2, <2>1, <2>2, TheEntry, EntriesOf
  <2>4. getQueue(q, now, k) = ToFront(p, e)
    BY <1>4, <1>6, <2>2 DEF Touch
  <2>5. Follows(ToFront(p, e), p, k) /\ Leads(ToFront(p, e), k)
    BY <1>2, <2>3, FollowsToFront
  <2>6. QED
    BY <1>3, <2>4, <2>5, FollowsTwice
<1>7. QED
  BY <1>5, <1>6

\* A store takes entries away from the cold end, and its own entry leads.
LEMMA FollowsStore ==
  ASSUME NEW E, NEW q0, Queue(E, q0), NEW now, NEW op, op # "delete", NEW k, NEW v, NEW len, NEW ttl,
         Entry(k, v, len, IF ttl > 0 THEN now + ttl ELSE 0) \in E
  PROVE  /\ Follows(store(q0, now, op, k, v, len, ttl).q, q0, k)
         /\ Leads(store(q0, now, op, k, v, len, ttl).q, k)
<1> DEFINE q == getQueue(q0, now, k)
           e == Entry(k, v, len, IF ttl > 0 THEN now + ttl ELSE 0)
           res == store(q0, now, op, k, v, len, ttl)
<1>1. Queue(E, q) /\ Follows(q, q0, k) /\ (lookup(q, now, k) \in {"ok", "declined"} => Leads(q, k))
  BY GetResult, FollowsGet
<1>2. e \in E /\ e.key = k /\ e.len = len
  BY DEF Entry
<1>3. \/ res.q = q /\ lookup(q, now, k) = "ok"
      \/ res.q = ToFront(q, e)
      \/ res = insert(Without(q, k), now, e)
  BY DEF store, getQueue
<1> HIDE DEF q, e, res
<1>4. CASE res.q = q /\ lookup(q, now, k) = "ok"
  BY <1>1, <1>4 DEF res
<1>5. CASE res.q = ToFront(q, e)
  <2>1. Follows(ToFront(q, e), q, k) /\ Leads(ToFront(q, e), k)
    BY <1>1, <1>2, FollowsToFront
  <2>2. QED
    BY <1>1, <1>5, <2>1, FollowsTwice DEF res
<1>6. CASE res = insert(Without(q, k), now, e)
  <2>1. PICK o : o = Without(q, k)
    OBVIOUS
  <2>2. Queue(E, o) /\ Follows(o, q, k) /\ ~Has(o, k)
    BY <1>1, <2>1, WithoutResult, FollowsWithout
  <2>3. PICK p : /\ Cut(p, o)
                 /\ \/ res = [q |-> p, rc |-> "no memory"]
                    \/ res = [q |-> <<e>> \o p, rc |-> "ok"]
    BY <1>6, <2>1, <2>2, InsertResult DEF Queue
  <2>4. Queue(E, p) /\ Entries(p) \subseteq Entries(o)
    BY <2>2, <2>3, CutResult
  <2>5. ~Has(p, k)
    BY <2>2, <2>4, HasEntry
  <2>6. Follows(p, q0, k)
    BY <1>1, <2>2, <2>3, FollowsCut, FollowsTwice DEF Queue
  <2>7. Follows(<<e>> \o p, q0, k) /\ Leads(<<e>> \o p, k) /\ Leads(p, k)
    BY <1>2, <2>4, <2>5, <2>6, FollowsFront DEF Queue, Leads, Has
  <2>8. res.q = p \/ res.q = <<e>> \o p
    <3>1. CASE res = [q |-> p, rc |-> "no memory"]
      BY <3>1
    <3>2. CASE res = [q |-> <<e>> \o p, rc |-> "ok"]
      BY <3>2
    <3>3. QED
      BY <2>3, <3>1, <3>2
  <2>9. QED
    BY <2>6, <2>7, <2>8 DEF res
<1>7. QED
  BY <1>3, <1>4, <1>5, <1>6

\* A delete keeps the order of the others.
LEMMA FollowsDelete ==
  ASSUME NEW E, NEW q0, Queue(E, q0), NEW now, NEW k, NEW v, NEW len, NEW ttl
  PROVE  /\ Follows(store(q0, now, "delete", k, v, len, ttl).q, q0, k)
         /\ ~Has(store(q0, now, "delete", k, v, len, ttl).q, k)
<1>1. PICK q : q = getQueue(q0, now, k)
  OBVIOUS
<1>2. store(q0, now, "delete", k, v, len, ttl).q = Without(q, k)
  BY <1>1 DEF store, getQueue
<1>3. Queue(E, q) /\ Follows(q, q0, k)
  BY <1>1, GetResult, FollowsGet
<1>4. Follows(Without(q, k), q, k) /\ ~Has(Without(q, k), k)
  BY <1>3, FollowsWithout
<1>5. QED
  BY <1>2, <1>3, <1>4, FollowsTwice

\* The queue w a store makes room in, and entry x at place j of it.
Crowded(w, j, x, len) == j \in DOMAIN w /\ w[j] = x /\ ~Fits(SubSeq(w, 1, j), len)

\* An entry that a store drops had expired, is the store's own, or left no
\* room together with the entries used after it.
LEMMA StoreSpares ==
  ASSUME NEW E, NEW q0, Queue(E, q0), NEW now, NEW op, op # "delete", NEW k, NEW v, NEW len, NEW ttl,
         Entry(k, v, len, IF ttl > 0 THEN now + ttl ELSE 0) \in E,
         NEW x \in Entries(q0), x.key # k, ~Expired(x, now),
         x \notin Entries(store(q0, now, op, k, v, len, ttl).q)
  PROVE  \E w : /\ Queue(E, w) /\ Follows(w, q0, k) /\ ~Has(w, k)
                /\ \E j : Crowded(w, j, x, len)
<1> DEFINE q == getQueue(q0, now, k)
           e == Entry(k, v, len, IF ttl > 0 THEN now + ttl ELSE 0)
           res == store(q0, now, op, k, v, len, ttl)
<1>1. Queue(E, q) /\ Follows(q, q0, k) /\ x \in Entries(q)
  BY GetResult, FollowsGet
<1>2. e \in E /\ e.key = k /\ e.len = len
  BY DEF Entry
<1>3. \/ res.q = q
      \/ res.q = ToFront(q, e)
      \/ res = insert(Without(q, k), now, e)
  BY DEF store, getQueue
<1>4. x \notin Entries(res.q)
  OBVIOUS
<1> HIDE DEF q, e, res
<1>5. res.q # q
  BY <1>1, <1>4
<1>6. res.q # ToFront(q, e)
  BY <1>1, <1>2, <1>4, ToFrontResult
<1>7. res = insert(Without(q, k), now, e)
  BY <1>3, <1>5, <1>6
<1>8. PICK w : w = Without(q, k)
  OBVIOUS
<1>9. /\ Queue(E, w) /\ Follows(w, q0, k) /\ ~Has(w, k)
      /\ Entries(w) = {y \in Entries(q) : y.key # k}
  BY <1>1, <1>8, WithoutResult, FollowsWithout, FollowsTwice
<1>10. PICK p : /\ Cut(p, w) /\ Spared(p, w, now, len)
                /\ \/ res = [q |-> p, rc |-> "no memory"]
                   \/ res = [q |-> <<e>> \o p, rc |-> "ok"]
  <2>1. w \in Seq(E)
    BY <1>9 DEF Queue
  <2>2. PICK p : /\ Cut(p, w) /\ Spared(p, w, now, e.len)
                /\ \/ insert(w, now, e) = [q |-> p, rc |-> "no memory"]
                   \/ insert(w, now, e) = [q |-> <<e>> \o p, rc |-> "ok"]
    BY <2>1, InsertResult
  <2>3. QED
    BY <1>2, <1>7, <1>8, <2>2
<1>11. Queue(E, p)
  BY <1>9, <1>10, CutResult
<1>12. x \notin Entries(p)
  <2>1. CASE res = [q |-> p, rc |-> "no memory"]
    BY <1>4, <2>1
  <2>2. CASE res = [q |-> <<e>> \o p, rc |-> "ok"]
    <3>1. Entries(p) \subseteq Entries(w)
      BY <1>9, <1>10, CutResult
    <3>2. ~Has(p, e.key)
      BY <1>2, <1>9, <3>1, HasEntry
    <3>3. Entries(<<e>> \o p) = {e} \cup Entries(p)
      BY <1>2, <1>11, <3>2, FrontResult
    <3>4. res.q = <<e>> \o p
      BY <2>2
    <3>5. QED
      BY <1>4, <3>3, <3>4
  <2>3. QED
    BY <1>10, <2>1, <2>2
<1>13. PICK j \in DOMAIN w : w[j] = x
  BY <1>1, <1>9 DEF Entries
<1>14. PICK n \in 0..Len(w) : p = SubSeq(w, 1, n)
  BY <1>10 DEF Cut
<1>15. /\ DOMAIN w = 1..Len(w) /\ Len(w) \in Nat
       /\ DOMAIN p = 1..n /\ Len(p) = n /\ \A i \in 1..n : p[i] = w[i]
  BY <1>9, <1>14, PrefixOf DEF Queue
<1>16. j \notin 1..n
  BY <1>12, <1>13, <1>15 DEF Entries
<1>17. j \in (Len(p) + 1)..Len(w)
  BY <1>13, <1>15, <1>16
<1>18. ~Fits(SubSeq(w, 1, j), len)
  BY <1>10, <1>13, <1>17 DEF Spared
<1>19. QED
  BY <1>9, <1>13, <1>18 DEF Crowded

\* Entries that are among those of another queue take no more memory.
LEMMA TotalInto ==
  ASSUME NEW q, NEW D, Sized(q, D), NEW p, NEW C, Sized(p, C), NEW g \in [D -> C],
         \A x, y \in D : g[x] = g[y] => x = y, \A x \in D : p[g[x]].len = q[x].len
  PROVE  Total(q, D) <= Total(p, C)
<1>1. PICK B : B = Moved(g, D)
  OBVIOUS
<1>2. B \in SUBSET C
  BY <1>1 DEF Moved
<1>3. Sized(p, B)
  BY <1>2, PartIsTotal
<1>4. g \in [D -> B] /\ \A z \in B : \E x \in D : g[x] = z
  BY <1>1 DEF Moved
<1>5. Moves(g, q, D, p, B)
  BY <1>4 DEF Moves
<1>6. Total(q, D) = Total(p, B)
  BY <1>3, <1>5, TotalMoved
<1>7. Total(p, B) <= Total(p, C)
  BY <1>2, TotalProperties
<1>8. QED
  BY <1>6, <1>7

\* The memory of some entries of a queue.
Taken(q, S) == Total(q, {i \in DOMAIN q : q[i].key \in S})

\* Entry x and all entries used after it, whose keys are in S, leave no room.
LEMMA CrowdedOut ==
  ASSUME NEW E, Long(E), NEW q, Queue(E, q), NEW k, NEW w, Queue(E, w), Follows(w, q, k), ~Has(w, k),
         NEW j, NEW x, NEW len \in Nat, Crowded(w, j, x, len), NEW S, x.key \in S,
         \A c, d \in DOMAIN q : c < d /\ q[d] = x => q[c].key \in S
  PROVE  Taken(q, S) \in Nat /\ Taken(q, S) + len > Capacity
<1> DEFINE P == {i \in DOMAIN q : q[i].key \in S}
           g == [i \in 1..j |-> Place(q, w[i].key)]
<1>0. /\ q \in Seq(E) /\ w \in Seq(E) /\ DOMAIN w = 1..Len(w) /\ Len(w) \in Nat
      /\ DOMAIN q = 1..Len(q) /\ Len(q) \in Nat
  BY DEF Queue
<1>1. j \in 1..Len(w) /\ w[j] = x /\ ~Fits(SubSeq(w, 1, j), len)
  BY <1>0 DEF Crowded
<1>2. 1..j \in SUBSET DOMAIN w
  BY <1>0, <1>1
<1>3. Sized(w, 1..j) /\ Sized(q, P)
  <2>1. Sized(w, DOMAIN w) /\ Sized(q, DOMAIN q)
    BY <1>0, UsedNat
  <2>2. P \in SUBSET DOMAIN q
    OBVIOUS
  <2>3. QED
    BY <1>2, <2>1, <2>2, PartIsTotal
<1>4. Used(SubSeq(w, 1, j)) = Total(w, 1..j)
  BY <1>0, <1>1, UsedPrefix
<1>5. ASSUME NEW i \in 1..j PROVE g[i] \in P /\ q[g[i]] = w[i]
  <2>1. i \in DOMAIN w /\ w[i].key # k
    BY <1>2 DEF Has
  <2>2. w[i] \in Entries(q)
    BY <2>1 DEF Follows
  <2>3. PICK c \in DOMAIN q : q[c] = w[i]
    BY <2>2 DEF Entries
  <2>4. Has(q, w[i].key)
    BY <2>3 DEF Has
  <2>5. c = Place(q, w[i].key)
    BY <2>3, <2>4, TheEntry DEF Queue
  <2>6. g[i] = c
    BY <2>5
  <2>7. CASE i = j
    BY <1>1, <2>3, <2>6, <2>7
  <2>8. CASE i # j
    <3>1. i < j /\ j \in DOMAIN w /\ w[j].key # k
      BY <1>0, <1>1, <2>8 DEF Has
    <3>2. PICK a \in DOMAIN q, d \in DOMAIN q : a < d /\ q[a] = w[i] /\ q[d] = w[j]
      BY <2>1, <3>1 DEF Follows
    <3>3. q[a].key \in S
      BY <1>1, <3>2
    <3>4. q[c].key \in S
      BY <2>3, <3>2, <3>3
    <3>5. QED
      BY <2>3, <2>6, <3>4
  <2>9. QED
    BY <2>7, <2>8
<1>6. ASSUME NEW a \in 1..j, NEW b \in 1..j, g[a] = g[b] PROVE a = b
  <2>1. w[a] = w[b]
    BY <1>5, <1>6
  <2>2. a \in DOMAIN w /\ b \in DOMAIN w
    BY <1>2
  <2>3. QED
    BY <2>1, <2>2 DEF Queue, Unique
<1>7. g \in [1..j -> P] /\ \A i \in 1..j : q[g[i]].len = w[i].len
  BY <1>5
<1>8. PICK D, C, f : D = 1..j /\ C = P /\ f = g
  OBVIOUS
<1>9. Total(w, D) <= Total(q, C)
  <2>1. f \in [D -> C] /\ Sized(w, D) /\ Sized(q, C)
    BY <1>3, <1>7, <1>8
  <2>2. \A a, b \in D : f[a] = f[b] => a = b
    BY <1>6, <1>8
  <2>3. \A i \in D : q[f[i]].len = w[i].len
    BY <1>7, <1>8
  <2>4. QED
    BY <2>1, <2>2, <2>3, TotalInto
<1>10. Total(w, 1..j) \in Nat /\ Total(q, P) \in Nat
  BY <1>3, TotalProperties
<1>11. Total(w, 1..j) <= Total(q, P)
  BY <1>8, <1>9
<1>12. ~(Total(w, 1..j) + len <= Capacity)
  BY <1>1, <1>4 DEF Fits
<1>13. Taken(q, S) = Total(q, P)
  BY DEF Taken
<1> HIDE DEF P
<1>14. QED
  BY <1>10, <1>11, <1>12, <1>13, ShDictAssumption
=============================================================================
