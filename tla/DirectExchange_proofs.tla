------------------------ MODULE DirectExchange_proofs ------------------------
(***************************************************************************)
(* Safety of DirectExchange for any callers, requests and values, and any  *)
(* number of calls.                                                        *)
(***************************************************************************)
EXTENDS DirectExchange, SequenceTheorems, WellFoundedInduction, TLAPS

(* Recursion.                                                              *)

\* A set of natural numbers has a least member.
LEMMA LeastNumber ==
    ASSUME NEW T \in SUBSET Nat, T # {}
    PROVE  \E x \in T : \A y \in T : x <= y
<1>1. PICK x \in T : \A y \in T : ~(<<y, x>> \in OpToRel(<, Nat))
  BY NatLessThanWellFounded, WFMin
<1>2. ASSUME NEW y \in T PROVE x <= y
  <2>1. ~(y < x)
    BY <1>1, <1>2 DEF OpToRel
  <2> QED
    BY <1>2, <2>1
<1> QED
  BY <1>2

\* A function is asked for that is out where it stops, and elsewhere what step
\* makes of its value at a smaller place.
Descends(S, A, size, stop, out, next, step) ==
    /\ size \in [S -> Nat] /\ stop \in SUBSET S
    /\ out \in [S -> A] /\ next \in [S -> S] /\ step \in [S -> [A -> A]]
    /\ \A x \in S : x \notin stop => size[next[x]] < size[x]

Solution(f, S, A, stop, out, next, step) ==
    /\ f \in [S -> A]
    /\ \A x \in S : f[x] = IF x \in stop THEN out[x] ELSE step[x][f[next[x]]]

\* There is one.
LEMMA Recursive ==
    ASSUME NEW S, NEW A, NEW size, NEW stop, NEW out, NEW next, NEW step,
           Descends(S, A, size, stop, out, next, step)
    PROVE  \E f : Solution(f, S, A, stop, out, next, step)
<1>0. /\ size \in [S -> Nat] /\ stop \in SUBSET S
      /\ out \in [S -> A] /\ next \in [S -> S] /\ step \in [S -> [A -> A]]
      /\ \A x \in S : x \notin stop => size[next[x]] < size[x]
  BY DEF Descends
<1> USE <1>0
<1> DEFINE Below(n) == {x \in S : size[x] < n}
           Solves(f, n) ==
              /\ f \in [Below(n) -> A]
              /\ \A x \in Below(n) :
                    f[x] = IF x \in stop THEN out[x] ELSE step[x][f[next[x]]]
<1>1. ASSUME NEW m \in Nat, NEW n \in Nat, NEW f, NEW g, Solves(f, m), Solves(g, n),
             NEW x \in S, size[x] < m, size[x] < n
      PROVE  f[x] = g[x]
  <2> DEFINE Bad == {k \in Nat : \E y \in S : /\ size[y] = k /\ k < m /\ k < n
                                              /\ f[y] # g[y]}
  <2>1. SUFFICES ASSUME Bad # {} PROVE FALSE
    <3>1. size[x] \in Nat
      OBVIOUS
    <3> QED
      BY <1>1, <3>1
  <2>2. PICK k \in Bad : \A l \in Bad : k <= l
    BY <2>1, LeastNumber
  <2>3. PICK y \in S : size[y] = k /\ k < m /\ k < n /\ f[y] # g[y]
    BY <2>2
  <2>4. /\ f[y] = IF y \in stop THEN out[y] ELSE step[y][f[next[y]]]
        /\ g[y] = IF y \in stop THEN out[y] ELSE step[y][g[next[y]]]
    BY <1>1, <2>3
  <2>5. y \notin stop /\ f[next[y]] # g[next[y]]
    BY <2>3, <2>4
  <2>6. size[next[y]] \in Nat /\ next[y] \in S /\ size[next[y]] < k
    BY <2>3, <2>5
  <2>7. k \in Nat
    BY <2>2
  <2>8. size[next[y]] \in Bad
    BY <1>1, <2>3, <2>5, <2>6, <2>7
  <2> QED
    BY <2>2, <2>6, <2>7, <2>8
<1>2. ASSUME NEW n \in Nat PROVE \E f : Solves(f, n)
  <2> DEFINE Bad == {k \in Nat : ~\E f : Solves(f, k)}
  <2>1. SUFFICES ASSUME Bad # {} PROVE FALSE
    OBVIOUS
  <2>2. PICK k \in Bad : \A l \in Bad : k <= l
    BY <2>1, LeastNumber
  <2>3. k # 0
    <3>1. ASSUME NEW x \in Below(0) PROVE FALSE
      <4>1. size[x] \in Nat /\ size[x] < 0
        OBVIOUS
      <4> QED
        BY <4>1
    <3> DEFINE e == [x \in Below(0) |-> out[x]]
    <3>2. e \in [Below(0) -> A]
      BY <3>1
    <3>3. Solves(e, 0)
      BY <3>1, <3>2
    <3> HIDE DEF e, Solves
    <3> QED
      BY <2>2, <3>3
  <2>4. k \in Nat /\ k - 1 \in Nat /\ k - 1 \notin Bad
    <3> HIDE DEF Solves
    <3>1. k \in Nat
      BY <2>2
    <3>2. k - 1 \in Nat /\ ~(k <= k - 1)
      BY <2>3, <3>1
    <3> HIDE DEF Bad
    <3>3. k - 1 \notin Bad
      BY <2>2, <3>2
    <3> QED
      BY <3>1, <3>2, <3>3
  <2>5. PICK f : Solves(f, k - 1)
    BY <2>4
  <2> DEFINE F(x) == IF x \in stop THEN out[x] ELSE step[x][f[next[x]]]
             g == [x \in Below(k) |-> F(x)]
  <2>6. ASSUME NEW x \in Below(k), x \notin stop
        PROVE  next[x] \in Below(k - 1) /\ next[x] \in Below(k)
    <3>1. size[x] \in Nat /\ size[next[x]] \in Nat /\ next[x] \in S /\ x \in S
      OBVIOUS
    <3>2. size[next[x]] < size[x] /\ size[x] < k
      BY <2>6
    <3> QED
      BY <2>4, <3>1, <3>2
  <2>7. ASSUME NEW x \in Below(k) PROVE F(x) \in A
    <3>1. CASE x \in stop
      BY <3>1
    <3>2. CASE x \notin stop
      <4>1. f[next[x]] \in A
        BY <2>5, <2>6, <3>2
      <4>2. step[x] \in [A -> A]
        OBVIOUS
      <4> QED
        BY <3>2, <4>1, <4>2
    <3> QED
      BY <3>1, <3>2
  <2>8. g \in [Below(k) -> A]
    BY <2>7
  <2>9. ASSUME NEW x \in Below(k)
        PROVE  g[x] = IF x \in stop THEN out[x] ELSE step[x][g[next[x]]]
    <3>1. CASE x \in stop
      BY <3>1
    <3>2. CASE x \notin stop
      <4>1. g[next[x]] = F(next[x])
        BY <2>6, <3>2
      <4>2. f[next[x]] = F(next[x])
        BY <2>5, <2>6, <3>2
      <4>3. g[x] = step[x][f[next[x]]]
        BY <3>2
      <4> QED
        BY <3>2, <4>1, <4>2, <4>3
    <3> QED
      BY <3>1, <3>2
  <2>10. Solves(g, k)
    BY <2>8, <2>9
  <2> QED
    BY <2>2, <2>10
<1> DEFINE Part(x) == CHOOSE f : Solves(f, size[x] + 1)
           whole == [x \in S |-> Part(x)[x]]
<1>3. ASSUME NEW x \in S PROVE Solves(Part(x), size[x] + 1)
  <2>1. size[x] + 1 \in Nat
    OBVIOUS
  <2>2. \E f : Solves(f, size[x] + 1)
    BY <1>2, <2>1
  <2> HIDE DEF Solves
  <2> QED
    BY <2>2
<1>4. ASSUME NEW x \in S
      PROVE  /\ Part(x)[x] \in A
             /\ Part(x)[x] = IF x \in stop THEN out[x] ELSE step[x][Part(x)[next[x]]]
  <2>1. x \in Below(size[x] + 1)
    <3>1. size[x] \in Nat
      OBVIOUS
    <3> QED
      BY <3>1
  <2> HIDE DEF Part
  <2> QED
    BY <1>3, <2>1
<1>5. whole \in [S -> A]
  <2> HIDE DEF Part
  <2> QED
    BY <1>4
<1>6. ASSUME NEW x \in S
      PROVE  whole[x] = IF x \in stop THEN out[x] ELSE step[x][whole[next[x]]]
  <2>1. CASE x \in stop
    BY <1>4, <2>1
  <2>2. CASE x \notin stop
    <3>1. /\ next[x] \in S /\ size[x] \in Nat /\ size[next[x]] \in Nat
          /\ size[next[x]] < size[x]
      BY <2>2
    <3>2. /\ size[x] + 1 \in Nat /\ size[next[x]] + 1 \in Nat
          /\ size[next[x]] < size[x] + 1 /\ size[next[x]] < size[next[x]] + 1
      BY <3>1
    <3>3. Solves(Part(x), size[x] + 1) /\ Solves(Part(next[x]), size[next[x]] + 1)
      BY <1>3, <3>1
    <3> HIDE DEF Part, Solves
    <3>4. Part(x)[next[x]] = Part(next[x])[next[x]]
      BY <1>1, <3>1, <3>2, <3>3
    <3> QED
      BY <1>4, <2>2, <3>1, <3>4
  <2> QED
    BY <2>1, <2>2
<1> QED
  BY <1>5, <1>6 DEF Solution

-----------------------------------------------------------------------------
(* Exclusive or, and the CRC.                                              *)

\* Half of a number is less.
LEMMA Half ==
    ASSUME NEW a \in Nat, a # 0
    PROVE  a \div 2 \in Nat /\ a \div 2 < a /\ ~(a <= a \div 2)
OBVIOUS

\* The bits of the sum without the carries.
LEMMA XorIs ==
    /\ xor \in [Nat -> [Nat -> Nat]]
    /\ \A a, b \in Nat : xor[a][b] = IF a = 0 \/ b = 0 THEN a + b
                                     ELSE ((a + b) % 2) + 2 * xor[a \div 2][b \div 2]
<1> DEFINE A == [Nat -> Nat]
           Bits(a, v) == [b \in Nat |-> IF a = 0 \/ b = 0 THEN a + b
                                        ELSE ((a + b) % 2) + 2 * v[b \div 2]]
           size == [a \in Nat |-> a]
           stop == {0}
           next == [a \in Nat |-> a \div 2]
           out == [a \in Nat |-> [b \in Nat |-> b]]
           step == [a \in Nat |-> [v \in A |-> Bits(a, v)]]
<1>1. ASSUME NEW a \in Nat, NEW v \in A PROVE Bits(a, v) \in A
  <2>1. ASSUME NEW b \in Nat
        PROVE  (IF a = 0 \/ b = 0 THEN a + b ELSE ((a + b) % 2) + 2 * v[b \div 2]) \in Nat
    <3>1. b \div 2 \in Nat /\ (a + b) % 2 \in Nat
      OBVIOUS
    <3>2. v[b \div 2] \in Nat
      BY <3>1
    <3> QED
      BY <3>1, <3>2
  <2> QED
    BY <2>1
<1>2. /\ size \in [Nat -> Nat] /\ next \in [Nat -> Nat] /\ out \in [Nat -> A]
      /\ stop \in SUBSET Nat
  <2>1. \A a \in Nat : a \div 2 \in Nat
    OBVIOUS
  <2> QED
    BY <2>1
<1>3. step \in [Nat -> [A -> A]]
  <2> HIDE DEF Bits, A
  <2>1. ASSUME NEW a \in Nat PROVE [v \in A |-> Bits(a, v)] \in [A -> A]
    BY <1>1
  <2> QED
    BY <2>1
<1>4. \A a \in Nat : a \notin stop => size[next[a]] < size[a]
  <2>1. \A a \in Nat : a # 0 => a \div 2 \in Nat /\ a \div 2 < a
    OBVIOUS
  <2> QED
    BY <2>1
<1>5. PICK f : /\ f \in [Nat -> A]
               /\ \A a \in Nat : f[a] = IF a \in stop THEN out[a] ELSE step[a][f[next[a]]]
  <2> HIDE DEF A, size, stop, next, out, step
  <2>1. Descends(Nat, A, size, stop, out, next, step)
    BY <1>2, <1>3, <1>4 DEF Descends
  <2>2. \E f : Solution(f, Nat, A, stop, out, next, step)
    BY <2>1, Recursive
  <2> QED
    BY <2>2 DEF Solution
<1>6. ASSUME NEW a \in Nat PROVE f[a] = Bits(a, f[a \div 2])
  <2>1. a \div 2 \in Nat
    OBVIOUS
  <2>2. f[a \div 2] \in A
    BY <1>5, <2>1
  <2>3. CASE a = 0
    <3>1. f[a] = [b \in Nat |-> b]
      BY <1>5, <2>3
    <3>2. \A b \in Nat : 0 + b = b
      OBVIOUS
    <3> QED
      BY <2>3, <3>1, <3>2
  <2>4. CASE a # 0
    <3>1. f[a] = step[a][f[a \div 2]]
      BY <1>5, <2>4
    <3> HIDE DEF A, Bits
    <3> QED
      BY <2>2, <3>1
  <2> QED
    BY <2>3, <2>4
<1>7. f = [a \in Nat |->
             [b \in Nat |-> IF a = 0 \/ b = 0 THEN a + b
                            ELSE ((a + b) % 2) + 2 * f[a \div 2][b \div 2]]]
  BY <1>5, <1>6
<1>8. xor = [a \in Nat |->
               [b \in Nat |-> IF a = 0 \/ b = 0 THEN a + b
                              ELSE ((a + b) % 2) + 2 * xor[a \div 2][b \div 2]]]
  BY <1>7, Zenon DEF xor
<1>9. ASSUME NEW a \in Nat PROVE xor[a] = Bits(a, xor[a \div 2])
  BY <1>8
<1>10. \A a \in Nat : xor[a] \in A
  <2> DEFINE Bad == {a \in Nat : xor[a] \notin A}
  <2>1. SUFFICES ASSUME Bad # {} PROVE FALSE
    OBVIOUS
  <2>2. PICK a \in Bad : \A x \in Bad : a <= x
    BY <2>1, LeastNumber
  <2>3. a \in Nat /\ xor[a] \notin A
    BY <2>2
  <2>4. CASE a = 0
    <3>1. \A b \in Nat : 0 + b = b
      OBVIOUS
    <3>2. xor[a] = [b \in Nat |-> b]
      BY <1>9, <2>3, <2>4, <3>1
    <3> QED
      BY <2>3, <3>2
  <2>5. CASE a # 0
    <3>1. a \div 2 \in Nat /\ ~(a <= a \div 2)
      BY <2>3, <2>5, Half
    <3>2. xor[a \div 2] \in A
      <4> HIDE DEF A
      <4> QED
        BY <2>2, <3>1
    <3>3. xor[a] \in A
      <4> HIDE DEF A, Bits
      <4> QED
        BY <1>1, <1>9, <2>3, <3>1, <3>2
    <3> QED
      BY <2>3, <3>3
  <2> QED
    BY <2>4, <2>5
<1>11. xor \in [Nat -> A]
  <2> HIDE DEF A
  <2> QED
    BY <1>8, <1>10
<1> QED
  BY <1>9, <1>11

\* A number has no bit that it has not.
LEMMA XorSelf == \A a \in Nat : xor[a][a] = 0
<1> DEFINE Bad == {a \in Nat : xor[a][a] # 0}
<1>1. SUFFICES ASSUME Bad # {} PROVE FALSE
  OBVIOUS
<1>2. PICK a \in Bad : \A x \in Bad : a <= x
  BY <1>1, LeastNumber
<1>3. a \in Nat /\ xor[a][a] # 0
  BY <1>2
<1>4. a # 0
  BY <1>3, XorIs
<1>5. a \div 2 \in Nat /\ ~(a <= a \div 2)
  BY <1>3, <1>4, Half
<1>6. xor[a \div 2][a \div 2] = 0
  BY <1>2, <1>5
<1>7. xor[a][a] = ((a + a) % 2) + 2 * xor[a \div 2][a \div 2]
  BY <1>3, <1>4, XorIs
<1>8. (a + a) % 2 = 0
  BY <1>3
<1> QED
  BY <1>3, <1>6, <1>7, <1>8

\* No bit is set above those of the two numbers.
XorWithin(m) == \A a, b \in 0..m : xor[a][b] \in 0..m

\* One bit more.
LEMMA XorDouble ==
    ASSUME NEW m \in Nat, XorWithin(m)
    PROVE  XorWithin(2 * m + 1)
<1>1. SUFFICES ASSUME NEW a \in 0..(2 * m + 1), NEW b \in 0..(2 * m + 1)
               PROVE  xor[a][b] \in 0..(2 * m + 1)
  BY DEF XorWithin
<1>2. a \in Nat /\ b \in Nat
  OBVIOUS
<1>3. CASE a = 0 \/ b = 0
  <2>1. xor[a][b] = a + b
    BY <1>2, <1>3, XorIs
  <2> QED
    BY <1>3, <2>1
<1>4. CASE ~(a = 0 \/ b = 0)
  <2>1. a \div 2 \in 0..m /\ b \div 2 \in 0..m /\ (a + b) % 2 \in 0..1
    OBVIOUS
  <2>2. xor[a \div 2][b \div 2] \in 0..m
    BY <2>1 DEF XorWithin
  <2>3. xor[a][b] = ((a + b) % 2) + 2 * xor[a \div 2][b \div 2]
    BY <1>2, <1>4, XorIs
  <2> QED
    BY <2>1, <2>2, <2>3
<1> QED
  BY <1>3, <1>4

\* What a byte and a word are.
LEMMA ByteIs == \A x : x \in Byte <=> x \in Nat /\ x <= 255
<1>1. \A x : x \in 0..MaxByte <=> x \in Nat /\ x <= MaxByte
  <2>1. MaxByte \in Nat
    BY DEF MaxByte
  <2> QED
    BY <2>1
<1>2. MaxByte = 255
  BY DEF MaxByte
<1> QED
  BY <1>1, <1>2 DEF Byte

LEMMA WordIs == \A x : x \in Words <=> x \in Nat /\ x <= 65535
<1>1. \A x : x \in 0..MaxWord <=> x \in Nat /\ x <= MaxWord
  <2>1. MaxWord \in Nat
    BY DEF MaxWord
  <2> QED
    BY <2>1
<1>2. \A x : x \in Words <=> x \in Nat /\ x <= MaxWord
  BY <1>1 DEF Words
<1>3. MaxWord = 65535
  BY DEF MaxWord
<1> QED
  BY <1>2, <1>3

\* Two words give a word.
LEMMA XorWord == \A a, b \in Words : xor[a][b] \in Words
<1>0. XorWithin(0)
  BY XorIs DEF XorWithin
<1>1. XorWithin(1)
  BY <1>0, XorDouble
<1>2. XorWithin(3)
  BY <1>1, XorDouble
<1>3. XorWithin(7)
  BY <1>2, XorDouble
<1>4. XorWithin(15)
  BY <1>3, XorDouble
<1>5. XorWithin(31)
  BY <1>4, XorDouble
<1>6. XorWithin(63)
  BY <1>5, XorDouble
<1>7. XorWithin(127)
  BY <1>6, XorDouble
<1>8. XorWithin(255)
  BY <1>7, XorDouble
<1>9. XorWithin(511)
  BY <1>8, XorDouble
<1>10. XorWithin(1023)
  BY <1>9, XorDouble
<1>11. XorWithin(2047)
  BY <1>10, XorDouble
<1>12. XorWithin(4095)
  BY <1>11, XorDouble
<1>13. XorWithin(8191)
  BY <1>12, XorDouble
<1>14. XorWithin(16383)
  BY <1>13, XorDouble
<1>15. XorWithin(32767)
  BY <1>14, XorDouble
<1>16. XorWithin(65535)
  BY <1>15, XorDouble
<1>17. XorWithin(MaxWord)
  BY <1>16 DEF MaxWord
<1> QED
  BY <1>17, Zenon DEF XorWithin, Words

\* The low bits of a number take themselves away from it.
XorClears(n) == \A a \in Nat : xor[a][a % n] = n * (a \div n)

\* One bit more, when half of the number has one bit less.
LEMMA XorOneMore ==
    ASSUME NEW a \in Nat, NEW b \in Nat, NEW k \in Nat,
           a = 2 * k + b, (a + b) % 2 = 0, xor[a \div 2][b \div 2] = k
    PROVE  xor[a][b] = 2 * k
<1>1. xor[a][b] = IF a = 0 \/ b = 0 THEN a + b
                  ELSE ((a + b) % 2) + 2 * xor[a \div 2][b \div 2]
  BY XorIs
<1> QED
  BY <1>1

\* Nothing is added.
LEMMA XorZero == ASSUME NEW a \in Nat, NEW b \in Nat, b = 0 PROVE xor[a][b] = a
<1>1. xor[a][b] = IF a = 0 \/ b = 0 THEN a + b
                  ELSE ((a + b) % 2) + 2 * xor[a \div 2][b \div 2]
  BY XorIs
<1>2. a + b = a
  OBVIOUS
<1> QED
  BY <1>1, <1>2

\* A byte is taken away from a number that ends in it.
LEMMA XorLowByte == \A a \in Nat : xor[a][a % 256] = 256 * (a \div 256)
<1>0. XorClears(1)
  <2>1. ASSUME NEW a \in Nat PROVE xor[a][a % 1] = 1 * (a \div 1)
    <3>1. a % 1 = 0 /\ a \div 1 = a
      OBVIOUS
    <3> QED
      BY <3>1, XorZero
  <2> QED
    BY <2>1 DEF XorClears
<1>1. XorClears(2)
  <2>1. ASSUME NEW a \in Nat PROVE xor[a][a % 2] = 2 * (a \div 2)
    <3>1. /\ a \div 2 \in Nat /\ a % 2 \in Nat /\ 1 * (a \div 2) \in Nat
          /\ (a % 2) \div 2 = (a \div 2) % 1 /\ (a \div 2) \div 1 = a \div 2
          /\ (a + (a % 2)) % 2 = 0 /\ a = 2 * (1 * (a \div 2)) + (a % 2)
      OBVIOUS
    <3>2. xor[a \div 2][(a % 2) \div 2] = 1 * (a \div 2)
      BY <1>0, <3>1 DEF XorClears
    <3> DEFINE b == a % 2
               k == 1 * (a \div 2)
    <3>3. xor[a][b] = 2 * k
      <4> HIDE DEF b, k
      <4>1. b \in Nat /\ k \in Nat /\ a = 2 * k + b /\ (a + b) % 2 = 0
              /\ xor[a \div 2][b \div 2] = k
        BY <3>1, <3>2 DEF b, k
      <4> QED
        BY <4>1, XorOneMore
    <3> QED
      BY <3>3
  <2> QED
    BY <2>1 DEF XorClears
<1>2. XorClears(4)
  <2>1. ASSUME NEW a \in Nat PROVE xor[a][a % 4] = 4 * (a \div 4)
    <3>1. /\ a \div 2 \in Nat /\ a % 4 \in Nat /\ 2 * (a \div 4) \in Nat
          /\ (a % 4) \div 2 = (a \div 2) % 2 /\ (a \div 2) \div 2 = a \div 4
          /\ (a + (a % 4)) % 2 = 0 /\ a = 2 * (2 * (a \div 4)) + (a % 4)
      OBVIOUS
    <3>2. xor[a \div 2][(a % 4) \div 2] = 2 * (a \div 4)
      BY <1>1, <3>1 DEF XorClears
    <3> DEFINE b == a % 4
               k == 2 * (a \div 4)
    <3>3. xor[a][b] = 2 * k
      <4> HIDE DEF b, k
      <4>1. b \in Nat /\ k \in Nat /\ a = 2 * k + b /\ (a + b) % 2 = 0
              /\ xor[a \div 2][b \div 2] = k
        BY <3>1, <3>2 DEF b, k
      <4> QED
        BY <4>1, XorOneMore
    <3> QED
      BY <3>3
  <2> QED
    BY <2>1 DEF XorClears
<1>3. XorClears(8)
  <2>1. ASSUME NEW a \in Nat PROVE xor[a][a % 8] = 8 * (a \div 8)
    <3>1. /\ a \div 2 \in Nat /\ a % 8 \in Nat /\ 4 * (a \div 8) \in Nat
          /\ (a % 8) \div 2 = (a \div 2) % 4 /\ (a \div 2) \div 4 = a \div 8
          /\ (a + (a % 8)) % 2 = 0 /\ a = 2 * (4 * (a \div 8)) + (a % 8)
      OBVIOUS
    <3>2. xor[a \div 2][(a % 8) \div 2] = 4 * (a \div 8)
      BY <1>2, <3>1 DEF XorClears
    <3> DEFINE b == a % 8
               k == 4 * (a \div 8)
    <3>3. xor[a][b] = 2 * k
      <4> HIDE DEF b, k
      <4>1. b \in Nat /\ k \in Nat /\ a = 2 * k + b /\ (a + b) % 2 = 0
              /\ xor[a \div 2][b \div 2] = k
        BY <3>1, <3>2 DEF b, k
      <4> QED
        BY <4>1, XorOneMore
    <3> QED
      BY <3>3
  <2> QED
    BY <2>1 DEF XorClears
<1>4. XorClears(16)
  <2>1. ASSUME NEW a \in Nat PROVE xor[a][a % 16] = 16 * (a \div 16)
    <3>1. /\ a \div 2 \in Nat /\ a % 16 \in Nat /\ 8 * (a \div 16) \in Nat
          /\ (a % 16) \div 2 = (a \div 2) % 8 /\ (a \div 2) \div 8 = a \div 16
          /\ (a + (a % 16)) % 2 = 0 /\ a = 2 * (8 * (a \div 16)) + (a % 16)
      OBVIOUS
    <3>2. xor[a \div 2][(a % 16) \div 2] = 8 * (a \div 16)
      BY <1>3, <3>1 DEF XorClears
    <3> DEFINE b == a % 16
               k == 8 * (a \div 16)
    <3>3. xor[a][b] = 2 * k
      <4> HIDE DEF b, k
      <4>1. b \in Nat /\ k \in Nat /\ a = 2 * k + b /\ (a + b) % 2 = 0
              /\ xor[a \div 2][b \div 2] = k
        BY <3>1, <3>2 DEF b, k
      <4> QED
        BY <4>1, XorOneMore
    <3> QED
      BY <3>3
  <2> QED
    BY <2>1 DEF XorClears
<1>5. XorClears(32)
  <2>1. ASSUME NEW a \in Nat PROVE xor[a][a % 32] = 32 * (a \div 32)
    <3>1. /\ a \div 2 \in Nat /\ a % 32 \in Nat /\ 16 * (a \div 32) \in Nat
          /\ (a % 32) \div 2 = (a \div 2) % 16 /\ (a \div 2) \div 16 = a \div 32
          /\ (a + (a % 32)) % 2 = 0 /\ a = 2 * (16 * (a \div 32)) + (a % 32)
      OBVIOUS
    <3>2. xor[a \div 2][(a % 32) \div 2] = 16 * (a \div 32)
      BY <1>4, <3>1 DEF XorClears
    <3> DEFINE b == a % 32
               k == 16 * (a \div 32)
    <3>3. xor[a][b] = 2 * k
      <4> HIDE DEF b, k
      <4>1. b \in Nat /\ k \in Nat /\ a = 2 * k + b /\ (a + b) % 2 = 0
              /\ xor[a \div 2][b \div 2] = k
        BY <3>1, <3>2 DEF b, k
      <4> QED
        BY <4>1, XorOneMore
    <3> QED
      BY <3>3
  <2> QED
    BY <2>1 DEF XorClears
<1>6. XorClears(64)
  <2>1. ASSUME NEW a \in Nat PROVE xor[a][a % 64] = 64 * (a \div 64)
    <3>1. /\ a \div 2 \in Nat /\ a % 64 \in Nat /\ 32 * (a \div 64) \in Nat
          /\ (a % 64) \div 2 = (a \div 2) % 32 /\ (a \div 2) \div 32 = a \div 64
          /\ (a + (a % 64)) % 2 = 0 /\ a = 2 * (32 * (a \div 64)) + (a % 64)
      OBVIOUS
    <3>2. xor[a \div 2][(a % 64) \div 2] = 32 * (a \div 64)
      BY <1>5, <3>1 DEF XorClears
    <3> DEFINE b == a % 64
               k == 32 * (a \div 64)
    <3>3. xor[a][b] = 2 * k
      <4> HIDE DEF b, k
      <4>1. b \in Nat /\ k \in Nat /\ a = 2 * k + b /\ (a + b) % 2 = 0
              /\ xor[a \div 2][b \div 2] = k
        BY <3>1, <3>2 DEF b, k
      <4> QED
        BY <4>1, XorOneMore
    <3> QED
      BY <3>3
  <2> QED
    BY <2>1 DEF XorClears
<1>7. XorClears(128)
  <2>1. ASSUME NEW a \in Nat PROVE xor[a][a % 128] = 128 * (a \div 128)
    <3>1. /\ a \div 2 \in Nat /\ a % 128 \in Nat /\ 64 * (a \div 128) \in Nat
          /\ (a % 128) \div 2 = (a \div 2) % 64 /\ (a \div 2) \div 64 = a \div 128
          /\ (a + (a % 128)) % 2 = 0 /\ a = 2 * (64 * (a \div 128)) + (a % 128)
      OBVIOUS
    <3>2. xor[a \div 2][(a % 128) \div 2] = 64 * (a \div 128)
      BY <1>6, <3>1 DEF XorClears
    <3> DEFINE b == a % 128
               k == 64 * (a \div 128)
    <3>3. xor[a][b] = 2 * k
      <4> HIDE DEF b, k
      <4>1. b \in Nat /\ k \in Nat /\ a = 2 * k + b /\ (a + b) % 2 = 0
              /\ xor[a \div 2][b \div 2] = k
        BY <3>1, <3>2 DEF b, k
      <4> QED
        BY <4>1, XorOneMore
    <3> QED
      BY <3>3
  <2> QED
    BY <2>1 DEF XorClears
<1>8. XorClears(256)
  <2>1. ASSUME NEW a \in Nat PROVE xor[a][a % 256] = 256 * (a \div 256)
    <3>1. /\ a \div 2 \in Nat /\ a % 256 \in Nat /\ 128 * (a \div 256) \in Nat
          /\ (a % 256) \div 2 = (a \div 2) % 128 /\ (a \div 2) \div 128 = a \div 256
          /\ (a + (a % 256)) % 2 = 0 /\ a = 2 * (128 * (a \div 256)) + (a % 256)
      OBVIOUS
    <3>2. xor[a \div 2][(a % 256) \div 2] = 128 * (a \div 256)
      BY <1>7, <3>1 DEF XorClears
    <3> DEFINE b == a % 256
               k == 128 * (a \div 256)
    <3>3. xor[a][b] = 2 * k
      <4> HIDE DEF b, k
      <4>1. b \in Nat /\ k \in Nat /\ a = 2 * k + b /\ (a + b) % 2 = 0
              /\ xor[a \div 2][b \div 2] = k
        BY <3>1, <3>2 DEF b, k
      <4> QED
        BY <4>1, XorOneMore
    <3> QED
      BY <3>3
  <2> QED
    BY <2>1 DEF XorClears
<1> QED
  BY <1>8 DEF XorClears

\* The loop over one byte gives a word.
LEMMA BitWord == ASSUME NEW x \in Words PROVE Bit[x] \in Words
<1>1. x \div 2 \in Words /\ 40961 \in Words
  <2>1. x \in Nat /\ x <= 65535
    BY WordIs
  <2>2. x \div 2 \in Nat /\ x \div 2 <= 65535
    BY <2>1
  <2> QED
    BY <2>2, WordIs
<1>2. xor[x \div 2][40961] \in Words
  BY <1>1, XorWord
<1>3. Bit[x] = IF x % 2 = 1 THEN xor[x \div 2][40961] ELSE x \div 2
  BY DEF Bit
<1> QED
  BY <1>1, <1>2, <1>3

LEMMA EightWord == ASSUME NEW x \in Words PROVE EightBits(x) \in Words
<1>1. Bit[Bit[Bit[Bit[x]]]] \in Words
  BY BitWord
<1> QED
  BY <1>1, BitWord DEF EightBits

\* Without bits in the low byte it is a shift by a byte.
LEMMA EightHigh == ASSUME NEW h \in Byte PROVE EightBits(256 * h) = h
<1>1. ASSUME NEW y \in Nat, y <= 32767 PROVE Bit[2 * y] = y
  <2>1. 2 * y \in Nat /\ 2 * y <= 65535 /\ (2 * y) % 2 = 0 /\ (2 * y) \div 2 = y
    BY <1>1
  <2>2. 2 * y \in Words
    BY <2>1, WordIs
  <2>3. Bit[2 * y] = IF (2 * y) % 2 = 1 THEN xor[(2 * y) \div 2][40961] ELSE (2 * y) \div 2
    BY <2>2 DEF Bit
  <2> QED
    BY <2>1, <2>3
<1>0. h \in Nat /\ h <= 255
  BY ByteIs
<1>2. Bit[256 * h] = 128 * h
  BY <1>0, <1>1, 256 * h = 2 * (128 * h), 128 * h <= 32767
<1>3. Bit[128 * h] = 64 * h
  BY <1>0, <1>1, 128 * h = 2 * (64 * h), 64 * h <= 32767
<1>4. Bit[64 * h] = 32 * h
  BY <1>0, <1>1, 64 * h = 2 * (32 * h), 32 * h <= 32767
<1>5. Bit[32 * h] = 16 * h
  BY <1>0, <1>1, 32 * h = 2 * (16 * h), 16 * h <= 32767
<1>6. Bit[16 * h] = 8 * h
  BY <1>0, <1>1, 16 * h = 2 * (8 * h), 8 * h <= 32767
<1>7. Bit[8 * h] = 4 * h
  BY <1>0, <1>1, 8 * h = 2 * (4 * h), 4 * h <= 32767
<1>8. Bit[4 * h] = 2 * h
  BY <1>0, <1>1, 4 * h = 2 * (2 * h), 2 * h <= 32767
<1>9. Bit[2 * h] = h
  BY <1>0, <1>1, h <= 32767
<1> QED
  BY <1>2, <1>3, <1>4, <1>5, <1>6, <1>7, <1>8, <1>9 DEF EightBits

\* What the loop over the bytes holds after each of them.
CrcOf(bytes) ==
    CHOOSE crc : crc = [n \in 0..Len(bytes) |->
        IF n = 0 THEN MaxWord ELSE EightBits(xor[crc[n - 1]][bytes[n]])]

LEMMA CrcIs ==
    ASSUME NEW bytes \in Seq(Byte)
    PROVE  /\ crc16_modbus(bytes) = CrcOf(bytes)[Len(bytes)]
           /\ CrcOf(bytes) \in [0..Len(bytes) -> Words]
           /\ CrcOf(bytes)[0] = MaxWord
           /\ \A n \in 1..Len(bytes) :
                 CrcOf(bytes)[n] = EightBits(xor[CrcOf(bytes)[n - 1]][bytes[n]])
<1> DEFINE L == Len(bytes)
           S == 0..L
           A == Words
           After(v, n) == EightBits(xor[v][bytes[n]])
           size == [n \in S |-> n]
           stop == {0}
           next == [n \in S |-> IF n = 0 THEN 0 ELSE n - 1]
           out == [n \in S |-> MaxWord]
           step == [n \in S |-> [v \in A |-> IF n = 0 THEN v ELSE After(v, n)]]
<1>1. L \in Nat
  OBVIOUS
<1>2. ASSUME NEW n \in 1..L, NEW v \in A PROVE After(v, n) \in A
  <2>1. bytes[n] \in Words
    <3>1. bytes[n] \in Byte
      OBVIOUS
    <3> QED
      BY <3>1, ByteIs, WordIs
  <2>2. xor[v][bytes[n]] \in Words
    BY <2>1, XorWord
  <2> QED
    BY <2>2, EightWord
<1> HIDE DEF L
<1>16. MaxWord \in Words
  BY WordIs DEF MaxWord
<1>3. /\ size \in [S -> Nat] /\ stop \in SUBSET S
      /\ next \in [S -> S] /\ out \in [S -> A]
  BY <1>1, <1>16
<1>4. step \in [S -> [A -> A]]
  <2> HIDE DEF After, A
  <2>1. ASSUME NEW n \in S PROVE [v \in A |-> IF n = 0 THEN v ELSE After(v, n)] \in [A -> A]
    <3>1. n # 0 => n \in 1..L
      BY <1>1
    <3> QED
      BY <1>2, <3>1
  <2> QED
    BY <2>1
<1>5. \A n \in S : n \notin stop => size[next[n]] < size[n]
  BY <1>1
<1>6. PICK f : /\ f \in [S -> A]
               /\ \A n \in S : f[n] = IF n \in stop THEN out[n] ELSE step[n][f[next[n]]]
  <2> HIDE DEF A, S, size, stop, next, out, step
  <2>1. Descends(S, A, size, stop, out, next, step)
    BY <1>3, <1>4, <1>5 DEF Descends
  <2>2. \E f : Solution(f, S, A, stop, out, next, step)
    BY <2>1, Recursive
  <2> QED
    BY <2>2 DEF Solution
<1>7. ASSUME NEW n \in S PROVE f[n] = IF n = 0 THEN MaxWord ELSE After(f[n - 1], n)
  <2> HIDE DEF After, A
  <2>1. CASE n = 0
    BY <1>6, <2>1
  <2>2. CASE n # 0
    <3>1. n - 1 \in S
      BY <1>1, <2>2
    <3> QED
      BY <1>6, <2>2, <3>1
  <2> QED
    BY <2>1, <2>2
<1>8. f = [n \in 0..Len(bytes) |->
             IF n = 0 THEN MaxWord ELSE EightBits(xor[f[n - 1]][bytes[n]])]
  <2> HIDE DEF A
  <2>1. f = [n \in S |-> IF n = 0 THEN MaxWord ELSE After(f[n - 1], n)]
    <3> HIDE DEF After, S
    <3> QED
      BY <1>6, <1>7
  <2> QED
    BY <2>1 DEF L
<1> DEFINE crc == CrcOf(bytes)
<1>9. crc = [n \in 0..Len(bytes) |->
               IF n = 0 THEN MaxWord ELSE EightBits(xor[crc[n - 1]][bytes[n]])]
  <2> HIDE DEF After, A, S
  <2> QED
    BY <1>8, Zenon DEF CrcOf
<1>10. crc = [n \in S |-> IF n = 0 THEN MaxWord ELSE After(crc[n - 1], n)]
  BY <1>9 DEF L
<1> HIDE DEF crc, After
<1>11. crc[0] = MaxWord
  BY <1>1, <1>10
<1>12. \A n \in 1..L : crc[n] = After(crc[n - 1], n)
  BY <1>1, <1>10
<1>13. \A n \in S : crc[n] \in A
  <2> DEFINE Bad == {n \in S : crc[n] \notin A}
  <2>1. SUFFICES ASSUME Bad # {} PROVE FALSE
    OBVIOUS
  <2>2. Bad \in SUBSET Nat
    BY <1>1
  <2>3. PICK n \in Bad : \A x \in Bad : n <= x
    BY <2>1, <2>2, LeastNumber
  <2>4. n \in S /\ crc[n] \notin A
    BY <2>3
  <2>5. n # 0
    BY <1>11, <1>16, <2>4
  <2>6. n \in 1..L /\ n - 1 \in S /\ ~(n <= n - 1)
    <3>1. n \in 0..L
      BY <2>4
    <3> HIDE DEF Bad, A
    <3> QED
      BY <1>1, <2>5, <3>1
  <2>7. crc[n - 1] \in A
    BY <2>3, <2>6
  <2>8. After(crc[n - 1], n) \in A
    <3> HIDE DEF A, Bad, S
    <3> QED
      BY <1>2, <2>6, <2>7
  <2> HIDE DEF A, Bad, S
  <2> QED
    BY <1>12, <2>4, <2>6, <2>8, Zenon
<1>14. crc \in [S -> A]
  <2> HIDE DEF A
  <2> QED
    BY <1>10, <1>13
<1>15. crc16_modbus(bytes) = crc[Len(bytes)]
  BY Zenon DEF crc16_modbus, crc, CrcOf
<1> QED
  BY <1>11, <1>12, <1>14, <1>15 DEF crc, L, After

\* The bytes before a place decide what the loop holds there.
LEMMA CrcSplit ==
    ASSUME NEW s \in Seq(Byte), NEW t \in Seq(Byte), NEW k \in 0..Len(s)
    PROVE  CrcOf(s \o t)[k] = CrcOf(s)[k]
<1> DEFINE C == CrcOf(s)
           D == CrcOf(s \o t)
           Bad == {n \in 0..Len(s) : D[n] # C[n]}
<1>1. SUFFICES ASSUME Bad # {} PROVE FALSE
  OBVIOUS
<1>2. /\ s \o t \in Seq(Byte) /\ Len(s \o t) = Len(s) + Len(t)
      /\ Len(s) \in Nat /\ Len(t) \in Nat
      /\ \A n \in 1..Len(s) : (s \o t)[n] = s[n]
  BY ConcatProperties
<1>3. /\ C[0] = MaxWord /\ D[0] = MaxWord
      /\ \A n \in 1..Len(s) : C[n] = EightBits(xor[C[n - 1]][s[n]])
      /\ \A n \in 1..Len(s \o t) : D[n] = EightBits(xor[D[n - 1]][(s \o t)[n]])
  BY <1>2, CrcIs
<1>4. Bad \in SUBSET Nat
  BY <1>2
<1>5. PICK n \in Bad : \A x \in Bad : n <= x
  BY <1>1, <1>4, LeastNumber
<1>6. n \in 0..Len(s) /\ D[n] # C[n]
  BY <1>5
<1> HIDE DEF C, D
<1>7. n # 0
  BY <1>3, <1>6
<1>8. /\ n \in 1..Len(s) /\ n \in 1..Len(s \o t)
      /\ n - 1 \in 0..Len(s) /\ ~(n <= n - 1)
  <2> HIDE DEF Bad
  <2> QED
    BY <1>2, <1>6, <1>7
<1>9. D[n - 1] = C[n - 1]
  BY <1>5, <1>8
<1> QED
  BY <1>2, <1>3, <1>6, <1>8, <1>9, Zenon

LEMMA WordBytes ==
    ASSUME NEW n \in Words
    PROVE  /\ Word(n) \in Seq(Byte) /\ Len(Word(n)) = 2 /\ to_int(Word(n)) = n
           /\ Word(n)[1] = n % 256 /\ Word(n)[2] = n \div 256
           /\ n % 256 \in Byte /\ n \div 256 \in Byte
<1>1. n \in Nat /\ n <= 65535
  BY WordIs
<1>2. /\ n % 256 \in Nat /\ n % 256 <= 255 /\ n \div 256 \in Nat /\ n \div 256 <= 255
      /\ n = (n % 256) + 256 * (n \div 256)
  BY <1>1
<1> DEFINE low == n % 256
           high == n \div 256
<1>3. low \in Byte /\ high \in Byte
  BY <1>2, ByteIs
<1>4. Word(n) = <<low, high>>
  BY DEF Word
<1>5. n = low + 256 * high
  BY <1>2
<1> HIDE DEF low, high
<1>6. Word(n) \in Seq(Byte) /\ Len(Word(n)) = 2 /\ Word(n)[1] = low /\ Word(n)[2] = high
  BY <1>3, <1>4
<1> QED
  BY <1>3, <1>5, <1>6 DEF to_int, low, high

\* The CRC of a sequence with its CRC after it is 0.
LEMMA Residual ==
    ASSUME NEW s \in Seq(Byte)
    PROVE  /\ crc16_modbus(s) \in Words
           /\ crc16_modbus(s \o Word(crc16_modbus(s))) = 0
<1> DEFINE L == Len(s)
           w == crc16_modbus(s)
           t == Word(w)
           D == CrcOf(s \o t)
           high == w \div 256
<1>1. w = CrcOf(s)[L] /\ w \in Words /\ L \in Nat
  BY CrcIs
<1>2. /\ t \in Seq(Byte) /\ Len(t) = 2 /\ t[1] = w % 256 /\ t[2] = high /\ high \in Byte
  BY <1>1, WordBytes
<1>3. D[L] = w
  BY <1>1, <1>2, CrcSplit
<1> HIDE DEF t, w, L
<1>4. /\ s \o t \in Seq(Byte) /\ Len(s \o t) = L + 2
      /\ (s \o t)[L + 1] = w % 256 /\ (s \o t)[L + 2] = high
  <2>1. /\ s \o t \in Seq(Byte) /\ Len(s \o t) = Len(s) + Len(t)
        /\ \A i \in 1..Len(s) + Len(t) : (s \o t)[i] =
              IF i <= Len(s) THEN s[i] ELSE t[i - Len(s)]
    BY <1>2, ConcatProperties
  <2>2. L = Len(s)
    BY DEF L
  <2>3. /\ L + 1 \in 1..L + 2 /\ L + 2 \in 1..L + 2 /\ ~(L + 1 <= L) /\ ~(L + 2 <= L)
        /\ (L + 1) - L = 1 /\ (L + 2) - L = 2
    BY <1>1
  <2> QED
    BY <1>2, <2>1, <2>2, <2>3
<1>5. /\ crc16_modbus(s \o t) = D[L + 2]
      /\ \A n \in 1..Len(s \o t) : D[n] = EightBits(xor[D[n - 1]][(s \o t)[n]])
  <2> DEFINE u == s \o t
  <2>1. /\ crc16_modbus(u) = CrcOf(u)[Len(u)]
        /\ \A n \in 1..Len(u) : CrcOf(u)[n] = EightBits(xor[CrcOf(u)[n - 1]][u[n]])
    <3> HIDE DEF u
    <3>1. u \in Seq(Byte)
      BY <1>4 DEF u
    <3> QED
      BY <3>1, CrcIs
  <2> QED
    BY <1>4, <2>1
<1>6. /\ D[L + 1] = EightBits(xor[D[L]][w % 256])
      /\ D[L + 2] = EightBits(xor[D[L + 1]][high])
  <2>1. /\ L + 1 \in 1..Len(s \o t) /\ L + 2 \in 1..Len(s \o t)
        /\ (L + 1) - 1 = L /\ (L + 2) - 1 = L + 1
    BY <1>1, <1>4
  <2> HIDE DEF D
  <2> QED
    BY <1>4, <1>5, <2>1
<1>7. D[L + 1] = high
  <2>1. xor[w][w % 256] = 256 * high
    BY <1>1, WordIs, XorLowByte
  <2> HIDE DEF high
  <2> QED
    BY <1>2, <1>3, <1>6, <2>1, EightHigh
<1>8. D[L + 2] = 0
  <2>1. xor[high][high] = 0
    BY <1>2, ByteIs, XorSelf
  <2>2. 0 \in Byte /\ 256 * 0 = 0
    BY ByteIs
  <2>3. EightBits(0) = 0
    BY <2>2, EightHigh
  <2> QED
    BY <1>6, <1>7, <2>1, <2>3
<1> QED
  BY <1>1, <1>5, <1>8 DEF t, w

-----------------------------------------------------------------------------
(* Frames.                                                                 *)

\* What was joined is cut apart again.
LEMMA Joined ==
    ASSUME NEW s \in Seq(Byte), NEW t \in Seq(Byte)
    PROVE  /\ s \o t \in Seq(Byte) /\ Len(s \o t) = Len(s) + Len(t)
           /\ Len(s) \in Nat /\ Len(t) \in Nat
           /\ SubSeq(s \o t, 1, Len(s)) = s
           /\ SubSeq(s \o t, Len(s) + 1, Len(s) + Len(t)) = t
           /\ \A i \in 1..Len(s) : (s \o t)[i] = s[i]
           /\ \A i \in 1..Len(t) : (s \o t)[Len(s) + i] = t[i]
<1> DEFINE u == s \o t
           m == Len(s)
           n == Len(t)
<1>1. /\ u \in Seq(Byte) /\ Len(u) = m + n /\ m \in Nat /\ n \in Nat
      /\ \A i \in 1..m + n : u[i] = IF i <= m THEN s[i] ELSE t[i - m]
  BY ConcatProperties
<1>2. \A i \in 1..m : u[i] = s[i] /\ s[i] \in Byte
  <2> HIDE DEF u
  <2>1. ASSUME NEW i \in 1..m PROVE u[i] = s[i]
    <3>1. i \in 1..m + n /\ i <= m
      BY <1>1
    <3> QED
      BY <1>1, <3>1
  <2> QED
    BY <2>1, ElementOfSeq
<1>3. \A i \in 1..n : u[m + i] = t[i] /\ t[i] \in Byte
  <2> HIDE DEF u, m
  <2>1. ASSUME NEW i \in 1..n PROVE u[m + i] = t[i]
    <3>1. m + i \in 1..m + n /\ ~(m + i <= m) /\ (m + i) - m = i
      BY <1>1
    <3> QED
      BY <1>1, <3>1
  <2> QED
    BY <2>1, ElementOfSeq
<1>4. SubSeq(u, 1, m) = s
  <2> HIDE DEF u
  <2>1. \A i \in 1..m : u[i] \in Byte
    BY <1>2
  <2>2. /\ SubSeq(u, 1, m) \in Seq(Byte)
        /\ Len(SubSeq(u, 1, m)) = IF 1 <= m THEN m - 1 + 1 ELSE 0
        /\ \A i \in 1..m - 1 + 1 : SubSeq(u, 1, m)[i] = u[1 + i - 1]
    BY <1>1, <2>1, SubSeqProperties
  <2>3. Len(SubSeq(u, 1, m)) = m
    BY <1>1, <2>2
  <2>4. \A i \in 1..m : SubSeq(u, 1, m)[i] = s[i]
    <3>1. ASSUME NEW i \in 1..m PROVE i \in 1..m - 1 + 1 /\ 1 + i - 1 = i
      BY <1>1
    <3> QED
      BY <1>2, <2>2, <3>1
  <2> QED
    BY <2>2, <2>3, <2>4, SeqEqual
<1>5. SubSeq(u, m + 1, m + n) = t
  <2> HIDE DEF u, m
  <2>1. \A i \in m + 1 .. m + n : u[i] \in Byte
    <3>1. ASSUME NEW i \in m + 1 .. m + n PROVE i \in 1..Len(u)
      BY <1>1
    <3> QED
      BY <1>1, <3>1, ElementOfSeq
  <2>2. /\ SubSeq(u, m + 1, m + n) \in Seq(Byte)
        /\ Len(SubSeq(u, m + 1, m + n)) =
              IF m + 1 <= m + n THEN (m + n) - (m + 1) + 1 ELSE 0
        /\ \A i \in 1..(m + n) - (m + 1) + 1 :
              SubSeq(u, m + 1, m + n)[i] = u[(m + 1) + i - 1]
    <3>1. m + 1 \in Int /\ m + n \in Int
      BY <1>1
    <3> QED
      BY <2>1, <3>1, SubSeqProperties
  <2>3. Len(SubSeq(u, m + 1, m + n)) = n
    BY <1>1, <2>2
  <2>4. \A i \in 1..n : SubSeq(u, m + 1, m + n)[i] = t[i]
    <3>1. ASSUME NEW i \in 1..n PROVE i \in 1..(m + n) - (m + 1) + 1 /\ (m + 1) + i - 1 = m + i
      BY <1>1
    <3> QED
      BY <1>3, <2>2, <3>1
  <2> QED
    BY <2>2, <2>3, <2>4, SeqEqual
<1> QED
  BY <1>1, <1>2, <1>3, <1>4, <1>5

LEMMA SerialTen ==
    ASSUME NEW s \in Seq(Byte)
    PROVE  serial_bytes(s) \in Seq(Byte) /\ Len(serial_bytes(s)) = 10
<1> DEFINE z == Zeros(10)
           u == s \o z
<1>1. z \in Seq(Byte) /\ Len(z) = 10
  <2>1. 0 \in Byte
    BY ByteIs
  <2>2. z = [i \in 1..10 |-> 0]
    BY DEF Zeros
  <2>3. DOMAIN z = 1..10 /\ \A i \in 1..10 : z[i] \in Byte
    BY <2>1, <2>2
  <2>4. z \in [1..10 -> Byte]
    BY <2>2, <2>3
  <2>5. 10 \in Nat
    OBVIOUS
  <2> HIDE DEF z
  <2>6. z \in Seq(Byte)
    BY <2>1, <2>2
  <2>7. Len(z) = 10
    <3>1. Len(z) \in Nat /\ DOMAIN z = 1..Len(z)
      BY <2>6, LenProperties
    <3>2. 1..Len(z) = 1..10
      BY <2>3, <3>1
    <3> QED
      BY <3>1, <3>2
  <2> QED
    BY <2>6, <2>7
<1> HIDE DEF z
<1>2. u \in Seq(Byte) /\ Len(u) = Len(s) + 10 /\ Len(s) \in Nat
  <2>1. Len(s \o z) = Len(s) + Len(z)
    BY <1>1, Joined
  <2>2. s \o z \in Seq(Byte) /\ Len(s) \in Nat
    BY <1>1, Joined
  <2> QED
    BY <1>1, <2>1, <2>2
<1> HIDE DEF u
<1>3. \A i \in 1..10 : u[i] \in Byte
  <2>1. ASSUME NEW i \in 1..10 PROVE i \in 1..Len(u)
    BY <1>2
  <2> QED
    BY <1>2, <2>1, ElementOfSeq
<1>4. SubSeq(u, 1, 10) \in Seq(Byte) /\ Len(SubSeq(u, 1, 10)) = 10
  BY <1>3, SubSeqProperties
<1> QED
  BY <1>4 DEF serial_bytes, u, z

\* The parts of a frame.
Header(n) ==
    <<161, 26>> \o Word(Protocol) \o Word(n) \o <<1, 194>> \o serial_bytes(DongleSerial)
Body(fn, payload) == <<0, fn>> \o serial_bytes(InverterSerial) \o payload
Counted(fn, payload) == Word(Len(Body(fn, payload)) + 2) \o Body(fn, payload)

LEMMA Pair ==
    ASSUME NEW u \in Byte, NEW v \in Byte
    PROVE  /\ <<u, v>> \in Seq(Byte) /\ Len(<<u, v>>) = 2
           /\ <<u, v>>[1] = u /\ <<u, v>>[2] = v
  OBVIOUS

\* A slice of the first of two sequences.
LEMMA CutFirst ==
    ASSUME NEW s \in Seq(Byte), NEW t \in Seq(Byte), NEW i \in Nat, NEW j \in Nat,
           1 <= i, i <= Len(s), 1 <= j, j <= Len(s)
    PROVE  SubSeq(s \o t, i, j) = SubSeq(s, i, j)
<1>1. i \in 1..Len(s) /\ j \in 1..Len(s)
  <2>1. Len(s) \in Nat
    OBVIOUS
  <2> QED
    BY <2>1
<1> QED
  BY <1>1, SubSeqOfConcat1

LEMMA HeaderIs ==
    ASSUME NEW n \in Words
    PROVE  /\ Header(n) \in Seq(Byte) /\ Len(Header(n)) = 18
           /\ SubSeq(Header(n), 1, 2) = <<161, 26>>
           /\ SubSeq(Header(n), 5, 6) = Word(n)
           /\ SubSeq(Header(n), 9, 18) = serial_bytes(DongleSerial)
<1> DEFINE p == <<161, 26>>
           v == Word(Protocol)
           w == Word(n)
           q == <<1, 194>>
           d == serial_bytes(DongleSerial)
           pv == p \o v
           pvw == pv \o w
           pvwq == pvw \o q
<1>1. p \in Seq(Byte) /\ Len(p) = 2 /\ q \in Seq(Byte) /\ Len(q) = 2
  <2>1. 161 \in Byte /\ 26 \in Byte /\ 1 \in Byte /\ 194 \in Byte
    BY ByteIs
  <2> QED
    BY <2>1, Pair
<1>2. v \in Seq(Byte) /\ Len(v) = 2 /\ w \in Seq(Byte) /\ Len(w) = 2
  <2>1. Protocol \in Words
    BY WordIs DEF Protocol
  <2> QED
    BY <2>1, WordBytes
<1>3. d \in Seq(Byte) /\ Len(d) = 10
  BY SerialTen, SerialAssumption
<1>4. Header(n) = pvwq \o d
  BY DEF Header
<1> HIDE DEF p, v, w, q, d
<1>5. pv \in Seq(Byte) /\ Len(pv) = 4 /\ SubSeq(pv, 1, 2) = p
  <2>1. pv \in Seq(Byte) /\ Len(pv) = Len(p) + Len(v) /\ SubSeq(pv, 1, Len(p)) = p
    BY <1>1, <1>2, Joined
  <2> QED
    BY <1>1, <1>2, <2>1
<1> HIDE DEF pv
<1>6. /\ pvw \in Seq(Byte) /\ Len(pvw) = 6 /\ SubSeq(pvw, 1, 2) = p
      /\ SubSeq(pvw, 5, 6) = w
  <2>1. /\ pvw \in Seq(Byte) /\ Len(pvw) = Len(pv) + Len(w)
        /\ SubSeq(pvw, Len(pv) + 1, Len(pv) + Len(w)) = w
    BY <1>2, <1>5, Joined
  <2>2. SubSeq(pvw, 1, 2) = SubSeq(pv, 1, 2)
    <3>1. 1 \in Nat /\ 2 \in Nat /\ 1 <= 1 /\ 1 <= Len(pv) /\ 1 <= 2 /\ 2 <= Len(pv)
      BY <1>2, <1>5
    <3> QED
      BY <3>1, <1>2, <1>5, CutFirst, Zenon
  <2>3. Len(pv) + 1 = 5 /\ Len(pv) + Len(w) = 6
    BY <1>2, <1>5
  <2> QED
    BY <1>5, <2>1, <2>2, <2>3, Zenon
<1> HIDE DEF pvw
<1>7. /\ pvwq \in Seq(Byte) /\ Len(pvwq) = 8 /\ SubSeq(pvwq, 1, 2) = p
      /\ SubSeq(pvwq, 5, 6) = w
  <2>1. pvwq \in Seq(Byte) /\ Len(pvwq) = Len(pvw) + Len(q)
    BY <1>1, <1>6, Joined
  <2>2. SubSeq(pvwq, 1, 2) = SubSeq(pvw, 1, 2)
    <3>1. 1 \in Nat /\ 2 \in Nat /\ 1 <= 1 /\ 1 <= Len(pvw) /\ 1 <= 2 /\ 2 <= Len(pvw)
      BY <1>1, <1>6
    <3> QED
      BY <3>1, <1>1, <1>6, CutFirst, Zenon
  <2>3. SubSeq(pvwq, 5, 6) = SubSeq(pvw, 5, 6)
    <3>1. 5 \in Nat /\ 6 \in Nat /\ 1 <= 5 /\ 5 <= Len(pvw) /\ 1 <= 6 /\ 6 <= Len(pvw)
      BY <1>1, <1>6
    <3> QED
      BY <3>1, <1>1, <1>6, CutFirst, Zenon
  <2>4. Len(pvw) + Len(q) = 8
    BY <1>1, <1>6
  <2> QED
    BY <1>6, <2>1, <2>2, <2>3, <2>4, Zenon
<1> HIDE DEF pvwq
<1> DEFINE h == pvwq \o d
<1>8. /\ h \in Seq(Byte) /\ Len(h) = 18 /\ SubSeq(h, 1, 2) = p
      /\ SubSeq(h, 5, 6) = w /\ SubSeq(h, 9, 18) = d
  <2>1. /\ h \in Seq(Byte) /\ Len(h) = Len(pvwq) + Len(d)
        /\ SubSeq(h, Len(pvwq) + 1, Len(pvwq) + Len(d)) = d
    BY <1>3, <1>7, Joined
  <2>2. SubSeq(h, 1, 2) = SubSeq(pvwq, 1, 2)
    <3>1. 1 \in Nat /\ 2 \in Nat /\ 1 <= 1 /\ 1 <= Len(pvwq) /\ 1 <= 2 /\ 2 <= Len(pvwq)
      BY <1>3, <1>7
    <3> QED
      BY <3>1, <1>3, <1>7, CutFirst, Zenon
  <2>3. SubSeq(h, 5, 6) = SubSeq(pvwq, 5, 6)
    <3>1. 5 \in Nat /\ 6 \in Nat /\ 1 <= 5 /\ 5 <= Len(pvwq) /\ 1 <= 6 /\ 6 <= Len(pvwq)
      BY <1>3, <1>7
    <3> QED
      BY <3>1, <1>3, <1>7, CutFirst, Zenon
  <2>4. Len(pvwq) + 1 = 9 /\ Len(pvwq) + Len(d) = 18
    BY <1>3, <1>7
  <2> QED
    BY <1>7, <2>1, <2>2, <2>3, <2>4, Zenon
<1> QED
  BY <1>4, <1>8 DEF p, w, d

\* A slice of the second of two sequences.
LEMMA CutSecond ==
    ASSUME NEW s \in Seq(Byte), NEW t \in Seq(Byte), NEW k \in Nat, NEW m \in Nat,
           1 <= k, k <= Len(t), 1 <= m, m <= Len(t)
    PROVE  SubSeq(s \o t, Len(s) + k, Len(s) + m) = SubSeq(t, k, m)
<1>1. /\ Len(s) + k \in Len(s) + 1 .. Len(s) + Len(t)
      /\ Len(s) + m \in Len(s) + 1 .. Len(s) + Len(t)
      /\ (Len(s) + k) - Len(s) = k /\ (Len(s) + m) - Len(s) = m
  <2>1. Len(s) \in Nat /\ Len(t) \in Nat
    OBVIOUS
  <2> QED
    BY <2>1
<1> QED
  BY <1>1, SubSeqOfConcat2

LEMMA JoinedTwice ==
    ASSUME NEW s \in Seq(Byte), NEW t \in Seq(Byte), NEW u \in Seq(Byte)
    PROVE  (s \o t) \o u = s \o (t \o u)
  BY ConcatAssociative

LEMMA BodyIs ==
    ASSUME NEW fn \in Byte, NEW p \in Seq(Byte)
    PROVE  /\ Body(fn, p) \in Seq(Byte) /\ Len(Body(fn, p)) = 12 + Len(p)
           /\ Body(fn, p)[2] = fn
           /\ SubSeq(Body(fn, p), 3, 12) = serial_bytes(InverterSerial)
           /\ \A i \in 1..Len(p) : Body(fn, p)[12 + i] = p[i]
<1> DEFINE f == <<0, fn>>
           d == serial_bytes(InverterSerial)
           fd == f \o d
           b == fd \o p
<1>1. f \in Seq(Byte) /\ Len(f) = 2 /\ f[2] = fn
  <2>1. 0 \in Byte
    BY ByteIs
  <2> QED
    BY <2>1, Pair
<1>2. d \in Seq(Byte) /\ Len(d) = 10
  BY SerialTen, SerialAssumption
<1>3. Body(fn, p) = b
  BY DEF Body
<1> HIDE DEF f, d
<1>4. fd \in Seq(Byte) /\ Len(fd) = 12 /\ fd[2] = fn /\ SubSeq(fd, 3, 12) = d
  <2>1. /\ fd \in Seq(Byte) /\ Len(fd) = Len(f) + Len(d)
        /\ \A i \in 1..Len(f) : fd[i] = f[i]
    BY <1>1, <1>2, Joined
  <2>2. 3 = Len(f) + 1 /\ 12 = Len(f) + Len(d) /\ 2 \in 1..Len(f)
    BY <1>1, <1>2
  <2>3. SubSeq(fd, 3, 12) = d
    <3>1. f \in Seq(Byte) /\ d \in Seq(Byte)
      BY <1>1, <1>2
    <3>2. SubSeq(fd, Len(f) + 1, Len(f) + Len(d)) = d
      BY <3>1, Joined, Zenon
    <3> QED
      BY <2>2, <3>2, Zenon
  <2>4. Len(fd) = 12
    BY <2>1, <2>2
  <2>5. fd[2] = fn
    BY <1>1, <2>1, <2>2
  <2> QED
    BY <2>1, <2>3, <2>4, <2>5
<1> HIDE DEF fd
<1>5. /\ b \in Seq(Byte) /\ Len(b) = 12 + Len(p)
      /\ \A i \in 1..12 : b[i] = fd[i]
      /\ \A i \in 1..Len(p) : b[12 + i] = p[i]
  <2>1. /\ b \in Seq(Byte) /\ Len(b) = Len(fd) + Len(p)
        /\ \A i \in 1..Len(fd) : b[i] = fd[i]
        /\ \A i \in 1..Len(p) : b[Len(fd) + i] = p[i]
    BY <1>4, Joined
  <2> QED
    BY <1>4, <2>1, Zenon
<1>6. SubSeq(b, 3, 12) = SubSeq(fd, 3, 12)
  <2>1. 3 \in Nat /\ 12 \in Nat /\ 1 <= 3 /\ 3 <= Len(fd) /\ 1 <= 12 /\ 12 <= Len(fd)
    BY <1>4
  <2> QED
    BY <1>4, <2>1, CutFirst, Zenon
<1> HIDE DEF b
<1>7. b[2] = fn
  <2>1. 2 \in 1..12
    OBVIOUS
  <2> QED
    BY <1>4, <1>5, <2>1, Zenon
<1> QED
  BY <1>3, <1>4, <1>5, <1>6, <1>7, Zenon DEF d

LEMMA CountedIs ==
    ASSUME NEW fn \in Byte, NEW p \in Seq(Byte), Len(p) <= 1000
    PROVE  /\ Counted(fn, p) \in Seq(Byte) /\ Len(Counted(fn, p)) = 14 + Len(p)
           /\ SubSeq(Counted(fn, p), 1, 2) = Word(14 + Len(p))
           /\ SubSeq(Counted(fn, p), 5, 14) = serial_bytes(InverterSerial)
           /\ Counted(fn, p)[4] = fn
           /\ \A i \in 1..Len(p) : Counted(fn, p)[14 + i] = p[i]
           /\ Len(p) \in Nat /\ 14 + Len(p) \in Words
           /\ Counted(fn, p) = Word(14 + Len(p)) \o Body(fn, p)
<1> DEFINE b == Body(fn, p)
           L == Len(p)
           w == Word(14 + L)
           c == w \o b
<1>1. /\ b \in Seq(Byte) /\ Len(b) = 12 + L /\ b[2] = fn
      /\ SubSeq(b, 3, 12) = serial_bytes(InverterSerial)
      /\ \A i \in 1..L : b[12 + i] = p[i]
  BY BodyIs
<1>2. L \in Nat /\ L <= 1000
  OBVIOUS
<1>3. 14 + L \in Words
  <2> HIDE DEF L
  <2>1. 14 + L \in Nat /\ 14 + L <= 65535
    BY <1>2
  <2> QED
    BY <2>1, WordIs
<1>4. Counted(fn, p) = c
  <2> HIDE DEF L, b
  <2>1. Len(b) + 2 = 14 + L
    BY <1>1, <1>2
  <2> QED
    BY <2>1, Zenon DEF Counted, b
<1> HIDE DEF b, L
<1>5. w \in Seq(Byte) /\ Len(w) = 2
  BY <1>3, WordBytes
<1> HIDE DEF w
<1>6. /\ c \in Seq(Byte) /\ Len(c) = 14 + L
      /\ SubSeq(c, 1, 2) = w
      /\ \A i \in 1..12 + L : c[2 + i] = b[i]
  <2>1. /\ c \in Seq(Byte) /\ Len(c) = Len(w) + Len(b)
        /\ SubSeq(c, 1, Len(w)) = w
        /\ \A i \in 1..Len(b) : c[Len(w) + i] = b[i]
    BY <1>1, <1>5, Joined
  <2>2. Len(w) + Len(b) = 14 + L
    BY <1>1, <1>2, <1>5
  <2> QED
    BY <1>1, <1>5, <2>1, <2>2, Zenon
<1>7. SubSeq(c, 5, 14) = SubSeq(b, 3, 12)
  <2>1. /\ 5 = Len(w) + 3 /\ 14 = Len(w) + 12 /\ 3 \in Nat /\ 12 \in Nat
        /\ 1 <= 3 /\ 1 <= 12 /\ 3 <= Len(b) /\ 12 <= Len(b)
    BY <1>1, <1>2, <1>5
  <2>2. b \in Seq(Byte) /\ w \in Seq(Byte)
    BY <1>1, <1>5
  <2>3. SubSeq(c, Len(w) + 3, Len(w) + 12) = SubSeq(b, 3, 12)
    BY <2>1, <2>2, CutSecond
  <2> QED
    BY <2>1, <2>3, Zenon
<1> HIDE DEF c
<1>8. c[4] = fn
  <2>1. 2 \in 1..12 + L /\ 2 + 2 = 4
    BY <1>2
  <2> QED
    BY <1>1, <1>6, <2>1, Zenon
<1>9. ASSUME NEW i \in 1..L PROVE c[14 + i] = p[i]
  <2>1. 12 + i \in 1..12 + L /\ 2 + (12 + i) = 14 + i
    BY <1>2
  <2> QED
    BY <1>1, <1>6, <2>1, Zenon
<1> QED
  BY <1>1, <1>2, <1>3, <1>4, <1>6, <1>7, <1>8, <1>9, Zenon DEF b, c, w, L

\* The CRC of a frame.
Check(fn, payload) == Word(crc16_modbus(Body(fn, payload)))

LEMMA InnerIs ==
    ASSUME NEW fn \in Byte, NEW p \in Seq(Byte), Len(p) <= 1000
    PROVE  LET i == build_inner_frame(fn, p)
           IN  /\ i \in Seq(Byte) /\ Len(i) = 16 + Len(p)
               /\ i = Counted(fn, p) \o Check(fn, p)
               /\ Check(fn, p) \in Seq(Byte) /\ Len(Check(fn, p)) = 2
               /\ SubSeq(i, 1, 2) = Word(14 + Len(p))
               /\ SubSeq(i, 5, 14) = serial_bytes(InverterSerial)
               /\ crc16_modbus(SubSeq(i, 3, Len(i))) = 0
<1> DEFINE b == Body(fn, p)
           c == Counted(fn, p)
           k == Check(fn, p)
           w == Word(14 + Len(p))
           i == c \o k
<1>1. build_inner_frame(fn, p) = i
  BY Zenon DEF build_inner_frame, Counted, Body, Check
<1>2. /\ c \in Seq(Byte) /\ Len(c) = 14 + Len(p) /\ SubSeq(c, 1, 2) = w
      /\ SubSeq(c, 5, 14) = serial_bytes(InverterSerial)
      /\ c = w \o b /\ Len(p) \in Nat /\ 14 + Len(p) \in Words
  BY CountedIs
<1>3. b \in Seq(Byte) /\ Len(b) = 12 + Len(p)
  BY BodyIs
<1> HIDE DEF b
<1>4. k = Word(crc16_modbus(b)) /\ crc16_modbus(b) \in Words /\ crc16_modbus(b \o k) = 0
  <2>1. k = Word(crc16_modbus(b))
    BY DEF b, Check
  <2> HIDE DEF k
  <2> QED
    BY <1>3, <2>1, Residual, Zenon
<1> HIDE DEF k
<1>5. k \in Seq(Byte) /\ Len(k) = 2
  BY <1>4, WordBytes
<1>6. w \in Seq(Byte) /\ Len(w) = 2
  BY <1>2, WordBytes
<1> HIDE DEF c, w
<1>7. i \in Seq(Byte) /\ Len(i) = 16 + Len(p)
  <2>1. i \in Seq(Byte) /\ Len(i) = Len(c) + Len(k)
    BY <1>2, <1>5, Joined
  <2> QED
    BY <1>2, <1>5, <2>1
<1>8. SubSeq(i, 1, 2) = w /\ SubSeq(i, 5, 14) = serial_bytes(InverterSerial)
  <2>1. /\ 1 \in Nat /\ 2 \in Nat /\ 5 \in Nat /\ 14 \in Nat
        /\ 1 <= 1 /\ 1 <= 2 /\ 1 <= 5 /\ 1 <= 14
        /\ 1 <= Len(c) /\ 2 <= Len(c) /\ 5 <= Len(c) /\ 14 <= Len(c)
    BY <1>2
  <2>0. c \in Seq(Byte) /\ k \in Seq(Byte)
    BY <1>2, <1>5
  <2>2. SubSeq(i, 1, 2) = SubSeq(c, 1, 2)
    BY <2>0, <2>1, CutFirst, ZenonT(60)
  <2>3. SubSeq(i, 5, 14) = SubSeq(c, 5, 14)
    BY <2>0, <2>1, CutFirst, ZenonT(60)
  <2> QED
    BY <1>2, <2>2, <2>3, Zenon
<1>9. SubSeq(i, 3, Len(i)) = b \o k
  <2>1. i = w \o (b \o k)
    <3>1. (w \o b) \o k = w \o (b \o k)
      BY <1>3, <1>5, <1>6, JoinedTwice, Zenon
    <3> QED
      BY <1>2, <3>1, Zenon
  <2>2. b \o k \in Seq(Byte) /\ Len(b \o k) = 14 + Len(p)
    <3>1. b \o k \in Seq(Byte) /\ Len(b \o k) = Len(b) + Len(k)
      BY <1>3, <1>5, Joined
    <3> QED
      BY <1>2, <1>3, <1>5, <3>1
  <2>3. 3 = Len(w) + 1 /\ Len(i) = Len(w) + Len(b \o k)
    BY <1>2, <1>6, <1>7, <2>2
  <2> HIDE DEF i
  <2>4. SubSeq(w \o (b \o k), Len(w) + 1, Len(w) + Len(b \o k)) = b \o k
    <3> DEFINE bk == b \o k
    <3>1. w \in Seq(Byte) /\ bk \in Seq(Byte)
      BY <1>6, <2>2
    <3> HIDE DEF bk
    <3>2. SubSeq(w \o bk, Len(w) + 1, Len(w) + Len(bk)) = bk
      BY <3>1, Joined
    <3> QED
      BY <3>2 DEF bk
  <2> QED
    BY <2>1, <2>3, <2>4, Zenon
<1> HIDE DEF i
<1> QED
  BY <1>1, <1>4, <1>5, <1>7, <1>8, <1>9, Zenon DEF c, k, w, i

LEMMA FrameIs ==
    ASSUME NEW fn \in Byte, NEW p \in Seq(Byte), Len(p) <= 1000
    PROVE  LET f == build_frame(fn, p)
               i == build_inner_frame(fn, p)
           IN  /\ f \in Seq(Byte) /\ Len(f) = 34 + Len(p)
               /\ f = Header(28 + Len(p)) \o i
               /\ 28 + Len(p) \in Words
               /\ frame_length_expected(f) = Len(f)
               /\ Subject(f) = Counted(fn, p)
               /\ SubSeq(f, 1, 2) = <<161, 26>>
               /\ SubSeq(f, 9, 18) = serial_bytes(DongleSerial)
               /\ SubSeq(f, 19, Len(f)) = i
<1> DEFINE i == build_inner_frame(fn, p)
           c == Counted(fn, p)
           k == Check(fn, p)
           n == 28 + Len(p)
           h == Header(n)
           f == h \o i
<1>1. /\ i \in Seq(Byte) /\ Len(i) = 16 + Len(p) /\ i = c \o k
      /\ k \in Seq(Byte) /\ Len(k) = 2
  BY InnerIs
<1>2. c \in Seq(Byte) /\ Len(c) = 14 + Len(p) /\ Len(p) \in Nat
  BY CountedIs
<1>3. n \in Nat /\ n \in Words
  <2>1. n \in Nat /\ n <= 65535
    BY <1>2
  <2> QED
    BY <2>1, WordIs
<1>4. /\ h \in Seq(Byte) /\ Len(h) = 18 /\ SubSeq(h, 1, 2) = <<161, 26>>
      /\ SubSeq(h, 5, 6) = Word(n) /\ SubSeq(h, 9, 18) = serial_bytes(DongleSerial)
  BY <1>3, HeaderIs
<1>5. build_frame(fn, p) = f
  <2>1. HeaderLen + Len(i) - LengthAdjust = n
    BY <1>1, <1>2 DEF HeaderLen, LengthAdjust
  <2>2. build_frame(fn, p) = Header(HeaderLen + Len(i) - LengthAdjust) \o i
    BY Zenon DEF build_frame, Header
  <2> QED
    BY <2>1, <2>2, Zenon
<1> HIDE DEF i, c, k, h
<1>6. f \in Seq(Byte) /\ Len(f) = 34 + Len(p)
  <2>1. f \in Seq(Byte) /\ Len(f) = Len(h) + Len(i)
    BY <1>1, <1>4, Joined
  <2>2. Len(h) + Len(i) = 34 + Len(p)
    BY <1>1, <1>2, <1>4
  <2> QED
    BY <2>1, <2>2, Zenon
<1>7. /\ SubSeq(f, 1, 2) = <<161, 26>> /\ SubSeq(f, 5, 6) = Word(n)
      /\ SubSeq(f, 9, 18) = serial_bytes(DongleSerial)
  <2>1. /\ 1 \in Nat /\ 2 \in Nat /\ 5 \in Nat /\ 6 \in Nat /\ 9 \in Nat /\ 18 \in Nat
        /\ 1 <= 1 /\ 1 <= 2 /\ 1 <= 5 /\ 1 <= 6 /\ 1 <= 9 /\ 1 <= 18
        /\ 1 <= Len(h) /\ 2 <= Len(h) /\ 5 <= Len(h) /\ 6 <= Len(h) /\ 9 <= Len(h)
        /\ 18 <= Len(h)
    BY <1>4
  <2>0. h \in Seq(Byte) /\ i \in Seq(Byte)
    BY <1>1, <1>4
  <2>2. SubSeq(f, 1, 2) = SubSeq(h, 1, 2)
    BY <2>0, <2>1, CutFirst, ZenonT(60)
  <2>3. SubSeq(f, 5, 6) = SubSeq(h, 5, 6)
    BY <2>0, <2>1, CutFirst, ZenonT(60)
  <2>4. SubSeq(f, 9, 18) = SubSeq(h, 9, 18)
    BY <2>0, <2>1, CutFirst, ZenonT(60)
  <2> QED
    BY <1>4, <2>2, <2>3, <2>4, Zenon
<1>8. SubSeq(f, 19, Len(f)) = i
  <2>1. 19 = Len(h) + 1 /\ Len(f) = Len(h) + Len(i)
    BY <1>1, <1>2, <1>4, <1>6
  <2>2. SubSeq(h \o i, 19, Len(f)) = i
    <3>1. h \in Seq(Byte) /\ i \in Seq(Byte)
      BY <1>1, <1>4
    <3>2. SubSeq(h \o i, Len(h) + 1, Len(h) + Len(i)) = i
      BY <3>1, Joined
    <3> HIDE DEF f
    <3> QED
      BY <2>1, <3>2, Zenon
  <2> QED
    BY <2>2, Zenon
<1>9. frame_length_expected(f) = Len(f)
  <2>1. to_int(Word(n)) = n
    BY <1>3, WordBytes
  <2>2. frame_length_expected(f) = n + LengthAdjust
    BY <1>7, <2>1, Zenon DEF frame_length_expected
  <2>3. n + LengthAdjust = 34 + Len(p)
    BY <1>2 DEF LengthAdjust
  <2> QED
    BY <1>6, <2>2, <2>3, Zenon
<1>10. Subject(f) = c
  <2> DEFINE g == h \o c
  <2>1. f = g \o k
    <3>1. (h \o c) \o k = h \o (c \o k)
      BY <1>1, <1>2, <1>4, JoinedTwice, Zenon
    <3> QED
      BY <1>1, <3>1, Zenon
  <2>2. g \in Seq(Byte) /\ Len(g) = 32 + Len(p)
    <3>1. g \in Seq(Byte) /\ Len(g) = Len(h) + Len(c)
      BY <1>2, <1>4, Joined
    <3> QED
      BY <1>2, <1>4, <3>1
  <2>3. SubSeq(g, 19, 32 + Len(p)) = c
    <3>1. 19 = Len(h) + 1 /\ 32 + Len(p) = Len(h) + Len(c)
      BY <1>2, <1>4
    <3>2. h \in Seq(Byte) /\ c \in Seq(Byte)
      BY <1>2, <1>4
    <3>3. SubSeq(h \o c, Len(h) + 1, Len(h) + Len(c)) = c
      BY <3>2, Joined
    <3> QED
      BY <3>1, <3>3, Zenon
  <2> HIDE DEF g, f
  <2>4. /\ 19 \in Nat /\ 32 + Len(p) \in Nat /\ 1 <= 19 /\ 19 <= Len(g)
        /\ 1 <= 32 + Len(p) /\ 32 + Len(p) <= Len(g)
    BY <1>2, <2>2
  <2>5. SubSeq(f, 19, 32 + Len(p)) = SubSeq(g, 19, 32 + Len(p))
    BY <1>1, <2>1, <2>2, <2>4, CutFirst, Zenon
  <2>6. HeaderLen + 1 = 19 /\ Len(f) - 2 = 32 + Len(p)
    BY <1>2, <1>6 DEF HeaderLen
  <2> QED
    BY <2>3, <2>5, <2>6, Zenon DEF Subject
<1> QED
  BY <1>3, <1>5, <1>6, <1>7, <1>8, <1>9, <1>10, Zenon DEF i, c, h

\* Whatever is sent is understood.
LEMMA BuiltIsIntact ==
    ASSUME NEW fn \in Byte, NEW p \in Seq(Byte), Len(p) <= 1000
    PROVE  Intact(build_frame(fn, p))
<1> DEFINE f == build_frame(fn, p)
           i == build_inner_frame(fn, p)
<1>1. /\ frame_length_expected(f) = Len(f) /\ SubSeq(f, 1, 2) = <<161, 26>>
      /\ SubSeq(f, 9, 18) = serial_bytes(DongleSerial) /\ SubSeq(f, 19, Len(f)) = i
  BY FrameIs
<1>2. /\ Len(i) = 16 + Len(p) /\ SubSeq(i, 1, 2) = Word(14 + Len(p))
      /\ SubSeq(i, 5, 14) = serial_bytes(InverterSerial)
      /\ crc16_modbus(SubSeq(i, 3, Len(i))) = 0
  BY InnerIs
<1>3. to_int(Word(14 + Len(p))) = 14 + Len(p) /\ Len(p) \in Nat
  BY CountedIs, WordBytes
<1> HIDE DEF f, i
<1>4. to_int(SubSeq(i, 1, 2)) = Len(i) - 2
  <2>1. Len(i) - 2 = 14 + Len(p)
    BY <1>2, <1>3
  <2> QED
    BY <1>2, <1>3, <2>1, Zenon
<1>5. HeaderLen = 18 /\ HeaderLen + 1 = 19
  BY DEF HeaderLen
<1>6. Intact(f)
  BY <1>1, <1>2, <1>4, <1>5, Zenon DEF Intact
<1> QED
  BY <1>6 DEF f

\* The number in two bytes of a sequence.
LEMMA NumberAt ==
    ASSUME NEW s \in Seq(Byte), NEW m \in Nat,
           1 <= m, m + 1 <= Len(s)
    PROVE  to_int(SubSeq(s, m, m + 1)) = s[m] + 256 * s[m + 1]
<1> DEFINE n == m + 1
<1>1. \A i \in m..n : s[i] \in Byte
  <2>1. ASSUME NEW i \in m..n PROVE i \in 1..Len(s)
    <3>1. Len(s) \in Nat
      OBVIOUS
    <3> QED
      BY <3>1
  <2> QED
    BY <2>1, ElementOfSeq
<1>2. \A i \in 1..n - m + 1 : SubSeq(s, m, n)[i] = s[m + i - 1]
  BY <1>1, SubSeqProperties
<1>3. 1 \in 1..n - m + 1 /\ 2 \in 1..n - m + 1 /\ m + 1 - 1 = m /\ m + 2 - 1 = n
  OBVIOUS
<1>4. SubSeq(s, m, n)[1] = s[m] /\ SubSeq(s, m, n)[2] = s[n]
  BY <1>2, <1>3, Zenon
<1> QED
  BY <1>4, Zenon DEF to_int, n

\* What a frame says of itself.
LEMMA FrameSays ==
    ASSUME NEW fn \in Byte, NEW p \in Seq(Byte), Len(p) <= 1000
    PROVE  LET f == build_frame(fn, p)
           IN  /\ response_function(f) = fn /\ HasFunction(f)
               /\ HasRegister(f) <=> Len(p) >= 2
               /\ Len(p) >= 2 => /\ response_register(f) = p[1] + 256 * p[2]
                                 /\ request_register(f) = p[1] + 256 * p[2]
<1> DEFINE f == build_frame(fn, p)
           i == build_inner_frame(fn, p)
           c == Counted(fn, p)
           h == Header(28 + Len(p))
<1>1. /\ f \in Seq(Byte) /\ Len(f) = 34 + Len(p) /\ f = h \o i /\ Subject(f) = c
      /\ 28 + Len(p) \in Words
  BY FrameIs
<1>2. /\ i \in Seq(Byte) /\ Len(i) = 16 + Len(p) /\ i = c \o Check(fn, p)
      /\ Check(fn, p) \in Seq(Byte)
  BY InnerIs
<1>3. /\ c \in Seq(Byte) /\ Len(c) = 14 + Len(p) /\ c[4] = fn /\ Len(p) \in Nat
      /\ \A j \in 1..Len(p) : c[14 + j] = p[j]
  BY CountedIs
<1>4. h \in Seq(Byte) /\ Len(h) = 18
  BY <1>1, HeaderIs
<1> HIDE DEF f, i, c, h
<1>5. HeaderLen = 18
  BY DEF HeaderLen
<1>6. HasFunction(f)
  BY <1>1, <1>3, <1>5 DEF HasFunction
<1>7. HasRegister(f) <=> Len(p) >= 2
  <2>1. HasRegister(f) <=> 34 + Len(p) >= 18 + 4 /\ 14 + Len(p) >= 16
    BY <1>1, <1>3, <1>5, Zenon DEF HasRegister
  <2> QED
    BY <1>3, <2>1
<1>8. response_function(f) = fn
  BY <1>1, <1>3, Zenon DEF response_function
<1>9. ASSUME Len(p) >= 2
      PROVE  /\ response_register(f) = p[1] + 256 * p[2]
             /\ request_register(f) = p[1] + 256 * p[2]
  <2>1. /\ 1 \in 1..Len(p) /\ 2 \in 1..Len(p) /\ 14 + 1 = 15 /\ 14 + 2 = 16
        /\ 15 \in 1..Len(c) /\ 16 \in 1..Len(c) /\ 15 \in 1..Len(i) /\ 16 \in 1..Len(i)
        /\ 18 + 15 = 33 /\ 18 + 16 = 34
    BY <1>2, <1>3, <1>9
  <2>2. c[15] = p[1] /\ c[16] = p[2]
    BY <1>3, <2>1, Zenon
  <2>3. i[15] = c[15] /\ i[16] = c[16]
    <3>1. c \in Seq(Byte) /\ Check(fn, p) \in Seq(Byte)
      BY <1>2, <1>3
    <3>2. \A j \in 1..Len(c) : (c \o Check(fn, p))[j] = c[j]
      BY <3>1, Joined
    <3> QED
      BY <1>2, <2>1, <3>2, Zenon
  <2>4. f[33] = i[15] /\ f[34] = i[16]
    <3>1. h \in Seq(Byte) /\ i \in Seq(Byte)
      BY <1>2, <1>4
    <3>2. \A j \in 1..Len(i) : (h \o i)[Len(h) + j] = i[j]
      BY <3>1, Joined
    <3>3. Len(h) + 15 = 33 /\ Len(h) + 16 = 34
      BY <1>4
    <3> QED
      BY <1>1, <2>1, <3>2, <3>3, Zenon
  <2>5. to_int(SubSeq(c, 15, 16)) = c[15] + 256 * c[16]
    <3>1. 15 \in Nat /\ 1 <= 15 /\ 15 + 1 <= Len(c) /\ 15 + 1 = 16
      BY <1>3, <1>9
    <3>2. to_int(SubSeq(c, 15, 15 + 1)) = c[15] + 256 * c[15 + 1]
      BY <1>3, <3>1, NumberAt, Zenon
    <3> QED
      BY <3>1, <3>2, Zenon
  <2>6. to_int(SubSeq(f, 33, 34)) = f[33] + 256 * f[34]
    <3>1. 33 \in Nat /\ 1 <= 33 /\ 33 + 1 <= Len(f) /\ 33 + 1 = 34
      BY <1>1, <1>3, <1>9
    <3>2. to_int(SubSeq(f, 33, 33 + 1)) = f[33] + 256 * f[33 + 1]
      BY <1>1, <3>1, NumberAt, Zenon
    <3> QED
      BY <3>1, <3>2, Zenon
  <2>7. HeaderLen + 15 = 33 /\ HeaderLen + 16 = 34
    BY <1>5
  <2>8. response_register(f) = p[1] + 256 * p[2]
    BY <1>1, <2>2, <2>5, Zenon DEF response_register
  <2>9. request_register(f) = p[1] + 256 * p[2]
    BY <2>2, <2>3, <2>4, <2>6, <2>7, Zenon DEF request_register
  <2> QED
    BY <2>8, <2>9
<1> QED
  BY <1>6, <1>7, <1>8, <1>9 DEF f

\* A register or value is in the two bytes that are sent for it.
LEMMA WordIn ==
    ASSUME NEW n \in Words
    PROVE  Word(n)[1] + 256 * Word(n)[2] = n
<1>1. to_int(Word(n)) = n
  BY WordBytes
<1> QED
  BY <1>1, Zenon DEF to_int

LEMMA TwoWords ==
    ASSUME NEW m \in Words, NEW p \in Seq(Byte)
    PROVE  /\ Word(m) \o p \in Seq(Byte) /\ Len(Word(m) \o p) = 2 + Len(p)
           /\ (Word(m) \o p)[1] + 256 * (Word(m) \o p)[2] = m
           /\ \A i \in 1..Len(p) : (Word(m) \o p)[2 + i] = p[i]
<1> DEFINE w == Word(m)
           u == w \o p
<1>1. w \in Seq(Byte) /\ Len(w) = 2 /\ w[1] + 256 * w[2] = m
  BY WordBytes, WordIn
<1> HIDE DEF w
<1>2. /\ u \in Seq(Byte) /\ Len(u) = Len(w) + Len(p)
      /\ \A i \in 1..Len(w) : u[i] = w[i]
      /\ \A i \in 1..Len(p) : u[Len(w) + i] = p[i]
  BY <1>1, Joined
<1>3. 1 \in 1..Len(w) /\ 2 \in 1..Len(w)
  BY <1>1
<1>4. u[1] = w[1] /\ u[2] = w[2]
  BY <1>2, <1>3, Zenon
<1>5. /\ u \in Seq(Byte) /\ Len(u) = 2 + Len(p) /\ u[1] + 256 * u[2] = m
      /\ \A i \in 1..Len(p) : u[2 + i] = p[i]
  BY <1>1, <1>2, <1>4, Zenon
<1> QED
  BY <1>5 DEF w

LEMMA TableIs == ASSUME NEW f PROVE Table(f) = f
<1>1. \E t \in {f} : t = f
  OBVIOUS
<1> QED
  BY <1>1 DEF Table

\* How long lists of registers, payloads and frames are.
PayloadLengths == 1..251
WireLengths == 34..287

LEMMA CountIs == \A n : n \in BlockCounts <=> n \in Nat /\ 1 <= n /\ n <= 125
  BY DEF BlockCounts, MaxCount

LEMMA PayloadLengthIs ==
    \A n : n \in PayloadLengths <=> n \in Nat /\ 1 <= n /\ n <= 251
  BY DEF PayloadLengths

LEMMA WireLengthIs ==
    \A n : n \in WireLengths <=> n \in Nat /\ 34 <= n /\ n <= 287
  BY DEF WireLengths

LEMMA RequestIs ==
    ASSUME ExchangeAssumption, NEW q \in Request
    PROVE  /\ q.fn \in {ReadHolding, WriteSingle} /\ q.reg \in Registers
           /\ request_register(RequestBytes[q]) = q.reg
           /\ Understood[q]
<1> DEFINE p == Word(q.reg) \o Word(q.arg)
           f == build_frame(q.fn, p)
<1>1. /\ q.fn \in {ReadHolding, WriteSingle} /\ q.reg \in Registers
      /\ q.arg \in Counts \cup Values
  BY DEF Request
<1>2. q.reg \in Words /\ q.arg \in Words /\ q.fn \in Byte
  <2>1. ReadHolding \in Byte /\ WriteSingle \in Byte
    BY ByteIs DEF ReadHolding, WriteSingle
  <2>2. ASSUME NEW n \in BlockCounts PROVE n \in Words
    <3>1. n \in Nat /\ n <= 65535
      BY <2>2, CountIs
    <3> QED
      BY <3>1, WordIs
  <2> QED
    BY <1>1, <2>1, <2>2 DEF ExchangeAssumption
<1>3. RequestBytes[q] = f
  <2>1. RequestBytes[q] = IF q.fn = ReadHolding
                          THEN build_read_holding_request(q.reg, q.arg)
                          ELSE build_write_single_request(q.reg, q.arg)
    <3>1. RequestBytes = [x \in Request |-> IF x.fn = ReadHolding
                                            THEN build_read_holding_request(x.reg, x.arg)
                                            ELSE build_write_single_request(x.reg, x.arg)]
      BY TableIs DEF RequestBytes
    <3> QED
      BY <3>1, Zenon
  <2>2. CASE q.fn = ReadHolding
    BY <2>1, <2>2, Zenon DEF build_read_holding_request
  <2>3. CASE q.fn = WriteSingle
    <3>1. q.fn # ReadHolding
      BY <2>3 DEF ReadHolding, WriteSingle
    <3> QED
      BY <2>1, <2>3, <3>1, Zenon DEF build_write_single_request
  <2> QED
    BY <1>1, <2>2, <2>3
<1>4. Understood[q] = Intact(f)
  <2>1. Understood = [x \in Request |-> Intact(RequestBytes[x])]
    BY TableIs DEF Understood
  <2> QED
    BY <1>3, <2>1, Zenon
<1>5. p \in Seq(Byte) /\ Len(p) = 4 /\ p[1] + 256 * p[2] = q.reg
  <2>1. Word(q.arg) \in Seq(Byte) /\ Len(Word(q.arg)) = 2
    BY <1>2, WordBytes
  <2>2. p \in Seq(Byte) /\ Len(p) = 2 + Len(Word(q.arg)) /\ p[1] + 256 * p[2] = q.reg
    BY <1>2, <2>1, TwoWords
  <2> QED
    BY <2>1, <2>2
<1> HIDE DEF p
<1>6. Len(p) <= 1000 /\ Len(p) >= 2
  BY <1>5
<1>7. Intact(f)
  BY <1>2, <1>5, <1>6, BuiltIsIntact, Zenon
<1>8. request_register(f) = q.reg
  <2>1. request_register(f) = p[1] + 256 * p[2]
    BY <1>2, <1>5, <1>6, FrameSays, Zenon
  <2> QED
    BY <1>5, <2>1, Zenon
<1> QED
  BY <1>1, <1>3, <1>4, <1>7, <1>8, Zenon

-----------------------------------------------------------------------------
(* The inductive invariant.                                                *)

\* A request of the present call is with the dongle.
Outstanding(c) == \E r \in inbox : r.by = c

\* Each caller's call is one of its requests, what is with the dongle for it is
\* that request, and a write is with the dongle or executed, not both.
Owned ==
    /\ ran \in [Callers -> Nat] /\ DOMAIN result = Callers
    /\ \A c \in Callers :
          /\ pc[c] # "idle" => call[c] \in Calls[c]
          /\ \A r \in inbox : r.by = c => r.req = call[c]
          /\ ran[c] \in 0..1
          /\ call[c].fn # WriteSingle => ran[c] = 0
          /\ call[c].fn = WriteSingle /\ pc[c] \in {"queued", "connecting"} =>
                ran[c] = 0 /\ ~Outstanding(c)
          /\ ran[c] = 1 => ~Outstanding(c)

\* A connection is open while its caller reads.
IsSock(s) ==
    /\ s = [open |-> s.open, frames |-> s.frames, bytes |-> s.bytes, got |-> s.got]
    /\ s.open \in BOOLEAN

SockOK ==
    /\ IsSock(sock)
    /\ sock.open => \E c \in Callers : pc[c] = "reading"
    /\ left \in Nat /\ attempt \in Nat

LockInv == ControlOK /\ Owned /\ SockOK

\* Where a frame ends.
End(s, n) == IF n = 0 THEN 0 ELSE s.frames[n].end

\* The bytes of a connection are those of its frames, one after the other.
Stream(s) ==
    /\ s \in [open : BOOLEAN, frames : Seq([frame : Frame, end : Nat]),
              bytes : Seq(Byte), got : Nat]
    /\ s.got <= Len(s.bytes)
    /\ End(s, Len(s.frames)) = Len(s.bytes)
    /\ \A n \in 1..Len(s.frames) :
          /\ SubSeq(s.bytes, End(s, n - 1) + 1, End(s, n)) = FrameBytes[s.frames[n].frame]
          /\ End(s, n) = End(s, n - 1) + Len(FrameBytes[s.frames[n].frame])
    /\ \A m, n \in 0..Len(s.frames) : m < n => End(s, m) < End(s, n)

\* A frame that answers a request.
Answers(f, q) == f.fn = q.fn /\ f.reg = q.reg

\* What is kept starts where a frame ends, and no frame before it is an answer.
CutAfter(s, rest, n, q) ==
    /\ n \in 0..Len(s.frames) /\ End(s, n) <= s.got
    /\ n < Len(s.frames) => s.got < End(s, n + 1)
    /\ rest = SubSeq(s.bytes, End(s, n) + 1, s.got)
    /\ \A m \in 1..n : ~Answers(s.frames[m].frame, q)

StreamInv ==
    /\ Stream(sock)
    /\ \A c \in Callers : pc[c] = "reading" => \E n \in Nat : CutAfter(sock, data, n, call[c])
    /\ (\A c \in Callers : pc[c] # "reading") => data = <<>>

\* An answer on the connection has values of the call, and a length byte unless
\* the dongle may leave it out.
FreshInv ==
    /\ DOMAIN seen = Callers
    /\ AnswerIsFresh
    /\ \A c \in Callers : pc[c] = "reading" =>
          \A n \in 1..Len(sock.frames) :
             Answers(sock.frames[n].frame, call[c]) =>
                /\ Known(call[c], sock.frames[n].frame.vals, seen[c])
                /\ \/ sock.frames[n].frame.counted \/ call[c].fn # ReadHolding
                   \/ FALSE \in Lengths

LEMMA RequestParts ==
    ASSUME ExchangeAssumption, NEW q \in Request
    PROVE  /\ q.fn \in {ReadHolding, WriteSingle} /\ q.reg \in Registers /\ q.reg \in Int
           /\ q.fn = WriteSingle => q.arg \in Values
           /\ q.fn = ReadHolding => q.arg \in Counts /\ q.arg \in BlockCounts
           /\ Span(q) \subseteq Registers /\ q.reg \in Span(q)
<1>1. \A r \in Registers : r \in Int
  BY WordIs DEF ExchangeAssumption
<1>2. CASE q \in {x \in [fn : {ReadHolding}, reg : Registers, arg : Counts] :
                    Span(x) \subseteq Registers}
  <2>1. /\ q.fn = ReadHolding /\ q.reg \in Registers /\ q.arg \in Counts
        /\ Span(q) \subseteq Registers
    BY <1>2
  <2>2. q.arg \in BlockCounts
    BY <2>1 DEF ExchangeAssumption
  <2>3. q.reg \in Span(q)
    BY <1>1, <2>1, <2>2, CountIs DEF Span
  <2> QED
    BY <1>1, <2>1, <2>2, <2>3 DEF ReadHolding, WriteSingle
<1>3. CASE q \in [fn : {WriteSingle}, reg : Registers, arg : Values]
  <2>1. q.fn = WriteSingle /\ q.reg \in Registers /\ q.arg \in Values
    BY <1>3
  <2>2. Span(q) = {q.reg}
    BY <2>1 DEF Span, ReadHolding, WriteSingle
  <2> QED
    BY <1>1, <2>1, <2>2 DEF ReadHolding, WriteSingle
<1> QED
  BY <1>2, <1>3 DEF Request

\* What the inverter replies is in its registers then.
LEMMA StoredIs ==
    ASSUME ExchangeAssumption, NEW q \in Request, holding \in [Registers -> Values]
    PROVE  /\ q.fn = ReadHolding =>
                  /\ Stored(q) \in [1..q.arg -> Values]
                  /\ DOMAIN Stored(q) = 1..q.arg
           /\ q.fn = WriteSingle =>
                  /\ Stored(q) \in [1..1 -> Values]
                  /\ DOMAIN Stored(q) = 1..1
           /\ Stored(q)[1] \in Values
           /\ \A k \in DOMAIN Stored(q) : k \in Int /\ q.reg + k - 1 \in Span(q)
<1>1. /\ q.fn \in {ReadHolding, WriteSingle} /\ q.reg \in Registers /\ q.reg \in Int
      /\ q.fn = WriteSingle => q.arg \in Values
      /\ q.fn = ReadHolding => q.arg \in BlockCounts
      /\ Span(q) \subseteq Registers
  BY RequestParts
<1>2. CASE q.fn = ReadHolding
  <2>1. Stored(q) = [k \in 1..q.arg |-> holding[q.reg + k - 1]] /\ q.arg \in BlockCounts
    BY <1>1, <1>2 DEF Stored, ReadHolding, WriteSingle
  <2>2. \A k \in 1..q.arg : q.reg + k - 1 \in Span(q)
    BY <1>1, <1>2, CountIs DEF Span
  <2>3. \A k \in 1..q.arg : holding[q.reg + k - 1] \in Values
    BY <1>1, <2>2
  <2>4. 1 \in 1..q.arg
    BY <2>1, CountIs
  <2> QED
    BY <1>2, <2>1, <2>2, <2>3, <2>4 DEF ReadHolding, WriteSingle
<1>3. CASE q.fn = WriteSingle
  <2>1. Stored(q) = <<q.arg>> /\ q.arg \in Values /\ Span(q) = {q.reg}
    BY <1>1, <1>3 DEF Stored, Span, ReadHolding, WriteSingle
  <2> QED
    BY <1>1, <1>3, <2>1 DEF ReadHolding, WriteSingle
<1> QED
  BY <1>1, <1>2, <1>3

LEMMA FunctionsDiffer == ReadHolding # WriteSingle /\ NoCall.fn # WriteSingle
  BY DEF ReadHolding, WriteSingle, NoCall

LEMMA LockInit ==
    ASSUME ExchangeAssumption, Init
    PROVE  LockInv
<1>1. ControlOK
  BY DEF Init, ControlOK, Holds, LockFree, Closed
<1>2. Owned
  <2>1. \A c \in Callers : call[c].fn # WriteSingle
    BY FunctionsDiffer DEF Init
  <2> QED
    BY <2>1 DEF Init, Owned, Outstanding
<1>3. SockOK
  BY DEF Init, SockOK, IsSock, Closed
<1> QED
  BY <1>1, <1>2, <1>3 DEF LockInv

\* The holder of the lock gives it back, or tries again.
LEMMA FinishStep ==
    ASSUME LockInv, NEW c \in Callers, Holds(c), NEW o, Finish(c, o)
    PROVE  LockInv'
<1> USE DEF Finish, LockInv, dongle, ghosts
<1>1. \A d \in Callers : ~Holds(d)'
  BY DEF ControlOK, Holds
<1>2. ControlOK'
  <2>1. /\ holding' \in [Registers -> Values]
        /\ pc' \in [Callers -> {"idle", "queued", "connecting", "reading"}]
        /\ call' \in [Callers -> Request \cup {NoCall}]
        /\ inbox' \subseteq [by : Callers \cup {None}, req : Request]
    BY DEF ControlOK
  <2>2. \A d \in Callers : pc'[d] # "reading"
    BY <1>1 DEF Holds
  <2> QED
    BY <1>1, <2>1, <2>2 DEF ControlOK
<1>3. Owned'
  <2>1. ran' \in [Callers -> Nat] /\ DOMAIN result' = Callers
    BY DEF Owned
  <2>2. \A d \in Callers : pc'[d] \in {pc[d], "idle"}
    BY DEF ControlOK
  <2>3. \A d \in Callers : Outstanding(d)' <=> Outstanding(d)
    BY DEF Outstanding
  <2> QED
    BY <2>1, <2>2, <2>3 DEF Owned
<1>4. SockOK'
  BY DEF SockOK, IsSock, Closed
<1> QED
  BY <1>2, <1>3, <1>4

LEMMA AgainStep ==
    ASSUME ExchangeAssumption, LockInv, NEW c \in Callers, Holds(c),
           attempt < Attempts(call[c].fn), Again(c)
    PROVE  LockInv'
<1> USE DEF Again, LockInv, dongle, ghosts
<1>1. call[c].fn = ReadHolding /\ attempt + 1 \in 1..Attempts(call[c].fn)
  BY DEF ControlOK, Attempts
<1>2. \A d \in Callers : Holds(d)' <=> d = c
  BY DEF ControlOK, Holds
<1>3. ControlOK'
  <2>1. /\ holding' \in [Registers -> Values]
        /\ pc' \in [Callers -> {"idle", "queued", "connecting", "reading"}]
        /\ call' \in [Callers -> Request \cup {NoCall}]
        /\ inbox' \subseteq [by : Callers \cup {None}, req : Request]
    BY DEF ControlOK
  <2>2. \A d \in Callers : pc'[d] # "reading"
    BY <1>2 DEF Holds, ControlOK
  <2>3. ~sock'.open /\ ~LockFree'
    BY <1>2 DEF Closed, LockFree
  <2> QED
    BY <1>1, <1>2, <2>1, <2>2, <2>3 DEF ControlOK
<1>4. Owned'
  <2>1. \A d \in Callers : d # c => pc'[d] = pc[d]
    BY DEF ControlOK
  <2>2. \A d \in Callers : Outstanding(d)' <=> Outstanding(d)
    BY DEF Outstanding
  <2>3. call[c].fn # WriteSingle /\ pc[c] # "idle"
    BY <1>1, FunctionsDiffer DEF Holds
  <2> QED
    BY <2>1, <2>2, <2>3 DEF Owned
<1>5. SockOK'
  BY DEF SockOK, IsSock, Closed
<1> QED
  BY <1>3, <1>4, <1>5

LEMMA FailStep ==
    ASSUME ExchangeAssumption, LockInv, NEW c \in Callers, Holds(c), Fail(c)
    PROVE  LockInv'
<1>1. CASE attempt < Attempts(call[c].fn)
  BY <1>1, AgainStep DEF Fail
<1>2. CASE ~(attempt < Attempts(call[c].fn))
  BY <1>2, FinishStep DEF Fail
<1> QED
  BY <1>1, <1>2

LEMMA CallStep ==
    ASSUME ExchangeAssumption, LockInv, NEW c \in Callers, NEW q \in Calls[c], Call(c, q)
    PROVE  LockInv'
<1> USE DEF Call, LockInv, thread
<1>1. q \in Request
  BY DEF ExchangeAssumption
<1>2. \A d \in Callers : Holds(d)' <=> Holds(d)
  BY DEF Holds, ControlOK
<1>3. inbox' \subseteq [by : Callers \cup {None}, req : Request]
  BY DEF ControlOK
<1>4. ControlOK'
  <2>1. /\ holding' \in [Registers -> Values]
        /\ pc' \in [Callers -> {"idle", "queued", "connecting", "reading"}]
        /\ call' \in [Callers -> Request \cup {NoCall}]
    BY <1>1 DEF ControlOK
  <2>2. \A d \in Callers : /\ Holds(d)' => attempt' \in 1..Attempts(call'[d].fn)
                           /\ \A e \in Callers : Holds(d)' /\ Holds(e)' => d = e
                           /\ pc'[d] = "reading" <=> (Holds(d)' /\ sock'.open)
    BY <1>2 DEF ControlOK, Holds
  <2>3. LockFree' => sock' = Closed /\ left' = 0 /\ data' = <<>>
    BY <1>2 DEF ControlOK, LockFree
  <2> QED
    BY <1>3, <2>1, <2>2, <2>3 DEF ControlOK
<1>5. \A r \in inbox' : \A d \in Callers : r.by = d => d # c /\ r \in inbox
  BY DEF ControlOK, ExchangeAssumption
<1>6. Owned'
  <2>1. ran' \in [Callers -> Nat] /\ DOMAIN result' = Callers
    BY DEF Owned
  <2>2. ASSUME NEW d \in Callers
        PROVE  /\ pc'[d] # "idle" => call'[d] \in Calls[d]
               /\ \A r \in inbox' : r.by = d => r.req = call'[d]
               /\ ran'[d] \in 0..1
               /\ call'[d].fn # WriteSingle => ran'[d] = 0
               /\ call'[d].fn = WriteSingle /\ pc'[d] \in {"queued", "connecting"} =>
                     ran'[d] = 0 /\ ~Outstanding(d)'
               /\ ran'[d] = 1 => ~Outstanding(d)'
    <3>1. CASE d = c
      BY <1>5, <3>1 DEF Owned, Outstanding, ControlOK
    <3>2. CASE d # c
      <4>1. Outstanding(d)' => Outstanding(d)
        BY <1>5 DEF Outstanding
      <4> QED
        BY <1>5, <3>2, <4>1 DEF Owned, ControlOK
    <3> QED
      BY <3>1, <3>2
  <2> QED
    BY <2>1, <2>2 DEF Owned
<1>7. SockOK'
  BY DEF SockOK, ControlOK
<1> QED
  BY <1>4, <1>6, <1>7

LEMMA AcquireStep ==
    ASSUME ExchangeAssumption, LockInv, NEW c \in Callers, Acquire(c)
    PROVE  LockInv'
<1> USE DEF Acquire, LockInv, dongle, ghosts
<1>1. \A d \in Callers : Holds(d)' <=> d = c
  BY DEF Holds, LockFree, ControlOK
<1>2. 1 \in 1..Attempts(call[c].fn)
  BY DEF Attempts
<1>3. ControlOK'
  BY <1>1, <1>2 DEF ControlOK, Holds, LockFree, Closed
<1>4. Owned'
  BY DEF Owned, Outstanding, ControlOK
<1>5. SockOK'
  BY DEF SockOK, IsSock, ControlOK, LockFree, Closed
<1> QED
  BY <1>3, <1>4, <1>5

LEMMA ConnectStep ==
    ASSUME ExchangeAssumption, LockInv, NEW c \in Callers, Connect(c)
    PROVE  LockInv'
<1> USE DEF Connect, LockInv, ghosts
<1>1. call[c] \in Request /\ Holds(c)
  BY DEF Owned, Holds, ExchangeAssumption
<1>2. inbox' \subseteq [by : Callers \cup {None}, req : Request]
  BY <1>1 DEF ControlOK
<1>3. \A d \in Callers : Holds(d)' <=> Holds(d)
  BY <1>1 DEF Holds, ControlOK
<1>4. sock' = [Closed EXCEPT !.open = TRUE] /\ sock'.open /\ IsSock(sock')
  BY DEF Closed, IsSock
<1>5. ControlOK'
  <2>1. \A d \in Callers : /\ Holds(d)' => attempt' \in 1..Attempts(call'[d].fn)
                           /\ \A e \in Callers : Holds(d)' /\ Holds(e)' => d = e
                           /\ pc'[d] = "reading" <=> (Holds(d)' /\ sock'.open)
    BY <1>1, <1>3, <1>4 DEF ControlOK, Holds
  <2>2. ~LockFree'
    BY <1>1, <1>3 DEF LockFree
  <2> QED
    BY <1>2, <2>1, <2>2 DEF ControlOK
<1>6. \A r \in inbox' : r \in inbox \/ (r.by = c /\ r.req = call[c])
  OBVIOUS
<1>7. Owned'
  <2>1. ASSUME NEW d \in Callers
        PROVE  /\ pc'[d] # "idle" => call'[d] \in Calls[d]
               /\ \A r \in inbox' : r.by = d => r.req = call'[d]
               /\ ran'[d] \in 0..1
               /\ call'[d].fn # WriteSingle => ran'[d] = 0
               /\ call'[d].fn = WriteSingle /\ pc'[d] \in {"queued", "connecting"} =>
                     ran'[d] = 0 /\ ~Outstanding(d)'
               /\ ran'[d] = 1 => ~Outstanding(d)'
    <3>1. CASE d = c
      <4>1. ran[c] = 0
        BY DEF Owned
      <4> QED
        BY <1>6, <3>1, <4>1 DEF Owned, ControlOK
    <3>2. CASE d # c
      <4>1. Outstanding(d)' => Outstanding(d)
        BY <1>6, <3>2 DEF Outstanding
      <4> QED
        BY <1>6, <3>2, <4>1 DEF Owned, ControlOK
    <3> QED
      BY <3>1, <3>2
  <2> QED
    BY <2>1 DEF Owned
<1>8. SockOK'
  <2>1. pc'[c] = "reading"
    BY DEF ControlOK
  <2>2. Budget(call[c].fn) \in Nat
    BY DEF Budget, ExchangeAssumption
  <2> QED
    BY <1>4, <2>1, <2>2 DEF SockOK
<1> QED
  BY <1>5, <1>7, <1>8

\* Other steps of a caller.
LEMMA RecvStep ==
    ASSUME ExchangeAssumption, LockInv, NEW c \in Callers, NEW size \in Chunks, Recv(c, size)
    PROVE  LockInv'
<1>1. Holds(c)
  BY DEF Recv, Holds
<1>2. PICK n, cut : \/ /\ data' = cut.rest
                       /\ sock' = [sock EXCEPT !.got = @ + n]
                       /\ UNCHANGED <<calls, attempt, left>>
                       /\ UNCHANGED <<dongle, ghosts>>
                    \/ \E o : Finish(c, o)
  BY DEF Recv
<1>3. CASE \E o : Finish(c, o)
  BY <1>1, <1>3, FinishStep
<1>4. CASE /\ data' = cut.rest
           /\ sock' = [sock EXCEPT !.got = @ + n]
           /\ UNCHANGED <<calls, attempt, left>>
           /\ UNCHANGED <<dongle, ghosts>>
  <2> USE DEF calls, dongle, ghosts, LockInv
  <2>1. IsSock(sock') /\ sock'.open = sock.open
    BY <1>4 DEF SockOK, IsSock
  <2>2. (\A d \in Callers : Holds(d)' <=> Holds(d)) /\ ~LockFree'
    BY <1>1, <1>4 DEF Holds, LockFree
  <2>3. ControlOK'
    BY <1>4, <2>1, <2>2 DEF ControlOK
  <2>4. Owned'
    BY <1>4 DEF Owned, Outstanding
  <2>5. SockOK'
    BY <1>4, <2>1 DEF SockOK
  <2> QED
    BY <2>3, <2>4, <2>5
<1> QED
  BY <1>2, <1>3, <1>4

LEMMA ExchangeStep ==
    ASSUME ExchangeAssumption, LockInv, NEW c \in Callers, Exchange(c)
    PROVE  LockInv'
<1>1. CASE Acquire(c)
  BY <1>1, AcquireStep
<1>2. CASE Unreachable(c)
  <2>1. Holds(c)
    BY <1>2 DEF Unreachable, Holds
  <2> QED
    BY <1>2, <2>1, FinishStep DEF Unreachable
<1>3. CASE Unsent(c)
  <2>1. Holds(c)
    BY <1>3 DEF Unsent, Holds
  <2> QED
    BY <1>3, <2>1, FailStep DEF Unsent
<1>4. CASE Connect(c)
  BY <1>4, ConnectStep
<1>5. ASSUME NEW size \in Chunks, Recv(c, size) PROVE LockInv'
  BY <1>5, RecvStep
<1>6. CASE Reset(c)
  <2>1. Holds(c)
    BY <1>6 DEF Reset, Holds
  <2> QED
    BY <1>6, <2>1, FinishStep DEF Reset
<1>7. CASE GiveUp(c) \/ Hangup(c)
  <2>1. Holds(c) /\ Fail(c)
    BY <1>7 DEF GiveUp, Hangup, Holds
  <2> QED
    BY <2>1, FailStep
<1> QED
  BY <1>1, <1>2, <1>3, <1>4, <1>5, <1>6, <1>7 DEF Exchange

LEMMA SendKeeps ==
    ASSUME NEW f, IsSock(sock), Send(f), LockFree => sock = Closed
    PROVE  IsSock(sock') /\ sock'.open = sock.open /\ (LockFree => sock' = Closed)
<1> DEFINE b == sock.bytes \o FrameBytes[f]
           fs == Append(sock.frames, [frame |-> f, end |-> Len(b)])
<1>1. CASE sock' = sock
  BY <1>1
<1>2. CASE sock.open /\ sock' = [sock EXCEPT !.bytes = b, !.frames = fs]
  <2> HIDE DEF b, fs
  <2>1. IsSock(sock') /\ sock'.open = sock.open
    BY <1>2 DEF IsSock
  <2>2. ~LockFree
    BY <1>2 DEF Closed
  <2> QED
    BY <2>1, <2>2
<1> QED
  BY <1>1, <1>2, Zenon DEF Send

\* A step of the dongle that executes nothing.
LEMMA AnswerStep ==
    ASSUME ExchangeAssumption, LockInv, inbox' \subseteq inbox, IsSock(sock'), sock'.open = sock.open,
           LockFree => sock' = Closed,
           UNCHANGED <<holding, calls, attempt, left, data, ghosts>>
    PROVE  LockInv'
<1> USE DEF LockInv, calls, ghosts
<1>1. (\A d \in Callers : Holds(d)' <=> Holds(d)) /\ (LockFree' <=> LockFree)
  BY DEF Holds, LockFree
<1>2. ControlOK'
  BY <1>1 DEF ControlOK
<1>3. Owned'
  <2>1. \A d \in Callers : Outstanding(d)' => Outstanding(d)
    BY DEF Outstanding
  <2> QED
    BY <2>1 DEF Owned
<1>4. SockOK'
  BY DEF SockOK
<1> QED
  BY <1>2, <1>3, <1>4

\* The inverter executes a request.
LEMMA ServeStep ==
    ASSUME ExchangeAssumption, LockInv, NEW q \in Request, NEW b, Serve(q, b),
           inbox' \subseteq inbox
    PROVE  ControlOK' /\ SockOK' /\ UNCHANGED calls
<1>1. /\ holding' = [holding EXCEPT ![q.reg] = Stored(q)[1]]
      /\ UNCHANGED <<calls, attempt, left, data>>
  BY DEF Serve
<1>2. PICK f : Send(f)
  BY DEF Serve
<1> USE DEF calls
<1>3. holding' \in [Registers -> Values]
  <2>1. Stored(q)[1] \in Values
    BY StoredIs DEF LockInv, ControlOK
  <2> QED
    BY <1>1, <2>1 DEF LockInv, ControlOK
<1>4. IsSock(sock') /\ sock'.open = sock.open /\ (LockFree => sock' = Closed)
  BY <1>2, SendKeeps DEF LockInv, ControlOK, SockOK
<1>5. (\A d \in Callers : Holds(d)' <=> Holds(d)) /\ (LockFree' <=> LockFree)
  BY <1>1 DEF Holds, LockFree
<1>6. ControlOK'
  BY <1>1, <1>3, <1>4, <1>5 DEF LockInv, ControlOK
<1>7. SockOK'
  BY <1>1, <1>4 DEF LockInv, SockOK
<1> QED
  BY <1>1, <1>6, <1>7

\* The request of another client is nobody's here.
LEMMA ForeignStep ==
    ASSUME ExchangeAssumption, LockInv, NEW q \in Others, NEW b, Foreign(q, b)
    PROVE  LockInv'
<1>1. Serve(q, b) /\ UNCHANGED <<inbox, ran>> /\ q \in Request
  BY DEF Foreign, ExchangeAssumption
<1>2. ControlOK' /\ SockOK' /\ UNCHANGED calls
  BY <1>1, ServeStep
<1>3. Owned'
  BY <1>1, <1>2 DEF LockInv, Owned, Outstanding, calls
<1> QED
  BY <1>2, <1>3 DEF LockInv

LEMMA ExecuteStep ==
    ASSUME ExchangeAssumption, LockInv, NEW r \in inbox, NEW b, Execute(r, b)
    PROVE  LockInv'
<1> DEFINE q == r.req
<1>1. /\ inbox' = inbox \ {r}
      /\ Serve(q, b)
      /\ ran' = [c \in Callers |-> IF c = r.by /\ q.fn = WriteSingle
                                   THEN ran[c] + 1 ELSE ran[c]]
  BY DEF Execute
<1>3. q \in Request /\ r \in [by : Callers \cup {None}, req : Request]
  BY DEF LockInv, ControlOK
<1>7. ControlOK' /\ SockOK' /\ UNCHANGED calls
  BY <1>1, <1>3, ServeStep
<1> USE <1>7 DEF calls
<1>8. Owned'
  <2>1. ran' \in [Callers -> Nat]
    BY <1>1 DEF LockInv, Owned
  <2>2. ASSUME NEW d \in Callers
        PROVE  /\ pc'[d] # "idle" => call'[d] \in Calls[d]
               /\ \A x \in inbox' : x.by = d => x.req = call'[d]
               /\ ran'[d] \in 0..1
               /\ call'[d].fn # WriteSingle => ran'[d] = 0
               /\ call'[d].fn = WriteSingle /\ pc'[d] \in {"queued", "connecting"} =>
                     ran'[d] = 0 /\ ~Outstanding(d)'
               /\ ran'[d] = 1 => ~Outstanding(d)'
    <3>1. Outstanding(d)' => Outstanding(d)
      BY <1>1 DEF Outstanding
    <3>2. CASE r.by = d /\ q.fn = WriteSingle
      <4>1. Outstanding(d)
        BY <3>2 DEF Outstanding
      <4>2. call[d] = q /\ ran[d] = 0 /\ ~(pc[d] \in {"queued", "connecting"})
        BY <3>2, <4>1 DEF LockInv, Owned
      <4>3. ran'[d] = 1
        BY <1>1, <3>2, <4>2
      <4>4. ~Outstanding(d)'
        <5>1. \A x \in inbox : x.by = d => x = r
          <6>1. ASSUME NEW x \in inbox, x.by = d PROVE x = r
            <7>1. x \in [by : Callers \cup {None}, req : Request] /\ x.req = q
              BY <4>2, <6>1 DEF LockInv, Owned, ControlOK
            <7> QED
              BY <1>3, <3>2, <6>1, <7>1
          <6> QED
            BY <6>1
        <5> QED
          BY <1>1, <5>1 DEF Outstanding
      <4> QED
        BY <1>1, <3>2, <4>2, <4>3, <4>4 DEF LockInv, Owned
    <3>3. CASE ~(r.by = d /\ q.fn = WriteSingle)
      <4>1. ran'[d] = ran[d]
        BY <1>1, <3>3
      <4> QED
        BY <1>1, <3>1, <4>1 DEF LockInv, Owned
    <3> QED
      BY <3>2, <3>3
  <2> QED
    BY <1>1, <2>1, <2>2 DEF LockInv, Owned
<1> QED
  BY <1>7, <1>8 DEF LockInv

LEMMA LockStep ==
    ASSUME ExchangeAssumption, LockInv, [Next]_vars
    PROVE  LockInv'
<1>0. LockFree => sock = Closed
  BY DEF LockInv, ControlOK
<1>1. ASSUME NEW c \in Callers, NEW q \in Calls[c], Call(c, q) PROVE LockInv'
  BY <1>1, CallStep
<1>2. ASSUME NEW c \in Callers, Exchange(c) PROVE LockInv'
  BY <1>2, ExchangeStep
<1>3. ASSUME NEW r \in inbox, NEW b \in Lengths, Execute(r, b) PROVE LockInv'
  BY <1>3, ExecuteStep
<1>4. ASSUME NEW r \in inbox, Refuse(r) PROVE LockInv'
  <2>1. PICK f : Send(f)
    BY <1>4 DEF Refuse
  <2>2. IsSock(sock') /\ sock'.open = sock.open /\ (LockFree => sock' = Closed)
    BY <1>0, <2>1, SendKeeps DEF LockInv, SockOK
  <2>3. inbox' \subseteq inbox
    BY <1>4 DEF Refuse
  <2> QED
    BY <1>4, <2>2, <2>3, AnswerStep DEF Refuse
<1>5. ASSUME NEW r \in inbox, Ignore(r) PROVE LockInv'
  <2>1. inbox' \subseteq inbox /\ sock' = sock /\ IsSock(sock)
    BY <1>5 DEF Ignore, thread, LockInv, SockOK
  <2> QED
    BY <1>0, <1>5, <2>1, AnswerStep DEF Ignore, thread
<1>6. ASSUME NEW f \in Pushes, Push(f) PROVE LockInv'
  <2>1. Send(f)
    BY <1>6 DEF Push
  <2>2. IsSock(sock') /\ sock'.open = sock.open /\ (LockFree => sock' = Closed)
    BY <1>0, <2>1, SendKeeps DEF LockInv, SockOK
  <2>3. inbox' \subseteq inbox
    BY <1>6 DEF Push, dongle
  <2> QED
    BY <1>6, <2>2, <2>3, AnswerStep DEF Push, dongle
<1>7. CASE Tick
  <2> USE DEF Tick, dongle, calls, ghosts, LockInv
  <2>1. (\A d \in Callers : Holds(d)' <=> Holds(d)) /\ (LockFree' <=> LockFree)
    BY <1>7 DEF Holds, LockFree
  <2>2. ~LockFree
    BY <1>7 DEF ControlOK
  <2>3. ControlOK'
    BY <1>7, <2>1, <2>2 DEF ControlOK
  <2>4. Owned' /\ SockOK'
    BY <1>7 DEF Owned, Outstanding, SockOK
  <2> QED
    BY <2>3, <2>4
<1>8. CASE UNCHANGED vars
  BY <1>8 DEF vars, dongle, calls, thread, ghosts, LockInv, ControlOK, Owned, SockOK,
              Holds, LockFree, Outstanding
<1>9. ASSUME NEW q \in Others, NEW b \in Lengths, Foreign(q, b) PROVE LockInv'
  BY <1>9, ForeignStep
<1> QED
  BY <1>1, <1>2, <1>3, <1>4, <1>5, <1>6, <1>7, <1>8, <1>9 DEF Next

LEMMA Lock == ASSUME ExchangeAssumption PROVE Spec => []LockInv
<1>1. Init => LockInv
  BY LockInit
<1>2. LockInv /\ [Next]_vars => LockInv'
  BY LockStep
<1> QED
  BY <1>1, <1>2, PTL DEF Spec

\* A write is executed at most once for each call: only reads are sent again.
\* (IDEMPOTENT_READ_FUNCTIONS in _blocking_execute_raw)
THEOREM AtMostOnce == ASSUME ExchangeAssumption PROVE Spec => []WrittenOnce
<1>1. LockInv => WrittenOnce
  BY DEF LockInv, Owned, WrittenOnce
<1> QED
  BY <1>1, Lock, PTL

\* Whatever a caller sends under the lock, the dongle takes it for a whole
\* request: its lengths, serials and CRC are right for every register and
\* value.  (build_frame, crc16_modbus)
THEOREM Intactness == ASSUME ExchangeAssumption PROVE Spec => []RequestsAreIntact
<1>1. LockInv => RequestsAreIntact
  <2>1. ASSUME LockInv, NEW c \in Callers, Holds(c) PROVE Understood[call[c]]
    <3>1. call[c] \in Request
      BY <2>1 DEF LockInv, Owned, Holds, ExchangeAssumption
    <3> QED
      BY <3>1, RequestIs
  <2> QED
    BY <2>1 DEF RequestsAreIntact
<1> QED
  BY <1>1, Lock, PTL

-----------------------------------------------------------------------------
(* Cutting what was received.                                              *)

LEMMA LengthIsNat ==
    ASSUME NEW b \in Seq(Byte), Len(b) >= 8
    PROVE  frame_length_expected(b) \in Nat
<1>1. 5 \in Nat /\ 6 \in Nat /\ 1 <= 5 /\ 6 = 5 + 1 /\ 6 <= Len(b)
  OBVIOUS
<1>2. to_int(SubSeq(b, 5, 6)) = b[5] + 256 * b[6]
  BY <1>1, NumberAt, ZenonT(60)
<1>3. b[5] \in Nat /\ b[6] \in Nat
  <2>1. 5 \in 1..Len(b) /\ 6 \in 1..Len(b)
    OBVIOUS
  <2>2. b[5] \in Byte /\ b[6] \in Byte
    BY <2>1, ElementOfSeq
  <2> QED
    BY <2>2, ByteIs
<1>4. frame_length_expected(b) = b[5] + 256 * b[6] + 6
  BY <1>2, Zenon DEF frame_length_expected, LengthAdjust
<1> QED
  BY <1>3, <1>4

\* A frame that is there whole, and what follows it.
LEMMA WholeFrame ==
    ASSUME NEW b \in Seq(Byte), ~Partial(b), ~Garbled(b)
    PROVE  /\ frame_length_expected(b) \in 8..Len(b)
           /\ First(b) \in Seq(Byte) /\ Rest(b) \in Seq(Byte)
           /\ Len(Rest(b)) \in Nat /\ Len(Rest(b)) < Len(b)
<1> DEFINE e == frame_length_expected(b)
           l == Len(b)
<1>1. l \in Nat /\ l >= 8
  BY DEF Partial
<1>2. e \in Nat
  BY <1>1, LengthIsNat
<1>3. e >= 8 /\ e <= l
  BY <1>1, <1>2 DEF Partial, Garbled
<1> HIDE DEF e, l
<1>4. First(b) \in Seq(Byte)
  <2>1. \A i \in 1..e : b[i] \in Byte
    <3>1. ASSUME NEW i \in 1..e PROVE i \in 1..l
      BY <1>1, <1>2, <1>3
    <3> QED
      BY <3>1, ElementOfSeq DEF l
  <2>2. SubSeq(b, 1, e) \in Seq(Byte)
    BY <1>2, <2>1, SubSeqProperties
  <2> QED
    BY <2>2, Zenon DEF First, e
<1>5. Rest(b) \in Seq(Byte) /\ Len(Rest(b)) = IF e + 1 <= l THEN l - (e + 1) + 1 ELSE 0
  <2>1. \A i \in e + 1 .. l : b[i] \in Byte
    <3>1. ASSUME NEW i \in e + 1 .. l PROVE i \in 1..l
      BY <1>1, <1>2, <1>3
    <3> QED
      BY <3>1, ElementOfSeq DEF l
  <2>2. /\ SubSeq(b, e + 1, l) \in Seq(Byte)
        /\ Len(SubSeq(b, e + 1, l)) = IF e + 1 <= l THEN l - (e + 1) + 1 ELSE 0
    <3>1. e + 1 \in Int /\ l \in Int
      BY <1>1, <1>2
    <3> QED
      BY <2>1, <3>1, SubSeqProperties
  <2> QED
    BY <2>2, Zenon DEF Rest, e, l
<1>6. Len(Rest(b)) \in Nat /\ Len(Rest(b)) < l
  BY <1>1, <1>2, <1>3, <1>5
<1> QED
  BY <1>1, <1>2, <1>3, <1>4, <1>5, <1>6 DEF e, l

\* What the loop of _blocking_execute_raw makes of its bytes.
SiftOf(q) ==
    CHOOSE sift : sift = [b \in Seq(Byte) |->
      CASE Partial(b) -> [rest |-> b, found |-> "nothing", frame |-> <<>>]
        [] Garbled(b) -> sift[Tail(b)]
        [] OTHER ->
             CASE Matches(First(b), q) ->
                    [rest |-> Rest(b), found |-> "frame", frame |-> First(b)]
               [] Breaks(First(b), q) ->
                    [rest |-> Rest(b), found |-> "truncated", frame |-> First(b)]
               [] OTHER -> sift[Rest(b)]]

Sifts(f, b, q) ==
    /\ Partial(b) => f[b] = [rest |-> b, found |-> "nothing", frame |-> <<>>]
    /\ Garbled(b) => f[b] = f[Tail(b)]
    /\ ~Partial(b) /\ ~Garbled(b) =>
          /\ Matches(First(b), q) =>
                f[b] = [rest |-> Rest(b), found |-> "frame", frame |-> First(b)]
          /\ Breaks(First(b), q) =>
                f[b] = [rest |-> Rest(b), found |-> "truncated", frame |-> First(b)]
          /\ ~Matches(First(b), q) /\ ~Breaks(First(b), q) => f[b] = f[Rest(b)]

LEMMA CasesApart ==
    ASSUME NEW b \in Seq(Byte), NEW q
    PROVE  ~(Partial(b) /\ Garbled(b)) /\ ~(Matches(First(b), q) /\ Breaks(First(b), q))
<1>1. ~(Matches(First(b), q) /\ Breaks(First(b), q))
  BY Zenon DEF Matches, Breaks
<1>2. ASSUME Partial(b), Garbled(b) PROVE FALSE
  <2>1. Len(b) < 8
    BY <1>2, Zenon DEF Partial
  <2>2. Len(b) >= 8
    BY <1>2, Zenon DEF Garbled
  <2>3. Len(b) \in Nat
    OBVIOUS
  <2> QED
    BY <2>1, <2>2, <2>3
<1> QED
  BY <1>1, <1>2

LEMMA SiftIs ==
    ASSUME NEW q
    PROVE  /\ \A b \in Seq(Byte) : Sifts(SiftOf(q), b, q)
           /\ \A b : Sift(b, q) = SiftOf(q)[b]
<1> DEFINE S == Seq(Byte)
           Kept(b) == [rest |-> b, found |-> "nothing", frame |-> <<>>]
           Cut(b, kind) == [rest |-> Rest(b), found |-> kind, frame |-> First(b)]
           Ends(b) == Matches(First(b), q) \/ Breaks(First(b), q)
           Out(b) == IF Partial(b) THEN Kept(b)
                     ELSE IF Matches(First(b), q) THEN Cut(b, "frame")
                     ELSE Cut(b, "truncated")
           A == {Out(b) : b \in S}
           size == [b \in S |-> Len(b)]
           stop == {b \in S : Partial(b) \/ (~Garbled(b) /\ Ends(b))}
           out == [b \in S |-> Out(b)]
           Onward(b) == IF b \in stop THEN b ELSE IF Garbled(b) THEN Tail(b) ELSE Rest(b)
           next == [b \in S |-> Onward(b)]
           id == [v \in A |-> v]
           step == [b \in S |-> id]
<1>1. size \in [S -> Nat] /\ stop \in SUBSET S
  OBVIOUS
<1>2. out \in [S -> A] /\ step \in [S -> [A -> A]]
  <2> HIDE DEF Out
  <2> QED
    OBVIOUS
<1>3. ASSUME NEW b \in S, b \notin stop
      PROVE  Onward(b) \in S /\ Len(Onward(b)) \in Nat /\ Len(Onward(b)) < Len(b)
  <2>1. CASE Garbled(b)
    <3>1. Len(b) >= 8
      BY <2>1 DEF Garbled
    <3>2. b # <<>>
      BY <3>1
    <3>3. Tail(b) \in S /\ Len(Tail(b)) = Len(b) - 1 /\ Len(b) \in Nat
      BY <3>2, HeadTailProperties
    <3>4. Len(Tail(b)) \in Nat /\ Len(Tail(b)) < Len(b)
      BY <3>1, <3>3
    <3> QED
      BY <1>3, <2>1, <3>3, <3>4, Zenon
  <2>2. CASE ~Garbled(b)
    <3>1. ~Partial(b)
      BY <1>3
    <3>2. Rest(b) \in Seq(Byte) /\ Len(Rest(b)) \in Nat /\ Len(Rest(b)) < Len(b)
      BY <2>2, <3>1, WholeFrame
    <3> QED
      BY <1>3, <2>2, <3>2, Zenon
  <2> QED
    BY <2>1, <2>2
<1> HIDE DEF S, Out, A, stop, Onward
<1>4. next \in [S -> S]
  <2>1. ASSUME NEW b \in S PROVE Onward(b) \in S
    <3>1. CASE b \in stop
      BY <3>1 DEF Onward
    <3>2. CASE b \notin stop
      BY <1>3, <3>2
    <3> QED
      BY <3>1, <3>2
  <2> QED
    BY <2>1
<1>5. \A b \in S : b \notin stop => size[next[b]] < size[b]
  <2>1. ASSUME NEW b \in S, b \notin stop PROVE size[next[b]] < size[b]
    <3>1. Onward(b) \in S /\ Len(Onward(b)) < Len(b)
      BY <1>3, <2>1
    <3>2. next[b] = Onward(b) /\ size[Onward(b)] = Len(Onward(b)) /\ size[b] = Len(b)
      BY <2>1, <3>1
    <3> QED
      BY <3>1, <3>2, Zenon
  <2> QED
    BY <2>1
<1>6. PICK f : /\ f \in [S -> A]
               /\ \A b \in S : f[b] = IF b \in stop THEN out[b] ELSE step[b][f[next[b]]]
  <2> HIDE DEF size, out, next, step
  <2>1. Descends(S, A, size, stop, out, next, step)
    BY <1>1, <1>2, <1>4, <1>5 DEF Descends
  <2>2. \E f : Solution(f, S, A, stop, out, next, step)
    BY <2>1, Recursive
  <2> QED
    BY <2>2 DEF Solution
<1>7. ASSUME NEW b \in S
      PROVE  f[b] = IF b \in stop THEN Out(b) ELSE f[Onward(b)]
  <2>1. CASE b \in stop
    BY <1>6, <2>1
  <2>2. CASE b \notin stop
    <3>1. next[b] = Onward(b) /\ Onward(b) \in S
      BY <1>3, <2>2
    <3>2. f[Onward(b)] \in A
      BY <1>6, <3>1
    <3>3. step[b] = id /\ id[f[Onward(b)]] = f[Onward(b)]
      BY <3>2
    <3> HIDE DEF next, step, id
    <3> QED
      BY <1>6, <2>2, <3>1, <3>3
  <2> QED
    BY <2>1, <2>2
<1> DEFINE Loop(g, b) ==
             CASE Partial(b) -> [rest |-> b, found |-> "nothing", frame |-> <<>>]
               [] Garbled(b) -> g[Tail(b)]
               [] OTHER ->
                    CASE Matches(First(b), q) ->
                           [rest |-> Rest(b), found |-> "frame", frame |-> First(b)]
                      [] Breaks(First(b), q) ->
                           [rest |-> Rest(b), found |-> "truncated", frame |-> First(b)]
                      [] OTHER -> g[Rest(b)]
<1>8. ASSUME NEW g, NEW b \in S
      PROVE  /\ Partial(b) => Loop(g, b) = Kept(b)
             /\ Garbled(b) => Loop(g, b) = g[Tail(b)]
             /\ ~Partial(b) /\ ~Garbled(b) =>
                   /\ Matches(First(b), q) => Loop(g, b) = Cut(b, "frame")
                   /\ Breaks(First(b), q) => Loop(g, b) = Cut(b, "truncated")
                   /\ ~Matches(First(b), q) /\ ~Breaks(First(b), q) =>
                         Loop(g, b) = g[Rest(b)]
  <2>1. ~(Partial(b) /\ Garbled(b)) /\ ~(Matches(First(b), q) /\ Breaks(First(b), q))
    BY CasesApart DEF S
  <2> QED
    BY <2>1
<1>9. ASSUME NEW b \in S PROVE f[b] = Loop(f, b)
  <2>0. ~(Partial(b) /\ Garbled(b)) /\ ~(Matches(First(b), q) /\ Breaks(First(b), q))
    BY CasesApart DEF S
  <2> HIDE DEF Loop
  <2>1. CASE Partial(b)
    BY <1>7, <1>8, <2>1, Zenon DEF stop, Out
  <2>2. CASE Garbled(b)
    <3>1. b \notin stop
      BY <2>0, <2>2 DEF stop
    <3> QED
      BY <1>7, <1>8, <2>2, <3>1, Zenon DEF Onward
  <2>3. CASE ~Partial(b) /\ ~Garbled(b) /\ Ends(b)
    <3>1. b \in stop
      BY <2>3 DEF stop
    <3> QED
      BY <1>7, <1>8, <2>0, <2>3, <3>1, Zenon DEF Out
  <2>4. CASE ~Partial(b) /\ ~Garbled(b) /\ ~Ends(b)
    <3>1. b \notin stop
      BY <2>4 DEF stop
    <3> QED
      BY <1>7, <1>8, <2>4, <3>1, Zenon DEF Onward
  <2> QED
    BY <2>1, <2>2, <2>3, <2>4
<1>10. f = [b \in S |-> Loop(f, b)]
  <2> HIDE DEF Loop
  <2> QED
    BY <1>6, <1>9
<1> DEFINE t == SiftOf(q)
<1>11. t = [b \in S |-> Loop(t, b)]
  BY <1>10, Zenon DEF SiftOf, S
<1>12. ASSUME NEW b \in S PROVE t[b] = Loop(t, b)
  <2> HIDE DEF Loop, t
  <2> QED
    BY <1>11
<1>13. ASSUME NEW b \in S PROVE Sifts(t, b, q)
  <2> HIDE DEF Loop, t
  <2> QED
    BY <1>8, <1>12, Zenon DEF Sifts
<1>14. \A b : Sift(b, q) = t[b]
  BY Zenon DEF Sift, SiftOf
<1> QED
  BY <1>13, <1>14 DEF S

-----------------------------------------------------------------------------
(* The frames of the dongle.                                               *)

\* A frame with the values of a list of n registers.
LEMMA ListIs ==
    ASSUME NEW S, NEW n \in Nat, 1 <= n, NEW v \in [1..n -> S], S \subseteq Words
    PROVE  v \in Seq(Words) /\ Len(v) = n /\ DOMAIN v = 1..n /\ v[1] \in S
<1>1. v \in Seq(S) /\ Len(v) = n /\ DOMAIN v = 1..n
  OBVIOUS
<1>2. 1 \in 1..n
  OBVIOUS
<1>3. \A i \in 1..n : v[i] \in Words
  OBVIOUS
<1>4. v \in Seq(Words)
  BY <1>1, <1>3
<1> QED
  BY <1>1, <1>2, <1>4

LEMMA FunctionIs == \A n : n \in 0..127 => n \in Nat /\ n <= 127
  OBVIOUS

LEMMA FrameParts ==
    ASSUME ExchangeAssumption, NEW f \in Frame
    PROVE  /\ f.fn \in Byte /\ Len(f.vals) \in BlockCounts
           /\ f.fn >= Exception => f.vals = <<2>>
           /\ f.fn < Exception => f.vals \in Seq(Words)
           /\ f.fn = ReadHolding /\ f.reg \in Registers =>
                 /\ f.fn < Exception /\ f.counted \in BOOLEAN
                 /\ Len(f.vals) \in Counts /\ f.vals[1] \in Values
           /\ f.fn = WriteSingle /\ f.reg \in Registers =>
                 f.fn < Exception /\ ~f.counted /\ Len(f.vals) = 1
<1>0. ReadHolding = 3 /\ WriteSingle = 6 /\ Exception = 128
  BY DEF ReadHolding, WriteSingle, Exception
<1>00. Values \subseteq Words /\ Counts \subseteq BlockCounts
  BY DEF ExchangeAssumption
<1>1. CASE f \in [fn : {ReadHolding}, reg : Registers,
                  vals : UNION {[1..n -> Values] : n \in Counts}, counted : BOOLEAN]
  <2>1. PICK n \in Counts : f.vals \in [1..n -> Values]
    BY <1>1
  <2>2. n \in BlockCounts
    BY <1>00
  <2>3. f.vals \in Seq(Words) /\ Len(f.vals) = n /\ f.vals[1] \in Values
    BY <1>00, <2>1, <2>2, CountIs, ListIs
  <2>4. f.fn = 3 /\ f.counted \in BOOLEAN
    BY <1>0, <1>1
  <2>5. f.fn \in Byte
    BY <2>4, ByteIs
  <2>6. Len(f.vals) \in BlockCounts /\ Len(f.vals) \in Counts
    BY <2>1, <2>2, <2>3
  <2> QED
    BY <1>0, <2>3, <2>4, <2>5, <2>6
<1>2. CASE f \in [fn : {WriteSingle}, reg : Registers, vals : [1..1 -> Values],
                  counted : {FALSE}]
  <2>1. f.fn = 6 /\ ~f.counted /\ f.vals \in [1..1 -> Values]
    BY <1>0, <1>2
  <2>0. 1 \in BlockCounts
    BY CountIs
  <2>2. f.vals \in Seq(Words) /\ Len(f.vals) = 1
    <3>1. 1 \in Nat /\ 1 <= 1
      OBVIOUS
    <3> QED
      BY <1>00, <2>1, <3>1, ListIs
  <2>3. f.fn \in Byte
    BY <2>1, ByteIs
  <2> QED
    BY <1>0, <2>0, <2>1, <2>2, <2>3
<1>3. CASE f \in [fn : {ReadHolding + Exception, WriteSingle + Exception},
                  reg : Registers, vals : {<<2>>}, counted : {FALSE}]
  <2>1. f.fn \in {131, 134} /\ f.vals = <<2>>
    BY <1>0, <1>3
  <2>2. f.fn \in Byte /\ Len(f.vals) = 1 /\ 1 \in BlockCounts
    BY <2>1, ByteIs, CountIs
  <2> QED
    BY <1>0, <2>1, <2>2
<1>4. CASE f \in Pushes
  <2>1. /\ f \in [fn : 0..127, reg : Int, vals : Seq(Words), counted : BOOLEAN]
        /\ Len(f.vals) \in BlockCounts
        /\ f.fn \in {ReadHolding, WriteSingle} => f.reg \notin Registers
    BY <1>4 DEF ExchangeAssumption
  <2>0. f.fn \in 0..127 /\ f.vals \in Seq(Words)
    BY <2>1, Zenon
  <2>2. f.fn \in Nat /\ f.fn <= 127 /\ f.vals \in Seq(Words)
    BY <2>0, FunctionIs, Zenon
  <2>3. f.fn \in Byte
    BY <2>2, ByteIs
  <2> QED
    BY <1>0, <2>1, <2>2, <2>3
<1> QED
  BY <1>1, <1>2, <1>3, <1>4 DEF Frame

\* The values in bytes, two for each.
LEMMA BytesAre ==
    ASSUME NEW v \in Seq(Words), NEW n \in Nat, 1 <= n, Len(v) = n
    PROVE  /\ Bytes(v) \in Seq(Byte) /\ Len(Bytes(v)) = 2 * n
           /\ Bytes(v)[1] = v[1] % 256
           /\ \A k \in 1..n : Bytes(v)[2 * k - 1] + 256 * Bytes(v)[2 * k] = v[k]
<1> DEFINE g(i) == Word(v[(i + 1) \div 2])[2 - (i % 2)]
           z == [i \in 1..(2 * n) |-> g(i)]
<1>1. Bytes(v) = z
  BY DEF Bytes
<1>2. ASSUME NEW k \in 1..n
      PROVE  /\ v[k] \in Words /\ Word(v[k])[1] \in Byte /\ Word(v[k])[2] \in Byte
             /\ Word(v[k])[1] = v[k] % 256
             /\ Word(v[k])[1] + 256 * Word(v[k])[2] = v[k]
  <2>1. v[k] \in Words
    BY <1>2, ElementOfSeq
  <2>2. Word(v[k]) \in Seq(Byte) /\ Len(Word(v[k])) = 2
    BY <2>1, WordBytes
  <2>3. Word(v[k])[1] = v[k] % 256 /\ Word(v[k])[2] = v[k] \div 256
    BY <2>1, WordBytes
  <2>4. v[k] % 256 \in Byte /\ v[k] \div 256 \in Byte
    BY <2>1, WordBytes
  <2>5. Word(v[k])[1] + 256 * Word(v[k])[2] = v[k]
    BY <2>1, WordIn
  <2> QED
    BY <2>1, <2>3, <2>4, <2>5, Zenon
<1>3. ASSUME NEW i \in 1..(2 * n)
      PROVE  (i + 1) \div 2 \in 1..n /\ 2 - (i % 2) \in {1, 2}
  BY <1>3
<1>4. \A i \in 1..(2 * n) : g(i) \in Byte
  <2>1. ASSUME NEW i \in 1..(2 * n) PROVE g(i) \in Byte
    <3> DEFINE k == (i + 1) \div 2
               j == 2 - (i % 2)
    <3>1. k \in 1..n /\ j \in {1, 2}
      BY <1>3
    <3> HIDE DEF k, j
    <3>2. Word(v[k])[j] \in Byte
      BY <1>2, <3>1
    <3> QED
      BY <3>2 DEF k, j
  <2> QED
    BY <2>1
<1>5. ASSUME NEW k \in 1..n
      PROVE  z[2 * k - 1] = Word(v[k])[1] /\ z[2 * k] = Word(v[k])[2]
  <2>1. /\ 2 * k - 1 \in 1..(2 * n) /\ 2 * k \in 1..(2 * n)
        /\ (2 * k - 1 + 1) \div 2 = k /\ 2 - ((2 * k - 1) % 2) = 1
        /\ (2 * k + 1) \div 2 = k /\ 2 - ((2 * k) % 2) = 2
    BY <1>5
  <2>2. z[2 * k - 1] = g(2 * k - 1) /\ z[2 * k] = g(2 * k)
    <3> HIDE DEF g
    <3> QED
      BY <2>1
  <2>3. g(2 * k - 1) = Word(v[k])[1] /\ g(2 * k) = Word(v[k])[2]
    BY <2>1, Zenon
  <2> QED
    BY <2>2, <2>3, Zenon
<1>6. z \in Seq(Byte) /\ Len(z) = 2 * n
  <2> HIDE DEF g
  <2>1. 2 * n \in Nat
    OBVIOUS
  <2> QED
    BY <1>4, <2>1
<1>7. ASSUME NEW k \in 1..n PROVE z[2 * k - 1] + 256 * z[2 * k] = v[k]
  <2> HIDE DEF z
  <2> QED
    BY <1>2, <1>5, <1>7
<1>8. z[1] = v[1] % 256
  <2>1. 1 \in 1..n /\ 2 * 1 - 1 = 1
    OBVIOUS
  <2> HIDE DEF z
  <2>2. z[1] = Word(v[1])[1]
    BY <1>5, <2>1
  <2> QED
    BY <1>2, <2>1, <2>2, Zenon
<1> HIDE DEF z
<1> QED
  BY <1>1, <1>6, <1>7, <1>8

\* They are read back.
LEMMA RegistersAre ==
    ASSUME NEW v \in Seq(Words), NEW n \in Nat, 1 <= n, Len(v) = n
    PROVE  RegistersOf(Bytes(v)) = v
<1> DEFINE y == Bytes(v)
           x == RegistersOf(y)
<1>1. /\ y \in Seq(Byte) /\ Len(y) = 2 * n
      /\ \A k \in 1..n : y[2 * k - 1] + 256 * y[2 * k] = v[k]
  BY BytesAre
<1> HIDE DEF y
<1>2. Len(y) \div 2 = n
  BY <1>1
<1>3. x = [k \in 1..n |-> to_int(SubSeq(y, 2 * k - 1, 2 * k))]
  BY <1>2 DEF RegistersOf
<1>4. ASSUME NEW k \in 1..n PROVE to_int(SubSeq(y, 2 * k - 1, 2 * k)) = v[k]
  <2> DEFINE m == 2 * k - 1
  <2>1. m \in Nat /\ 1 <= m /\ m + 1 = 2 * k /\ m + 1 <= Len(y)
    BY <1>1
  <2> HIDE DEF m
  <2>2. to_int(SubSeq(y, m, m + 1)) = y[m] + 256 * y[m + 1]
    BY <1>1, <2>1, NumberAt, Zenon
  <2>3. to_int(SubSeq(y, 2 * k - 1, 2 * k)) = y[2 * k - 1] + 256 * y[2 * k]
    BY <2>1, <2>2, Zenon DEF m
  <2> QED
    BY <1>1, <2>3, Zenon
<1>5. x = [k \in 1..n |-> v[k]]
  BY <1>3, <1>4, Zenon
<1>6. v = [k \in 1..n |-> v[k]]
  OBVIOUS
<1> QED
  BY <1>5, <1>6, Zenon DEF y

LEMMA PayloadIs ==
    ASSUME ExchangeAssumption, NEW f \in Frame
    PROVE  /\ Payload(f) \in Seq(Byte) /\ Len(Payload(f)) \in PayloadLengths
           /\ f.fn < Exception /\ f.counted =>
                 /\ Len(Payload(f)) = 1 + 2 * Len(f.vals)
                 /\ Payload(f)[1] = 2 * Len(f.vals)
                 /\ Tail(Payload(f)) = Bytes(f.vals)
           /\ f.fn < Exception /\ ~f.counted => Payload(f) = Bytes(f.vals)
<1> DEFINE n == Len(f.vals)
           w == Bytes(f.vals)
           one == <<2 * n>>
<1>1. /\ f.fn \in Byte /\ n \in BlockCounts
      /\ f.fn >= Exception => f.vals = <<2>>
      /\ f.fn < Exception => f.vals \in Seq(Words)
  BY FrameParts
<1>0. n \in Nat /\ 1 <= n /\ n <= 125
  BY <1>1, CountIs
<1>2. f.fn < Exception => w \in Seq(Byte) /\ Len(w) = 2 * n
  BY <1>0, <1>1, BytesAre
<1>3. one \in Seq(Byte) /\ Len(one) = 1 /\ one[1] = 2 * n
  <2>1. 2 * n \in Byte
    <3>1. 2 * n \in Nat /\ 2 * n <= 255
      BY <1>0
    <3> QED
      BY <3>1, ByteIs
  <2> HIDE DEF n
  <2> QED
    BY <2>1
<1>4. f.fn >= Exception \/ f.fn < Exception
  <2>1. f.fn \in Nat
    BY <1>1, ByteIs
  <2> QED
    BY <2>1 DEF Exception
<1>5. ~(f.fn >= Exception /\ f.fn < Exception)
  <2>1. f.fn \in Nat
    BY <1>1, ByteIs
  <2> QED
    BY <2>1 DEF Exception
<1> HIDE DEF w, one, n
<1>6. CASE f.fn >= Exception
  <2>1. Payload(f) = <<2>>
    BY <1>1, <1>5, <1>6 DEF Payload
  <2>2. 2 \in Byte
    BY ByteIs
  <2>3. <<2>> \in Seq(Byte) /\ Len(<<2>>) \in PayloadLengths
    BY <2>2, PayloadLengthIs
  <2> QED
    BY <1>5, <1>6, <2>1, <2>3
<1>7. CASE f.fn < Exception /\ f.counted
  <2>1. Payload(f) = one \o w
    BY <1>5, <1>7 DEF Payload, one, w, n
  <2>2. /\ one \o w \in Seq(Byte) /\ Len(one \o w) = Len(one) + Len(w)
        /\ SubSeq(one \o w, Len(one) + 1, Len(one) + Len(w)) = w
        /\ \A i \in 1..Len(one) : (one \o w)[i] = one[i]
    BY <1>2, <1>3, <1>7, Joined
  <2>3. Len(one \o w) = 1 + 2 * n
    BY <1>2, <1>3, <1>7, <2>2
  <2>4. (one \o w)[1] = 2 * n
    <3>1. 1 \in 1..Len(one)
      BY <1>3
    <3> QED
      BY <1>3, <2>2, <3>1, Zenon
  <2>5. Tail(one \o w) = w
    <3>1. one \o w # <<>>
      <4>1. Len(one \o w) # 0
        BY <1>0, <2>3
      <4> QED
        BY <4>1
    <3>2. Tail(one \o w) = SubSeq(one \o w, 2, Len(one \o w))
      BY <2>2, <3>1, TailIsSubSeq, Zenon
    <3>3. Len(one) + 1 = 2
      BY <1>3
    <3> QED
      BY <2>2, <3>2, <3>3, Zenon
  <2>6. Len(Payload(f)) \in PayloadLengths
    <3>1. 1 + 2 * n \in PayloadLengths
      BY <1>0, PayloadLengthIs
    <3> QED
      BY <2>1, <2>3, <3>1
  <2> QED
    BY <1>5, <1>7, <2>1, <2>2, <2>3, <2>4, <2>5, <2>6, Zenon DEF w, n
<1>8. CASE f.fn < Exception /\ ~f.counted
  <2>1. Payload(f) = w
    BY <1>5, <1>8 DEF Payload, w
  <2>2. Len(Payload(f)) \in PayloadLengths
    <3>1. 2 * n \in PayloadLengths
      BY <1>0, PayloadLengthIs
    <3> QED
      BY <1>2, <1>8, <2>1, <3>1
  <2> QED
    BY <1>2, <1>8, <2>1, <2>2, Zenon DEF w
<1> QED
  BY <1>4, <1>6, <1>7, <1>8

\* What FrameBytes holds.
LEMMA WireIs ==
    ASSUME ExchangeAssumption, NEW f \in Frame
    PROVE  LET w == FrameBytes[f]
           IN  /\ w \in Seq(Byte) /\ Len(w) \in WireLengths
               /\ frame_length_expected(w) = Len(w)
               /\ HasFunction(w) /\ response_function(w) = f.fn
               /\ HasRegister(w) <=> f.reg \in Registers
               /\ f.reg \in Registers =>
                     /\ response_register(w) = f.reg
                     /\ Subject(w) = Counted(f.fn, Word(f.reg) \o Payload(f))
<1>1. f.fn \in Byte
  BY FrameParts
<1>2. FrameBytes[f] = Wire(f)
  <2>1. FrameBytes = [x \in Frame |-> Wire(x)]
    BY TableIs DEF FrameBytes
  <2> QED
    BY <2>1, Zenon
<1>3. CASE f.reg \notin Registers
  <2> DEFINE p == <<>>
             w == build_frame(f.fn, p)
  <2>1. p \in Seq(Byte) /\ Len(p) = 0
    OBVIOUS
  <2>2. Wire(f) = w
    BY <1>3 DEF Wire
  <2> HIDE DEF p
  <2>3. Len(p) <= 1000 /\ ~(Len(p) >= 2) /\ 34 + Len(p) \in WireLengths
    BY <2>1, WireLengthIs
  <2>4. w \in Seq(Byte) /\ Len(w) = 34 + Len(p) /\ frame_length_expected(w) = Len(w)
    <3>1. p \in Seq(Byte) /\ Len(p) <= 1000
      BY <2>1, <2>3
    <3> QED
      BY <1>1, <3>1, FrameIs, Zenon
  <2>5. /\ HasFunction(w) /\ response_function(w) = f.fn
        /\ HasRegister(w) <=> Len(p) >= 2
    BY <1>1, <2>1, <2>3, FrameSays, Zenon
  <2> HIDE DEF w
  <2>6. Len(w) \in WireLengths /\ ~HasRegister(w)
    BY <2>3, <2>4, <2>5
  <2>7. FrameBytes[f] = w
    BY <1>2, <2>2, Zenon
  <2> QED
    BY <1>3, <2>4, <2>5, <2>6, <2>7
<1>4. CASE f.reg \in Registers
  <2> DEFINE p == Word(f.reg) \o Payload(f)
             w == build_frame(f.fn, p)
  <2>1. f.reg \in Words
    BY <1>4 DEF ExchangeAssumption
  <2>2. Payload(f) \in Seq(Byte) /\ Len(Payload(f)) \in PayloadLengths
    BY PayloadIs
  <2>3. p \in Seq(Byte) /\ Len(p) = 2 + Len(Payload(f)) /\ p[1] + 256 * p[2] = f.reg
    BY <2>1, <2>2, TwoWords
  <2>4. Wire(f) = w
    BY <1>4 DEF Wire, build_response_frame
  <2> HIDE DEF p
  <2>5. Len(p) <= 1000 /\ Len(p) >= 2 /\ 34 + Len(p) \in WireLengths
    <3> DEFINE l == Len(Payload(f))
    <3>1. l \in Nat /\ 1 <= l /\ l <= 251 /\ Len(p) = 2 + l
      BY <2>2, <2>3, PayloadLengthIs
    <3> HIDE DEF l
    <3> QED
      BY <3>1, WireLengthIs
  <2>6. /\ w \in Seq(Byte) /\ Len(w) = 34 + Len(p) /\ frame_length_expected(w) = Len(w)
        /\ Subject(w) = Counted(f.fn, p)
    BY <1>1, <2>3, <2>5, FrameIs, Zenon
  <2>7. /\ HasFunction(w) /\ response_function(w) = f.fn
        /\ HasRegister(w) <=> Len(p) >= 2
        /\ response_register(w) = p[1] + 256 * p[2]
    BY <1>1, <2>3, <2>5, FrameSays, Zenon
  <2> HIDE DEF w
  <2> QED
    BY <1>2, <1>4, <2>3, <2>4, <2>5, <2>6, <2>7, Zenon DEF p
<1> QED
  BY <1>3, <1>4, Zenon

\* A frame matches a request when it answers it, and breaks off the exchange
\* only when it is short.
LEMMA MatchIs ==
    ASSUME ExchangeAssumption, NEW f \in Frame, NEW q \in Request
    PROVE  /\ Matches(FrameBytes[f], q) <=> Answers(f, q)
           /\ Breaks(FrameBytes[f], q) <=> f.fn = q.fn /\ f.reg \notin Registers
<1> DEFINE w == FrameBytes[f]
<1>1. /\ HasFunction(w) /\ response_function(w) = f.fn
      /\ HasRegister(w) <=> f.reg \in Registers
      /\ f.reg \in Registers => response_register(w) = f.reg
  BY WireIs, Zenon
<1>2. request_register(RequestBytes[q]) = q.reg /\ q.reg \in Registers
  BY RequestIs
<1> HIDE DEF w
<1>3. Matches(w, q) <=> Answers(f, q)
  BY <1>1, <1>2, Zenon DEF Matches, Answers
<1>4. Breaks(w, q) <=> f.fn = q.fn /\ f.reg \notin Registers
  BY <1>1, Zenon DEF Breaks
<1> QED
  BY <1>3, <1>4 DEF w

\* The payload of an answer.
LEMMA ValuesAre ==
    ASSUME ExchangeAssumption, NEW f \in Frame, f.reg \in Registers
    PROVE  LET s == Subject(FrameBytes[f])
           IN  /\ Len(s) = 16 + Len(Payload(f)) /\ s[17] = Payload(f)[1]
               /\ SubSeq(s, 17, Len(s)) = Payload(f)
<1> DEFINE y == Payload(f)
           p == Word(f.reg) \o y
           s == Counted(f.fn, p)
<1>1. f.fn \in Byte /\ f.reg \in Words
  BY FrameParts DEF ExchangeAssumption
<1>2. y \in Seq(Byte) /\ Len(y) \in PayloadLengths
  BY PayloadIs
<1>3. Subject(FrameBytes[f]) = s
  BY WireIs
<1> HIDE DEF y
<1>4. /\ p \in Seq(Byte) /\ Len(p) = 2 + Len(y)
      /\ \A i \in 1..Len(y) : p[2 + i] = y[i]
  BY <1>1, <1>2, TwoWords
<1> HIDE DEF p
<1>5. Len(p) <= 1000
  <2> DEFINE l == Len(y)
  <2>1. l \in Nat /\ 1 <= l /\ l <= 251 /\ Len(p) = 2 + l
    BY <1>2, <1>4, PayloadLengthIs
  <2> HIDE DEF l
  <2> QED
    BY <2>1
<1>6. /\ s \in Seq(Byte) /\ Len(s) = 14 + Len(p)
      /\ \A i \in 1..Len(p) : s[14 + i] = p[i]
  BY <1>1, <1>4, <1>5, CountedIs
<1> HIDE DEF s
<1> DEFINE l == Len(y)
<1>7. l \in Nat /\ 1 <= l /\ Len(s) = 16 + l
  BY <1>2, <1>4, <1>6, PayloadLengthIs
<1>8. ASSUME NEW i \in 1..l PROVE s[16 + i] = y[i]
  <2> HIDE DEF l
  <2>1. 2 + i \in 1..(2 + l) /\ 14 + (2 + i) = 16 + i
    BY <1>7
  <2>2. Len(p) = 2 + l /\ \A j \in 1..l : p[2 + j] = y[j]
    BY <1>4 DEF l
  <2> QED
    BY <1>6, <2>1, <2>2, Zenon
<1>9. SubSeq(s, 17, Len(s)) = y
  <2> DEFINE v == SubSeq(s, 17, Len(s))
  <2>1. \A i \in 17..Len(s) : s[i] \in Byte
    <3>1. ASSUME NEW i \in 17..Len(s) PROVE i \in 1..Len(s)
      BY <1>7
    <3> QED
      BY <1>6, <3>1, ElementOfSeq
  <2>2. /\ v \in Seq(Byte)
        /\ Len(v) = IF 17 <= Len(s) THEN Len(s) - 17 + 1 ELSE 0
        /\ \A i \in 1..Len(s) - 17 + 1 : v[i] = s[17 + i - 1]
    <3>1. 17 \in Int /\ Len(s) \in Int
      BY <1>7
    <3> QED
      BY <2>1, <3>1, SubSeqProperties
  <2> HIDE DEF l, v
  <2>3. Len(v) = l
    BY <1>7, <2>2
  <2>4. ASSUME NEW i \in 1..l PROVE v[i] = y[i]
    <3>1. i \in 1..Len(s) - 17 + 1 /\ 17 + i - 1 = 16 + i
      BY <1>7
    <3> QED
      BY <1>8, <2>2, <3>1, Zenon
  <2>5. Len(v) = Len(y) /\ \A i \in 1..Len(v) : v[i] = y[i]
    BY <2>3, <2>4 DEF l
  <2>6. v = y
    BY <1>2, <2>2, <2>5, SeqEqual, Zenon
  <2> QED
    BY <2>6 DEF v
<1>10. s[17] = y[1]
  <2>1. 1 \in 1..l /\ 16 + 1 = 17
    BY <1>7, SMTT(30)
  <2> HIDE DEF l
  <2> QED
    BY <1>8, <2>1, Zenon
<1> QED
  BY <1>3, <1>7, <1>9, <1>10, Zenon DEF y, l

\* The registers of a payload that lacks a byte.
LEMMA OneShort ==
    ASSUME NEW n \in Nat, 1 <= n, NEW y, Len(y) = 2 * n - 1
    PROVE  Len(RegistersOf(y)) = n - 1
<1> DEFINE g(k) == to_int(SubSeq(y, 2 * k - 1, 2 * k))
<1>1. (2 * n - 1) \div 2 = n - 1 /\ n - 1 \in Nat
  OBVIOUS
<1>2. RegistersOf(y) = [k \in 1..(n - 1) |-> g(k)]
  BY <1>1 DEF RegistersOf
<1> HIDE DEF g
<1> QED
  BY <1>1, <1>2

\* What is read from an answer is what the registers held, unless its first
\* byte looks like the length byte that it lacks.
LEMMA AnswerIs ==
    ASSUME ExchangeAssumption, NEW f \in Frame, NEW q \in Request, Answers(f, q),
           NEW during, Known(q, f.vals, during),
           f.counted \/ q.fn # ReadHolding \/ FALSE \in Lengths,
           NEW values, values = Answer(FrameBytes[f], q).value,
           Answer(FrameBytes[f], q).kind = "value"
    PROVE  Known(q, values, during) \/ LooksCounted(q, values, during)
<1> DEFINE w == FrameBytes[f]
           s == Subject(w)
           y == Payload(f)
           v == SubSeq(s, 17, Len(s))
           z == Bytes(f.vals)
           n == Len(f.vals)
           r == read_response_values(w, q.fn)
<1>1. /\ f.fn = q.fn /\ f.reg = q.reg /\ f.reg \in Registers
      /\ q.fn \in {ReadHolding, WriteSingle}
      /\ f.fn < Exception /\ f.vals \in Seq(Words) /\ n \in Nat /\ 1 <= n
      /\ q.fn = ReadHolding => n \in Counts /\ f.vals[1] \in Values
      /\ q.fn = WriteSingle => ~f.counted /\ n = 1
  BY RequestParts, FrameParts, CountIs DEF Answers
<1>2. Len(s) = 16 + Len(y) /\ s[17] = y[1] /\ v = y
  BY <1>1, ValuesAre
<1>3. /\ f.counted => Len(y) = 1 + 2 * n /\ y[1] = 2 * n /\ Tail(y) = z
      /\ ~f.counted => y = z
  BY <1>1, PayloadIs
<1>4. z \in Seq(Byte) /\ Len(z) = 2 * n /\ z[1] = f.vals[1] % 256
  BY <1>1, BytesAre
<1>5. RegistersOf(z) = f.vals
  BY <1>1, RegistersAre
<1>6. values = RegistersOf(r)
  <2>1. Outcome("error").kind # "value"
    BY DEF Outcome
  <2>2. Readable(w, q.fn)
    BY <2>1, Zenon DEF Answer
  <2>3. Answer(w, q) = [kind |-> "value", value |-> RegistersOf(r)]
    BY <2>2, Zenon DEF Answer
  <2> HIDE DEF r
  <2> QED
    BY <2>3
<1>7. r = IF q.fn = ReadHolding
          THEN IF HasLengthByte(s) THEN Tail(v) ELSE v
          ELSE IF Len(v) >= 2 THEN SubSeq(v, 1, 2) ELSE <<>>
  BY Zenon DEF read_response_values
<1> HIDE DEF w, s, y, v, z, n, r
<1>8. ASSUME r = z PROVE Known(q, values, during)
  BY <1>5, <1>6, <1>8, Zenon
<1>9. CASE q.fn = ReadHolding /\ f.counted
  <2>1. HasLengthByte(s)
    <3>1. Len(s) > 16 /\ Len(s) - 17 = 2 * n
      BY <1>1, <1>2, <1>3, <1>9
    <3> QED
      BY <1>2, <1>3, <1>9, <3>1, Zenon DEF HasLengthByte
  <2>2. r = z
    BY <1>2, <1>3, <1>7, <1>9, <2>1
  <2> QED
    BY <1>8, <2>2
<1>10. CASE q.fn = ReadHolding /\ ~f.counted /\ ~HasLengthByte(s)
  <2>1. r = z
    BY <1>2, <1>3, <1>7, <1>10
  <2> QED
    BY <1>8, <2>1
<1>11. CASE q.fn = ReadHolding /\ ~f.counted /\ HasLengthByte(s)
  <2>1. r = Tail(z) /\ y = z
    BY <1>2, <1>3, <1>7, <1>11
  <2>2. f.vals[1] % 256 = 2 * n - 1
    <3>1. s[17] = Len(s) - 17
      BY <1>11, Zenon DEF HasLengthByte
    <3>2. z[1] = 16 + 2 * n - 17
      BY <1>2, <1>4, <2>1, <3>1
    <3> QED
      BY <1>1, <1>4, <3>2
  <2>3. Len(r) = 2 * n - 1
    <3>1. z # <<>>
      <4>1. Len(z) # 0
        BY <1>1, <1>4
      <4> QED
        BY <4>1
    <3>2. Len(Tail(z)) = Len(z) - 1
      BY <1>4, <3>1, HeadTailProperties
    <3> QED
      BY <1>4, <2>1, <3>2
  <2>4. Len(values) = n - 1
    BY <1>1, <1>6, <2>3, OneShort
  <2>5. <<q.reg, f.vals[1]>> \in during
    <3>1. q.reg \in Int /\ q.reg \in Span(q)
      BY RequestParts
    <3>2. 1 \in DOMAIN f.vals /\ q.reg + 1 - 1 = q.reg
      BY <1>1, <3>1 DEF n
    <3> QED
      BY <3>1, <3>2, Zenon DEF Known
  <2>6. n \in Counts /\ f.vals[1] \in Values /\ FALSE \in Lengths
    BY <1>1, <1>11
  <2> QED
    BY <1>11, <2>2, <2>4, <2>5, <2>6, Zenon DEF LooksCounted
<1>12. CASE q.fn = WriteSingle
  <2>1. n = 1 /\ v = z /\ q.fn # ReadHolding
    BY <1>1, <1>2, <1>3, <1>12, FunctionsDiffer
  <2>2. Len(z) = 2
    BY <1>4, <2>1
  <2>3. Len(v) >= 2
    BY <2>1, <2>2
  <2>4. SubSeq(z, 1, 2) = z
    BY <1>4, <2>2, SubSeqFull, Zenon
  <2>5. r = z
    BY <1>7, <2>1, <2>3, <2>4, Zenon
  <2> QED
    BY <1>8, <2>5
<1> QED
  BY <1>1, <1>9, <1>10, <1>11, <1>12

-----------------------------------------------------------------------------
(* The frames of a connection.                                             *)

LEMMA StreamParts ==
    ASSUME ExchangeAssumption, NEW s, Stream(s)
    PROVE  /\ s.bytes \in Seq(Byte) /\ Len(s.bytes) \in Nat /\ Len(s.frames) \in Nat
           /\ s.got \in Nat /\ s.got <= Len(s.bytes)
           /\ \A n \in 1..Len(s.frames) :
                 s.frames[n].frame \in Frame /\ s.frames[n].end \in Nat
           /\ \A n \in 0..Len(s.frames) : End(s, n) \in Nat /\ End(s, n) <= Len(s.bytes)
<1>1. /\ s.bytes \in Seq(Byte) /\ s.got \in Nat /\ s.got <= Len(s.bytes)
      /\ s.frames \in Seq([frame : Frame, end : Nat])
      /\ End(s, Len(s.frames)) = Len(s.bytes)
      /\ \A m, n \in 0..Len(s.frames) : m < n => End(s, m) < End(s, n)
  BY DEF Stream
<1>2. Len(s.bytes) \in Nat /\ Len(s.frames) \in Nat
  BY <1>1
<1>3. ASSUME NEW n \in 1..Len(s.frames)
      PROVE  s.frames[n].frame \in Frame /\ s.frames[n].end \in Nat
  <2>1. s.frames[n] \in [frame : Frame, end : Nat]
    BY <1>1, ElementOfSeq
  <2> QED
    BY <2>1
<1>4. ASSUME NEW n \in 0..Len(s.frames) PROVE End(s, n) \in Nat
  <2>1. CASE n = 0
    BY <2>1 DEF End
  <2>2. CASE n # 0
    <3>1. n \in 1..Len(s.frames)
      BY <1>2, <2>2
    <3>2. End(s, n) = s.frames[n].end
      BY <2>2 DEF End
    <3> QED
      BY <1>3, <3>1, <3>2
  <2> QED
    BY <2>1, <2>2
<1>5. ASSUME NEW n \in 0..Len(s.frames) PROVE End(s, n) <= Len(s.bytes)
  <2>1. CASE n = Len(s.frames)
    BY <1>1, <1>2, <2>1
  <2>2. CASE n # Len(s.frames)
    <3>1. n < Len(s.frames) /\ Len(s.frames) \in 0..Len(s.frames)
      BY <1>2, <2>2
    <3>2. End(s, n) < Len(s.bytes)
      BY <1>1, <3>1
    <3> QED
      BY <1>2, <1>4, <3>2
  <2> QED
    BY <2>1, <2>2
<1> QED
  BY <1>1, <1>2, <1>3, <1>4, <1>5

\* The bytes from a place on.
LEMMA SliceIs ==
    ASSUME NEW t \in Seq(Byte), NEW e \in Nat, NEW g \in Nat, e <= g, g <= Len(t)
    PROVE  /\ SubSeq(t, e + 1, g) \in Seq(Byte) /\ Len(SubSeq(t, e + 1, g)) = g - e
           /\ \A i \in 1..g - e : SubSeq(t, e + 1, g)[i] = t[e + i]
<1>1. \A i \in e + 1 .. g : t[i] \in Byte
  <2>1. ASSUME NEW i \in e + 1 .. g PROVE i \in 1..Len(t)
    <3>1. Len(t) \in Nat
      OBVIOUS
    <3> QED
      BY <3>1
  <2> QED
    BY <2>1, ElementOfSeq
<1>2. /\ SubSeq(t, e + 1, g) \in Seq(Byte)
      /\ Len(SubSeq(t, e + 1, g)) = IF e + 1 <= g THEN g - (e + 1) + 1 ELSE 0
      /\ \A i \in 1..g - (e + 1) + 1 : SubSeq(t, e + 1, g)[i] = t[(e + 1) + i - 1]
  <2>1. e + 1 \in Int /\ g \in Int
    OBVIOUS
  <2> QED
    BY <1>1, <2>1, SubSeqProperties
<1>3. Len(SubSeq(t, e + 1, g)) = g - e
  BY <1>2
<1>4. ASSUME NEW i \in 1..g - e PROVE SubSeq(t, e + 1, g)[i] = t[e + i]
  <2>1. i \in 1..g - (e + 1) + 1 /\ (e + 1) + i - 1 = e + i
    OBVIOUS
  <2> QED
    BY <1>2, <2>1, Zenon
<1> QED
  BY <1>2, <1>3, <1>4

\* A slice of a slice.
LEMMA SliceOfSlice ==
    ASSUME NEW t \in Seq(Byte), NEW e \in Nat, NEW g \in Nat, NEW m \in Nat, NEW n \in Nat,
           e <= g, g <= Len(t), 1 <= m, m <= g - e, 1 <= n, n <= g - e
    PROVE  SubSeq(SubSeq(t, e + 1, g), m, n) = SubSeq(t, e + m, e + n)
<1>1. /\ e + 1 \in 1..Len(t) /\ g \in 1..Len(t)
      /\ m \in 1..g - (e + 1) + 1 /\ n \in 1..g - (e + 1) + 1
      /\ (e + 1) + m - 1 = e + m /\ (e + 1) + n - 1 = e + n
  <2>1. Len(t) \in Nat
    OBVIOUS
  <2> QED
    BY <2>1
<1>2. SubSeq(SubSeq(t, e + 1, g), m, n) = SubSeq(t, (e + 1) + m - 1, (e + 1) + n - 1)
  BY <1>1, SubSeqOfSubSeq
<1> QED
  BY <1>1, <1>2, Zenon

\* Two sequences that start alike have one length in their headers.
LEMMA LengthAlike ==
    ASSUME NEW b \in Seq(Byte), NEW w \in Seq(Byte), Len(b) >= 6, Len(w) >= 6,
           b[5] = w[5], b[6] = w[6]
    PROVE  frame_length_expected(b) = frame_length_expected(w)
<1>1. \A s \in Seq(Byte) : Len(s) >= 6 => to_int(SubSeq(s, 5, 6)) = s[5] + 256 * s[6]
  <2>1. ASSUME NEW s \in Seq(Byte), Len(s) >= 6
        PROVE  to_int(SubSeq(s, 5, 6)) = s[5] + 256 * s[6]
    <3>1. 5 \in Nat /\ 1 <= 5 /\ 5 + 1 <= Len(s) /\ 5 + 1 = 6
      BY <2>1
    <3>2. to_int(SubSeq(s, 5, 5 + 1)) = s[5] + 256 * s[5 + 1]
      BY <3>1, NumberAt, Zenon
    <3> QED
      BY <3>1, <3>2, Zenon
  <2> QED
    BY <2>1
<1>2. to_int(SubSeq(b, 5, 6)) = to_int(SubSeq(w, 5, 6))
  BY <1>1, Zenon
<1> QED
  BY <1>2, Zenon DEF frame_length_expected

\* Where a frame starts, it is cut right, once it is there whole.
LEMMA CutIsRight ==
    ASSUME NEW t \in Seq(Byte), NEW e \in Nat, NEW g \in Nat, NEW L \in Nat,
           e <= g, g <= Len(t), e + L <= Len(t), 34 <= L, L <= 287,
           frame_length_expected(SubSeq(t, e + 1, e + L)) = L
    PROVE  LET b == SubSeq(t, e + 1, g)
           IN  /\ b \in Seq(Byte) /\ ~Garbled(b)
               /\ Partial(b) <=> g < e + L
               /\ e + L <= g =>
                     /\ First(b) = SubSeq(t, e + 1, e + L)
                     /\ Rest(b) = SubSeq(t, (e + L) + 1, g)
<1> DEFINE b == SubSeq(t, e + 1, g)
           w == SubSeq(t, e + 1, e + L)
           k == g - e
<1>1. b \in Seq(Byte) /\ Len(b) = k /\ k \in Nat /\ \A i \in 1..k : b[i] = t[e + i]
  <2>1. k \in Nat
    OBVIOUS
  <2> QED
    BY <2>1, SliceIs
<1>2. w \in Seq(Byte) /\ Len(w) = L /\ \A i \in 1..L : w[i] = t[e + i]
  <2>1. e + L \in Nat /\ e <= e + L /\ (e + L) - e = L
    OBVIOUS
  <2>2. /\ w \in Seq(Byte) /\ Len(w) = (e + L) - e
        /\ \A i \in 1..(e + L) - e : w[i] = t[e + i]
    BY <2>1, SliceIs
  <2> QED
    BY <2>1, <2>2
<1>3. First(b) = SubSeq(b, 1, frame_length_expected(b))
  BY Zenon DEF First
<1>4. Rest(b) = SubSeq(b, frame_length_expected(b) + 1, Len(b))
  BY Zenon DEF Rest
<1> HIDE DEF b, w
<1>5. frame_length_expected(w) = L
  BY DEF w
<1>6. ASSUME Len(b) >= 8 PROVE frame_length_expected(b) = L
  <2>1. 5 \in 1..L /\ 6 \in 1..L /\ 5 \in 1..k /\ 6 \in 1..k
    BY <1>1, <1>6
  <2>2. b[5] = w[5] /\ b[6] = w[6]
    <3>1. b[5] = t[e + 5] /\ b[6] = t[e + 6]
      BY <1>1, <2>1, Zenon
    <3>2. w[5] = t[e + 5] /\ w[6] = t[e + 6]
      BY <1>2, <2>1, Zenon
    <3> QED
      BY <3>1, <3>2, Zenon
  <2>3. Len(b) >= 6 /\ Len(w) >= 6
    BY <1>1, <1>2, <1>6
  <2> QED
    BY <1>1, <1>2, <1>5, <2>2, <2>3, LengthAlike
<1>7. ~Garbled(b)
  BY <1>6 DEF Garbled
<1>8. Partial(b) <=> g < e + L
  <2>1. Partial(b) <=> Len(b) < 8 \/ Len(b) < frame_length_expected(b)
    BY <1>7, Zenon DEF Partial
  <2>2. CASE Len(b) < 8
    BY <1>1, <2>1, <2>2
  <2>3. CASE ~(Len(b) < 8)
    <3>1. Len(b) >= 8
      BY <1>1, <2>3
    <3>2. Partial(b) <=> g - e < L
      BY <1>1, <1>6, <2>1, <2>3, <3>1
    <3> QED
      BY <3>2
  <2> QED
    BY <2>2, <2>3
<1>9. ASSUME e + L <= g
      PROVE  First(b) = w /\ Rest(b) = SubSeq(t, (e + L) + 1, g)
  <2>1. Len(b) >= 8
    BY <1>1, <1>9
  <2>2. frame_length_expected(b) = L
    BY <1>6, <2>1
  <2>3. First(b) = SubSeq(b, 1, L) /\ Rest(b) = SubSeq(b, L + 1, k)
    BY <1>1, <1>3, <1>4, <2>2
  <2>4. 1 \in Nat /\ 1 <= 1 /\ 1 <= k /\ 1 <= L /\ L <= k
    BY <1>9
  <2>5. SubSeq(b, 1, L) = w
    BY <2>4, SliceOfSlice DEF b, w
  <2>6. CASE e + L = g
    <3>1. /\ L + 1 \in Int /\ k \in Int /\ k < L + 1
          /\ (e + L) + 1 \in Int /\ g \in Int /\ g < (e + L) + 1
      BY <1>1, <2>6
    <3>2. SubSeq(b, L + 1, k) = <<>> /\ SubSeq(t, (e + L) + 1, g) = <<>>
      BY <3>1, SubSeqEmpty
    <3> QED
      BY <2>3, <2>5, <3>2
  <2>7. CASE e + L # g
    <3>1. /\ L + 1 \in Nat /\ k \in Nat /\ 1 <= L + 1 /\ L + 1 <= k /\ 1 <= k /\ k <= k
          /\ e + (L + 1) = (e + L) + 1 /\ e + k = g
      BY <1>9, <2>7
    <3>2. SubSeq(b, L + 1, k) = SubSeq(t, e + (L + 1), e + k)
      BY <3>1, SliceOfSlice DEF b
    <3>3. SubSeq(t, e + (L + 1), e + k) = SubSeq(t, (e + L) + 1, g)
      BY <3>1
    <3> QED
      BY <2>3, <2>5, <3>2, <3>3
  <2> QED
    BY <2>6, <2>7
<1> QED
  BY <1>1, <1>7, <1>8, <1>9 DEF b, w

\* The same of the frames of a connection.
LEMMA CutFrame ==
    ASSUME ExchangeAssumption, NEW s, Stream(s), NEW n \in 1..Len(s.frames),
           End(s, n - 1) <= s.got
    PROVE  LET b == SubSeq(s.bytes, End(s, n - 1) + 1, s.got)
               w == FrameBytes[s.frames[n].frame]
           IN  /\ b \in Seq(Byte) /\ ~Garbled(b)
               /\ Partial(b) <=> s.got < End(s, n)
               /\ ~(s.got < End(s, n)) =>
                     First(b) = w /\ Rest(b) = SubSeq(s.bytes, End(s, n) + 1, s.got)
<1> DEFINE t == s.bytes
           e == End(s, n - 1)
           d == End(s, n)
           g == s.got
           w == FrameBytes[s.frames[n].frame]
<1>1. n - 1 \in 0..Len(s.frames) /\ n \in 0..Len(s.frames)
  BY StreamParts
<1>2. /\ t \in Seq(Byte) /\ e \in Nat /\ d \in Nat /\ g \in Nat /\ g <= Len(t)
      /\ d <= Len(t) /\ s.frames[n].frame \in Frame
  BY <1>1, StreamParts
<1>3. w \in Seq(Byte) /\ Len(w) \in WireLengths /\ frame_length_expected(w) = Len(w)
  BY <1>2, WireIs
<1>4. w = SubSeq(t, e + 1, d) /\ d = e + Len(w)
  BY DEF Stream
<1> DEFINE b == SubSeq(t, e + 1, g)
<1>5. e <= g
  OBVIOUS
<1>6. d <= g <=> ~(g < d)
  BY <1>2
<1> HIDE DEF t, e, d, g, w
<1>7. /\ b \in Seq(Byte) /\ ~Garbled(b) /\ (Partial(b) <=> g < d)
      /\ d <= g => First(b) = w /\ Rest(b) = SubSeq(t, d + 1, g)
  <2> DEFINE L == Len(w)
  <2>1. L \in Nat /\ 34 <= L /\ L <= 287 /\ d = e + L
    BY <1>3, <1>4, WireLengthIs
  <2>2. frame_length_expected(SubSeq(t, e + 1, e + L)) = L
    BY <1>3, <1>4
  <2> HIDE DEF L
  <2>3. /\ SubSeq(t, e + 1, g) \in Seq(Byte) /\ ~Garbled(SubSeq(t, e + 1, g))
        /\ Partial(SubSeq(t, e + 1, g)) <=> g < e + L
        /\ e + L <= g =>
              /\ First(SubSeq(t, e + 1, g)) = SubSeq(t, e + 1, e + L)
              /\ Rest(SubSeq(t, e + 1, g)) = SubSeq(t, (e + L) + 1, g)
    <3>1. e + L <= Len(t)
      BY <1>2, <2>1
    <3>2. t \in Seq(Byte) /\ e \in Nat /\ g \in Nat /\ g <= Len(t)
      BY <1>2
    <3>3. L \in Nat /\ 34 <= L /\ L <= 287
      BY <2>1
    <3> QED
      BY <1>5, <2>2, <3>1, <3>2, <3>3, CutIsRight, SMTT(30)
  <2> QED
    BY <1>4, <2>1, <2>3, Zenon
<1> QED
  BY <1>6, <1>7, Zenon DEF t, e, d, g, w

LEMMA SiftStream ==
    ASSUME ExchangeAssumption, NEW s, Stream(s), NEW q \in Request,
           NEW n0 \in 0..Len(s.frames), End(s, n0) <= s.got,
           \A m \in 1..n0 : ~Answers(s.frames[m].frame, q)
    PROVE  LET cut == Sift(SubSeq(s.bytes, End(s, n0) + 1, s.got), q)
           IN  \/ /\ cut.found = "nothing"
                  /\ \E n \in Nat : CutAfter(s, cut.rest, n, q)
               \/ /\ cut.found = "frame"
                  /\ \E n \in 1..Len(s.frames) :
                        /\ Answers(s.frames[n].frame, q)
                        /\ cut.frame = FrameBytes[s.frames[n].frame]
               \/ cut.found = "truncated"
<1> DEFINE N == Len(s.frames)
           b(n) == SubSeq(s.bytes, End(s, n) + 1, s.got)
           f == SiftOf(q)
           Good(cut) ==
              \/ /\ cut.found = "nothing"
                 /\ \E n \in Nat : CutAfter(s, cut.rest, n, q)
              \/ /\ cut.found = "frame"
                 /\ \E n \in 1..Len(s.frames) :
                       /\ Answers(s.frames[n].frame, q)
                       /\ cut.frame = FrameBytes[s.frames[n].frame]
              \/ cut.found = "truncated"
           Start(n) == /\ n \in 0..N /\ End(s, n) <= s.got
                       /\ \A m \in 1..n : ~Answers(s.frames[m].frame, q)
           Bad == {k \in Nat : \E n \in 0..N : k = N - n /\ Start(n) /\ ~Good(f[b(n)])}
<1>1. /\ s.bytes \in Seq(Byte) /\ N \in Nat /\ s.got \in Nat /\ s.got <= Len(s.bytes)
      /\ Len(s.bytes) \in Nat
      /\ \A n \in 1..N : s.frames[n].frame \in Frame
      /\ \A n \in 0..N : End(s, n) \in Nat
      /\ End(s, N) = Len(s.bytes)
  BY StreamParts DEF Stream
<1>2. /\ \A x \in Seq(Byte) : Sifts(f, x, q)
      /\ \A x : Sift(x, q) = f[x]
  BY SiftIs
<1> HIDE DEF f
<1>3. ASSUME NEW n \in 0..N, Start(n), \A m \in 0..N : m = n + 1 /\ Start(m) => Good(f[b(m)])
      PROVE  Good(f[b(n)])
  <2> DEFINE kept == [rest |-> b(n), found |-> "nothing", frame |-> <<>>]
  <2>1. ASSUME Partial(b(n)), b(n) \in Seq(Byte), n < N => s.got < End(s, n + 1)
        PROVE  Good(f[b(n)])
    <3>1. f[b(n)] = kept
      BY <1>2, <2>1, Zenon DEF Sifts
    <3>2. n \in Nat /\ CutAfter(s, b(n), n, q)
      BY <1>3, <2>1 DEF CutAfter
    <3> HIDE DEF b
    <3>3. kept.found = "nothing" /\ kept.rest = b(n)
      OBVIOUS
    <3> QED
      BY <3>1, <3>2, <3>3, Zenon
  <2>2. CASE n = N
    <3>1. ~(n < N) /\ Len(s.bytes) + 1 \in Int /\ s.got \in Int /\ s.got < Len(s.bytes) + 1
      BY <1>1, <2>2
    <3>2. b(n) = <<>>
      BY <1>1, <2>2, <3>1, SubSeqEmpty, Zenon
    <3>3. <<>> \in Seq(Byte) /\ Len(<<>>) = 0
      BY EmptySeq
    <3>4. Partial(<<>>)
      BY <3>3 DEF Partial
    <3> QED
      BY <2>1, <3>1, <3>2, <3>3, <3>4, Zenon
  <2>3. CASE n # N
    <3> DEFINE m == n + 1
               g == s.frames[m].frame
               w == FrameBytes[g]
    <3>1. m \in 1..N /\ m \in 0..N /\ m - 1 = n /\ n < N
      BY <1>1, <2>3
    <3>2. g \in Frame
      BY <1>1, <3>1, Zenon
    <3>3. End(s, n) <= s.got
      BY <1>3
    <3> HIDE DEF m
    <3>4. /\ b(n) \in Seq(Byte) /\ ~Garbled(b(n)) /\ (Partial(b(n)) <=> s.got < End(s, m))
          /\ ~(s.got < End(s, m)) => First(b(n)) = w /\ Rest(b(n)) = b(m)
      BY <3>1, <3>3, CutFrame, Zenon
    <3>5. CASE Partial(b(n))
      BY <2>1, <3>4, <3>5, Zenon DEF m
    <3>6. CASE ~Partial(b(n)) /\ Answers(g, q)
      <4>1. Matches(First(b(n)), q)
        <5>1. Matches(FrameBytes[g], q)
          BY <3>2, <3>6, MatchIs
        <5>2. First(b(n)) = FrameBytes[g]
          BY <3>4, <3>6, Zenon
        <5> QED
          BY <5>1, <5>2, Zenon
      <4>2. f[b(n)] = [rest |-> Rest(b(n)), found |-> "frame", frame |-> First(b(n))]
        BY <1>2, <3>4, <3>6, <4>1, Zenon DEF Sifts
      <4>3. f[b(n)].found = "frame" /\ f[b(n)].frame = First(b(n))
        <5> HIDE DEF b
        <5> QED
          BY <4>2
      <4>4. f[b(n)].frame = w
        BY <3>4, <3>6, <4>3, Zenon
      <4> QED
        BY <3>1, <3>6, <4>3, <4>4, Zenon
    <3>7. CASE ~Partial(b(n)) /\ ~Answers(g, q)
      <4>1. ~Matches(First(b(n)), q)
        <5>1. ~Matches(FrameBytes[g], q)
          BY <3>2, <3>7, MatchIs
        <5>2. First(b(n)) = FrameBytes[g]
          BY <3>4, <3>7, Zenon
        <5> QED
          BY <5>1, <5>2, Zenon
      <4>2. CASE Breaks(First(b(n)), q)
        <5>1. f[b(n)] = [rest |-> Rest(b(n)), found |-> "truncated", frame |-> First(b(n))]
          BY <1>2, <3>4, <3>7, <4>2, Zenon DEF Sifts
        <5>2. f[b(n)].found = "truncated"
          <6> HIDE DEF b
          <6> QED
            BY <5>1
        <5> QED
          BY <5>2, Zenon
      <4>3. CASE ~Breaks(First(b(n)), q)
        <5>1. f[b(n)] = f[b(m)]
          <6>1. f[b(n)] = f[Rest(b(n))]
            BY <1>2, <3>4, <3>7, <4>1, <4>3, Zenon DEF Sifts
          <6>2. Rest(b(n)) = b(m)
            BY <3>4, <3>7, Zenon
          <6> QED
            BY <6>1, <6>2, Zenon
        <5>2. End(s, m) <= s.got
          BY <1>1, <3>1, <3>4, <3>7
        <5>3. \A i \in 1..m : i \in 1..n \/ i = m
          BY <3>1
        <5>4. Start(m)
          BY <1>3, <3>1, <3>7, <5>2, <5>3, Zenon
        <5> HIDE DEF Good, b
        <5> QED
          BY <1>3, <3>1, <5>1, <5>4, Zenon DEF m
      <4> QED
        BY <4>2, <4>3
    <3> QED
      BY <3>5, <3>6, <3>7
  <2> QED
    BY <2>2, <2>3
<1> HIDE DEF b, Good, Start
<1>4. Bad = {}
  <2>1. SUFFICES ASSUME Bad # {} PROVE FALSE
    OBVIOUS
  <2>2. PICK k \in Bad : \A l \in Bad : k <= l
    BY <2>1, LeastNumber
  <2>3. PICK n \in 0..N : k = N - n /\ Start(n) /\ ~Good(f[b(n)])
    BY <2>2
  <2>4. ASSUME NEW m \in 0..N, m = n + 1, Start(m) PROVE Good(f[b(m)])
    <3>1. N - m \in Nat /\ N - m < k /\ k \in Nat
      BY <1>1, <2>3, <2>4
    <3>2. ~(k <= N - m)
      BY <3>1
    <3>3. N - m \notin Bad
      BY <2>2, <3>2
    <3> QED
      BY <2>4, <3>1, <3>3
  <2> HIDE DEF Bad, N
  <2> QED
    BY <1>3, <2>3, <2>4, Zenon
<1>5. Start(n0)
  BY DEF Start
<1>6. Good(f[b(n0)])
  <2>1. N - n0 \in Nat
    BY <1>1
  <2> QED
    BY <1>4, <1>5, <2>1
<1> QED
  BY <1>2, <1>6, Zenon DEF Good, b

\* What was received stays as it is when the dongle writes more.
LEMMA SliceKept ==
    ASSUME NEW t \in Seq(Byte), NEW u \in Seq(Byte), NEW e \in Nat, NEW g \in Nat,
           e <= g, g <= Len(t)
    PROVE  SubSeq(t \o u, e + 1, g) = SubSeq(t, e + 1, g)
<1>1. CASE e = g
  <2>1. e + 1 \in Int /\ g \in Int /\ g < e + 1
    BY <1>1
  <2> QED
    BY <2>1, SubSeqEmpty, Zenon
<1>2. CASE e # g
  <2>1. e + 1 \in Nat /\ 1 <= e + 1 /\ e + 1 <= Len(t) /\ 1 <= g
    <3>1. Len(t) \in Nat
      OBVIOUS
    <3> QED
      BY <1>2, <3>1
  <2> QED
    BY <2>1, CutFirst, Zenon
<1> QED
  BY <1>1, <1>2

\* A connection with one more frame.
With(s, f) ==
    [s EXCEPT !.bytes = s.bytes \o FrameBytes[f],
              !.frames = Append(@, [frame |-> f, end |-> Len(s.bytes \o FrameBytes[f])])]

\* x is the connection s after the frame f was written to it.
Longer(s, f, x) ==
    /\ x.frames = Append(s.frames, [frame |-> f, end |-> Len(s.bytes \o FrameBytes[f])])
    /\ x.bytes = s.bytes \o FrameBytes[f]
    /\ x.got = s.got /\ x.open = s.open
    /\ x \in [open : BOOLEAN, frames : Seq([frame : Frame, end : Nat]),
              bytes : Seq(Byte), got : Nat]
    /\ Len(x.frames) = Len(s.frames) + 1
    /\ \A n \in 1..Len(s.frames) : x.frames[n] = s.frames[n]
    /\ x.frames[Len(s.frames) + 1].frame = f
    /\ \A n \in 0..Len(s.frames) : End(x, n) = End(s, n)
    /\ End(x, Len(s.frames) + 1) = Len(x.bytes)
    /\ Len(x.bytes) = Len(s.bytes) + Len(FrameBytes[f])
    /\ Len(FrameBytes[f]) \in WireLengths /\ FrameBytes[f] \in Seq(Byte)

LEMMA WithIs ==
    ASSUME ExchangeAssumption, NEW s, Stream(s), NEW f \in Frame
    PROVE  Longer(s, f, With(s, f))
<1> DEFINE w == FrameBytes[f]
           t == s.bytes \o w
           fs == Append(s.frames, [frame |-> f, end |-> Len(t)])
           x == [s EXCEPT !.bytes = t, !.frames = fs]
           N == Len(s.frames)
<1>1. w \in Seq(Byte) /\ Len(w) \in WireLengths
  BY WireIs
<1>2. s \in [open : BOOLEAN, frames : Seq([frame : Frame, end : Nat]),
             bytes : Seq(Byte), got : Nat]
  BY DEF Stream
<1>3. s.bytes \in Seq(Byte) /\ s.frames \in Seq([frame : Frame, end : Nat])
  BY <1>2
<1> HIDE DEF w
<1>4. t \in Seq(Byte) /\ Len(t) = Len(s.bytes) + Len(w) /\ Len(t) \in Nat
  <2>1. t \in Seq(Byte) /\ Len(t) = Len(s.bytes) + Len(w)
    BY <1>1, <1>3, Joined
  <2> QED
    BY <2>1, LenProperties
<1> HIDE DEF t
<1>5. [frame |-> f, end |-> Len(t)] \in [frame : Frame, end : Nat]
  BY <1>4
<1>6. /\ fs \in Seq([frame : Frame, end : Nat]) /\ Len(fs) = N + 1 /\ N \in Nat
      /\ \A n \in 1..N : fs[n] = s.frames[n]
      /\ fs[N + 1] = [frame |-> f, end |-> Len(t)]
  BY <1>3, <1>5, AppendProperties, LenProperties
<1> HIDE DEF fs
<1>7. /\ x.frames = fs /\ x.bytes = t /\ x.got = s.got /\ x.open = s.open
      /\ x \in [open : BOOLEAN, frames : Seq([frame : Frame, end : Nat]),
                bytes : Seq(Byte), got : Nat]
  BY <1>2, <1>4, <1>6
<1>8. With(s, f) = x
  BY Zenon DEF With, w, t, fs
<1> HIDE DEF x
<1>9. fs[N + 1].frame = f /\ fs[N + 1].end = Len(t)
  BY <1>6
<1>10. ASSUME NEW n \in 0..N PROVE End(x, n) = End(s, n)
  <2>1. CASE n = 0
    BY <2>1 DEF End
  <2>2. CASE n # 0
    <3>1. n \in 1..N
      BY <1>6, <2>2
    <3> QED
      BY <1>6, <1>7, <2>2, <3>1, Zenon DEF End
  <2> QED
    BY <2>1, <2>2
<1>11. End(x, N + 1) = Len(t)
  <2>1. N + 1 # 0
    BY <1>6
  <2> QED
    BY <1>7, <1>9, <2>1, Zenon DEF End
<1> QED
  BY <1>1, <1>4, <1>6, <1>7, <1>8, <1>9, <1>10, <1>11, Zenon DEF w, t, fs, Longer

LEMMA Beyond ==
    ASSUME NEW a \in Nat, NEW b \in Nat, a <= b, NEW L \in WireLengths
    PROVE  a < b + L
  BY WireLengthIs

LEMMA WithStream ==
    ASSUME ExchangeAssumption, NEW s, Stream(s), NEW f \in Frame
    PROVE  Stream(With(s, f))
<1> DEFINE x == With(s, f)
           w == FrameBytes[f]
           N == Len(s.frames)
           t == s.bytes
<1>0. Longer(s, f, x)
  BY WithIs
<1> HIDE DEF x
<1>1. /\ x.bytes = t \o w /\ x.got = s.got
      /\ x \in [open : BOOLEAN, frames : Seq([frame : Frame, end : Nat]),
                bytes : Seq(Byte), got : Nat]
      /\ Len(x.frames) = N + 1
      /\ \A n \in 1..N : x.frames[n] = s.frames[n]
      /\ x.frames[N + 1].frame = f
      /\ \A n \in 0..N : End(x, n) = End(s, n)
      /\ End(x, N + 1) = Len(x.bytes)
      /\ Len(x.bytes) = Len(t) + Len(w)
      /\ Len(w) \in WireLengths /\ w \in Seq(Byte)
  BY <1>0, Zenon DEF Longer
<1>2. /\ t \in Seq(Byte) /\ Len(t) \in Nat /\ N \in Nat /\ s.got \in Nat /\ s.got <= Len(t)
      /\ \A n \in 0..N : End(s, n) \in Nat /\ End(s, n) <= Len(t)
  BY StreamParts
<1>3. /\ End(s, N) = Len(t)
      /\ \A n \in 1..N :
            /\ SubSeq(t, End(s, n - 1) + 1, End(s, n)) = FrameBytes[s.frames[n].frame]
            /\ End(s, n) = End(s, n - 1) + Len(FrameBytes[s.frames[n].frame])
      /\ \A m, n \in 0..N : m < n => End(s, m) < End(s, n)
  BY DEF Stream
<1> HIDE DEF w, N, t
<1>4. x.got <= Len(x.bytes)
  BY <1>1, <1>2
<1>5. ASSUME NEW n \in 1..N
      PROVE  /\ SubSeq(x.bytes, End(x, n - 1) + 1, End(x, n)) = FrameBytes[x.frames[n].frame]
             /\ End(x, n) = End(x, n - 1) + Len(FrameBytes[x.frames[n].frame])
  <2>1. n \in 0..N /\ n - 1 \in 0..N /\ n - 1 < n
    BY <1>2
  <2>2. End(s, n - 1) < End(s, n)
    BY <1>3, <2>1
  <2>3. /\ End(s, n - 1) \in Nat /\ End(s, n) \in Nat /\ End(s, n) <= Len(t)
        /\ End(s, n - 1) <= End(s, n)
    BY <1>2, <2>1, <2>2
  <2>4. SubSeq(t \o w, End(s, n - 1) + 1, End(s, n)) = SubSeq(t, End(s, n - 1) + 1, End(s, n))
    <3>1. t \in Seq(Byte) /\ w \in Seq(Byte)
      BY <1>1, <1>2
    <3>2. Len(t) \in Nat
      BY <1>2
    <3>3. End(s, n - 1) \in Nat /\ End(s, n) \in Nat /\ End(s, n) <= Len(t)
      BY <2>3
    <3> QED
      BY <3>1, <3>2, <3>3, SliceKept
  <2> QED
    BY <1>1, <1>3, <2>1, <2>4, Zenon
<1>6. /\ SubSeq(x.bytes, End(x, N) + 1, End(x, N + 1)) = w
      /\ End(x, N + 1) = End(x, N) + Len(w)
  <2>1. N \in 0..N
    BY <1>2
  <2>2. End(x, N) = Len(t) /\ End(x, N + 1) = Len(t) + Len(w)
    BY <1>1, <1>3, <2>1, Zenon
  <2>3. SubSeq(t \o w, Len(t) + 1, Len(t) + Len(w)) = w
    BY <1>1, <1>2, Joined, Zenon
  <2> QED
    BY <1>1, <2>2, <2>3, Zenon
<1>7. ASSUME NEW n \in 1..Len(x.frames)
      PROVE  /\ SubSeq(x.bytes, End(x, n - 1) + 1, End(x, n)) = FrameBytes[x.frames[n].frame]
             /\ End(x, n) = End(x, n - 1) + Len(FrameBytes[x.frames[n].frame])
  <2>1. n \in 1..N \/ (n = N + 1 /\ n - 1 = N)
    BY <1>1, <1>2
  <2> QED
    BY <1>1, <1>5, <1>6, <2>1, Zenon DEF w
<1>8. ASSUME NEW m \in 0..Len(x.frames), NEW n \in 0..Len(x.frames), m < n
      PROVE  End(x, m) < End(x, n)
  <2>1. m \in 0..N /\ (n \in 0..N \/ n = N + 1)
    BY <1>1, <1>2, <1>8
  <2>2. CASE n \in 0..N
    BY <1>1, <1>3, <1>8, <2>1, <2>2, Zenon
  <2>3. CASE n = N + 1
    <3>1. End(x, m) \in Nat /\ End(x, m) <= Len(t)
      BY <1>1, <1>2, <2>1, Zenon
    <3>2. End(x, n) = Len(t) + Len(w)
      BY <1>1, <2>3, Zenon
    <3>3. Len(t) \in Nat /\ Len(w) \in WireLengths
      BY <1>1, <1>2, Zenon
    <3>4. End(x, m) < Len(t) + Len(w)
      BY <3>1, <3>3, Beyond
    <3> QED
      BY <3>2, <3>4, Zenon
  <2> QED
    BY <2>1, <2>2, <2>3
<1>9. End(x, Len(x.frames)) = Len(x.bytes)
  BY <1>1, Zenon
<1>10. Stream(x)
  BY <1>1, <1>4, <1>7, <1>8, <1>9, Zenon DEF Stream
<1> QED
  BY <1>10 DEF x

LEMMA WithCut ==
    ASSUME ExchangeAssumption, NEW s, Stream(s), NEW f \in Frame, NEW rest, NEW q,
           NEW n, CutAfter(s, rest, n, q)
    PROVE  CutAfter(With(s, f), rest, n, q)
<1> DEFINE x == With(s, f)
           w == FrameBytes[f]
           N == Len(s.frames)
           t == s.bytes
<1>0. Longer(s, f, x)
  BY WithIs
<1> HIDE DEF x
<1>1. /\ x.bytes = t \o w /\ x.got = s.got /\ Len(x.frames) = N + 1
      /\ \A i \in 1..N : x.frames[i] = s.frames[i]
      /\ \A i \in 0..N : End(x, i) = End(s, i)
      /\ End(x, N + 1) = Len(x.bytes) /\ Len(x.bytes) = Len(t) + Len(w)
      /\ Len(w) \in WireLengths /\ w \in Seq(Byte)
  BY <1>0, Zenon DEF Longer
<1>2. /\ t \in Seq(Byte) /\ Len(t) \in Nat /\ N \in Nat /\ s.got \in Nat /\ s.got <= Len(t)
      /\ \A i \in 0..N : End(s, i) \in Nat /\ End(s, i) <= Len(t)
  BY StreamParts
<1>3. /\ n \in 0..N /\ End(s, n) <= s.got
      /\ n < N => s.got < End(s, n + 1)
      /\ rest = SubSeq(t, End(s, n) + 1, s.got)
      /\ \A m \in 1..n : ~Answers(s.frames[m].frame, q)
  BY DEF CutAfter
<1> HIDE DEF w, N, t
<1>4. n \in 0..Len(x.frames) /\ End(x, n) <= x.got
  BY <1>1, <1>2, <1>3
<1>5. x.got < End(x, n + 1)
  <2>1. CASE n < N
    <3>1. n + 1 \in 0..N
      BY <1>2, <1>3, <2>1
    <3> QED
      BY <1>1, <1>3, <2>1, <3>1, Zenon
  <2>2. CASE n = N
    <3>1. End(x, n + 1) = Len(t) + Len(w)
      BY <1>1, <2>2, Zenon
    <3>2. Len(t) \in Nat /\ Len(w) \in WireLengths /\ x.got \in Nat /\ x.got <= Len(t)
      BY <1>1, <1>2, Zenon
    <3>3. x.got < Len(t) + Len(w)
      BY <3>2, Beyond
    <3> QED
      BY <3>1, <3>3, Zenon
  <2> QED
    BY <1>2, <1>3, <2>1, <2>2
<1>6. rest = SubSeq(x.bytes, End(x, n) + 1, x.got)
  <2>1. SubSeq(t \o w, End(s, n) + 1, s.got) = SubSeq(t, End(s, n) + 1, s.got)
    <3>1. t \in Seq(Byte) /\ w \in Seq(Byte)
      BY <1>1, <1>2
    <3>2. s.got \in Nat /\ s.got <= Len(t)
      BY <1>2
    <3>3. End(s, n) \in Nat /\ End(s, n) <= s.got
      BY <1>2, <1>3
    <3> DEFINE e == End(s, n)
               g == s.got
    <3> HIDE DEF e, g
    <3>4. e \in Nat /\ g \in Nat /\ e <= g /\ g <= Len(t)
      BY <3>2, <3>3 DEF e, g
    <3>5. SubSeq(t \o w, e + 1, g) = SubSeq(t, e + 1, g)
      BY <3>1, <3>4, SliceKept
    <3> QED
      BY <3>5 DEF e, g
  <2> QED
    BY <1>1, <1>3, <2>1, Zenon
<1>7. \A m \in 1..n : ~Answers(x.frames[m].frame, q)
  <2>1. \A m \in 1..n : m \in 1..N
    BY <1>2, <1>3
  <2> QED
    BY <1>1, <1>3, <2>1, Zenon
<1>8. CutAfter(x, rest, n, q)
  BY <1>4, <1>5, <1>6, <1>7, Zenon DEF CutAfter
<1> QED
  BY <1>8 DEF x

-----------------------------------------------------------------------------
(* The steps keep the stream.                                              *)

\* A connection without frames, closed or just opened.
LEMMA NoFrames ==
    ASSUME NEW s, s = Closed \/ s = [Closed EXCEPT !.open = TRUE]
    PROVE  /\ Stream(s) /\ s.frames = <<>> /\ s.got = 0
           /\ \A q : CutAfter(s, <<>>, 0, q)
<1>1. /\ s \in [open : BOOLEAN, frames : Seq([frame : Frame, end : Nat]),
                bytes : Seq(Byte), got : Nat]
      /\ s.frames = <<>> /\ s.bytes = <<>> /\ s.got = 0
  <2>1. <<>> \in Seq([frame : Frame, end : Nat]) /\ <<>> \in Seq(Byte)
    OBVIOUS
  <2>2. PICK o \in BOOLEAN : s = [open |-> o, frames |-> <<>>, bytes |-> <<>>, got |-> 0]
    BY DEF Closed
  <2> QED
    BY <2>1, <2>2
<1>2. Len(s.frames) = 0 /\ Len(s.bytes) = 0
  BY <1>1
<1>3. End(s, 0) = 0
  BY DEF End
<1>4. Stream(s)
  <2>1. \A n \in 1..0 : FALSE
    OBVIOUS
  <2>2. \A m, n \in 0..0 : ~(m < n)
    OBVIOUS
  <2>3. s.got <= Len(s.bytes)
    BY <1>1, <1>2
  <2> QED
    BY <1>1, <1>2, <1>3, <2>1, <2>2, <2>3, Zenon DEF Stream
<1>5. ASSUME NEW q PROVE CutAfter(s, <<>>, 0, q)
  <2>1. 0 \in 0..Len(s.frames) /\ End(s, 0) <= s.got /\ ~(0 < Len(s.frames))
    BY <1>1, <1>2, <1>3
  <2>2. SubSeq(s.bytes, End(s, 0) + 1, s.got) = <<>>
    BY <1>1, <1>3
  <2>3. \A m \in 1..0 : FALSE
    OBVIOUS
  <2> QED
    BY <2>1, <2>2, <2>3, Zenon DEF CutAfter
<1> QED
  BY <1>1, <1>4, <1>5

\* More is known as the call goes on.
LEMMA KnownLater ==
    ASSUME NEW q, NEW values, NEW S, NEW T, S \subseteq T
    PROVE  /\ Known(q, values, S) => Known(q, values, T)
           /\ LooksCounted(q, values, S) => LooksCounted(q, values, T)
<1>1. Known(q, values, S) => Known(q, values, T)
  BY DEF Known
<1>2. LooksCounted(q, values, S) => LooksCounted(q, values, T)
  BY DEF LooksCounted
<1> QED
  BY <1>1, <1>2

\* Once no caller reads.
LEMMA NobodyReads ==
    ASSUME sock' = Closed, data' = <<>>, \A d \in Callers : pc'[d] # "reading",
           DOMAIN seen' = Callers, AnswerIsFresh'
    PROVE  StreamInv' /\ FreshInv'
<1>1. Stream(sock')
  BY NoFrames
<1>2. StreamInv'
  BY <1>1, Zenon DEF StreamInv
<1> QED
  BY <1>2, Zenon DEF FreshInv

LEMMA FinishStreams ==
    ASSUME LockInv, FreshInv, NEW c \in Callers, Holds(c), NEW o, Finish(c, o),
           o.kind = "value" => \/ Known(call[c], o.value, seen[c])
                               \/ LooksCounted(call[c], o.value, seen[c])
    PROVE  StreamInv' /\ FreshInv'
<1>1. /\ sock' = Closed /\ data' = <<>> /\ seen' = seen /\ call' = call
      /\ pc' = [pc EXCEPT ![c] = "idle"] /\ result' = [result EXCEPT ![c] = o]
  BY DEF Finish, ghosts
<1>2. \A d \in Callers : pc'[d] # "reading"
  BY <1>1 DEF LockInv, ControlOK, Holds
<1>3. AnswerIsFresh'
  <2>1. ASSUME NEW d \in Callers
        PROVE  result'[d] = IF d = c THEN o ELSE result[d]
    BY <1>1 DEF LockInv, Owned
  <2>2. ASSUME NEW d \in Callers, result'[d].kind = "value"
        PROVE  \/ Known(call[d], result'[d].value, seen[d])
               \/ LooksCounted(call[d], result'[d].value, seen[d])
    <3>1. CASE d = c
      BY <2>1, <2>2, <3>1
    <3>2. CASE d # c
      BY <2>1, <2>2, <3>2, Zenon DEF AnswerIsFresh, FreshInv
    <3> QED
      BY <3>1, <3>2
  <2> QED
    BY <1>1, <2>2, Zenon DEF AnswerIsFresh, Known, LooksCounted
<1>4. DOMAIN seen' = Callers
  BY <1>1 DEF FreshInv
<1> QED
  BY <1>1, <1>2, <1>3, <1>4, NobodyReads

\* Where the answers and what is known stay the same.
LEMMA SameAnswers ==
    ASSUME AnswerIsFresh, call' = call, result' = result, seen' = seen
    PROVE  AnswerIsFresh'
  BY Zenon DEF AnswerIsFresh, Known, LooksCounted

LEMMA FailStreams ==
    ASSUME LockInv, FreshInv, NEW c \in Callers, Holds(c), Fail(c)
    PROVE  StreamInv' /\ FreshInv'
<1>1. CASE Again(c)
  <2>1. /\ sock' = Closed /\ data' = <<>> /\ seen' = seen /\ result' = result
        /\ call' = call /\ pc' = [pc EXCEPT ![c] = "connecting"]
    BY <1>1 DEF Again, ghosts
  <2>2. \A d \in Callers : pc'[d] # "reading"
    BY <2>1 DEF LockInv, ControlOK, Holds
  <2>3. AnswerIsFresh' /\ DOMAIN seen' = Callers
    BY <2>1, SameAnswers DEF FreshInv
  <2> QED
    BY <2>1, <2>2, <2>3, NobodyReads
<1>2. CASE Finish(c, Outcome("timeout"))
  <2>1. Outcome("timeout").kind # "value"
    BY DEF Outcome
  <2> QED
    BY <1>2, <2>1, FinishStreams
<1> QED
  BY <1>1, <1>2 DEF Fail

LEMMA ErrorStreams ==
    ASSUME LockInv, FreshInv, NEW c \in Callers, Holds(c), Finish(c, Outcome("error"))
    PROVE  StreamInv' /\ FreshInv'
<1>1. Outcome("error").kind # "value"
  BY DEF Outcome
<1> QED
  BY <1>1, FinishStreams

LEMMA CallStreams ==
    ASSUME ExchangeAssumption, LockInv, StreamInv, FreshInv,
           NEW c \in Callers, NEW q \in Calls[c], Call(c, q)
    PROVE  StreamInv' /\ FreshInv'
<1>1. /\ sock' = sock /\ data' = data
      /\ pc[c] = "idle" /\ pc' = [pc EXCEPT ![c] = "queued"]
      /\ call' = [call EXCEPT ![c] = q]
      /\ result' = [result EXCEPT ![c] = Outcome(None)]
      /\ \E S : seen' = [seen EXCEPT ![c] = S]
  BY DEF Call, thread
<1>2. \A d \in Callers : pc'[d] = "reading" <=> pc[d] = "reading"
  BY <1>1 DEF LockInv, ControlOK
<1>3. \A d \in Callers : pc[d] = "reading" => d # c
  BY <1>1
<1>4. \A d \in Callers : d # c => call'[d] = call[d] /\ seen'[d] = seen[d]
  BY <1>1 DEF LockInv, ControlOK, FreshInv
<1>5. StreamInv'
  BY <1>1, <1>2, <1>3, <1>4, Zenon DEF StreamInv
<1>6. DOMAIN seen' = Callers
  BY <1>1 DEF FreshInv
<1>7. AnswerIsFresh'
  <2>1. result'[c].kind # "value"
    BY <1>1 DEF Outcome, None, LockInv, Owned
  <2>2. \A d \in Callers : d # c => result'[d] = result[d]
    BY <1>1 DEF LockInv, Owned
  <2>3. ASSUME NEW d \in Callers, result'[d].kind = "value"
        PROVE  \/ Known(call'[d], result'[d].value, seen'[d])
               \/ LooksCounted(call'[d], result'[d].value, seen'[d])
    <3>1. /\ d # c /\ result'[d] = result[d] /\ call'[d] = call[d]
          /\ seen'[d] = seen[d]
      BY <1>4, <2>1, <2>2, <2>3
    <3> QED
      BY <2>3, <3>1 DEF AnswerIsFresh, FreshInv
  <2> QED
    BY <2>3, Zenon DEF AnswerIsFresh, Known, LooksCounted
<1>8. FreshInv'
  BY <1>1, <1>2, <1>3, <1>4, <1>6, <1>7, Zenon DEF FreshInv
<1> QED
  BY <1>5, <1>8

LEMMA AcquireStreams ==
    ASSUME LockInv, StreamInv, FreshInv, NEW c \in Callers, Acquire(c)
    PROVE  StreamInv' /\ FreshInv'
<1>1. /\ sock' = sock /\ data' = data /\ seen' = seen /\ result' = result /\ LockFree
      /\ call' = call /\ pc' = [pc EXCEPT ![c] = "connecting"]
  BY DEF Acquire, ghosts
<1>2. sock = Closed /\ data = <<>>
  BY <1>1 DEF LockInv, ControlOK
<1>3. \A d \in Callers : pc'[d] # "reading"
  BY <1>1 DEF LockInv, ControlOK, LockFree, Holds
<1>4. AnswerIsFresh' /\ DOMAIN seen' = Callers
  BY <1>1, SameAnswers DEF FreshInv
<1> QED
  BY <1>1, <1>2, <1>3, <1>4, NobodyReads

LEMMA ConnectStreams ==
    ASSUME LockInv, FreshInv, NEW c \in Callers, Connect(c)
    PROVE  StreamInv' /\ FreshInv'
<1>1. /\ sock' = [Closed EXCEPT !.open = TRUE] /\ data' = <<>>
      /\ seen' = seen /\ result' = result /\ call' = call
      /\ pc' = [pc EXCEPT ![c] = "reading"]
  BY DEF Connect, ghosts
<1>2. Stream(sock') /\ sock'.frames = <<>> /\ (\A q : CutAfter(sock', data', 0, q))
  BY <1>1, NoFrames, Zenon
<1>3. pc'[c] = "reading"
  BY <1>1 DEF LockInv, ControlOK
<1>4. StreamInv'
  BY <1>2, <1>3, Zenon DEF StreamInv
<1>5. \A n \in 1..Len(sock'.frames) : FALSE
  BY <1>2
<1>6. AnswerIsFresh' /\ DOMAIN seen' = Callers
  BY <1>1, SameAnswers DEF FreshInv
<1>7. FreshInv'
  BY <1>5, <1>6, Zenon DEF FreshInv
<1> QED
  BY <1>4, <1>7

\* The dongle writes a frame, whose values are of the call that it answers.
LEMMA SendStreams ==
    ASSUME ExchangeAssumption, LockInv, StreamInv, FreshInv, NEW f \in Frame,
           sock' = With(sock, f) \/ sock' = sock,
           UNCHANGED <<calls, data>>,
           DOMAIN seen' = Callers,
           \A c \in Callers : seen[c] \subseteq seen'[c],
           \A c \in Callers : pc[c] = "reading" /\ Answers(f, call[c]) =>
              /\ Known(call[c], f.vals, seen'[c])
              /\ f.counted \/ call[c].fn # ReadHolding \/ FALSE \in Lengths
    PROVE  StreamInv' /\ FreshInv'
<1>1. pc' = pc /\ call' = call /\ result' = result /\ data' = data
  BY DEF calls
<1>2. Stream(sock) /\ Stream(sock')
  <2>1. Stream(sock)
    BY DEF StreamInv
  <2>2. Stream(With(sock, f))
    BY <2>1, WithStream
  <2> QED
    BY <2>1, <2>2
<1>3. StreamInv'
  <2>1. ASSUME NEW c \in Callers, pc[c] = "reading"
        PROVE  \E n \in Nat : CutAfter(sock', data, n, call[c])
    <3>1. PICK n \in Nat : CutAfter(sock, data, n, call[c])
      BY <2>1, Zenon DEF StreamInv
    <3>2. CutAfter(sock', data, n, call[c])
      <4>1. CutAfter(With(sock, f), data, n, call[c])
        BY <1>2, <3>1, WithCut
      <4> QED
        BY <3>1, <4>1
    <3> QED
      BY <3>2
  <2>2. \A c \in Callers : pc'[c] = "reading" =>
           \E n \in Nat : CutAfter(sock', data', n, call'[c])
    BY <1>1, <2>1
  <2>3. (\A c \in Callers : pc'[c] # "reading") => data' = <<>>
    BY <1>1 DEF StreamInv
  <2> QED
    BY <1>2, <2>2, <2>3 DEF StreamInv
<1>4. AnswerIsFresh'
  <2>1. ASSUME NEW c \in Callers, result[c].kind = "value"
        PROVE  \/ Known(call[c], result[c].value, seen'[c])
               \/ LooksCounted(call[c], result[c].value, seen'[c])
    <3>1. \/ Known(call[c], result[c].value, seen[c])
          \/ LooksCounted(call[c], result[c].value, seen[c])
      BY <2>1, Zenon DEF AnswerIsFresh, FreshInv
    <3> QED
      BY <3>1, KnownLater
  <2> QED
    BY <1>1, <2>1, Zenon DEF AnswerIsFresh, Known, LooksCounted
<1>5. ASSUME NEW c \in Callers, pc[c] = "reading",
             NEW n \in 1..Len(sock'.frames), Answers(sock'.frames[n].frame, call[c])
      PROVE  /\ Known(call[c], sock'.frames[n].frame.vals, seen'[c])
             /\ \/ sock'.frames[n].frame.counted \/ call[c].fn # ReadHolding
                \/ FALSE \in Lengths
  <2>1. CASE sock' = sock
    <3>1. /\ Known(call[c], sock.frames[n].frame.vals, seen[c])
          /\ \/ sock.frames[n].frame.counted \/ call[c].fn # ReadHolding
             \/ FALSE \in Lengths
      BY <1>5, <2>1, Zenon DEF FreshInv
    <3>2. Known(call[c], sock.frames[n].frame.vals, seen'[c])
      BY <3>1, KnownLater
    <3> QED
      BY <2>1, <3>1, <3>2
  <2>2. CASE sock' = With(sock, f)
    <3> DEFINE N == Len(sock.frames)
    <3>1. /\ Len(sock'.frames) = N + 1
          /\ \A i \in 1..N : sock'.frames[i] = sock.frames[i]
          /\ sock'.frames[N + 1].frame = f
      <4>1. Longer(sock, f, With(sock, f))
        BY <1>2, WithIs
      <4>2. Longer(sock, f, sock')
        BY <2>2, <4>1
      <4> QED
        BY <4>2, Zenon DEF Longer
    <3>2. N \in Nat
      BY <1>2, StreamParts, Zenon
    <3> HIDE DEF N
    <3>3. n \in 1..N \/ n = N + 1
      BY <3>1, <3>2
    <3>4. CASE n \in 1..N
      <4>1. sock'.frames[n] = sock.frames[n]
        BY <3>1, <3>4
      <4>2. /\ Known(call[c], sock.frames[n].frame.vals, seen[c])
            /\ \/ sock.frames[n].frame.counted \/ call[c].fn # ReadHolding
               \/ FALSE \in Lengths
        BY <1>5, <3>4, <4>1, Zenon DEF FreshInv, N
      <4>3. Known(call[c], sock.frames[n].frame.vals, seen'[c])
        BY <4>2, KnownLater
      <4> QED
        BY <4>1, <4>2, <4>3
    <3>5. CASE n = N + 1
      BY <1>5, <3>1, <3>5, Zenon
    <3> QED
      BY <3>3, <3>4, <3>5
  <2> QED
    BY <2>1, <2>2
<1>6. FreshInv'
  BY <1>1, <1>4, <1>5, Zenon DEF FreshInv, Known
<1> QED
  BY <1>3, <1>6

\* Send adds the frame or does nothing.
LEMMA SendIs ==
    ASSUME NEW f, Send(f)
    PROVE  sock' = With(sock, f) \/ sock' = sock
  BY Zenon DEF Send, With

\* The inverter executes a request: the reply has what its registers hold then.
LEMMA ServeStreams ==
    ASSUME ExchangeAssumption, LockInv, StreamInv, FreshInv,
           NEW q \in Request, NEW b \in Lengths, Serve(q, b)
    PROVE  StreamInv' /\ FreshInv'
<1> DEFINE v == Stored(q)
           f == [fn |-> q.fn, reg |-> q.reg, vals |-> v,
                 counted |-> b /\ q.fn = ReadHolding]
<1>1. /\ Send(f)
      /\ seen' = [c \in Callers |->
                    IF pc[c] # "idle" /\ (q.fn = WriteSingle \/ call[c].fn = ReadHolding)
                    THEN seen[c] \cup {<<r, v[r - q.reg + 1]>> :
                                         r \in Span(q) \cap Span(call[c])}
                    ELSE seen[c]]
      /\ UNCHANGED <<calls, attempt, left, data>>
  BY Zenon DEF Serve
<1>2. /\ q.fn \in {ReadHolding, WriteSingle} /\ q.reg \in Registers /\ q.reg \in Int
      /\ q.fn = ReadHolding => q.arg \in Counts
  BY RequestParts
<1>3. /\ q.fn = ReadHolding => v \in [1..q.arg -> Values]
      /\ q.fn = WriteSingle => v \in [1..1 -> Values]
      /\ \A k \in DOMAIN v : k \in Int /\ q.reg + k - 1 \in Span(q)
  BY StoredIs DEF LockInv, ControlOK
<1> HIDE DEF v
<1>4. f \in Frame
  <2>1. CASE q.fn = ReadHolding
    <3>1. f.counted \in BOOLEAN
      BY DEF ExchangeAssumption
    <3>2. v \in UNION {[1..n -> Values] : n \in Counts}
      BY <1>2, <1>3, <2>1
    <3> QED
      BY <1>2, <2>1, <3>1, <3>2 DEF Frame
  <2>2. CASE q.fn = WriteSingle
    <3>1. f.counted = FALSE
      BY <2>2, FunctionsDiffer
    <3> QED
      BY <1>2, <1>3, <2>2, <3>1 DEF Frame
  <2> QED
    BY <1>2, <2>1, <2>2
<1>5. /\ f.fn = q.fn /\ f.reg = q.reg /\ f.vals = v
      /\ f.counted \/ q.fn # ReadHolding \/ FALSE \in Lengths
  <2>1. b \in BOOLEAN
    BY DEF ExchangeAssumption
  <2> QED
    BY <2>1
<1> HIDE DEF f
<1>6. sock' = With(sock, f) \/ sock' = sock
  BY <1>1, SendIs, Zenon
<1>7. DOMAIN seen' = Callers /\ \A c \in Callers : seen[c] \subseteq seen'[c]
  BY <1>1
<1>8. ASSUME NEW c \in Callers, pc[c] = "reading", Answers(f, call[c])
      PROVE  /\ Known(call[c], f.vals, seen'[c])
             /\ f.counted \/ call[c].fn # ReadHolding \/ FALSE \in Lengths
  <2>1. q.fn = call[c].fn /\ q.reg = call[c].reg
    BY <1>5, <1>8 DEF Answers
  <2>2. seen'[c] = seen[c] \cup {<<r, v[r - q.reg + 1]>> :
                                   r \in Span(q) \cap Span(call[c])}
    BY <1>1, <1>2, <1>8, <2>1
  <2>3. ASSUME NEW k \in DOMAIN v, q.reg + k - 1 \in Span(call[c])
        PROVE  <<q.reg + k - 1, v[k]>> \in seen'[c]
    <3> DEFINE r == q.reg + k - 1
    <3>1. r \in Span(q) \cap Span(call[c]) /\ r - q.reg + 1 = k
      BY <1>2, <1>3, <2>3
    <3> HIDE DEF r
    <3>2. <<r, v[k]>> \in seen'[c]
      BY <2>2, <3>1
    <3> QED
      BY <3>2 DEF r
  <2>4. Known(call[c], v, seen'[c])
    BY <2>1, <2>3 DEF Known
  <2> QED
    BY <1>5, <2>1, <2>4
<1>9. UNCHANGED <<calls, data>>
  BY <1>1
<1> QED
  BY <1>4, <1>6, <1>7, <1>8, <1>9, SendStreams

LEMMA RefuseStreams ==
    ASSUME ExchangeAssumption, LockInv, StreamInv, FreshInv, NEW r \in inbox, Refuse(r)
    PROVE  StreamInv' /\ FreshInv'
<1> DEFINE q == r.req
           f == [fn |-> q.fn + Exception, reg |-> q.reg, vals |-> <<2>>,
                 counted |-> FALSE]
<1>1. Send(f) /\ seen' = seen /\ UNCHANGED <<calls, data>>
  BY Zenon DEF Refuse, ghosts
<1>2. q \in Request
  BY DEF LockInv, ControlOK
<1>3. q.fn \in {ReadHolding, WriteSingle} /\ q.reg \in Registers
  BY <1>2, RequestParts
<1> HIDE DEF q
<1>4. f \in Frame /\ f.fn \in {ReadHolding + Exception, WriteSingle + Exception}
  BY <1>3 DEF Frame
<1> HIDE DEF f
<1>5. sock' = With(sock, f) \/ sock' = sock
  BY <1>1, SendIs, Zenon
<1>6. ASSUME NEW c \in Callers, pc[c] = "reading" PROVE ~Answers(f, call[c])
  <2>1. call[c] \in Request
    BY <1>6 DEF LockInv, Owned, ExchangeAssumption
  <2>2. call[c].fn \in {ReadHolding, WriteSingle}
    BY <2>1, RequestParts
  <2> QED
    BY <1>4, <2>2 DEF Answers, ReadHolding, WriteSingle, Exception
<1>7. DOMAIN seen' = Callers
  BY <1>1 DEF FreshInv
<1> QED
  BY <1>1, <1>4, <1>5, <1>6, <1>7, SendStreams

LEMMA PushStreams ==
    ASSUME ExchangeAssumption, LockInv, StreamInv, FreshInv, NEW f \in Pushes, Push(f)
    PROVE  StreamInv' /\ FreshInv'
<1>1. Send(f) /\ seen' = seen /\ UNCHANGED <<calls, data>>
  BY Zenon DEF Push, ghosts
<1>2. f \in Frame
  BY DEF Frame
<1>3. sock' = With(sock, f) \/ sock' = sock
  BY <1>1, SendIs, Zenon
<1>4. ASSUME NEW c \in Callers, pc[c] = "reading" PROVE ~Answers(f, call[c])
  <2>1. call[c] \in Request
    BY <1>4 DEF LockInv, Owned, ExchangeAssumption
  <2>2. call[c].fn \in {ReadHolding, WriteSingle} /\ call[c].reg \in Registers
    BY <2>1, RequestParts
  <2> QED
    BY <2>2 DEF Answers, ExchangeAssumption
<1>5. DOMAIN seen' = Callers
  BY <1>1 DEF FreshInv
<1> QED
  BY <1>1, <1>2, <1>3, <1>4, <1>5, SendStreams

\* A step that leaves the connection and the calls alone.
LEMMA OtherStreams ==
    ASSUME StreamInv, FreshInv, UNCHANGED <<calls, data, sock, seen>>
    PROVE  StreamInv' /\ FreshInv'
<1>1. pc' = pc /\ call' = call /\ result' = result /\ data' = data /\ sock' = sock
      /\ seen' = seen
  BY DEF calls
<1>2. StreamInv'
  BY <1>1, Zenon DEF StreamInv
<1>3. AnswerIsFresh'
  BY <1>1, SameAnswers DEF FreshInv
<1> QED
  BY <1>1, <1>2, <1>3, Zenon DEF FreshInv, Known

\* What is received next continues what was received.
LEMMA MoreBytes ==
    ASSUME NEW t \in Seq(Byte), NEW e \in Nat, NEW g \in Nat, NEW k \in Nat,
           e <= g, 1 <= k, g + k <= Len(t)
    PROVE  SubSeq(t, e + 1, g) \o SubSeq(SubSeq(t, g + 1, Len(t)), 1, k)
             = SubSeq(t, e + 1, g + k)
<1> DEFINE n == Len(t)
<1>1. n \in Nat
  OBVIOUS
<1> HIDE DEF n
<1>2. /\ g + 1 \in 1..n /\ n \in 1..n /\ 1 \in 1..n - (g + 1) + 1
      /\ k \in 1..n - (g + 1) + 1
      /\ (g + 1) + 1 - 1 = g + 1 /\ (g + 1) + k - 1 = g + k
      /\ e + 1 \in 1..n + 1 /\ g \in (e + 1) - 1 .. n /\ g + k \in g .. n
  BY <1>1 DEF n
<1>3. SubSeq(SubSeq(t, g + 1, n), 1, k) = SubSeq(t, g + 1, g + k)
  <2>1. g <= Len(t) /\ 1 <= Len(t) - g /\ k <= Len(t) - g /\ Len(t) \in Nat
    BY <1>1 DEF n
  <2> QED
    BY <2>1, SliceOfSlice DEF n
<1>4. SubSeq(t, e + 1, g) \o SubSeq(t, g + 1, g + k) = SubSeq(t, e + 1, g + k)
  BY <1>2, ConcatAdjacentSubSeq, Zenon DEF n
<1> QED
  BY <1>2, <1>3, <1>4, Zenon DEF n

\* A connection of which more was received.
LEMMA MoreGot ==
    ASSUME ExchangeAssumption, NEW s, Stream(s), NEW k \in Nat, s.got + k <= Len(s.bytes)
    PROVE  LET x == [s EXCEPT !.got = @ + k]
           IN  /\ Stream(x) /\ x.frames = s.frames /\ x.bytes = s.bytes
               /\ x.got = s.got + k /\ \A n : End(x, n) = End(s, n)
<1> DEFINE x == [s EXCEPT !.got = @ + k]
<1>1. /\ s \in [open : BOOLEAN, frames : Seq([frame : Frame, end : Nat]),
                bytes : Seq(Byte), got : Nat]
      /\ s.got \in Nat
  BY StreamParts, Zenon DEF Stream
<1>2. /\ x \in [open : BOOLEAN, frames : Seq([frame : Frame, end : Nat]),
                bytes : Seq(Byte), got : Nat]
      /\ x.frames = s.frames /\ x.bytes = s.bytes /\ x.got = s.got + k
  <2> DEFINE g == s.got + k
  <2>1. g \in Nat
    BY <1>1
  <2> HIDE DEF g
  <2>2. x = [s EXCEPT !.got = g]
    BY Zenon DEF g
  <2>3. /\ [s EXCEPT !.got = g] \in [open : BOOLEAN, frames : Seq([frame : Frame, end : Nat]),
                                    bytes : Seq(Byte), got : Nat]
        /\ [s EXCEPT !.got = g].frames = s.frames /\ [s EXCEPT !.got = g].bytes = s.bytes
        /\ [s EXCEPT !.got = g].got = g
    BY <1>1, <2>1
  <2> QED
    BY <2>2, <2>3, Zenon DEF g
<1> HIDE DEF x
<1>3. \A n : End(x, n) = End(s, n)
  BY <1>2, Zenon DEF End
<1>4. x.got <= Len(x.bytes)
  BY <1>2
<1>5. Stream(x)
  BY <1>2, <1>3, <1>4, Zenon DEF Stream
<1> QED
  BY <1>2, <1>3, <1>5, Zenon DEF x

LEMMA FlightIs ==
    ASSUME ExchangeAssumption, Stream(sock), Flight # <<>>
    PROVE  Len(Flight) \in Nat /\ Len(Flight) = Len(sock.bytes) - sock.got
           /\ 1 <= Len(Flight)
<1> DEFINE t == sock.bytes
           g == sock.got
<1>1. t \in Seq(Byte) /\ Len(t) \in Nat /\ g \in Nat /\ g <= Len(t)
  BY StreamParts, Zenon
<1> HIDE DEF t, g
<1>2. Flight = SubSeq(t, g + 1, Len(t))
  BY Zenon DEF Flight, t, g
<1>3. Len(SubSeq(t, g + 1, Len(t))) = Len(t) - g
  BY <1>1, SliceIs
<1>4. g # Len(t)
  <2>1. ASSUME g = Len(t) PROVE FALSE
    <3>1. Len(t) + 1 \in Int /\ Len(t) \in Int /\ Len(t) < Len(t) + 1
      BY <1>1
    <3>2. SubSeq(t, Len(t) + 1, Len(t)) = <<>>
      BY <3>1, SubSeqEmpty, Zenon
    <3> QED
      BY <1>2, <2>1, <3>2, Zenon
  <2> QED
    BY <2>1
<1>5. Len(t) - g \in Nat /\ 1 <= Len(t) - g
  BY <1>1, <1>4
<1> QED
  BY <1>2, <1>3, <1>5, Zenon DEF t, g

LEMMA RecvStreams ==
    ASSUME ExchangeAssumption, LockInv, StreamInv, FreshInv,
           NEW c \in Callers, NEW size \in Chunks, Recv(c, size)
    PROVE  StreamInv' /\ FreshInv'
<1> DEFINE k == IF size < Len(Flight) THEN size ELSE Len(Flight)
           cut == Sift(data \o SubSeq(Flight, 1, k), call[c])
           x == [sock EXCEPT !.got = @ + k]
           q == call[c]
<1>1. /\ pc[c] = "reading" /\ Flight # <<>>
      /\ \/ /\ cut.found = "nothing" /\ data' = cut.rest /\ sock' = x
            /\ UNCHANGED <<calls, attempt, left>>
            /\ UNCHANGED <<dongle, ghosts>>
         \/ cut.found = "truncated" /\ Finish(c, Outcome("error"))
         \/ cut.found = "frame" /\ Finish(c, Answer(cut.frame, call[c]))
  BY Zenon DEF Recv
<1>2. q \in Request /\ Holds(c)
  BY <1>1 DEF LockInv, Owned, ExchangeAssumption, Holds
<1>3. Stream(sock)
  BY DEF StreamInv
<1>4. k \in Nat /\ 1 <= k /\ sock.got + k <= Len(sock.bytes)
  <2>1. /\ Len(Flight) \in Nat /\ Len(Flight) = Len(sock.bytes) - sock.got
        /\ 1 <= Len(Flight)
    BY <1>1, <1>3, FlightIs, Zenon
  <2>0. sock.got \in Nat /\ Len(sock.bytes) \in Nat
    BY <1>3, StreamParts
  <2>00. size \in Nat /\ size # 0
    BY DEF ExchangeAssumption
  <2>2. sock.got \in Nat /\ Len(sock.bytes) \in Nat /\ size \in Nat /\ 1 <= size
    BY <2>0, <2>00
  <2> QED
    BY <2>1, <2>2
<1> HIDE DEF k
<1>5. /\ Stream(x) /\ x.frames = sock.frames /\ x.bytes = sock.bytes
      /\ x.got = sock.got + k /\ \A n : End(x, n) = End(sock, n)
  BY <1>3, <1>4, MoreGot, Zenon
<1> HIDE DEF x
<1>6. PICK n0 \in Nat : CutAfter(sock, data, n0, q)
  BY <1>1, Zenon DEF StreamInv
<1>7. /\ n0 \in 0..Len(sock.frames) /\ End(sock, n0) <= sock.got
      /\ data = SubSeq(sock.bytes, End(sock, n0) + 1, sock.got)
      /\ \A m \in 1..n0 : ~Answers(sock.frames[m].frame, q)
  BY <1>6, Zenon DEF CutAfter
<1>8. /\ sock.bytes \in Seq(Byte) /\ End(sock, n0) \in Nat /\ sock.got \in Nat
      /\ Len(sock.bytes) \in Nat
  BY <1>3, <1>7, StreamParts, Zenon
<1>9. data \o SubSeq(Flight, 1, k) = SubSeq(x.bytes, End(x, n0) + 1, x.got)
  <2>1. SubSeq(sock.bytes, End(sock, n0) + 1, sock.got)
          \o SubSeq(SubSeq(sock.bytes, sock.got + 1, Len(sock.bytes)), 1, k)
        = SubSeq(sock.bytes, End(sock, n0) + 1, sock.got + k)
    <3> DEFINE t == sock.bytes
               e == End(sock, n0)
               g == sock.got
    <3>1. /\ t \in Seq(Byte) /\ e \in Nat /\ g \in Nat /\ e <= g
          /\ k \in Nat /\ 1 <= k /\ g + k <= Len(t)
      BY <1>4, <1>7, <1>8
    <3> HIDE DEF t, e, g
    <3>2. SubSeq(t, e + 1, g) \o SubSeq(SubSeq(t, g + 1, Len(t)), 1, k)
            = SubSeq(t, e + 1, g + k)
      BY <3>1, MoreBytes
    <3> QED
      BY <3>2 DEF t, e, g
  <2> QED
    BY <1>5, <1>7, <2>1, Zenon DEF Flight
<1>10. End(x, n0) <= x.got
  <2>1. sock.got <= sock.got + k /\ End(sock, n0) <= sock.got + k
    BY <1>4, <1>7, <1>8
  <2> QED
    BY <1>5, <2>1, Zenon
<1>11. \/ /\ cut.found = "nothing"
          /\ \E n \in Nat : CutAfter(x, cut.rest, n, q)
       \/ /\ cut.found = "frame"
          /\ \E n \in 1..Len(x.frames) :
                /\ Answers(x.frames[n].frame, q)
                /\ cut.frame = FrameBytes[x.frames[n].frame]
       \/ cut.found = "truncated"
  <2>1. cut = Sift(SubSeq(x.bytes, End(x, n0) + 1, x.got), q)
    BY <1>9, Zenon
  <2> HIDE DEF cut
  <2>2. n0 \in 0..Len(x.frames) /\ \A m \in 1..n0 : ~Answers(x.frames[m].frame, q)
    BY <1>5, <1>7, Zenon
  <2> DEFINE z == Sift(SubSeq(x.bytes, End(x, n0) + 1, x.got), q)
  <2>3. Stream(x)
    BY <1>5
  <2>4. \/ /\ z.found = "nothing"
           /\ \E n \in Nat : CutAfter(x, z.rest, n, q)
        \/ /\ z.found = "frame"
           /\ \E n \in 1..Len(x.frames) :
                 /\ Answers(x.frames[n].frame, q)
                 /\ z.frame = FrameBytes[x.frames[n].frame]
        \/ z.found = "truncated"
    BY <1>2, <1>10, <2>2, <2>3, SiftStream, Zenon
  <2> HIDE DEF z
  <2>5. cut = z
    BY <2>1 DEF z
  <2> QED
    BY <2>4, <2>5
<1> HIDE DEF cut
<1>12. CASE /\ cut.found = "nothing" /\ data' = cut.rest /\ sock' = x
            /\ UNCHANGED <<calls, attempt, left>> /\ UNCHANGED <<dongle, ghosts>>
  <2>1. pc' = pc /\ call' = call /\ result' = result /\ seen' = seen
    BY <1>12 DEF calls, ghosts
  <2>2. \E n \in Nat : CutAfter(sock', data', n, call'[c])
    BY <1>11, <1>12, <2>1
  <2>3. \A d \in Callers : pc[d] = "reading" => d = c
    BY <1>2 DEF LockInv, ControlOK, Holds
  <2>4. StreamInv'
    BY <1>1, <1>5, <1>12, <2>1, <2>2, <2>3, Zenon DEF StreamInv
  <2>5. AnswerIsFresh' /\ DOMAIN seen' = Callers
    BY <2>1, SameAnswers DEF FreshInv
  <2>6. FreshInv'
    BY <1>5, <1>12, <2>1, <2>5, Zenon DEF FreshInv, Known
  <2> QED
    BY <2>4, <2>6
<1>13. CASE cut.found = "truncated" /\ Finish(c, Outcome("error"))
  BY <1>2, <1>13, ErrorStreams
<1>14. CASE cut.found = "frame" /\ Finish(c, Answer(cut.frame, call[c]))
  <2>1. PICK n \in 1..Len(sock.frames) : /\ Answers(sock.frames[n].frame, q)
                                         /\ cut.frame = FrameBytes[sock.frames[n].frame]
    BY <1>5, <1>11, <1>14
  <2> DEFINE f == sock.frames[n].frame
             o == Answer(cut.frame, call[c])
  <2>2. f \in Frame
    BY <1>3, StreamParts, Zenon
  <2>3. /\ Known(q, f.vals, seen[c])
        /\ f.counted \/ q.fn # ReadHolding \/ FALSE \in Lengths
    BY <1>1, <2>1, Zenon DEF FreshInv
  <2>4. o = Answer(FrameBytes[f], q)
    BY <2>1, Zenon
  <2>5. o.kind = "value" => \/ Known(q, o.value, seen[c])
                            \/ LooksCounted(q, o.value, seen[c])
    BY <1>2, <2>1, <2>2, <2>3, <2>4, AnswerIs, Zenon
  <2>6. Finish(c, o)
    BY <1>14
  <2> HIDE DEF o, f
  <2> QED
    BY <1>2, <2>5, <2>6, FinishStreams, Zenon
<1> QED
  BY <1>1, <1>12, <1>13, <1>14

-----------------------------------------------------------------------------
(* What a caller receives.                                                 *)

StreamsInv == LockInv /\ StreamInv /\ FreshInv

LEMMA StreamsInit ==
    ASSUME ExchangeAssumption, Init
    PROVE  StreamsInv
<1>1. LockInv
  BY LockInit
<1>2. /\ sock = Closed /\ data = <<>> /\ \A c \in Callers : pc[c] # "reading"
      /\ DOMAIN seen = Callers
  BY DEF Init
<1>3. AnswerIsFresh
  <2>1. \A c \in Callers : result[c].kind # "value"
    BY DEF Init, Outcome, None
  <2> QED
    BY <2>1, Zenon DEF AnswerIsFresh
<1>4. Stream(sock)
  BY <1>2, NoFrames, Zenon
<1> QED
  BY <1>1, <1>2, <1>3, <1>4, Zenon DEF StreamsInv, StreamInv, FreshInv

LEMMA ExchangeStreams ==
    ASSUME ExchangeAssumption, LockInv, StreamInv, FreshInv, NEW c \in Callers, Exchange(c)
    PROVE  StreamInv' /\ FreshInv'
<1>1. CASE Acquire(c)
  BY <1>1, AcquireStreams
<1>2. CASE Unreachable(c)
  BY <1>2, ErrorStreams DEF Unreachable, Holds
<1>3. CASE Unsent(c)
  BY <1>3, FailStreams DEF Unsent, Holds
<1>4. CASE Connect(c)
  BY <1>4, ConnectStreams
<1>5. ASSUME NEW size \in Chunks, Recv(c, size) PROVE StreamInv' /\ FreshInv'
  BY <1>5, RecvStreams
<1>6. CASE Reset(c)
  BY <1>6, ErrorStreams DEF Reset, Holds
<1>7. CASE GiveUp(c) \/ Hangup(c)
  BY <1>7, FailStreams DEF GiveUp, Hangup, Holds
<1> QED
  BY <1>1, <1>2, <1>3, <1>4, <1>5, <1>6, <1>7 DEF Exchange

LEMMA StreamsStep ==
    ASSUME ExchangeAssumption, StreamsInv, [Next]_vars
    PROVE  StreamsInv'
<1> USE DEF StreamsInv
<1>1. LockInv'
  BY LockStep
<1>2. StreamInv' /\ FreshInv'
  <2>1. ASSUME NEW c \in Callers, NEW q \in Calls[c], Call(c, q)
        PROVE  StreamInv' /\ FreshInv'
    BY <2>1, CallStreams
  <2>2. ASSUME NEW c \in Callers, Exchange(c) PROVE StreamInv' /\ FreshInv'
    BY <2>2, ExchangeStreams
  <2>3. ASSUME NEW r \in inbox, NEW b \in Lengths, Execute(r, b)
        PROVE  StreamInv' /\ FreshInv'
    <3>1. r.req \in Request /\ Serve(r.req, b)
      BY <2>3 DEF Execute, LockInv, ControlOK
    <3> QED
      BY <3>1, ServeStreams
  <2>4. ASSUME NEW r \in inbox, Refuse(r) PROVE StreamInv' /\ FreshInv'
    BY <2>4, RefuseStreams
  <2>5. ASSUME NEW r \in inbox, Ignore(r) PROVE StreamInv' /\ FreshInv'
    BY <2>5, OtherStreams DEF Ignore, thread, ghosts
  <2>6. ASSUME NEW f \in Pushes, Push(f) PROVE StreamInv' /\ FreshInv'
    BY <2>6, PushStreams
  <2>7. CASE Tick
    BY <2>7, OtherStreams DEF Tick, ghosts
  <2>8. CASE UNCHANGED vars
    BY <2>8, OtherStreams DEF vars, calls, thread, ghosts
  <2>9. ASSUME NEW q \in Others, NEW b \in Lengths, Foreign(q, b)
        PROVE  StreamInv' /\ FreshInv'
    BY <2>9, ServeStreams DEF Foreign, ExchangeAssumption
  <2> QED
    BY <2>1, <2>2, <2>3, <2>4, <2>5, <2>6, <2>7, <2>8, <2>9 DEF Next
<1> QED
  BY <1>1, <1>2

LEMMA Streams == ASSUME ExchangeAssumption PROVE Spec => []StreamsInv
<1>1. Init => StreamsInv
  BY StreamsInit
<1>2. StreamsInv /\ [Next]_vars => StreamsInv'
  BY StreamsStep
<1> QED
  BY <1>1, <1>2, PTL DEF Spec

\* One caller has the lock, and the connection while it reads; what is kept of
\* the bytes of recv was received on this connection.  (_direct_lock, buffer)
THEOREM TypeCorrect == ASSUME ExchangeAssumption PROVE Spec => []TypeOK
<1>1. ASSUME StreamsInv PROVE TypeOK
  <2>1. /\ sock.bytes \in Seq(Byte) /\ Len(sock.bytes) \in Nat
        /\ sock.got \in Nat /\ sock.got <= Len(sock.bytes)
        /\ \A n \in 0..Len(sock.frames) : End(sock, n) \in Nat
    BY <1>1, StreamParts, Zenon DEF StreamsInv, StreamInv
  <2>2. CASE \E c \in Callers : pc[c] = "reading"
    <3>1. PICK c \in Callers, n \in Nat : CutAfter(sock, data, n, call[c])
      BY <1>1, <2>2, Zenon DEF StreamsInv, StreamInv
    <3>2. /\ n \in 0..Len(sock.frames) /\ End(sock, n) <= sock.got
          /\ data = SubSeq(sock.bytes, End(sock, n) + 1, sock.got)
      BY <3>1, Zenon DEF CutAfter
    <3>3. End(sock, n) \in Nat
      BY <2>1, <3>2
    <3>4. data \in Seq(Byte) /\ Len(data) = sock.got - End(sock, n)
      BY <2>1, <3>2, <3>3, SliceIs, Zenon
    <3>5. Len(data) <= sock.got
      BY <2>1, <3>3, <3>4
    <3> QED
      BY <1>1, <3>4, <3>5, Zenon DEF TypeOK, StreamsInv, LockInv
  <2>3. CASE ~\E c \in Callers : pc[c] = "reading"
    <3>1. data = <<>>
      BY <1>1, <2>3, Zenon DEF StreamsInv, StreamInv
    <3>2. data \in Seq(Byte) /\ Len(data) <= sock.got
      BY <2>1, <3>1
    <3> QED
      BY <1>1, <3>2, Zenon DEF TypeOK, StreamsInv, LockInv
  <2> QED
    BY <2>2, <2>3
<1>2. Spec => []StreamsInv
  BY Streams
<1> QED
  BY <1>1, <1>2, PTL

\* The answer of a call has values that its registers held, or were written
\* with, since the call began, whatever the dongle sends, replies to others
\* about the same registers included, and however recv splits it; only an
\* uncounted reply whose first byte looks like the length byte is misread.
\* (_blocking_execute_raw, the comparison of function and register;
\* read_response_values)
THEOREM Freshness == ASSUME ExchangeAssumption PROVE Spec => []AnswerIsFresh
<1>1. StreamsInv => AnswerIsFresh
  BY DEF StreamsInv, FreshInv
<1>2. Spec => []StreamsInv
  BY Streams
<1> QED
  BY <1>1, <1>2, PTL

\* The reply that a caller waits for is not among the frames that it received
\* whole: the buffer is cut where the frames end, and none of them is skipped.
\* (_blocking_execute_raw, the loop over the buffer)
THEOREM Attention == ASSUME ExchangeAssumption PROVE Spec => []NoReplyMissed
<1>1. ASSUME StreamsInv PROVE NoReplyMissed
  <2>1. ASSUME NEW c \in Callers, pc[c] = "reading", NEW n \in DOMAIN sock.frames,
               sock.frames[n].frame.fn = call[c].fn,
               sock.frames[n].frame.reg = call[c].reg
        PROVE  sock.frames[n].end > sock.got
    <3> DEFINE N == Len(sock.frames)
    <3>1. Stream(sock) /\ sock.frames \in Seq([frame : Frame, end : Nat])
      BY <1>1 DEF StreamsInv, StreamInv, Stream
    <3>2. N \in Nat /\ n \in 1..N
      BY <2>1, <3>1
    <3>3. sock.got \in Nat /\ \A i \in 0..N : End(sock, i) \in Nat
      BY <3>1, StreamParts, Zenon
    <3>4. \A i, j \in 0..N : i < j => End(sock, i) < End(sock, j)
      BY <3>1, Zenon DEF Stream
    <3> HIDE DEF N
    <3>5. PICK m \in Nat : CutAfter(sock, data, m, call[c])
      BY <1>1, <2>1, Zenon DEF StreamsInv, StreamInv
    <3>6. /\ m \in 0..N /\ (m < N => sock.got < End(sock, m + 1))
          /\ \A i \in 1..m : ~Answers(sock.frames[i].frame, call[c])
      BY <3>5, Zenon DEF CutAfter, N
    <3>7. n \notin 1..m
      BY <2>1, <3>6, Zenon DEF Answers
    <3>8. m < N /\ m + 1 \in 0..N /\ n \in 0..N /\ (m + 1 = n \/ m + 1 < n)
      BY <3>2, <3>6, <3>7
    <3>9. sock.got < End(sock, m + 1) /\ (m + 1 = n \/ End(sock, m + 1) < End(sock, n))
      BY <3>4, <3>6, <3>8, Zenon
    <3>10. End(sock, m + 1) \in Nat /\ End(sock, n) \in Nat
      BY <3>3, <3>8
    <3>11. sock.got < End(sock, n)
      <4>1. CASE m + 1 = n
        BY <3>9, <4>1
      <4>2. CASE End(sock, m + 1) < End(sock, n)
        BY <3>3, <3>9, <3>10, <4>2
      <4> QED
        BY <3>9, <4>1, <4>2
    <3>12. End(sock, n) = sock.frames[n].end
      <4>1. n # 0
        BY <3>2
      <4> QED
        BY <4>1, Zenon DEF End
    <3> QED
      BY <3>3, <3>10, <3>11, <3>12
  <2> QED
    BY <2>1, Zenon DEF NoReplyMissed
<1>2. Spec => []StreamsInv
  BY Streams
<1> QED
  BY <1>1, <1>2, PTL
=============================================================================
