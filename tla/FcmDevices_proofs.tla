-------------------------- MODULE FcmDevices_proofs --------------------------
(***************************************************************************)
(* Safety of FcmDevices for any finite set of tokens and any number of     *)
(* notifications.                                                          *)
(***************************************************************************)
EXTENDS FcmDevices, SequenceTheorems, FiniteSetTheorems, WellFoundedInduction, TLAPS

(* Numbers in their order.                                                 *)

\* Some enumeration of S, which has n members, is increasing.
Increasing(s, n) == \A i, j \in 1..n : i < j => s[i] < s[j]
Enumerable(S, n) == \E s \in [1..n -> S] : Increasing(s, n)

\* A set of natural numbers has a least member.
LEMMA LeastNumber ==
    ASSUME NEW T \in SUBSET Nat, T # {}
    PROVE  \E x \in T : \A y \in T : x <= y
<1>1. PICK x \in T : \A y \in T : ~(<<y, x>> \in OpToRel(<, Nat))
  BY NatLessThanWellFounded, WFMin
<1>2. ASSUME NEW y \in T PROVE x <= y
  <2>1. ~(y < x)
    BY <1>1, <1>2 DEF OpToRel
  <2> QED
    BY <1>2, <2>1
<1> QED
  BY <1>2

\* A set without its least member is enumerated, so the set is.
LEMMA EnumerableStep ==
    ASSUME NEW S \in SUBSET Nat, NEW n \in Nat, NEW x \in S,
           \A y \in S : x <= y, Enumerable(S \ {x}, n)
    PROVE  Enumerable(S, n + 1)
<1>1. PICK s \in [1..n -> S \ {x}] : Increasing(s, n)
  BY DEF Enumerable
<1> DEFINE t == [i \in 1..(n + 1) |-> IF i = 1 THEN x ELSE s[i - 1]]
<1>2. \A i \in 2..(n + 1) : i - 1 \in 1..n /\ t[i] = s[i - 1] /\ t[i] \in S /\ t[i] > x
  <2>1. SUFFICES ASSUME NEW i \in 2..(n + 1)
                 PROVE  i - 1 \in 1..n /\ t[i] = s[i - 1] /\ t[i] \in S /\ t[i] > x
    OBVIOUS
  <2>2. i - 1 \in 1..n /\ t[i] = s[i - 1]
    OBVIOUS
  <2>3. s[i - 1] \in S \ {x}
    BY <2>2
  <2>4. x <= s[i - 1] /\ x # s[i - 1] /\ x \in Nat /\ s[i - 1] \in Nat
    BY <2>3
  <2> QED
    BY <2>2, <2>3, <2>4
<1>3. t[1] = x
  OBVIOUS
<1>4. t \in [1..(n + 1) -> S]
  <2>1. ASSUME NEW i \in 1..(n + 1) PROVE (IF i = 1 THEN x ELSE s[i - 1]) \in S
    <3>1. i # 1 => i - 1 \in 1..n
      OBVIOUS
    <3> QED
      BY <3>1
  <2> QED
    BY <2>1
<1>5. Increasing(t, n + 1)
  <2>1. SUFFICES ASSUME NEW i \in 1..(n + 1), NEW j \in 1..(n + 1), i < j
                 PROVE  t[i] < t[j]
    BY DEF Increasing
  <2>2. j \in 2..(n + 1)
    BY <2>1
  <2>3. CASE i = 1
    BY <1>2, <1>3, <2>2, <2>3
  <2>4. CASE i # 1
    <3>1. i \in 2..(n + 1)
      BY <2>4
    <3>2. i - 1 \in 1..n /\ j - 1 \in 1..n /\ i - 1 < j - 1
      BY <2>1, <2>2, <3>1
    <3>3. t[i] = s[i - 1] /\ t[j] = s[j - 1]
      BY <1>2, <2>2, <3>1
    <3>4. s[i - 1] < s[j - 1]
      BY <1>1, <3>2 DEF Increasing
    <3> QED
      BY <3>3, <3>4
  <2> QED
    BY <2>3, <2>4
<1> QED
  BY <1>4, <1>5 DEF Enumerable

\* Every finite set of numbers has an increasing enumeration: there is no
\* least number of members for which it fails.
LEMMA EveryEnumerable ==
    ASSUME NEW S \in SUBSET Nat, IsFiniteSet(S)
    PROVE  Enumerable(S, Cardinality(S))
<1> DEFINE Fails(n) == \E U \in SUBSET Nat :
                          IsFiniteSet(U) /\ Cardinality(U) = n /\ ~Enumerable(U, n)
           Bad == {n \in Nat : Fails(n)}
<1>1. ASSUME Bad # {} PROVE FALSE
  <2>1. PICK n \in Bad : \A m \in Bad : n <= m
    BY <1>1, LeastNumber
  <2>2. PICK U \in SUBSET Nat :
           IsFiniteSet(U) /\ Cardinality(U) = n /\ ~Enumerable(U, n)
    BY <2>1
  <2>3. U # {}
    <3>1. SUFFICES ASSUME U = {} PROVE FALSE
      OBVIOUS
    <3>2. n = 0
      BY <2>2, <3>1, FS_EmptySet
    <3>3. [i \in 1..0 |-> 0] \in [1..0 -> U] /\ Increasing([i \in 1..0 |-> 0], 0)
      BY DEF Increasing
    <3> QED
      BY <2>2, <3>2, <3>3 DEF Enumerable
  <2>4. PICK x \in U : \A y \in U : x <= y
    BY <2>3, LeastNumber
  <2>5. IsFiniteSet(U \ {x}) /\ Cardinality(U \ {x}) = n - 1
    BY <2>2, <2>4, FS_RemoveElement
  <2>6. n \in Nat /\ n - 1 \in Nat
    BY <2>1, <2>5, FS_CardinalityType
  <2>7. Enumerable(U \ {x}, n - 1)
    <3>1. n - 1 \notin Bad
      BY <2>1, <2>6
    <3> QED
      BY <2>5, <2>6, <3>1
  <2>8. Enumerable(U, (n - 1) + 1)
    BY <2>4, <2>6, <2>7, EnumerableStep
  <2> QED
    BY <2>2, <2>6, <2>8
<1>2. Cardinality(S) \in Nat
  BY FS_CardinalityType
<1> QED
  BY <1>1, <1>2

\* InOrder enumerates a finite set of numbers without repetition.
LEMMA InOrderFacts ==
    ASSUME NEW S \in SUBSET Nat, IsFiniteSet(S)
    PROVE  /\ Cardinality(S) \in Nat
           /\ InOrder(S) \in [1..Cardinality(S) -> S]
           /\ IsInjective(InOrder(S))
           /\ \A x \in S : \E k \in 1..Cardinality(S) : InOrder(S)[k] = x
<1> DEFINE n == Cardinality(S)
           s == InOrder(S)
<1>1. n \in Nat
  BY FS_CardinalityType
<1>2. s \in [1..n -> S] /\ \A i, j \in 1..n : i < j => s[i] < s[j]
  <2>1. \E q \in [1..n -> S] : \A i, j \in 1..n : i < j => q[i] < q[j]
    BY EveryEnumerable DEF Enumerable, Increasing
  <2> QED
    BY <2>1 DEF InOrder
<1>3. IsInjective(s)
  <2>1. SUFFICES ASSUME NEW i \in 1..n, NEW j \in 1..n, s[i] = s[j] PROVE i = j
    BY <1>2 DEF IsInjective
  <2>2. s[i] \in Nat /\ s[j] \in Nat
    BY <1>2, <2>1
  <2>3. ~(i < j) /\ ~(j < i)
    BY <1>2, <2>1, <2>2
  <2> QED
    BY <1>1, <2>1, <2>3
<1>4. s \in Surjection(1..n, S)
  <2>1. s \in Injection(1..n, S)
    BY <1>2, <1>3 DEF Injection
  <2>2. Cardinality(1..n) = n
    BY <1>1, FS_Interval
  <2> QED
    BY <2>1, <2>2, FS_Injection
<1> QED
  BY <1>1, <1>2, <1>3, <1>4 DEF Surjection

\* The places of the valid threads.
Valid(threads) == {i \in DOMAIN threads : threads[i].valid}

\* What is kept are the devices of the valid threads, once each.
LEMMA KeptFacts ==
    ASSUME NEW devices \in Seq(Token), NEW threads \in Seq(Thread),
           IsInjective(devices), ~Overrun(devices, threads)
    PROVE  /\ Kept(devices, threads) \in Seq(Token)
           /\ IsInjective(Kept(devices, threads))
           /\ ToSet(Kept(devices, threads)) = {devices[i] : i \in Valid(threads)}
           /\ Len(threads) = Len(devices) =>
                 (Len(Kept(devices, threads)) = Len(devices) <=>
                      \A i \in 1..Len(threads) : threads[i].valid)
<1> DEFINE V == Valid(threads)
           n == Cardinality(V)
           s == InOrder(V)
           kept == Kept(devices, threads)
<1>1. V \in SUBSET (1..Len(threads)) /\ IsFiniteSet(1..Len(threads))
  BY FS_Interval DEF Valid
<1>2. V \in SUBSET Nat /\ IsFiniteSet(V)
  BY <1>1, FS_Subset
<1>3. /\ n \in Nat /\ s \in [1..n -> V] /\ IsInjective(s)
      /\ \A x \in V : \E k \in 1..n : s[k] = x
  BY <1>2, InOrderFacts
<1>4. kept = [k \in 1..n |-> devices[s[k]]]
  BY <1>3 DEF Kept, Valid
<1>5. V \subseteq 1..Len(devices)
  <2>1. SUFFICES ASSUME NEW i \in V PROVE i <= Len(devices)
    BY <1>1
  <2>2. i \in DOMAIN threads /\ threads[i].valid
    BY DEF Valid
  <2> QED
    BY <1>1, <2>2 DEF Overrun
<1> HIDE DEF V, n, s, kept
<1>6. \A k \in 1..n : s[k] \in 1..Len(devices) /\ kept[k] = devices[s[k]]
  BY <1>3, <1>4, <1>5
<1>7. kept \in Seq(Token) /\ Len(kept) = n /\ DOMAIN kept = 1..n
  <2>1. \A k \in 1..n : kept[k] \in Token
    BY <1>6
  <2>2. kept \in [1..n -> Token]
    BY <1>4, <2>1
  <2> QED
    BY <1>3, <2>2
<1>8. IsInjective(kept)
  <2>1. SUFFICES ASSUME NEW j \in 1..n, NEW k \in 1..n, kept[j] = kept[k] PROVE j = k
    BY <1>7 DEF IsInjective
  <2>2. s[j] = s[k]
    BY <1>6, <2>1 DEF IsInjective
  <2> QED
    BY <1>3, <2>1, <2>2 DEF IsInjective
<1>9. ToSet(kept) = {devices[i] : i \in V}
  <2>1. ToSet(kept) = {kept[k] : k \in 1..n}
    BY <1>7 DEF ToSet
  <2>2. ASSUME NEW k \in 1..n PROVE kept[k] \in {devices[i] : i \in V}
    BY <1>3, <1>6
  <2>3. ASSUME NEW i \in V PROVE \E k \in 1..n : kept[k] = devices[i]
    BY <1>3, <1>6
  <2> QED
    BY <2>1, <2>2, <2>3
<1>10. ASSUME Len(threads) = Len(devices)
       PROVE  Len(kept) = Len(devices) <=> \A i \in 1..Len(threads) : threads[i].valid
  <2>1. Len(kept) = n /\ Cardinality(1..Len(threads)) = Len(threads)
    <3>1. 1 \in Int /\ Len(threads) \in Int /\ Len(threads) >= 0
      OBVIOUS
    <3>2. Cardinality(1..Len(threads)) = IF 1 > Len(threads) THEN 0 ELSE Len(threads) - 1 + 1
      BY <3>1, FS_Interval
    <3> QED
      BY <1>7, <3>1, <3>2
  <2>2. V = 1..Len(threads) <=> \A i \in 1..Len(threads) : threads[i].valid
    BY DEF V, Valid
  <2>3. n = Len(threads) => V = 1..Len(threads)
    BY <1>1, <2>1, FS_Subset DEF n
  <2>4. V = 1..Len(threads) => n = Len(threads)
    BY <2>1 DEF n
  <2> QED
    BY <1>10, <2>1, <2>2, <2>3, <2>4
<1> QED
  BY <1>7, <1>8, <1>9, <1>10 DEF kept, V

\* Appending a token that is not there keeps a list distinct.
LEMMA AppendDistinct ==
    ASSUME NEW s \in Seq(Token), NEW t \in Token, IsInjective(s), ~Contains(s, t)
    PROVE  /\ Append(s, t) \in Seq(Token) /\ IsInjective(Append(s, t))
           /\ Append(s, t) # <<>> /\ Last(Append(s, t)) = t
           /\ ToSet(Append(s, t)) = ToSet(s) \cup {t}
<1> DEFINE a == Append(s, t)
<1>1. /\ a \in Seq(Token) /\ Len(a) = Len(s) + 1 /\ a[Len(s) + 1] = t
      /\ \A i \in 1..Len(s) : a[i] = s[i]
  OBVIOUS
<1>2. \A i \in 1..Len(s) : s[i] # t
  BY DEF Contains
<1> HIDE DEF a
<1>3. IsInjective(a)
  <2>1. SUFFICES ASSUME NEW i \in 1..(Len(s) + 1), NEW j \in 1..(Len(s) + 1), a[i] = a[j]
                 PROVE  i = j
    BY <1>1 DEF IsInjective
  <2>2. CASE i = Len(s) + 1 \/ j = Len(s) + 1
    BY <1>1, <1>2, <2>1, <2>2
  <2>3. CASE i # Len(s) + 1 /\ j # Len(s) + 1
    <3>1. i \in 1..Len(s) /\ j \in 1..Len(s)
      BY <2>3
    <3> QED
      BY <1>1, <2>1, <3>1 DEF IsInjective
  <2> QED
    BY <2>2, <2>3
<1>4. a # <<>> /\ Last(a) = t
  BY <1>1 DEF Last
<1>5. ToSet(a) = ToSet(s) \cup {t}
  <2>1. DOMAIN a = 1..(Len(s) + 1) /\ DOMAIN s = 1..Len(s)
    BY <1>1
  <2>2. \A i \in 1..(Len(s) + 1) : i = Len(s) + 1 \/ i \in 1..Len(s)
    OBVIOUS
  <2>3. Len(s) + 1 \in 1..(Len(s) + 1) /\ \A i \in 1..Len(s) : i \in 1..(Len(s) + 1)
    OBVIOUS
  <2> QED
    BY <1>1, <2>1, <2>2, <2>3 DEF ToSet
<1> QED
  BY <1>1, <1>3, <1>4, <1>5 DEF a

-----------------------------------------------------------------------------
(* Whatever overlaps.                                                      *)

\* The types, as the induction needs them.
Types ==
    /\ file \in [state : {"json", "empty", "broken"}, tokens : Seq(Token)]
    /\ shared \in Seq(Thread)
    /\ stage \in [Writer -> Stages]
    /\ list \in [Writer -> Seq(Token)]
    /\ next \in [Notification -> Nat]
    /\ due \subseteq Token /\ stale \subseteq Writer /\ clash \in BOOLEAN

\* No list repeats a token, nor does what is left of one in the file.
DistinctInv == IsInjective(file.tokens) /\ \A w \in Writer : IsInjective(list[w])

\* Threads are started for tokens of the list, and the registration saves
\* at least its own token.
ListInv ==
    /\ \A n \in Notification :
          next[n] <= Len(list[n]) /\ (stage[n] # "build" => next[n] = 0)
    /\ stage[Registration] \in {"idle", "save", "write"}
    /\ stage[Registration] # "idle" => list[Registration] # <<>>

\* The invariant that holds whatever overlaps.
BaseInv == Types /\ DistinctInv /\ ListInv

\* The registration and the notifications are different writers.
LEMMA WriterFacts ==
    ASSUME DeviceAssumption
    PROVE  /\ Registration \in Writer /\ Notification \subseteq Writer
           /\ Registration \notin Notification
           /\ \A w \in Writer : w # Registration => w \in Notification
  BY DEF Writer, Registration, Notification, DeviceAssumption

\* The initial states.
LEMMA BaseInit == ASSUME DeviceAssumption, Init PROVE BaseInv
<1>1. IsInjective(<<>>) /\ <<>> \in Seq(Token) /\ <<>> \in Seq(Thread)
  BY DEF IsInjective
<1>2. Types
  BY <1>1 DEF Init, Types, Stages
<1>3. DistinctInv
  BY <1>1 DEF Init, DistinctInv
<1>4. ListInv
  BY WriterFacts DEF Init, ListInv
<1> QED
  BY <1>2, <1>3, <1>4 DEF BaseInv

\* A new token is appended to the list of the file.
LEMMA BaseRegister ==
    ASSUME DeviceAssumption, BaseInv, NEW t \in Token, Register(t)
    PROVE  BaseInv'
<1>1. /\ stage' = [stage EXCEPT ![Registration] = "save"]
      /\ list' = [list EXCEPT ![Registration] = Append(file.tokens, t)]
      /\ ~Contains(file.tokens, t)
      /\ UNCHANGED <<file, shared, next, due, stale, clash>>
  BY DEF Register
<1>2. Types /\ DistinctInv /\ ListInv
  BY DEF BaseInv
<1>3. /\ Append(file.tokens, t) \in Seq(Token) /\ IsInjective(Append(file.tokens, t))
      /\ Append(file.tokens, t) # <<>>
  BY <1>1, <1>2, AppendDistinct DEF Types, DistinctInv
<1>4. Types'
  BY <1>1, <1>2, <1>3, WriterFacts DEF Types, Stages
<1>5. DistinctInv'
  BY <1>1, <1>2, <1>3, WriterFacts DEF Types, DistinctInv
<1>6. ListInv'
  BY <1>1, <1>2, <1>3, WriterFacts DEF Types, ListInv
<1> QED
  BY <1>4, <1>5, <1>6 DEF BaseInv

\* A notification starts and loads the list.
LEMMA BaseLoad ==
    ASSUME DeviceAssumption, BaseInv, NEW n \in Notification, Reset(n) \/ Load(n)
    PROVE  BaseInv'
<1>1. Types /\ DistinctInv /\ ListInv
  BY DEF BaseInv
<1>2. CASE Reset(n)
  <2>1. /\ stage' = [stage EXCEPT ![n] = "reset"] /\ shared' = <<>> /\ stage[n] = "idle"
        /\ clash' = (clash \/ Building # {})
        /\ UNCHANGED <<file, list, next, due, stale>>
    BY <1>2 DEF Reset
  <2>2. Types'
    <3>1. shared' \in Seq(Thread)
      BY <2>1
    <3>2. stage' \in [Writer -> Stages]
      BY <1>1, <2>1 DEF Types, Stages
    <3>3. clash' \in BOOLEAN
      BY <1>1, <2>1 DEF Types
    <3> QED
      BY <1>1, <2>1, <3>1, <3>2, <3>3 DEF Types
  <2>3. DistinctInv'
    BY <1>1, <2>1 DEF DistinctInv
  <2>4. ListInv'
    BY <1>1, <2>1, WriterFacts DEF Types, ListInv
  <2> QED
    BY <2>2, <2>3, <2>4 DEF BaseInv
<1>3. CASE Load(n)
  <2>1. /\ \/ /\ stage' = [stage EXCEPT ![n] = "build"]
              /\ list' = [list EXCEPT ![n] = file.tokens]
           \/ /\ stage' = [stage EXCEPT ![n] = "done"]
              /\ UNCHANGED list
        /\ stage[n] = "reset"
        /\ UNCHANGED <<file, shared, next, due, stale, clash>>
    BY <1>3 DEF Load
  <2>2. file.tokens \in Seq(Token) /\ IsInjective(file.tokens)
    BY <1>1 DEF Types, DistinctInv
  <2>3. Types'
    BY <1>1, <2>1, <2>2, WriterFacts DEF Types, Stages
  <2>4. DistinctInv'
    BY <1>1, <2>1, <2>2, WriterFacts DEF Types, DistinctInv
  <2>5. next[n] = 0 /\ Len(file.tokens) >= 0
    BY <1>1, <2>1, <2>2 DEF ListInv
  <2>6. ListInv'
    BY <1>1, <2>1, <2>5, WriterFacts DEF Types, ListInv
  <2> QED
    BY <2>3, <2>4, <2>6 DEF BaseInv
<1> QED
  BY <1>2, <1>3

\* A thread is started for the next token.
LEMMA BaseSend ==
    ASSUME DeviceAssumption, BaseInv, NEW n \in Notification, Send(n)
    PROVE  BaseInv'
<1>1. Types /\ DistinctInv /\ ListInv
  BY DEF BaseInv
<1>2. PICK valid \in BOOLEAN :
         LET t == list[n][next[n] + 1] IN
         /\ shared' = Append(shared, [token |-> t, valid |-> valid])
         /\ due' = IF valid THEN due ELSE due \ {t}
  BY DEF Send
<1>3. /\ stage[n] = "build" /\ next[n] < Len(list[n])
      /\ next' = [next EXCEPT ![n] = @ + 1]
      /\ UNCHANGED <<file, stage, list, stale, clash>>
  BY DEF Send
<1>4. list[n][next[n] + 1] \in Token
  <2>1. list[n] \in Seq(Token) /\ next[n] \in Nat
    BY <1>1, WriterFacts DEF Types
  <2> QED
    BY <1>3, <2>1
<1>5. Types'
  <2>1. [token |-> list[n][next[n] + 1], valid |-> valid] \in Thread
    BY <1>4 DEF Thread
  <2>2. shared' \in Seq(Thread)
    BY <1>1, <1>2, <2>1 DEF Types
  <2>3. due' \subseteq Token
    BY <1>1, <1>2 DEF Types
  <2> QED
    BY <1>1, <1>3, <2>2, <2>3 DEF Types
<1>6. DistinctInv'
  BY <1>1, <1>3 DEF DistinctInv
<1>7. ListInv'
  <2>1. next[n] \in Nat /\ list[n] \in Seq(Token)
    BY <1>1, WriterFacts DEF Types
  <2>2. next[n] + 1 <= Len(list[n])
    BY <1>3, <2>1
  <2> QED
    BY <1>1, <1>3, <2>2 DEF Types, ListInv
<1> QED
  BY <1>5, <1>6, <1>7 DEF BaseInv

\* The threads are joined.
LEMMA BaseSpawn ==
    ASSUME DeviceAssumption, BaseInv, NEW n \in Notification, Spawn(n)
    PROVE  BaseInv'
<1>1. Types /\ DistinctInv /\ ListInv
  BY DEF BaseInv
<1>2. /\ \/ /\ ~Overrun(list[n], shared)
            /\ stage' = [stage EXCEPT ![n] = "save"]
            /\ list' = [list EXCEPT ![n] = Kept(list[n], shared)]
         \/ /\ stage' = [stage EXCEPT ![n] = "done"]
            /\ list' = [list EXCEPT ![n] = <<>>]
      /\ next' = [next EXCEPT ![n] = 0]
      /\ UNCHANGED <<file, shared, due, stale, clash>>
  BY DEF Spawn
<1>3. list[n] \in Seq(Token) /\ IsInjective(list[n]) /\ shared \in Seq(Thread)
  BY <1>1, WriterFacts DEF Types, DistinctInv
<1>4. PICK l \in Seq(Token) : IsInjective(l) /\ list' = [list EXCEPT ![n] = l]
  <2>1. <<>> \in Seq(Token) /\ IsInjective(<<>>)
    BY DEF IsInjective
  <2>2. ~Overrun(list[n], shared) =>
           Kept(list[n], shared) \in Seq(Token) /\ IsInjective(Kept(list[n], shared))
    BY <1>3, KeptFacts
  <2> QED
    BY <1>2, <2>1, <2>2
<1>5. PICK e \in {"save", "done"} : stage' = [stage EXCEPT ![n] = e]
  BY <1>2
<1>6. Types'
  BY <1>1, <1>2, <1>4, <1>5, WriterFacts DEF Types, Stages
<1>7. DistinctInv'
  BY <1>1, <1>2, <1>4, WriterFacts DEF Types, DistinctInv
<1>8. Len(l) >= 0
  BY <1>4
<1>9. ListInv'
  BY <1>1, <1>2, <1>4, <1>5, <1>8, WriterFacts DEF Types, ListInv
<1> QED
  BY <1>6, <1>7, <1>9 DEF BaseInv

\* The two halves of a save.
LEMMA BaseSave ==
    ASSUME DeviceAssumption, BaseInv, NEW w \in Writer, Truncate(w) \/ Write(w)
    PROVE  BaseInv'
<1>1. Types /\ DistinctInv /\ ListInv
  BY DEF BaseInv
<1>2. <<>> \in Seq(Token) /\ IsInjective(<<>>)
  BY DEF IsInjective
<1>3. CASE Truncate(w)
  <2>1. /\ stage[w] = "save" /\ stage' = [stage EXCEPT ![w] = "write"]
        /\ file' = [state |-> "empty", tokens |-> <<>>]
        /\ clash' = (clash \/ w \in stale)
        /\ stale' = (stale \cup Holding) \ {w}
        /\ UNCHANGED <<shared, list, next, due>>
    BY <1>3 DEF Truncate
  <2>2. Types'
    BY <1>1, <1>2, <2>1 DEF Types, Stages, Holding
  <2>3. DistinctInv'
    BY <1>1, <1>2, <2>1 DEF DistinctInv
  <2>4. ListInv'
    BY <1>1, <2>1, WriterFacts DEF Types, ListInv
  <2> QED
    BY <2>2, <2>3, <2>4 DEF BaseInv
<1>4. CASE Write(w)
  <2>1. /\ stage[w] = "write" /\ file' = Written(w)
        /\ stage' = [stage EXCEPT ![w] = IF w = Registration THEN "idle" ELSE "done"]
        /\ list' = [list EXCEPT ![w] = <<>>]
        /\ due' = IF w = Registration THEN due \cup {Last(list[w])} ELSE due
        /\ UNCHANGED <<shared, next, stale, clash>>
    BY <1>4 DEF Write
  <2>2. list[w] \in Seq(Token) /\ IsInjective(list[w])
    BY <1>1 DEF Types, DistinctInv
  <2>3. /\ Written(w) \in [state : {"json", "empty", "broken"}, tokens : Seq(Token)]
        /\ IsInjective(Written(w).tokens)
    BY <1>1, <2>2 DEF Types, DistinctInv, Written
  <2>4. w = Registration => Last(list[w]) \in Token
    <3>1. SUFFICES ASSUME w = Registration PROVE Last(list[w]) \in Token
      OBVIOUS
    <3>2. list[w] # <<>>
      BY <1>1, <2>1, <3>1 DEF ListInv
    <3>3. Len(list[w]) \in 1..Len(list[w])
      BY <2>2, <3>2, EmptySeq
    <3> QED
      BY <2>2, <3>3 DEF Last
  <2>5. Types'
    <3>1. due' \subseteq Token
      BY <1>1, <2>1, <2>4 DEF Types
    <3> QED
      BY <1>1, <1>2, <2>1, <2>3, <3>1 DEF Types, Stages
  <2>6. DistinctInv'
    BY <1>1, <1>2, <2>1, <2>3 DEF Types, DistinctInv
  <2>7. w \in Notification => next[w] = 0
    BY <1>1, <2>1 DEF ListInv
  <2>8. ListInv'
    BY <1>1, <2>1, <2>7, WriterFacts DEF Types, ListInv
  <2> QED
    BY <2>5, <2>6, <2>8 DEF BaseInv
<1> QED
  BY <1>3, <1>4

\* Every step keeps it.
LEMMA BaseStep == ASSUME DeviceAssumption, BaseInv, [Next]_vars PROVE BaseInv'
<1>1. CASE UNCHANGED vars
  BY <1>1 DEF vars, BaseInv, Types, DistinctInv, ListInv
<1>2. CASE Next
  BY <1>2, BaseRegister, BaseLoad, BaseSend, BaseSpawn, BaseSave DEF Next
<1> QED
  BY <1>1, <1>2

\* It holds in every state.
LEMMA AlwaysBase == ASSUME DeviceAssumption PROVE Spec => []BaseInv
<1>1. Init => BaseInv
  BY BaseInit
<1>2. BaseInv /\ [Next]_vars => BaseInv'
  BY BaseStep
<1> QED
  BY <1>1, <1>2, PTL DEF Spec

\* A distinct list has no more entries than there are tokens.
LEMMA DistinctIsShort ==
    ASSUME DeviceAssumption, NEW s \in Seq(Token), IsInjective(s)
    PROVE  Len(s) <= Cardinality(Token)
<1>1. s \in Injection(1..Len(s), Token)
  BY DEF Injection
<1>2. Cardinality(1..Len(s)) = Len(s)
  <2>1. 1 \in Int /\ Len(s) \in Int /\ Len(s) >= 0
    OBVIOUS
  <2>2. Cardinality(1..Len(s)) = IF 1 > Len(s) THEN 0 ELSE Len(s) - 1 + 1
    BY <2>1, FS_Interval
  <2> QED
    BY <2>1, <2>2
<1> QED
  BY <1>1, <1>2, FS_Injection DEF DeviceAssumption

\* The file, the lists and the threads keep their types, and no notification
\* starts more threads than there are tokens.
THEOREM TypeCorrect == ASSUME DeviceAssumption PROVE Spec => []TypeOK
<1>1. ASSUME BaseInv PROVE TypeOK
  <2>1. ASSUME NEW n \in Notification PROVE next[n] \in 0..Cardinality(Token)
    <3>1. list[n] \in Seq(Token) /\ IsInjective(list[n])
      BY <1>1, WriterFacts DEF BaseInv, Types, DistinctInv
    <3>2. Len(list[n]) <= Cardinality(Token) /\ Cardinality(Token) \in Nat
      BY <3>1, DistinctIsShort, FS_CardinalityType DEF DeviceAssumption
    <3>3. next[n] \in Nat /\ next[n] <= Len(list[n])
      BY <1>1 DEF BaseInv, Types, ListInv
    <3> QED
      BY <3>1, <3>2, <3>3
  <2> QED
    BY <1>1, <2>1 DEF BaseInv, Types, TypeOK
<1> QED
  BY <1>1, AlwaysBase, PTL

\* No token is in the file twice, however many notifications overlap, lists
\* of threads are mixed up and saves overwrite each other.
THEOREM NoDuplicates == ASSUME DeviceAssumption PROVE Spec => []NoDuplicateTokens
<1>1. BaseInv => NoDuplicateTokens
  BY DEF BaseInv, DistinctInv, NoDuplicateTokens
<1> QED
  BY <1>1, AlwaysBase, PTL
-----------------------------------------------------------------------------
(* As long as nothing clashed.                                             *)

\* One notification starts threads at a time, and the list of threads is its
\* own.
OwnInv ==
    \A n \in Notification : stage[n] \in {"reset", "build"} =>
        /\ Len(shared) = next[n]
        /\ \A m \in Notification : stage[m] \in {"reset", "build"} => m = n

\* The token of a registration that is being written.
Coming == IF stage[Registration] = "write" THEN {Last(list[Registration])} ELSE {}

\* FCM refused t to n, and n will save a list without it, unless that list is
\* stale.
Refusing(n, t) ==
    \/ stage[n] = "build" /\ \E i \in 1..next[n] : list[n][i] = t /\ ~shared[i].valid
    \/ stage[n] = "save" /\ (n \in stale \/ t \notin ToSet(list[n]))

\* What is about to be dropped.
Pending == {t \in Token : \E n \in Notification : Refusing(n, t)}

\* T has what is due, and what it has beyond that is about to be dropped.
Settled(T) ==
    due \cup Coming \subseteq T /\ T \subseteq due \cup Coming \cup Pending

\* The file holds such a set, or the one who writes does; and who holds a list
\* while another one writes holds an old one.
FileInv ==
    /\ (\A w \in Writer : stage[w] # "write") =>
          file.state = "json" /\ Settled(ToSet(file.tokens))
    /\ \A w \in Writer : stage[w] = "write" =>
          /\ file.state = "empty"
          /\ Settled(ToSet(list[w]))
          /\ \A v \in Writer : stage[v] = "write" => v = w
          /\ Holding \subseteq stale

\* A list that is not stale is that of the file but for what its holder adds
\* or drops, and what it drops is due to nobody.
CopyInv ==
    \A w \in Holding \ stale :
        /\ stage[w] = "build" =>
              /\ list[w] = file.tokens
              /\ \A i \in 1..next[w] : ~shared[i].valid => list[w][i] \notin due
        /\ stage[w] = "save" /\ w # Registration =>
              due \subseteq ToSet(list[w]) /\ ToSet(list[w]) \subseteq ToSet(file.tokens)
        /\ stage[w] = "save" /\ w = Registration =>
              ToSet(list[w]) = ToSet(file.tokens) \cup {Last(list[w])}

CalmInv == ~clash => OwnInv /\ FileInv /\ CopyInv
\* Nobody writes while the file can be read, nor while a list is up to date.
LEMMA NobodyWrites ==
    ASSUME DeviceAssumption, BaseInv, FileInv,
           file.state = "json" \/ Holding \ stale # {}
    PROVE  /\ \A w \in Writer : stage[w] # "write"
           /\ Coming = {} /\ file.state = "json" /\ Settled(ToSet(file.tokens))
<1>1. \A w \in Writer : stage[w] # "write"
  BY DEF FileInv
<1> QED
  BY <1>1, WriterFacts DEF FileInv, Coming

\* The initial states.
LEMMA CalmInit == ASSUME DeviceAssumption, Init PROVE CalmInv
<1>1. OwnInv /\ CopyInv
  BY WriterFacts DEF Init, OwnInv, CopyInv, Holding
<1>2. Coming = {} /\ ToSet(<<>>) = {}
  BY WriterFacts DEF Init, Coming, ToSet
<1>3. FileInv
  BY <1>2 DEF Init, FileInv, Settled
<1> QED
  BY <1>1, <1>3 DEF CalmInv

\* A registration takes the list of the file as it is.
LEMMA CalmRegister ==
    ASSUME DeviceAssumption, BaseInv, OwnInv, FileInv, CopyInv,
           NEW t \in Token, Register(t)
    PROVE  OwnInv' /\ FileInv' /\ CopyInv'
<1>1. /\ stage' = [stage EXCEPT ![Registration] = "save"]
      /\ list' = [list EXCEPT ![Registration] = Append(file.tokens, t)]
      /\ ~Contains(file.tokens, t) /\ file.state = "json"
      /\ UNCHANGED <<file, shared, next, due, stale, clash>>
  BY DEF Register
<1>2. /\ stage \in [Writer -> Stages] /\ list \in [Writer -> Seq(Token)]
      /\ file.tokens \in Seq(Token) /\ IsInjective(file.tokens)
  BY DEF BaseInv, Types, DistinctInv
<1>3. /\ \A w \in Writer : stage[w] # "write"
      /\ Coming = {} /\ Settled(ToSet(file.tokens))
  BY <1>1, NobodyWrites
<1>4. /\ stage'[Registration] = "save" /\ list'[Registration] = Append(file.tokens, t)
      /\ \A w \in Writer : w # Registration => stage'[w] = stage[w] /\ list'[w] = list[w]
  BY <1>1, <1>2, WriterFacts
<1>5. \A n \in Notification : n \in Writer /\ stage'[n] = stage[n] /\ list'[n] = list[n]
  BY <1>4, WriterFacts
<1>6. OwnInv'
  BY <1>1, <1>5 DEF OwnInv
<1>7. Pending' = Pending
  <2>1. ASSUME NEW n \in Notification, NEW u PROVE Refusing(n, u)' <=> Refusing(n, u)
    BY <1>1, <1>5 DEF Refusing
  <2> QED
    BY <2>1 DEF Pending
<1>8. Coming' = {}
  BY <1>4 DEF Coming
<1>9. FileInv'
  <2>1. \A w \in Writer : stage'[w] # "write"
    BY <1>3, <1>4
  <2> QED
    BY <1>1, <1>3, <1>7, <1>8, <2>1 DEF FileInv, Settled
<1>10. CopyInv'
  <2>1. SUFFICES ASSUME NEW w \in (Holding \ stale)'
        PROVE  /\ stage'[w] = "build" =>
                     /\ list'[w] = file'.tokens
                     /\ \A i \in 1..next'[w] : ~shared'[i].valid => list'[w][i] \notin due'
               /\ stage'[w] = "save" /\ w # Registration =>
                     /\ due' \subseteq ToSet(list'[w])
                     /\ ToSet(list'[w]) \subseteq ToSet(file'.tokens)
               /\ stage'[w] = "save" /\ w = Registration =>
                     ToSet(list'[w]) = ToSet(file'.tokens) \cup {Last(list'[w])}
    BY DEF CopyInv
  <2>2. CASE w = Registration
    <3>1. ToSet(list'[w]) = ToSet(file'.tokens) \cup {Last(list'[w])}
      <4>1. list'[w] = Append(file.tokens, t) /\ file' = file
        BY <1>1, <1>4, <2>2
      <4>2. /\ ToSet(Append(file.tokens, t)) = ToSet(file.tokens) \cup {t}
            /\ Last(Append(file.tokens, t)) = t
        BY <1>1, <1>2, AppendDistinct
      <4> QED
        BY <4>1, <4>2
    <3> QED
      BY <1>4, <2>2, <3>1
  <2>3. CASE w # Registration
    <3>1. w \in Holding \ stale /\ stage'[w] = stage[w] /\ list'[w] = list[w]
      BY <1>1, <1>4, <2>3 DEF Holding
    <3> QED
      BY <1>1, <2>3, <3>1 DEF CopyInv
  <2> QED
    BY <2>2, <2>3
<1> QED
  BY <1>6, <1>9, <1>10

\* A notification begins when no other one starts threads.
LEMMA CalmReset ==
    ASSUME DeviceAssumption, BaseInv, OwnInv, FileInv, CopyInv,
           NEW n \in Notification, Reset(n), ~clash'
    PROVE  OwnInv' /\ FileInv' /\ CopyInv'
<1>1. /\ stage' = [stage EXCEPT ![n] = "reset"] /\ shared' = <<>> /\ stage[n] = "idle"
      /\ Building = {}
      /\ UNCHANGED <<file, list, next, due, stale>>
  BY DEF Reset
<1>2. stage \in [Writer -> Stages] /\ next[n] = 0
  BY <1>1 DEF BaseInv, Types, ListInv
<1>3. /\ stage'[n] = "reset" /\ n \in Writer /\ n # Registration
      /\ \A w \in Writer : w # n => stage'[w] = stage[w]
      /\ \A m \in Notification : m \in Writer /\ stage[m] \notin {"reset", "build"}
  BY <1>1, <1>2, WriterFacts DEF Building
<1>4. OwnInv'
  BY <1>1, <1>2, <1>3 DEF OwnInv
<1>5. Pending' = Pending
  <2>1. ASSUME NEW m \in Notification, NEW u PROVE Refusing(m, u)' <=> Refusing(m, u)
    BY <1>1, <1>3 DEF Refusing
  <2> QED
    BY <2>1 DEF Pending
<1>6. Coming' = Coming
  BY <1>1, <1>3, WriterFacts DEF Coming
<1>7. FileInv'
  <2>1. \A w \in Writer : stage'[w] = "write" <=> stage[w] = "write"
    BY <1>1, <1>3
  <2>2. Holding' = Holding
    BY <1>1, <1>3 DEF Holding
  <2>3. UNCHANGED <<file, list, due, stale>>
    BY <1>1
  <2> QED
    BY <1>5, <1>6, <2>1, <2>2, <2>3 DEF FileInv, Settled
<1>8. CopyInv'
  <2>1. \A w \in Holding' : w \in Holding /\ stage'[w] = "save" /\ stage[w] = "save"
    <3>1. SUFFICES ASSUME NEW w \in Holding'
                   PROVE  w \in Holding /\ stage'[w] = "save" /\ stage[w] = "save"
      OBVIOUS
    <3>2. w \in Writer /\ w # n /\ stage'[w] = stage[w] /\ stage[w] \in {"build", "save"}
      BY <1>3, <3>1 DEF Holding
    <3>3. stage[w] = "save"
      BY <1>3, <3>2, WriterFacts DEF BaseInv, ListInv
    <3> QED
      BY <3>2, <3>3 DEF Holding
  <2> QED
    BY <1>1, <2>1 DEF CopyInv
<1> QED
  BY <1>4, <1>7, <1>8

\* It loads the list of the file, if the file can be read.
LEMMA CalmLoad ==
    ASSUME DeviceAssumption, BaseInv, OwnInv, FileInv, CopyInv,
           NEW n \in Notification, Load(n)
    PROVE  OwnInv' /\ FileInv' /\ CopyInv'
<1>1. /\ \/ /\ file.state = "json"
            /\ stage' = [stage EXCEPT ![n] = "build"]
            /\ list' = [list EXCEPT ![n] = file.tokens]
         \/ /\ stage' = [stage EXCEPT ![n] = "done"]
            /\ UNCHANGED list
      /\ stage[n] = "reset"
      /\ UNCHANGED <<file, shared, next, due, stale, clash>>
  BY DEF Load
<1>2. /\ stage \in [Writer -> Stages] /\ list \in [Writer -> Seq(Token)] /\ next[n] = 0
  BY <1>1 DEF BaseInv, Types, ListInv
<1>3. /\ n \in Writer /\ n # Registration /\ stage'[n] \in {"build", "done"}
      /\ \A w \in Writer : w # n => stage'[w] = stage[w] /\ list'[w] = list[w]
      /\ \A m \in Notification : m \in Writer
  BY <1>1, <1>2, WriterFacts
<1>4. stage'[n] = "build" => file.state = "json" /\ list'[n] = file.tokens
  BY <1>1, <1>2, <1>3
<1>5. OwnInv'
  BY <1>1, <1>3 DEF OwnInv
<1>6. Pending' = Pending
  <2>1. \A t : ~Refusing(n, t) /\ ~Refusing(n, t)'
    BY <1>1, <1>2, <1>3 DEF Refusing
  <2>2. ASSUME NEW m \in Notification, m # n, NEW t
        PROVE  Refusing(m, t)' <=> Refusing(m, t)
    BY <1>1, <1>3, <2>2 DEF Refusing
  <2> QED
    BY <2>1, <2>2 DEF Pending
<1>7. Coming' = Coming
  BY <1>1, <1>3, WriterFacts DEF Coming
<1>8. FileInv'
  <2>1. \A w \in Writer : stage'[w] = "write" <=> stage[w] = "write" /\ list'[w] = list[w]
    BY <1>1, <1>3
  <2>2. (\E w \in Writer : stage[w] = "write") => Holding' \subseteq Holding
    <3>1. (\E w \in Writer : stage[w] = "write") => stage'[n] = "done"
      BY <1>3, <1>4 DEF FileInv
    <3> QED
      BY <1>3, <3>1 DEF Holding
  <2> QED
    BY <1>1, <1>6, <1>7, <2>1, <2>2 DEF FileInv, Settled
<1>9. CopyInv'
  <2>1. \A w \in Holding' : w # n => w \in Holding /\ stage'[w] = stage[w] /\ list'[w] = list[w]
    BY <1>3 DEF Holding
  <2>2. n \in Holding' => stage'[n] = "build" /\ list'[n] = file.tokens /\ next'[n] = 0
    BY <1>1, <1>2, <1>3, <1>4 DEF Holding
  <2> QED
    BY <1>1, <1>3, <2>1, <2>2 DEF CopyInv
<1> QED
  BY <1>5, <1>8, <1>9

\* A token that FCM refuses is due no more, and about to be dropped.
LEMMA CalmSend ==
    ASSUME DeviceAssumption, BaseInv, OwnInv, FileInv, CopyInv,
           NEW n \in Notification, Send(n)
    PROVE  OwnInv' /\ FileInv' /\ CopyInv'
<1>0. PICK k \in Nat, t \in Token : k = next[n] + 1 /\ t = list[n][k]
  <2>1. next[n] \in Nat /\ list[n] \in Seq(Token) /\ next[n] < Len(list[n])
    BY WriterFacts DEF BaseInv, Types, Send
  <2>2. next[n] + 1 \in Nat /\ list[n][next[n] + 1] \in Token
    BY <2>1
  <2> QED
    BY <2>2
<1>1. PICK valid \in BOOLEAN :
         /\ shared' = Append(shared, [token |-> t, valid |-> valid])
         /\ due' = IF valid THEN due ELSE due \ {t}
  BY <1>0 DEF Send
<1>2. /\ stage[n] = "build" /\ next[n] < Len(list[n])
      /\ next' = [next EXCEPT ![n] = @ + 1]
      /\ UNCHANGED <<file, stage, list, stale, clash>>
  BY DEF Send
<1>3. /\ n \in Writer /\ n # Registration /\ next[n] \in Nat /\ list[n] \in Seq(Token)
      /\ shared \in Seq(Thread) /\ next \in [Notification -> Nat]
  BY WriterFacts DEF BaseInv, Types
<1>4. /\ Len(shared) = next[n]
      /\ \A m \in Notification : stage[m] \in {"reset", "build"} => m = n
  BY <1>2 DEF OwnInv
<1>5. next'[n] = k /\ k \in Nat /\ \A m \in Notification : m # n => next'[m] = next[m]
  BY <1>0, <1>2, <1>3
<1>6. /\ Len(shared') = k
      /\ \A i \in 1..next[n] : shared'[i] = shared[i]
      /\ shared'[k].valid = valid
  <2>1. Len(shared') = k /\ shared'[k] = [token |-> t, valid |-> valid]
    BY <1>0, <1>1, <1>3, <1>4
  <2>2. \A i \in 1..next[n] : shared'[i] = shared[i]
    BY <1>1, <1>3, <1>4
  <2> QED
    BY <2>1, <2>2
<1>7. due' \subseteq due /\ (~valid => t \notin due') /\ due \subseteq due' \cup {t}
      /\ (valid => due' = due)
  BY <1>1
<1>8. OwnInv'
  BY <1>2, <1>4, <1>5, <1>6 DEF OwnInv
<1>9. Pending \subseteq Pending' /\ (~valid => t \in Pending')
  <2>1. ASSUME NEW m \in Notification, NEW u, Refusing(m, u) PROVE Refusing(m, u)'
    <3>1. CASE m = n
      <4>1. PICK i \in 1..next[n] : list[n][i] = u /\ ~shared[i].valid
        BY <1>2, <2>1, <3>1 DEF Refusing
      <4>2. i \in 1..next'[n] /\ ~shared'[i].valid
        BY <1>0, <1>3, <1>5, <1>6, <4>1
      <4> QED
        BY <1>2, <3>1, <4>1, <4>2 DEF Refusing
    <3>2. CASE m # n
      <4>1. stage[m] = "save"
        BY <1>4, <2>1, <3>2 DEF Refusing
      <4> QED
        BY <1>2, <2>1, <4>1 DEF Refusing
    <3> QED
      BY <3>1, <3>2
  <2>2. ~valid => Refusing(n, t)'
    <3>1. k \in 1..next'[n] /\ list'[n][k] = t
      BY <1>0, <1>2, <1>3, <1>5
    <3> QED
      BY <1>2, <1>6, <3>1 DEF Refusing
  <2> QED
    BY <2>1, <2>2 DEF Pending
<1>10. Coming' = Coming
  BY <1>2 DEF Coming
<1>11. FileInv'
  BY <1>2, <1>7, <1>9, <1>10 DEF FileInv, Settled, Holding
<1>12. CopyInv'
  <2>1. Holding' = Holding
    BY <1>2 DEF Holding
  <2>2. ASSUME NEW w \in Holding \ stale, stage[w] = "build"
        PROVE  /\ list'[w] = file'.tokens
               /\ \A i \in 1..next'[w] : ~shared'[i].valid => list'[w][i] \notin due'
    <3>1. w = n
      <4>1. w \in Writer /\ w # Registration
        BY <2>2 DEF Holding, BaseInv, ListInv
      <4> QED
        BY <1>4, <2>2, <4>1, WriterFacts
    <3>2. \A i \in 1..next[n] : ~shared[i].valid => list[n][i] \notin due
      BY <2>2, <3>1 DEF CopyInv
    <3>3. \A i \in 1..k : i = k \/ i \in 1..next[n]
      BY <1>0, <1>3
    <3>4. \A i \in 1..k : ~shared'[i].valid => list'[n][i] \notin due'
      BY <1>0, <1>2, <1>6, <1>7, <3>2, <3>3
    <3> QED
      BY <1>2, <1>5, <2>2, <3>1, <3>4 DEF CopyInv
  <2> QED
    BY <1>2, <1>7, <2>1, <2>2 DEF CopyInv
<1> QED
  BY <1>8, <1>11, <1>12

\* The threads are joined: a refused token is not in the list that is saved.
LEMMA CalmSpawn ==
    ASSUME DeviceAssumption, BaseInv, OwnInv, FileInv, CopyInv,
           NEW n \in Notification, Spawn(n)
    PROVE  OwnInv' /\ FileInv' /\ CopyInv'
<1>1. /\ stage[n] = "build" /\ next[n] = Len(list[n])
      /\ next' = [next EXCEPT ![n] = 0]
      /\ UNCHANGED <<file, shared, due, stale, clash>>
  BY DEF Spawn
<1>2. /\ n \in Writer /\ n # Registration /\ \A m \in Notification : m \in Writer
      /\ stage \in [Writer -> Stages] /\ list \in [Writer -> Seq(Token)]
      /\ next \in [Notification -> Nat] /\ shared \in Seq(Thread)
      /\ list[n] \in Seq(Token) /\ IsInjective(list[n])
  BY WriterFacts DEF BaseInv, Types, DistinctInv
<1>3. /\ Len(shared) = Len(list[n])
      /\ \A m \in Notification : stage[m] \in {"reset", "build"} => m = n
  BY <1>1 DEF OwnInv
<1>4. ~Overrun(list[n], shared)
  BY <1>2, <1>3 DEF Overrun
<1> DEFINE kept == Kept(list[n], shared)
<1>5. /\ ToSet(kept) = {list[n][i] : i \in Valid(shared)}
      /\ Len(kept) = Len(list[n]) <=> \A i \in 1..Len(shared) : shared[i].valid
  BY <1>2, <1>3, <1>4, KeptFacts
<1>6. \/ /\ Len(kept) # Len(list[n])
         /\ stage' = [stage EXCEPT ![n] = "save"] /\ list' = [list EXCEPT ![n] = kept]
      \/ /\ Len(kept) = Len(list[n])
         /\ stage' = [stage EXCEPT ![n] = "done"] /\ list' = [list EXCEPT ![n] = <<>>]
  BY <1>4 DEF Spawn
<1> HIDE DEF kept
<1>7. /\ \A w \in Writer : w # n => stage'[w] = stage[w] /\ list'[w] = list[w]
      /\ \/ stage'[n] = "save" /\ list'[n] = kept
         \/ stage'[n] = "done" /\ \A i \in 1..Len(shared) : shared[i].valid
  BY <1>2, <1>5, <1>6
<1>8. OwnInv'
  BY <1>1, <1>2, <1>3, <1>7 DEF OwnInv
<1>9. Pending \subseteq Pending'
  <2>1. ASSUME NEW m \in Notification, NEW u, Refusing(m, u) PROVE Refusing(m, u)'
    <3>1. CASE m = n
      <4>1. PICK i \in 1..next[n] : list[n][i] = u /\ ~shared[i].valid
        BY <1>1, <2>1, <3>1 DEF Refusing
      <4>2. i \in 1..Len(shared) /\ i \notin Valid(shared)
        BY <1>1, <1>3, <4>1 DEF Valid
      <4>3. u \notin ToSet(kept)
        <5>1. ASSUME NEW j \in Valid(shared) PROVE list[n][j] # u
          <6>1. j \in DOMAIN list[n] /\ i \in DOMAIN list[n] /\ j # i
            BY <1>2, <1>3, <4>2, <5>1 DEF Valid
          <6> QED
            BY <1>2, <4>1, <6>1 DEF IsInjective
        <5> QED
          BY <1>5, <5>1
      <4>4. stage'[n] = "save" /\ list'[n] = kept
        BY <1>7, <4>1, <4>2
      <4> QED
        BY <3>1, <4>3, <4>4 DEF Refusing
    <3>2. CASE m # n
      <4>1. stage[m] = "save" /\ stage'[m] = stage[m] /\ list'[m] = list[m]
        BY <1>2, <1>3, <1>7, <2>1, <3>2 DEF Refusing
      <4> QED
        BY <1>1, <2>1, <4>1 DEF Refusing
    <3> QED
      BY <3>1, <3>2
  <2> QED
    BY <2>1 DEF Pending
<1>10. Coming' = Coming
  BY <1>2, <1>7, WriterFacts DEF Coming
<1>11. FileInv'
  <2>1. \A w \in Writer : stage'[w] = "write" <=> stage[w] = "write" /\ w # n
    BY <1>1, <1>7
  <2>2. Holding' \subseteq Holding
    BY <1>1, <1>2, <1>7 DEF Holding
  <2>3. UNCHANGED <<file, due, stale>>
    BY <1>1
  <2>4. stage[n] # "write"
    BY <1>1
  <2>5. CASE \A w \in Writer : stage[w] # "write"
    BY <1>9, <1>10, <2>1, <2>3, <2>5 DEF FileInv, Settled
  <2>6. CASE \E w \in Writer : stage[w] = "write"
    <3>1. ASSUME NEW w \in Writer, stage'[w] = "write"
          PROVE  /\ file'.state = "empty"
                 /\ Settled(ToSet(list[w])) /\ list'[w] = list[w]
                 /\ \A v \in Writer : stage'[v] = "write" => v = w
                 /\ Holding' \subseteq stale'
      BY <1>7, <2>1, <2>2, <2>3, <3>1 DEF FileInv
    <3>2. ~(\A w \in Writer : stage'[w] # "write")
      BY <2>1, <2>4, <2>6
    <3> QED
      BY <1>9, <1>10, <2>3, <3>1, <3>2 DEF FileInv, Settled
  <2> QED
    BY <2>5, <2>6
<1>12. CopyInv'
  <2>1. ASSUME NEW w \in Holding', w # n
        PROVE  w \in Holding /\ stage'[w] = stage[w] /\ list'[w] = list[w] /\ stage[w] = "save"
    <3>1. w \in Writer /\ stage'[w] = stage[w] /\ list'[w] = list[w]
          /\ stage[w] \in {"build", "save"}
      BY <1>7, <2>1 DEF Holding
    <3>2. stage[w] = "save"
      BY <1>3, <2>1, <3>1, WriterFacts DEF BaseInv, ListInv
    <3> QED
      BY <3>1, <3>2 DEF Holding
  <2>2. ASSUME n \in Holding', n \notin stale
        PROVE  /\ stage'[n] = "save"
               /\ due \subseteq ToSet(list'[n]) /\ ToSet(list'[n]) \subseteq ToSet(file.tokens)
    <3>1. stage'[n] = "save" /\ list'[n] = kept
      BY <1>7, <2>2 DEF Holding
    <3>2. n \in Holding \ stale
      BY <1>1, <1>2, <2>2 DEF Holding
    <3>3. /\ list[n] = file.tokens
          /\ \A i \in 1..next[n] : ~shared[i].valid => list[n][i] \notin due
      BY <1>1, <3>2 DEF CopyInv
    <3>4. due \subseteq ToSet(file.tokens)
      BY <3>2, NobodyWrites DEF Settled
    <3>5. ASSUME NEW u \in due PROVE u \in ToSet(kept)
      <4>1. PICK i \in 1..Len(list[n]) : list[n][i] = u
        <5>1. u \in ToSet(list[n]) /\ DOMAIN list[n] = 1..Len(list[n])
          BY <1>2, <3>3, <3>4, <3>5
        <5> QED
          BY <5>1 DEF ToSet
      <4>2. shared[i].valid
        BY <1>1, <3>3, <3>5, <4>1
      <4>3. i \in Valid(shared)
        BY <1>2, <1>3, <4>1, <4>2 DEF Valid
      <4> QED
        BY <1>5, <4>1, <4>3
    <3>6. ASSUME NEW j \in Valid(shared) PROVE list[n][j] \in ToSet(file.tokens)
      BY <1>2, <1>3, <3>3, <3>6 DEF Valid, ToSet
    <3> QED
      BY <1>5, <3>1, <3>5, <3>6
  <2>3. UNCHANGED <<file, due, stale>>
    BY <1>1
  <2> QED
    BY <1>2, <2>1, <2>2, <2>3 DEF CopyInv
<1> QED
  BY <1>8, <1>11, <1>12

\* A list that is not stale is saved, and every other one is stale from then
\* on.
LEMMA CalmTruncate ==
    ASSUME DeviceAssumption, BaseInv, OwnInv, FileInv, CopyInv,
           NEW w \in Writer, Truncate(w), ~clash'
    PROVE  OwnInv' /\ FileInv' /\ CopyInv'
<1>1. /\ stage[w] = "save" /\ stage' = [stage EXCEPT ![w] = "write"]
      /\ file' = [state |-> "empty", tokens |-> <<>>]
      /\ w \notin stale /\ stale' = (stale \cup Holding) \ {w}
      /\ UNCHANGED <<shared, list, next, due>>
  BY DEF Truncate
<1>2. /\ stage \in [Writer -> Stages] /\ \A m \in Notification : m \in Writer
      /\ list[w] \in Seq(Token)
  BY WriterFacts DEF BaseInv, Types
<1>3. stage'[w] = "write" /\ \A v \in Writer : v # w => stage'[v] = stage[v]
  BY <1>1, <1>2
<1>4. w \in Holding \ stale
  BY <1>1 DEF Holding
<1>5. /\ \A v \in Writer : stage[v] # "write"
      /\ Coming = {} /\ Settled(ToSet(file.tokens))
  BY <1>4, NobodyWrites
<1>6. OwnInv'
  BY <1>1, <1>2, <1>3 DEF OwnInv
<1>7. Holding' = Holding \ {w}
  BY <1>1, <1>3 DEF Holding
<1>8. ASSUME NEW u \in Pending, \/ w = Registration
                                \/ u \in ToSet(list[w])
      PROVE  u \in Pending'
  <2>1. PICK m \in Notification : Refusing(m, u)
    BY <1>8 DEF Pending
  <2>2. m # w
    BY <1>1, <1>8, <2>1, WriterFacts DEF Refusing
  <2>3. stage'[m] = stage[m] /\ (stage[m] = "save" => m \in stale')
    BY <1>1, <1>2, <1>3, <2>2 DEF Holding
  <2>4. Refusing(m, u)'
    BY <1>1, <2>1, <2>3 DEF Refusing
  <2> QED
    BY <1>8, <2>4 DEF Pending
<1>9. due \cup Coming' \subseteq ToSet(list[w])
      /\ ToSet(list[w]) \subseteq due \cup Coming' \cup Pending'
  <2>1. CASE w = Registration
    <3>1. Coming' = {Last(list[w])}
      BY <1>1, <1>3, <2>1 DEF Coming
    <3>2. ToSet(list[w]) = ToSet(file.tokens) \cup {Last(list[w])}
      BY <1>1, <1>4, <2>1 DEF CopyInv
    <3> QED
      BY <1>5, <1>8, <2>1, <3>1, <3>2 DEF Settled
  <2>2. CASE w # Registration
    <3>1. Coming' = {}
      BY <1>3, <1>5, <2>2, WriterFacts DEF Coming
    <3>2. due \subseteq ToSet(list[w]) /\ ToSet(list[w]) \subseteq ToSet(file.tokens)
      BY <1>1, <1>4, <2>2 DEF CopyInv
    <3> QED
      BY <1>5, <1>8, <3>1, <3>2 DEF Settled
  <2> QED
    BY <2>1, <2>2
<1>10. FileInv'
  <2>1. \A v \in Writer : stage'[v] = "write" <=> v = w
    BY <1>3, <1>5
  <2>2. file'.state = "empty" /\ Holding' \subseteq stale' /\ list' = list /\ due' = due
    BY <1>1, <1>7
  <2> QED
    BY <1>9, <2>1, <2>2 DEF FileInv, Settled
<1>11. CopyInv'
  BY <1>1, <1>7 DEF CopyInv
<1> QED
  BY <1>6, <1>10, <1>11

\* The list is in the file.
LEMMA CalmWrite ==
    ASSUME DeviceAssumption, BaseInv, OwnInv, FileInv, CopyInv,
           NEW w \in Writer, Write(w)
    PROVE  OwnInv' /\ FileInv' /\ CopyInv'
<1>1. /\ stage[w] = "write" /\ file' = Written(w)
      /\ stage' = [stage EXCEPT ![w] = IF w = Registration THEN "idle" ELSE "done"]
      /\ list' = [list EXCEPT ![w] = <<>>]
      /\ due' = IF w = Registration THEN due \cup {Last(list[w])} ELSE due
      /\ UNCHANGED <<shared, next, stale, clash>>
  BY DEF Write
<1>2. /\ stage \in [Writer -> Stages] /\ list \in [Writer -> Seq(Token)]
      /\ \A m \in Notification : m \in Writer
  BY WriterFacts DEF BaseInv, Types
<1>3. /\ stage'[w] \in {"idle", "done"}
      /\ \A v \in Writer : v # w => stage'[v] = stage[v] /\ list'[v] = list[v]
  BY <1>1, <1>2
<1>4. /\ file.state = "empty" /\ Settled(ToSet(list[w])) /\ Holding \subseteq stale
      /\ \A v \in Writer : stage[v] = "write" => v = w
  BY <1>1 DEF FileInv
<1>5. file' = [state |-> "json", tokens |-> list[w]]
  BY <1>1, <1>4 DEF Written
<1>6. OwnInv'
  <2>1. \A m \in Notification : stage'[m] \in {"reset", "build"} =>
           m # w /\ stage[m] = stage'[m] /\ list'[m] = list[m]
    BY <1>2, <1>3
  <2> QED
    BY <1>1, <2>1 DEF OwnInv
<1>7. Pending' = Pending
  <2>1. ASSUME NEW m \in Notification, NEW u PROVE Refusing(m, u)' <=> Refusing(m, u)
    <3>1. CASE m = w
      BY <1>1, <1>3, <3>1 DEF Refusing
    <3>2. CASE m # w
      BY <1>1, <1>2, <1>3, <3>2 DEF Refusing
    <3> QED
      BY <3>1, <3>2
  <2> QED
    BY <2>1 DEF Pending
<1>8. due' = due \cup Coming /\ Coming' = {}
  <2>1. w # Registration => stage[Registration] # "write"
    BY <1>4, WriterFacts
  <2>2. stage'[Registration] # "write"
    BY <1>3, <2>1, WriterFacts
  <2> QED
    BY <1>1, <2>1, <2>2 DEF Coming
<1>9. FileInv'
  <2>1. \A v \in Writer : stage'[v] # "write"
    BY <1>3, <1>4
  <2>2. Settled(ToSet(file.tokens))'
    BY <1>4, <1>5, <1>7, <1>8 DEF Settled
  <2> QED
    BY <1>5, <2>1, <2>2 DEF FileInv
<1>10. CopyInv'
  <2>1. Holding' \subseteq Holding
    BY <1>1, <1>3 DEF Holding
  <2> QED
    BY <1>1, <1>4, <2>1 DEF CopyInv
<1> QED
  BY <1>6, <1>9, <1>10

\* Every step keeps it.
LEMMA CalmStep ==
    ASSUME DeviceAssumption, BaseInv, CalmInv, [Next]_vars PROVE CalmInv'
<1>1. CASE UNCHANGED vars
  BY <1>1 DEF vars, CalmInv, OwnInv, FileInv, CopyInv, Settled, Coming, Pending,
     Refusing, Holding
<1>2. CASE Next
  <2>1. SUFFICES ASSUME ~clash' PROVE OwnInv' /\ FileInv' /\ CopyInv'
    BY DEF CalmInv
  <2>2. ~clash
    BY <1>2, <2>1 DEF Next, Register, Reset, Load, Send, Spawn, Truncate, Write
  <2>3. OwnInv /\ FileInv /\ CopyInv
    BY <2>2 DEF CalmInv
  <2> QED
    BY <1>2, <2>1, <2>3, CalmRegister, CalmReset, CalmLoad, CalmSend, CalmSpawn,
       CalmTruncate, CalmWrite DEF Next
<1> QED
  BY <1>1, <1>2

\* As long as no list was saved that was loaded before another save, and no
\* two notifications shared the list of threads, the file at rest holds the
\* registered tokens without those FCM refused, whatever the number of
\* registrations and notifications.
THEOREM Exact == ASSUME DeviceAssumption PROVE Spec => []FileIsExact
<1>1. Init => CalmInv
  BY CalmInit
<1>2. BaseInv /\ CalmInv /\ [Next]_vars => CalmInv'
  BY CalmStep
<1>3. ASSUME BaseInv, CalmInv PROVE FileIsExact
  <2>1. SUFFICES ASSUME ~clash, \A w \in Writer : stage[w] \in {"idle", "done"}
                 PROVE  file.state = "json" /\ ToSet(file.tokens) = due
    BY DEF FileIsExact
  <2>2. \A w \in Writer : stage[w] # "write"
    BY <2>1
  <2>3. file.state = "json" /\ Settled(ToSet(file.tokens))
    BY <1>3, <2>1, <2>2 DEF CalmInv, FileInv
  <2>4. Coming = {} /\ Pending = {}
    BY <2>1, WriterFacts DEF Coming, Pending, Refusing
  <2> QED
    BY <2>3, <2>4 DEF Settled
<1> QED
  BY <1>1, <1>2, <1>3, AlwaysBase, PTL DEF Spec
=============================================================================
