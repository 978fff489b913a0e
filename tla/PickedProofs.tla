----------------------------- MODULE PickedProofs -----------------------------
(***************************************************************************)
(* What Picked of AdminBatch, the messages a query or a deletion leaves of  *)
(* a database, returns for every sequence of messages.                      *)
(***************************************************************************)
EXTENDS AdminBatch, TLAPS, FiniteSetTheorems, WellFoundedInduction, SequenceTheorems

----------------------------------------------------------------------------
(* Induction, over the initial segments of the naturals. *)

Below(n) == 0..(n - 1)

\* A set of natural numbers that is not empty has a least element.
LEMMA LeastElement ==
    ASSUME NEW B, B \subseteq Nat, B # {}
    PROVE  \E m \in B : \A k \in B : m <= k
<1> DEFINE T == {Below(n) : n \in B}
           R == StrictSubsetOrdering(Nat)
<1>1. IsWellFoundedOn(R, FiniteSubsetsOf(Nat))
      BY FS_StrictSubsetOrderingWellFounded
<1>2. T \subseteq FiniteSubsetsOf(Nat) /\ T # {}
  <2>1. \A n \in B : Below(n) \subseteq Nat /\ IsFiniteSet(Below(n))
        BY FS_Interval DEF Below
  <2> QED  BY <2>1 DEF FiniteSubsetsOf
<1>3. PICK x \in T : \A y \in T : ~(<<y, x>> \in R)
  <2> HIDE DEF T, R
  <2> QED  BY <1>1, <1>2, WFMin
<1>4. PICK m \in B : x = Below(m)
      BY <1>3
<1>5. ASSUME NEW k \in B, k < m PROVE FALSE
  <2>1. Below(k) \subseteq Below(m) /\ Below(k) # Below(m)
    <3>1. k \in Below(m) /\ k \notin Below(k)
          BY <1>5 DEF Below
    <3> QED  BY <1>5, <3>1 DEF Below
  <2>2. <<Below(k), Below(m)>> \in R
        BY <2>1 DEF StrictSubsetOrdering, Below
  <2> QED  BY <1>3, <1>4, <1>5, <2>2
<1> QED  BY <1>5

\* Induction for a set of numbers: it holds 0, and n + 1 when it holds n < N.
LEMMA UpTo ==
    ASSUME NEW N \in Nat, NEW G, 0 \in G, \A n \in 0..N : n \in G /\ n < N => n + 1 \in G
    PROVE  0..N \subseteq G
<1> DEFINE B == (0..N) \ G
<1> SUFFICES ASSUME B # {} PROVE FALSE
    OBVIOUS
<1>1. B \subseteq Nat
      OBVIOUS
<1>2. PICK m \in B : \A k \in B : m <= k
  <2> HIDE DEF B
  <2> QED  BY <1>1, LeastElement
<1>3. m # 0 /\ m - 1 \in 0..N /\ m - 1 < N
      BY <1>2
<1>4. m - 1 \in G
      BY <1>2, <1>3
<1> QED  BY <1>2, <1>3, <1>4

----------------------------------------------------------------------------
(* The recursive function of Picked, and what it computes. *)

\* One step of it, for the function f.
PickedStep(ms, S, f, i) ==
    IF i = 0 THEN <<>>
    ELSE IF ms[i] \in S THEN Append(f[i - 1], ms[i]) ELSE f[i - 1]

LEMMA PickedExists ==
    ASSUME NEW ms, NEW S, NEW N \in Nat
    PROVE  \E f : f = [i \in 0..N |-> PickedStep(ms, S, f, i)]
<1> DEFINE G == {n \in Nat : \E f : f = [i \in 0..n |-> PickedStep(ms, S, f, i)]}
<1>1. 0 \in G
  <2>1. [i \in 0..0 |-> <<>>] = [i \in 0..0 |-> PickedStep(ms, S, [j \in 0..0 |-> <<>>], i)]
        BY DEF PickedStep
  <2> QED  BY <2>1
<1>2. ASSUME NEW n \in 0..N, n \in G PROVE n + 1 \in G
  <2>1. PICK f : f = [i \in 0..n |-> PickedStep(ms, S, f, i)]
        BY <1>2
  <2> DEFINE g == [i \in 0..(n + 1) |-> IF i = n + 1 THEN PickedStep(ms, S, f, i) ELSE f[i]]
  <2>2. ASSUME NEW i \in 0..(n + 1) PROVE g[i] = PickedStep(ms, S, g, i)
    <3>1. i # 0 => g[i - 1] = f[i - 1]
          OBVIOUS
    <3>2. PickedStep(ms, S, g, i) = PickedStep(ms, S, f, i)
      <4> HIDE DEF g
      <4> QED  BY <3>1 DEF PickedStep
    <3>3. i # n + 1 => f[i] = PickedStep(ms, S, f, i)
      <4>1. i # n + 1 => i \in 0..n
            OBVIOUS
      <4> QED  BY <2>1, <4>1
    <3>4. g[i] = PickedStep(ms, S, f, i)
          BY <3>3
    <3> QED  BY <3>2, <3>4
  <2>3. g = [i \in 0..(n + 1) |-> g[i]]
        OBVIOUS
  <2> HIDE DEF g
  <2>4. g = [i \in 0..(n + 1) |-> PickedStep(ms, S, g, i)]
        BY <2>2, <2>3
  <2>5. n + 1 \in Nat
        OBVIOUS
  <2> QED  BY <2>4, <2>5
<1>3. 0..N \subseteq G
  <2> HIDE DEF G
  <2> QED  BY <1>1, <1>2, UpTo
<1> QED  BY <1>3

LEMMA PickedFunction ==
    ASSUME NEW ms, Len(ms) \in Nat, NEW S
    PROVE  \E f : /\ \A i \in 0..Len(ms) : f[i] = PickedStep(ms, S, f, i)
                  /\ Picked(ms, S) = f[Len(ms)]
<1> DEFINE f == CHOOSE f : f = [i \in 0..Len(ms) |-> PickedStep(ms, S, f, i)]
<1>1. f = [i \in 0..Len(ms) |-> PickedStep(ms, S, f, i)]
      BY PickedExists, Zenon
<1>2. Picked(ms, S) = f[Len(ms)]
      BY Zenon DEF Picked, PickedStep
<1>3. \A i \in 0..Len(ms) : f[i] = PickedStep(ms, S, f, i)
  <2> HIDE DEF f
  <2> QED  BY <1>1
<1> QED  BY <1>2, <1>3

LEMMA ToSetAppend ==
    ASSUME NEW R, NEW s \in Seq(R), NEW x
    PROVE  ToSet(Append(s, x)) = ToSet(s) \cup {x}
<1>1. ASSUME NEW y \in ToSet(Append(s, x)) PROVE y \in ToSet(s) \cup {x}
  <2>1. PICK i \in 1..(Len(s) + 1) : y = Append(s, x)[i]
        BY DEF ToSet
  <2> QED  BY <2>1 DEF ToSet
<1>2. ASSUME NEW y \in ToSet(s) PROVE y \in ToSet(Append(s, x))
  <2>1. PICK i \in 1..Len(s) : y = s[i]
        BY DEF ToSet
  <2>2. i \in DOMAIN Append(s, x) /\ Append(s, x)[i] = y
        BY <2>1
  <2> QED  BY <2>2 DEF ToSet
<1>3. x \in ToSet(Append(s, x))
  <2>1. Len(s) + 1 \in DOMAIN Append(s, x) /\ Append(s, x)[Len(s) + 1] = x
        OBVIOUS
  <2> QED  BY <2>1 DEF ToSet
<1> QED  BY <1>1, <1>2, <1>3

\* Picked(ms, S) holds the messages of ms that are in S and no other.
LEMMA PickedMembers ==
    ASSUME NEW ms \in Seq(Msgs), NEW S
    PROVE  /\ Picked(ms, S) \in Seq(Msgs) /\ Len(Picked(ms, S)) <= Len(ms)
           /\ ToSet(Picked(ms, S)) = ToSet(ms) \cap S
<1> DEFINE N == Len(ms)
           First(i) == {ms[j] : j \in 1..i}
<1>1. N \in Nat
      OBVIOUS
<1>2. PICK f : /\ \A i \in 0..N : f[i] = PickedStep(ms, S, f, i)
               /\ Picked(ms, S) = f[N]
      BY <1>1, PickedFunction
<1> DEFINE G == {i \in 0..N : /\ f[i] \in Seq(Msgs) /\ Len(f[i]) <= i
                              /\ ToSet(f[i]) = First(i) \cap S}
<1>3. 0 \in G
  <2>1. f[0] = <<>> /\ 0 \in 0..N
        BY <1>1, <1>2 DEF PickedStep
  <2>2. ToSet(<<>>) = {} /\ First(0) = {}
        BY DEF ToSet
  <2>3. ToSet(f[0]) = First(0) \cap S
        BY <2>1, <2>2
  <2>4. f[0] \in Seq(Msgs) /\ Len(f[0]) <= 0
        BY <2>1
  <2> QED  BY <2>1, <2>3, <2>4
<1>4. ASSUME NEW i \in 0..N, i \in G, i < N PROVE i + 1 \in G
  <2>1. /\ f[i] \in Seq(Msgs) /\ Len(f[i]) <= i /\ Len(f[i]) \in Nat
        /\ ToSet(f[i]) = First(i) \cap S
        BY <1>4
  <2>2. ms[i + 1] \in Msgs /\ i + 1 \in 0..N /\ i + 1 # 0 /\ (i + 1) - 1 = i
        BY <1>4
  <2>3. First(i + 1) = First(i) \cup {ms[i + 1]}
    <3>1. 1..(i + 1) = (1..i) \cup {i + 1}
          BY <1>4
    <3> QED  BY <3>1
  <2>4. f[i + 1] = IF ms[i + 1] \in S THEN Append(f[i], ms[i + 1]) ELSE f[i]
        BY <1>2, <2>2 DEF PickedStep
  <2>5. CASE ms[i + 1] \in S
    <3>1. /\ f[i + 1] = Append(f[i], ms[i + 1]) /\ f[i + 1] \in Seq(Msgs)
          /\ Len(f[i + 1]) = Len(f[i]) + 1
          BY <2>1, <2>2, <2>4, <2>5
    <3>2. ToSet(f[i + 1]) = ToSet(f[i]) \cup {ms[i + 1]}
          BY <2>1, <3>1, ToSetAppend
    <3>3. ToSet(f[i + 1]) = First(i + 1) \cap S
          BY <2>1, <2>3, <2>5, <3>2
    <3>4. Len(f[i + 1]) <= i + 1
          BY <2>1, <3>1
    <3> QED  BY <2>2, <3>1, <3>3, <3>4
  <2>6. CASE ms[i + 1] \notin S
    <3>1. f[i + 1] = f[i]
          BY <2>4, <2>6
    <3>2. ToSet(f[i + 1]) = First(i + 1) \cap S
          BY <2>1, <2>3, <2>6, <3>1
    <3>3. Len(f[i + 1]) <= i + 1
          BY <2>1, <3>1
    <3> QED  BY <2>1, <2>2, <3>1, <3>2, <3>3
  <2> QED  BY <2>5, <2>6
<1>5. N \in G
  <2> HIDE DEF G, N
  <2>1. 0..N \subseteq G
        BY <1>1, <1>3, <1>4, UpTo
  <2> QED  BY <1>1, <2>1
<1>6. First(N) = ToSet(ms)
      BY DEF ToSet
<1> QED  BY <1>2, <1>5, <1>6

\* One more message at the end is picked, or it is not.
LEMMA PickedAppend ==
    ASSUME NEW ms \in Seq(Msgs), NEW x \in Msgs, NEW S
    PROVE  Picked(Append(ms, x), S) = IF x \in S THEN Append(Picked(ms, S), x)
                                                 ELSE Picked(ms, S)
<1> DEFINE N == Len(ms)
           ns == Append(ms, x)
<1>1. /\ N \in Nat /\ Len(ns) = N + 1 /\ ns[N + 1] = x
      /\ \A i \in 1..N : ns[i] = ms[i]
      OBVIOUS
<1> HIDE DEF ns
<1>2. PICK f : (\A i \in 0..N : f[i] = PickedStep(ms, S, f, i)) /\ Picked(ms, S) = f[N]
      BY <1>1, PickedFunction
<1>3. PICK g : /\ \A i \in 0..(N + 1) : g[i] = PickedStep(ns, S, g, i)
               /\ Picked(ns, S) = g[N + 1]
      BY <1>1, PickedFunction
<1> DEFINE G == {i \in 0..N : g[i] = f[i]}
<1>4. 0 \in G
      BY <1>1, <1>2, <1>3 DEF PickedStep
<1>5. ASSUME NEW i \in 0..N, i \in G, i < N PROVE i + 1 \in G
  <2>1. i + 1 \in 0..N /\ i + 1 \in 0..(N + 1) /\ i + 1 # 0 /\ (i + 1) - 1 = i /\ i + 1 \in 1..N
        BY <1>1, <1>5
  <2>2. ns[i + 1] = ms[i + 1] /\ g[i] = f[i]
        BY <1>1, <1>5, <2>1
  <2>3. /\ f[i + 1] = IF ms[i + 1] \in S THEN Append(f[i], ms[i + 1]) ELSE f[i]
        /\ g[i + 1] = IF ns[i + 1] \in S THEN Append(g[i], ns[i + 1]) ELSE g[i]
        BY <1>2, <1>3, <2>1 DEF PickedStep
  <2> QED  BY <2>1, <2>2, <2>3
<1>6. g[N] = f[N]
  <2> HIDE DEF G, N
  <2>1. 0..N \subseteq G
        BY <1>1, <1>4, <1>5, UpTo
  <2> QED  BY <1>1, <2>1 DEF G
<1>7. g[N + 1] = IF x \in S THEN Append(g[N], x) ELSE g[N]
  <2>1. N + 1 \in 0..(N + 1) /\ N + 1 # 0 /\ (N + 1) - 1 = N
        BY <1>1
  <2> QED  BY <1>1, <1>3, <2>1 DEF PickedStep
<1> QED  BY <1>2, <1>3, <1>6, <1>7 DEF ns
----------------------------------------------------------------------------
(***************************************************************************)
(* Messages in ident order, and where a message is among those a query      *)
(* selects.                                                                *)
(***************************************************************************)
Ordered(ms) == \A i, j \in 1..Len(ms) : i < j => ms[i] < ms[j]

FirstMsgs(n) == [i \in 1..n |-> i]

\* The number of messages of S up to m.
Rank(m, S) == Len(Picked(FirstMsgs(m), S))

LEMMA FirstMsgsSeq ==
    ASSUME NEW n \in 0..MaxMsgs
    PROVE  /\ FirstMsgs(n) \in Seq(Msgs) /\ Len(FirstMsgs(n)) = n
           /\ n < MaxMsgs => n + 1 \in Msgs /\ FirstMsgs(n + 1) = Append(FirstMsgs(n), n + 1)
<1>1. n \in Nat /\ MaxMsgs \in Nat
      BY MessagesAssumption
<1>2. FirstMsgs(n) \in Seq(Msgs) /\ Len(FirstMsgs(n)) = n
      BY <1>1 DEF FirstMsgs, Msgs
<1>3. ASSUME n < MaxMsgs
      PROVE  n + 1 \in Msgs /\ FirstMsgs(n + 1) = Append(FirstMsgs(n), n + 1)
      BY <1>1, <1>3 DEF FirstMsgs, Msgs
<1> QED  BY <1>2, <1>3

LEMMA PickedFirst ==
    ASSUME NEW S, NEW m \in 0..MaxMsgs, m < MaxMsgs
    PROVE  Picked(FirstMsgs(m + 1), S) = IF m + 1 \in S THEN Append(Picked(FirstMsgs(m), S), m + 1)
                                                        ELSE Picked(FirstMsgs(m), S)
<1>1. \A ms \in Seq(Msgs), x \in Msgs :
          Picked(Append(ms, x), S) = IF x \in S THEN Append(Picked(ms, S), x) ELSE Picked(ms, S)
      BY PickedAppend
<1> DEFINE ms == FirstMsgs(m)
           x == m + 1
<1>2. ms \in Seq(Msgs) /\ x \in Msgs /\ FirstMsgs(x) = Append(ms, x)
      BY FirstMsgsSeq
<1> HIDE DEF ms, x
<1>3. Picked(FirstMsgs(x), S) = IF x \in S THEN Append(Picked(ms, S), x) ELSE Picked(ms, S)
      BY <1>1, <1>2, Zenon
<1> QED  BY <1>3, Zenon DEF ms, x

LEMMA RankStep ==
    ASSUME NEW S
    PROVE  /\ Rank(0, S) = 0
           /\ \A m \in 0..MaxMsgs : Rank(m, S) \in Nat
           /\ \A m \in 0..MaxMsgs : m < MaxMsgs =>
                 Rank(m + 1, S) = IF m + 1 \in S THEN Rank(m, S) + 1 ELSE Rank(m, S)
<1>1. ASSUME NEW m \in 0..MaxMsgs
      PROVE  Picked(FirstMsgs(m), S) \in Seq(Msgs) /\ Rank(m, S) <= m /\ Rank(m, S) \in Nat
  <2>1. /\ Picked(FirstMsgs(m), S) \in Seq(Msgs)
        /\ Len(Picked(FirstMsgs(m), S)) <= Len(FirstMsgs(m)) /\ Len(FirstMsgs(m)) = m
        BY FirstMsgsSeq, PickedMembers
  <2> QED  BY <2>1 DEF Rank
<1>2. ASSUME NEW m \in 0..MaxMsgs, m < MaxMsgs
      PROVE  Rank(m + 1, S) = IF m + 1 \in S THEN Rank(m, S) + 1 ELSE Rank(m, S)
  <2>1. Picked(FirstMsgs(m + 1), S) = IF m + 1 \in S THEN Append(Picked(FirstMsgs(m), S), m + 1)
                                                     ELSE Picked(FirstMsgs(m), S)
        BY <1>2, PickedFirst
  <2>2. Len(Append(Picked(FirstMsgs(m), S), m + 1)) = Len(Picked(FirstMsgs(m), S)) + 1
        BY <1>1, <1>2, FirstMsgsSeq
  <2> QED  BY <2>1, <2>2 DEF Rank
<1>3. 0 \in 0..MaxMsgs
      BY MessagesAssumption
<1>4. Rank(0, S) = 0
  <2>1. Rank(0, S) <= 0 /\ Rank(0, S) \in Nat
        BY <1>1, <1>3
  <2> QED  BY <2>1
<1> QED  BY <1>1, <1>2, <1>4

\* From a to b, Rank grows by one at most for each message.
LEMMA RankBetween ==
    ASSUME NEW S, NEW a \in 0..MaxMsgs, NEW b \in 0..MaxMsgs, a <= b
    PROVE  Rank(a, S) <= Rank(b, S) /\ Rank(b, S) <= Rank(a, S) + (b - a)
<1> DEFINE N == MaxMsgs - a
           G == {d \in 0..N : /\ Rank(a, S) <= Rank(a + d, S)
                              /\ Rank(a + d, S) <= Rank(a, S) + d}
<1>1. MaxMsgs \in Nat /\ N \in Nat /\ a \in Nat /\ b \in Nat /\ Rank(a, S) \in Nat
      BY MessagesAssumption, RankStep
<1>2. 0 \in G
  <2>1. a + 0 = a /\ 0 \in 0..N
        BY <1>1
  <2> QED  BY <1>1, <2>1
<1>3. ASSUME NEW d \in 0..N, d \in G, d < N PROVE d + 1 \in G
  <2> DEFINE m == a + d
  <2>1. m \in 0..MaxMsgs /\ m < MaxMsgs /\ a + (d + 1) = m + 1 /\ d + 1 \in 0..N
        BY <1>1, <1>3
  <2>2. Rank(a, S) <= Rank(m, S) /\ Rank(m, S) <= Rank(a, S) + d
        BY <1>3
  <2> HIDE DEF m
  <2>3. Rank(m + 1, S) = Rank(m, S) + 1 \/ Rank(m + 1, S) = Rank(m, S)
        BY <2>1, RankStep
  <2>4. Rank(m, S) \in Nat
        BY <2>1, RankStep
  <2>5. Rank(a, S) <= Rank(m + 1, S) /\ Rank(m + 1, S) <= Rank(a, S) + (d + 1)
        BY <1>1, <2>2, <2>3, <2>4
  <2> QED  BY <2>1, <2>5
<1>4. 0..N \subseteq G
  <2> HIDE DEF G, N
  <2> QED  BY <1>1, <1>2, <1>3, UpTo
<1>5. b - a \in 0..N /\ a + (b - a) = b
      BY <1>1
<1>6. b - a \in G
      BY <1>4, <1>5
<1> QED  BY <1>5, <1>6

\* Among the first messages, the one of rank r is at place r.
LEMMA RankIsPlace ==
    ASSUME NEW S, NEW n \in 0..MaxMsgs, NEW m \in 1..n, m \in S
    PROVE  /\ Rank(m, S) \in 1..Len(Picked(FirstMsgs(n), S))
           /\ Picked(FirstMsgs(n), S)[Rank(m, S)] = m
<1> DEFINE q(k) == Picked(FirstMsgs(k), S)
           Placed(k) == \A x \in (1..k) \cap S :
                            Rank(x, S) \in 1..Len(q(k)) /\ q(k)[Rank(x, S)] = x
           G == {k \in 0..MaxMsgs : Placed(k)}
<1>1. MaxMsgs \in Nat
      BY MessagesAssumption
<1>2. 0 \in G
      BY <1>1
<1>3. ASSUME NEW k \in 0..MaxMsgs, k \in G, k < MaxMsgs PROVE k + 1 \in G
  <2>1. /\ q(k) \in Seq(Msgs) /\ k + 1 \in Msgs /\ k + 1 \in 0..MaxMsgs
        /\ q(k + 1) = IF k + 1 \in S THEN Append(q(k), k + 1) ELSE q(k)
        /\ Rank(k + 1, S) = Len(q(k + 1))
    <3>1. /\ FirstMsgs(k) \in Seq(Msgs) /\ k + 1 \in Msgs
          /\ FirstMsgs(k + 1) = Append(FirstMsgs(k), k + 1)
          BY <1>3, FirstMsgsSeq
    <3>2. q(k) \in Seq(Msgs)
          BY <3>1, PickedMembers
    <3>3. q(k + 1) = IF k + 1 \in S THEN Append(q(k), k + 1) ELSE q(k)
          BY <1>3, PickedFirst
    <3>4. k + 1 \in 0..MaxMsgs
          BY <1>1, <1>3
    <3> QED  BY <3>1, <3>2, <3>3, <3>4 DEF Rank
  <2>2. Placed(k)
        BY <1>3
  <2>3. (1..(k + 1)) \cap S \subseteq ((1..k) \cap S) \cup ({k + 1} \cap S)
        BY <1>3
  <2> HIDE DEF q
  <2>4. ASSUME NEW x \in (1..k) \cap S
        PROVE  Rank(x, S) \in 1..Len(q(k + 1)) /\ q(k + 1)[Rank(x, S)] = x
    <3>1. Rank(x, S) \in 1..Len(q(k)) /\ q(k)[Rank(x, S)] = x
          BY <2>2, <2>4
    <3>2. /\ Rank(x, S) \in 1..Len(Append(q(k), k + 1))
          /\ Append(q(k), k + 1)[Rank(x, S)] = q(k)[Rank(x, S)]
          BY <2>1, <3>1
    <3> QED  BY <2>1, <3>1, <3>2, Zenon
  <2>5. ASSUME k + 1 \in S
        PROVE  /\ Rank(k + 1, S) \in 1..Len(q(k + 1))
               /\ q(k + 1)[Rank(k + 1, S)] = k + 1
        BY <2>1, <2>5
  <2>6. Placed(k + 1)
        BY <2>3, <2>4, <2>5
  <2> QED  BY <2>1, <2>6
<1>4. n \in G
  <2> HIDE DEF G
  <2>1. 0..MaxMsgs \subseteq G
        BY <1>1, <1>2, <1>3, UpTo
  <2> QED  BY <2>1
<1> QED  BY <1>4
\* In ident order, two messages are at least as far apart as their places.
LEMMA OrderedGap ==
    ASSUME NEW ms \in Seq(Msgs), Ordered(ms), NEW i \in 1..Len(ms), NEW j \in 1..Len(ms), i <= j
    PROVE  ms[i] + (j - i) <= ms[j]
<1> DEFINE N == Len(ms) - i
           G == {d \in 0..N : ms[i] + d <= ms[i + d]}
<1>1. /\ Len(ms) \in Nat /\ N \in Nat /\ i \in Nat /\ j \in Nat
      /\ \A k \in 1..Len(ms) : ms[k] \in Int
      BY MessagesAssumption DEF Msgs
<1>2. 0 \in G
      BY <1>1
<1>3. ASSUME NEW d \in 0..N, d \in G, d < N PROVE d + 1 \in G
  <2>1. i + d \in 1..Len(ms) /\ (i + d) + 1 \in 1..Len(ms) /\ i + (d + 1) = (i + d) + 1
        BY <1>1, <1>3
  <2>2. ms[i + d] < ms[(i + d) + 1]
        BY <2>1 DEF Ordered
  <2>3. ms[i] + d <= ms[i + d]
        BY <1>3
  <2>4. ms[i] + (d + 1) <= ms[(i + d) + 1]
        BY <1>1, <2>1, <2>2, <2>3
  <2> QED  BY <1>1, <1>3, <2>1, <2>4
<1>4. 0..N \subseteq G
  <2> HIDE DEF G, N
  <2> QED  BY <1>1, <1>2, <1>3, UpTo
<1>5. j - i \in 0..N /\ i + (j - i) = j
      BY <1>1
<1> QED  BY <1>4, <1>5

LEMMA OrderedAppend ==
    ASSUME NEW ms \in Seq(Msgs), Ordered(ms), NEW x \in Msgs, \A y \in ToSet(ms) : y < x
    PROVE  Ordered(Append(ms, x))
<1> SUFFICES ASSUME NEW i \in 1..Len(Append(ms, x)), NEW j \in 1..Len(Append(ms, x)), i < j
             PROVE  Append(ms, x)[i] < Append(ms, x)[j]
    BY DEF Ordered
<1>1. i \in 1..Len(ms) /\ Append(ms, x)[i] = ms[i] /\ ms[i] \in ToSet(ms)
      BY DEF ToSet
<1>2. CASE j \in 1..Len(ms)
  <2>1. Append(ms, x)[j] = ms[j] /\ ms[i] < ms[j]
        BY <1>1, <1>2 DEF Ordered
  <2> QED  BY <1>1, <2>1
<1>3. CASE j = Len(ms) + 1
  <2>1. Append(ms, x)[j] = x
        BY <1>3
  <2> QED  BY <1>1, <2>1
<1> QED  BY <1>2, <1>3

\* The places and the ranks, in the whole source, of the messages picked of
\* its first i ones.
PlacesOf(ms, S, i, q) ==
    \A p \in 1..Len(q) :
        \E k \in 1..i : /\ q[p] = ms[k] /\ ms[k] \in S
                        /\ p <= Rank(ms[k], S) /\ Rank(ms[k], S) <= p + (ms[k] - k)

\* A message picked of an ordered sequence is picked no later than its rank,
\* and as much earlier at most as messages before it are missing.
LEMMA PickedPlaces ==
    ASSUME NEW ms \in Seq(Msgs), Ordered(ms), NEW S
    PROVE  /\ Ordered(Picked(ms, S))
           /\ PlacesOf(ms, S, Len(ms), Picked(ms, S))
<1> DEFINE N == Len(ms)
           top(i) == IF i = 0 THEN 0 ELSE ms[i]
<1>1. /\ N \in Nat /\ MaxMsgs \in Nat
      /\ \A i \in 0..N : top(i) \in 0..MaxMsgs /\ Rank(top(i), S) \in Nat
      /\ \A i \in 1..N : ms[i] \in Msgs /\ ms[i] \in 1..MaxMsgs
  <2>1. N \in Nat /\ MaxMsgs \in Nat
        BY MessagesAssumption
  <2>2. \A i \in 1..N : ms[i] \in Msgs /\ ms[i] \in 1..MaxMsgs
    <3>1. \A i \in 1..N : ms[i] \in Msgs
          OBVIOUS
    <3> QED  BY <3>1, Zenon DEF Msgs
  <2>3. \A i \in 0..N : top(i) \in 0..MaxMsgs
        BY <2>1, <2>2
  <2> HIDE DEF top
  <2>4. \A i \in 0..N : Rank(top(i), S) \in Nat
        BY <2>3, RankStep
  <2> QED  BY <2>1, <2>2, <2>3, <2>4
<1>2. PICK f : /\ \A i \in 0..N : f[i] = PickedStep(ms, S, f, i)
               /\ Picked(ms, S) = f[N]
      BY <1>1, PickedFunction
<1> DEFINE Good(i) == /\ f[i] \in Seq(Msgs) /\ Ordered(f[i]) /\ PlacesOf(ms, S, i, f[i])
                      /\ Len(f[i]) <= Rank(top(i), S)
                      /\ Rank(top(i), S) <= Len(f[i]) + (top(i) - i)
           G == {i \in 0..N : Good(i)}
<1>3. 0 \in G
  <2>1. f[0] = <<>> /\ 0 \in 0..N /\ top(0) = 0
        BY <1>1, <1>2 DEF PickedStep
  <2>2. Rank(0, S) = 0
        BY RankStep
  <2>3. f[0] \in Seq(Msgs) /\ Len(f[0]) = 0
        BY <2>1
  <2>4. Ordered(f[0]) /\ PlacesOf(ms, S, 0, f[0])
        BY <2>3 DEF Ordered, PlacesOf
  <2>5. Len(f[0]) <= Rank(top(0), S) /\ Rank(top(0), S) <= Len(f[0]) + (top(0) - 0)
        BY <2>1, <2>2, <2>3
  <2> QED  BY <2>1, <2>3, <2>4, <2>5
<1>4. ASSUME NEW i \in 0..N, i \in G, i < N PROVE i + 1 \in G
  <2> DEFINE m == ms[i + 1]
             a == top(i)
  <2>1. /\ i + 1 \in 1..N /\ i + 1 \in 0..N /\ i + 1 # 0 /\ (i + 1) - 1 = i
        /\ m \in Msgs /\ m \in 1..MaxMsgs /\ m \in Int /\ m - 1 \in 0..MaxMsgs
        /\ top(i + 1) = m /\ i \in Int
        BY <1>1, <1>4
  <2>2. Good(i)
        BY <1>4
  <2>3. a \in 0..MaxMsgs /\ a < m /\ a \in Int
    <3>1. CASE i = 0
      <4>1. a = 0 /\ 0 \in 0..MaxMsgs /\ 0 < m
            BY <1>1, <2>1, <3>1
      <4> QED  BY <4>1
    <3>2. CASE i # 0
      <4>1. i \in 1..N /\ a = ms[i]
            BY <1>1, <3>2
      <4>2. ms[i] < ms[i + 1]
            BY <2>1, <4>1 DEF Ordered
      <4> QED  BY <1>1, <2>1, <4>1, <4>2
    <3> QED  BY <3>1, <3>2
  <2>4. /\ Rank(a, S) <= Rank(m - 1, S) /\ Rank(m - 1, S) <= Rank(a, S) + ((m - 1) - a)
        /\ Rank(m, S) = IF m \in S THEN Rank(m - 1, S) + 1 ELSE Rank(m - 1, S)
        /\ Rank(a, S) \in Nat /\ Rank(m - 1, S) \in Nat
    <3> HIDE DEF m, a
    <3>1. a <= m - 1 /\ m - 1 < MaxMsgs /\ (m - 1) + 1 = m
          BY <1>1, <2>1, <2>3
    <3>2. Rank(a, S) <= Rank(m - 1, S) /\ Rank(m - 1, S) <= Rank(a, S) + ((m - 1) - a)
          BY <2>1, <2>3, <3>1, RankBetween
    <3>3. Rank((m - 1) + 1, S) = IF (m - 1) + 1 \in S THEN Rank(m - 1, S) + 1 ELSE Rank(m - 1, S)
          BY <2>1, <3>1, RankStep, Zenon
    <3>4. Rank(a, S) \in Nat /\ Rank(m - 1, S) \in Nat
          BY <2>1, <2>3, RankStep
    <3> QED  BY <3>1, <3>2, <3>3, <3>4
  <2>5. f[i + 1] = IF m \in S THEN Append(f[i], m) ELSE f[i]
        BY <1>2, <2>1 DEF PickedStep
  <2>6. /\ f[i] \in Seq(Msgs) /\ Ordered(f[i]) /\ PlacesOf(ms, S, i, f[i])
        /\ Len(f[i]) <= Rank(a, S) /\ Rank(a, S) <= Len(f[i]) + (a - i) /\ Len(f[i]) \in Nat
        BY <2>2
  <2> HIDE DEF m, a, top
  <2>7. CASE m \notin S
    <3>1. f[i + 1] = f[i]
          BY <2>5, <2>7
    <3>2. Rank(m, S) = Rank(m - 1, S)
          BY <2>4, <2>7
    <3>3. /\ Len(f[i]) <= Rank(m, S)
          /\ Rank(m, S) <= Len(f[i]) + (m - (i + 1))
          BY <2>1, <2>3, <2>4, <2>6, <3>2
    <3>4. PlacesOf(ms, S, i + 1, f[i])
      <4>1. 1..i \subseteq 1..(i + 1)
            BY <2>1
      <4> QED  BY <2>6, <4>1 DEF PlacesOf
    <3>5. Good(i + 1)
          BY <2>1, <2>6, <3>1, <3>3, <3>4
    <3> QED  BY <2>1, <3>5
  <2>8. CASE m \in S
    <3>1. /\ f[i + 1] = Append(f[i], m) /\ f[i + 1] \in Seq(Msgs)
          /\ Len(f[i + 1]) = Len(f[i]) + 1
          BY <2>1, <2>5, <2>6, <2>8
    <3>2. Rank(m, S) = Rank(m - 1, S) + 1
          BY <2>4, <2>8
    <3>3. /\ Len(f[i]) + 1 <= Rank(m, S)
          /\ Rank(m, S) <= (Len(f[i]) + 1) + (m - (i + 1))
          BY <2>1, <2>3, <2>4, <2>6, <3>2, SMTT(20)
    <3>4. \A y \in ToSet(f[i]) : y < m
      <4> SUFFICES ASSUME NEW p \in 1..Len(f[i]) PROVE f[i][p] < m
          BY DEF ToSet
      <4>1. PICK k \in 1..i : f[i][p] = ms[k]
            BY <2>6 DEF PlacesOf
      <4>2. k \in 1..N /\ k < i + 1
            BY <1>1, <2>1
      <4> QED  BY <2>1, <4>1, <4>2 DEF Ordered, m
    <3>5. Ordered(f[i + 1])
          BY <2>1, <2>6, <3>1, <3>4, OrderedAppend
    <3>6. PlacesOf(ms, S, i + 1, f[i + 1])
      <4> SUFFICES ASSUME NEW p \in 1..Len(f[i + 1])
                   PROVE  \E k \in 1..(i + 1) :
                             /\ f[i + 1][p] = ms[k] /\ ms[k] \in S
                             /\ p <= Rank(ms[k], S) /\ Rank(ms[k], S) <= p + (ms[k] - k)
          BY DEF PlacesOf
      <4>1. CASE p \in 1..Len(f[i])
        <5>1. f[i + 1][p] = f[i][p] /\ 1..i \subseteq 1..(i + 1)
              BY <2>1, <2>6, <3>1, <4>1
        <5> QED  BY <2>6, <4>1, <5>1 DEF PlacesOf
      <4>2. CASE p = Len(f[i]) + 1
        <5>1. f[i + 1][p] = m /\ m = ms[i + 1] /\ i + 1 \in 1..(i + 1)
              BY <2>1, <2>6, <3>1, <4>2 DEF m
        <5>2. p <= Rank(m, S) /\ Rank(m, S) <= p + (m - (i + 1))
              BY <3>3, <4>2
        <5> QED  BY <2>8, <5>1, <5>2
      <4> QED  BY <2>6, <3>1, <4>1, <4>2
    <3>7. Good(i + 1)
          BY <2>1, <3>1, <3>3, <3>5, <3>6
    <3> QED  BY <2>1, <3>7
  <2> QED  BY <2>7, <2>8
<1>5. N \in G
  <2> HIDE DEF G, N
  <2>1. 0..N \subseteq G
        BY <1>1, <1>3, <1>4, UpTo
  <2> QED  BY <1>1, <2>1
<1> QED  BY <1>2, <1>5
\* Of an ordered selection of the first n messages, the message picked at
\* place p has p messages of S up to it at least, and no more in addition than
\* the selection has left out.
LEMMA PickedRanks ==
    ASSUME NEW ms \in Seq(Msgs), Ordered(ms), NEW S, NEW n \in 0..MaxMsgs, ToSet(ms) \subseteq 1..n,
           NEW p \in 1..Len(Picked(ms, S))
    PROVE  /\ Picked(ms, S)[p] \in Msgs \cap S
           /\ p <= Rank(Picked(ms, S)[p], S)
           /\ Rank(Picked(ms, S)[p], S) + Len(ms) <= p + n
<1> DEFINE q == Picked(ms, S)
<1>1. PICK k \in 1..Len(ms) : /\ q[p] = ms[k] /\ ms[k] \in S
                              /\ p <= Rank(ms[k], S) /\ Rank(ms[k], S) <= p + (ms[k] - k)
      BY PickedPlaces DEF PlacesOf
<1> HIDE DEF q
<1> DEFINE l == Len(ms)
<1>2. l \in 1..l /\ l \in Int /\ k \in Int /\ k <= l /\ n \in Int /\ ms[k] \in Msgs /\ ms[l] \in ToSet(ms)
      BY MessagesAssumption DEF ToSet
<1>3. ms[k] + (l - k) <= ms[l] /\ ms[l] <= n /\ ms[k] \in Int /\ ms[l] \in Int
  <2>1. ms[k] + (l - k) <= ms[l]
        BY <1>2, OrderedGap
  <2>2. ms[l] \in 1..n
        BY <1>2
  <2> QED  BY <1>2, <2>1, <2>2 DEF Msgs
<1>4. Rank(ms[k], S) \in Int /\ p \in Int
  <2>1. MaxMsgs \in Nat /\ ms[k] \in 1..MaxMsgs
        BY <1>2, MessagesAssumption DEF Msgs
  <2>2. ms[k] \in 0..MaxMsgs
        BY <2>1
  <2>3. Picked(ms, S) \in Seq(Msgs)
        BY PickedMembers
  <2>4. Len(Picked(ms, S)) \in Nat /\ p \in Int
        BY <2>3
  <2>5. Rank(ms[k], S) \in Nat
        BY <2>2, RankStep
  <2> QED  BY <2>4, <2>5
<1> HIDE DEF l
<1>5. Rank(ms[k], S) + l <= p + n
      BY <1>1, <1>2, <1>3, <1>4
<1> QED  BY <1>1, <1>2, <1>5 DEF q, l

\* Ranks grow with the messages picked.
LEMMA RankGrows ==
    ASSUME NEW S, NEW a \in 0..MaxMsgs, NEW b \in 0..MaxMsgs, a < b, b \in S
    PROVE  Rank(a, S) < Rank(b, S)
<1> DEFINE c == b - 1
<1>1. MaxMsgs \in Nat
      BY MessagesAssumption
<1>2. c \in 0..MaxMsgs /\ c < MaxMsgs /\ c + 1 = b /\ a <= c
      BY <1>1
<1> HIDE DEF c
<1>3. Rank(a, S) \in Nat /\ Rank(b, S) \in Nat /\ Rank(c, S) \in Nat
      BY <1>2, RankStep
<1>4. Rank(c + 1, S) = Rank(c, S) + 1
      BY <1>2, RankStep
<1>5. Rank(a, S) <= Rank(c, S)
      BY <1>2, RankBetween
<1> QED  BY <1>2, <1>3, <1>4, <1>5

\* Among the first n messages each stands where its rank says.
LEMMA FirstRanks ==
    ASSUME NEW S, NEW n \in 0..MaxMsgs, NEW p \in 1..Len(Picked(FirstMsgs(n), S))
    PROVE  /\ Picked(FirstMsgs(n), S)[p] \in S \cap (1..n)
           /\ Rank(Picked(FirstMsgs(n), S)[p], S) = p
<1> DEFINE ms == FirstMsgs(n)
           q == Picked(ms, S)
<1>1. ms \in Seq(Msgs) /\ Len(ms) = n /\ MaxMsgs \in Nat /\ n \in Nat
      BY FirstMsgsSeq, MessagesAssumption
<1>2. Ordered(ms) /\ ToSet(ms) \subseteq 1..n
      BY <1>1 DEF Ordered, FirstMsgs, ToSet
<1>3. q \in Seq(Msgs) /\ ToSet(q) = ToSet(ms) \cap S
      BY <1>1, PickedMembers
<1>4. p \in 1..Len(q)
      OBVIOUS
<1> HIDE DEF ms
<1>5. p <= Rank(q[p], S) /\ Rank(q[p], S) + Len(ms) <= p + n
      BY <1>1, <1>2, <1>4, PickedRanks
<1> HIDE DEF q
<1>6. q[p] \in ToSet(q)
      BY <1>3, <1>4 DEF ToSet
<1>7. q[p] \in S \cap (1..n)
      BY <1>2, <1>3, <1>6
<1>8. Rank(q[p], S) \in Nat
  <2>1. q[p] \in 0..MaxMsgs
        BY <1>1, <1>7
  <2> QED  BY <2>1, RankStep
<1>9. Rank(q[p], S) = p
      BY <1>1, <1>4, <1>5, <1>8
<1> QED  BY <1>7, <1>9 DEF q, ms

\* N numbers that grow and are all those up to some T but for the L after a: the
\* first a stand where they would without the gap, the others L earlier.
Gapped(N, f, a, L) ==
    /\ \A p \in 1..N : f[p] \in Nat /\ f[p] >= 1
    /\ \A p, q \in 1..N : p < q => f[p] < f[q]
    /\ \A p \in 1..N : f[p] <= a \/ f[p] > a + L
    /\ \A p \in 1..N : \A t \in 1..f[p] : (t <= a \/ t > a + L) => \E q \in 1..N : f[q] = t
LEMMA GapPlaces ==
    ASSUME NEW N \in Nat, NEW f, NEW a \in Nat, NEW L \in Nat, Gapped(N, f, a, L)
    PROVE  \A p \in 1..N : f[p] = IF p <= a THEN p ELSE p + L
<1>0. /\ \A p \in 1..N : f[p] \in Nat /\ f[p] >= 1
      /\ \A p, q \in 1..N : p < q => f[p] < f[q]
      /\ \A p \in 1..N : f[p] <= a \/ f[p] > a + L
      /\ \A p \in 1..N : \A t \in 1..f[p] : (t <= a \/ t > a + L) => \E q \in 1..N : f[q] = t
      BY DEF Gapped
<1> DEFINE g(p) == IF p <= a THEN p ELSE p + L
           G == {n \in 0..N : \A p \in 1..n : f[p] = g(p)}
<1>1. 0 \in G
      OBVIOUS
<1>2. ASSUME NEW n \in 0..N, n \in G, n < N PROVE n + 1 \in G
  <2> DEFINE p == n + 1
  <2>1. p \in 1..N /\ p \in Nat /\ f[p] \in Nat /\ f[p] >= 1
        BY <1>0, <1>2
  <2>2. f[p] >= g(p)
    <3>1. CASE n = 0
      <4>1. p = 1 /\ g(p) = IF 1 <= a THEN 1 ELSE 1 + L
            BY <3>1
      <4>2. f[p] <= a \/ f[p] > a + L
            BY <1>0, <2>1
      <4> QED  BY <2>1, <4>1, <4>2
    <3>2. CASE n > 0
      <4>1. n \in 1..N /\ f[n] = g(n) /\ f[n] < f[p]
            BY <1>0, <1>2, <2>1, <3>2
      <4>2. f[p] <= a \/ f[p] > a + L
            BY <1>0, <2>1
      <4>3. f[n] \in Nat
            BY <1>0, <4>1
      <4> QED  BY <2>1, <4>1, <4>2, <4>3, <3>2
    <3> QED  BY <1>2, <3>1, <3>2
  <2>3. g(p) \in 1..f[p] /\ (g(p) <= a \/ g(p) > a + L)
        BY <2>1, <2>2
  <2>4. PICK q \in 1..N : f[q] = g(p)
        BY <1>0, <2>1, <2>3
  <2>5. ~(q < p)
    <3> SUFFICES ASSUME q < p PROVE FALSE
        OBVIOUS
    <3>1. q \in 1..n
          BY <1>2
    <3>2. f[q] = g(q)
          BY <1>2, <3>1
    <3> QED  BY <2>4, <3>1, <3>2
  <2>6. f[p] = g(p)
    <3>1. q = p \/ f[p] < f[q]
          BY <1>0, <2>1, <2>5
    <3> QED  BY <2>1, <2>2, <2>4, <3>1
  <2>7. \A k \in 1..p : k = p \/ k \in 1..n
        BY <1>2
  <2>8. \A k \in 1..p : f[k] = g(k)
        BY <1>2, <2>6, <2>7
  <2> QED  BY <2>1, <2>8
<1>3. 0..N \subseteq G
  <2> HIDE DEF G
  <2> QED  BY <1>1, <1>2, UpTo
<1>4. N \in G
      BY <1>3
<1> QED  BY <1>4

----------------------------------------------------------------------------
(***************************************************************************)
(* Sequences one after the other, and the beginning of a sequence.          *)
(***************************************************************************)
\* One step of FlattenSeq's function, for the function f.
JoinStep(ss, f, i) == IF i = 1 THEN ss[i] ELSE f[i - 1] \o ss[i]

LEMMA JoinExists ==
    ASSUME NEW ss, NEW N \in Nat
    PROVE  \E f : f = [i \in 1..N |-> JoinStep(ss, f, i)]
<1> DEFINE G == {n \in Nat : \E f : f = [i \in 1..n |-> JoinStep(ss, f, i)]}
<1>1. 0 \in G
  <2>1. [i \in 1..0 |-> <<>>] = [i \in 1..0 |-> JoinStep(ss, [j \in 1..0 |-> <<>>], i)]
        OBVIOUS
  <2> QED  BY <2>1
<1>2. ASSUME NEW n \in 0..N, n \in G PROVE n + 1 \in G
  <2>1. PICK f : f = [i \in 1..n |-> JoinStep(ss, f, i)]
        BY <1>2
  <2> DEFINE g == [i \in 1..(n + 1) |-> IF i = n + 1 THEN JoinStep(ss, f, i) ELSE f[i]]
  <2>2. ASSUME NEW i \in 1..(n + 1) PROVE g[i] = JoinStep(ss, g, i)
    <3>1. i # 1 => g[i - 1] = f[i - 1]
          OBVIOUS
    <3>2. JoinStep(ss, g, i) = JoinStep(ss, f, i)
      <4> HIDE DEF g
      <4> QED  BY <3>1 DEF JoinStep
    <3>3. i # n + 1 => f[i] = JoinStep(ss, f, i)
      <4>1. i # n + 1 => i \in 1..n
            OBVIOUS
      <4> QED  BY <2>1, <4>1
    <3>4. g[i] = JoinStep(ss, f, i)
          BY <3>3
    <3> QED  BY <3>2, <3>4
  <2>3. g = [i \in 1..(n + 1) |-> g[i]]
        OBVIOUS
  <2> HIDE DEF g
  <2>4. g = [i \in 1..(n + 1) |-> JoinStep(ss, g, i)]
        BY <2>2, <2>3
  <2>5. n + 1 \in Nat
        OBVIOUS
  <2> QED  BY <2>4, <2>5
<1>3. 0..N \subseteq G
  <2> HIDE DEF G
  <2> QED  BY <1>1, <1>2, UpTo
<1> QED  BY <1>3

\* Sequences stand one after the other, from the places "at".
Joins(ss, t, at) ==
    /\ at[0] = 0 /\ at[Len(ss)] = Len(t)
    /\ \A i \in 0..Len(ss) : at[i] \in 0..Len(t)
    /\ \A i \in 1..Len(ss) : /\ at[i] = at[i - 1] + Len(ss[i])
                             /\ \A j \in 1..Len(ss[i]) : t[at[i - 1] + j] = ss[i][j]

LEMMA JoinOne ==
    ASSUME NEW R, NEW s \in Seq(R), NEW t \in Seq(R)
    PROVE  /\ s \o t \in Seq(R) /\ Len(s) \in Nat /\ Len(t) \in Nat
           /\ Len(s \o t) = Len(s) + Len(t)
           /\ \A k \in 1..Len(s) : (s \o t)[k] = s[k]
           /\ \A j \in 1..Len(t) : (s \o t)[Len(s) + j] = t[j]
OBVIOUS

LEMMA FlattenJoins ==
    ASSUME NEW R, NEW ss \in Seq(Seq(R))
    PROVE  FlattenSeq(ss) \in Seq(R) /\ \E at : Joins(ss, FlattenSeq(ss), at)
<1> DEFINE N == Len(ss)
           f == CHOOSE f : f = [i \in 1..N |-> JoinStep(ss, f, i)]
           at == [i \in 0..N |-> IF i = 0 THEN 0 ELSE Len(f[i])]
<1>1. N \in Nat /\ \A i \in 1..N : ss[i] \in Seq(R)
      OBVIOUS
<1>2. CASE N = 0
  <2>1. FlattenSeq(ss) = ss /\ ss \in Seq(R) /\ Len(ss) = 0
    <3>1. FlattenSeq(ss) = ss
          BY <1>2, Zenon DEF FlattenSeq
    <3> QED  BY <1>2, <3>1
  <2>2. Joins(ss, ss, [i \in 0..0 |-> 0])
        BY <2>1 DEF Joins
  <2> QED  BY <2>1, <2>2
<1>3. CASE N # 0
  <2>1. f = [i \in 1..N |-> JoinStep(ss, f, i)]
        BY <1>1, JoinExists, Zenon
  <2>2. FlattenSeq(ss) = f[N]
        BY <1>3, Zenon DEF FlattenSeq, JoinStep
  <2> HIDE DEF f
  <2>3. \A i \in 1..N : f[i] = IF i = 1 THEN ss[i] ELSE f[i - 1] \o ss[i]
        BY <2>1 DEF JoinStep
  <2> DEFINE Good(k) ==
                 /\ f[k] \in Seq(R) /\ Len(f[k]) \in Nat
                 /\ at[k] = Len(f[k])
                 /\ \A i \in 0..k : at[i] \in 0..Len(f[k])
                 /\ \A i \in 1..k : /\ at[i] = at[i - 1] + Len(ss[i])
                                    /\ \A j \in 1..Len(ss[i]) : f[k][at[i - 1] + j] = ss[i][j]
             G == {k \in 0..N : k > 0 => Good(k)}
  <2>4. 0 \in G
        BY <1>1
  <2>5. ASSUME NEW k \in 0..N, k \in G, k < N PROVE k + 1 \in G
    <3> DEFINE n == k + 1
               s == ss[n]
    <3>1. /\ n \in 1..N /\ n \in 0..N /\ n - 1 = k /\ s \in Seq(R) /\ Len(s) \in Nat
          /\ at[0] = 0 /\ at[n] = Len(f[n])
          BY <1>1, <2>5
    <3>2. CASE k = 0
      <4>1. n = 1 /\ f[n] = s
            BY <2>3, <3>1, <3>2
      <4>2. \A i \in 0..n : i = 0 \/ i = n
            BY <4>1
      <4>3. \A i \in 1..n : i = n
            BY <4>1
      <4> HIDE DEF at
      <4>4. \A i \in 0..n : at[i] \in 0..Len(f[n])
            BY <3>1, <4>1, <4>2
      <4>5. at[n] = at[n - 1] + Len(s)
            BY <3>1, <3>2, <4>1
      <4>6. \A j \in 1..Len(s) : f[n][at[n - 1] + j] = s[j]
            BY <3>1, <3>2, <4>1
      <4>7. Good(n)
            BY <3>1, <4>1, <4>3, <4>4, <4>5, <4>6
      <4> QED  BY <3>1, <4>7
    <3>3. CASE k # 0
      <4>0. k > 0 /\ n # 1
            BY <2>5, <3>3
      <4>1. Good(k)
        <5> HIDE DEF at, Good
        <5> QED  BY <2>5, <4>0
      <4> HIDE DEF at
      <4> DEFINE u == f[k]
      <4>2. f[n] = u \o s
        <5>1. f[n] = f[n - 1] \o ss[n]
          <6> HIDE DEF n
          <6> QED  BY <2>3, <3>1, <4>0
        <5> QED  BY <3>1, <5>1
      <4>3. /\ u \in Seq(R) /\ Len(u) \in Nat /\ at[k] = Len(u)
            /\ \A i \in 0..k : at[i] \in 0..Len(u)
            /\ \A i \in 1..k : /\ at[i] = at[i - 1] + Len(ss[i])
                               /\ \A j \in 1..Len(ss[i]) : u[at[i - 1] + j] = ss[i][j]
            BY <4>1
      <4> HIDE DEF u, s
      <4>4. /\ f[n] \in Seq(R) /\ Len(f[n]) = Len(u) + Len(s)
            /\ \A p \in 1..Len(u) : f[n][p] = u[p]
            /\ \A j \in 1..Len(s) : f[n][Len(u) + j] = s[j]
            BY <3>1, <4>2, <4>3, JoinOne
      <4>5. at[n] = at[n - 1] + Len(s)
            BY <3>1, <4>3, <4>4
      <4>6. \A i \in 0..n : at[i] \in 0..Len(f[n])
        <5>1. \A i \in 0..n : i \in 0..k \/ i = n
              BY <3>1
        <5> QED  BY <3>1, <4>3, <4>4, <5>1
      <4>7. ASSUME NEW i \in 1..n
            PROVE  /\ at[i] = at[i - 1] + Len(ss[i])
                   /\ \A j \in 1..Len(ss[i]) : f[n][at[i - 1] + j] = ss[i][j]
        <5>1. CASE i = n
              BY <3>1, <4>3, <4>4, <4>5, <5>1 DEF s
        <5>2. CASE i # n
          <6>1. i \in 1..k /\ i - 1 \in 0..k /\ i \in 1..N /\ i \in 0..k
                BY <3>1, <5>2
          <6>2. ASSUME NEW j \in 1..Len(ss[i]) PROVE f[n][at[i - 1] + j] = ss[i][j]
            <7> DEFINE l == Len(ss[i])
                       a == at[i - 1]
            <7>1. a \in 0..Len(u) /\ at[i] = a + l /\ at[i] \in 0..Len(u) /\ l \in Nat
                  BY <1>1, <4>3, <6>1
            <7>2. u[a + j] = ss[i][j] /\ j \in 1..l
                  BY <4>3, <6>1
            <7> HIDE DEF l, a
            <7>3. a + j \in 1..Len(u)
                  BY <4>3, <7>1, <7>2
            <7> QED  BY <4>4, <7>2, <7>3 DEF a
          <6> QED  BY <4>3, <6>1, <6>2
        <5> QED  BY <5>1, <5>2
      <4>8. Good(n)
            BY <3>1, <4>3, <4>4, <4>6, <4>7
      <4> QED  BY <3>1, <4>8
    <3> QED  BY <3>2, <3>3
  <2>6. N \in G
    <3> HIDE DEF G, N
    <3>1. 0..N \subseteq G
          BY <1>1, <2>4, <2>5, UpTo
    <3> QED  BY <1>1, <3>1
  <2>7. Good(N) /\ N > 0 /\ at[0] = 0
    <3>1. N > 0 /\ at[0] = 0
          BY <1>1, <1>3
    <3> HIDE DEF at, Good
    <3> QED  BY <2>6, <3>1
  <2> HIDE DEF at
  <2>8. Joins(ss, f[N], at)
        BY <1>1, <2>7 DEF Joins
  <2> QED  BY <2>2, <2>7, <2>8
<1> QED  BY <1>2, <1>3

\* A sequence is the beginning of another where they agree.
LEMMA PrefixByPlaces ==
    ASSUME NEW R, NEW s \in Seq(R), NEW t \in Seq(R), Len(s) <= Len(t),
           \A k \in 1..Len(s) : s[k] = t[k]
    PROVE  IsPrefix(s, t)
<1> DEFINE u == SubSeq(s, 1, Len(s))
           v == SubSeq(t, 1, Len(s))
<1>1. Len(s) \in Nat /\ Len(t) \in Nat
      OBVIOUS
<1>2. \A i \in 1..Len(s) : s[i] \in R /\ t[i] \in R
      BY <1>1
<1>3. /\ u \in Seq(R) /\ v \in Seq(R) /\ Len(u) = Len(s) /\ Len(v) = Len(s)
      /\ \A i \in 1..Len(s) : u[i] = s[i] /\ v[i] = t[i]
  <2>1. /\ u \in Seq(R) /\ Len(u) = (IF 1 <= Len(s) THEN Len(s) - 1 + 1 ELSE 0)
        /\ \A i \in 1..(Len(s) - 1 + 1) : u[i] = s[1 + i - 1]
        BY <1>1, <1>2, SubSeqProperties
  <2>2. /\ v \in Seq(R) /\ Len(v) = (IF 1 <= Len(s) THEN Len(s) - 1 + 1 ELSE 0)
        /\ \A i \in 1..(Len(s) - 1 + 1) : v[i] = t[1 + i - 1]
        BY <1>1, <1>2, SubSeqProperties
  <2> HIDE DEF u, v
  <2> QED  BY <1>1, <2>1, <2>2
<1> HIDE DEF u, v
<1>4. u = v
      BY <1>1, <1>3, SeqEqual
<1> QED  BY <1>4 DEF IsPrefix, u, v

LEMMA PlacesOfPrefix ==
    ASSUME NEW R, NEW s \in Seq(R), NEW t \in Seq(R), IsPrefix(s, t)
    PROVE  Len(s) <= Len(t) /\ \A k \in 1..Len(s) : s[k] = t[k]
<1> DEFINE u == SubSeq(s, 1, Len(s))
           v == SubSeq(t, 1, Len(s))
<1>1. Len(s) \in Nat /\ Len(t) \in Nat /\ Len(s) <= Len(t) /\ u = v
      BY DEF IsPrefix
<1>2. \A i \in 1..Len(s) : s[i] \in R /\ t[i] \in R
      BY <1>1
<1>3. \A i \in 1..Len(s) : u[i] = s[i] /\ v[i] = t[i]
  <2>1. \A i \in 1..(Len(s) - 1 + 1) : u[i] = s[1 + i - 1]
        BY <1>1, <1>2, SubSeqProperties
  <2>2. \A i \in 1..(Len(s) - 1 + 1) : v[i] = t[1 + i - 1]
        BY <1>1, <1>2, SubSeqProperties
  <2> HIDE DEF u, v
  <2> QED  BY <1>1, <2>1, <2>2
<1> HIDE DEF u, v
<1> QED  BY <1>1, <1>3

LEMMA PrefixOfAppend ==
    ASSUME NEW R, NEW s \in Seq(R), NEW t \in Seq(R), NEW x \in R, IsPrefix(s, t)
    PROVE  IsPrefix(s, Append(t, x))
<1>1. Len(s) <= Len(t) /\ \A k \in 1..Len(s) : s[k] = t[k]
      BY PlacesOfPrefix
<1>2. /\ Append(t, x) \in Seq(R) /\ Len(s) <= Len(Append(t, x))
      /\ \A k \in 1..Len(s) : s[k] = Append(t, x)[k]
      BY <1>1
<1> QED  BY <1>2, PrefixByPlaces

\* The first n elements, and one more.
LEMMA FirstOnes ==
    ASSUME NEW R, NEW s \in Seq(R), NEW n \in 0..Len(s)
    PROVE  /\ SubSeq(s, 1, n) \in Seq(R) /\ Len(SubSeq(s, 1, n)) = n
           /\ SubSeq(s, 1, Len(s)) = s
           /\ n < Len(s) =>
                  s[n + 1] \in R /\ SubSeq(s, 1, n + 1) = Append(SubSeq(s, 1, n), s[n + 1])
<1>1. Len(s) \in Nat /\ n \in Nat /\ \A i \in 1..Len(s) : s[i] \in R
      OBVIOUS
<1>2. ASSUME NEW k \in 0..Len(s)
      PROVE  /\ SubSeq(s, 1, k) \in Seq(R) /\ Len(SubSeq(s, 1, k)) = k
             /\ \A i \in 1..k : SubSeq(s, 1, k)[i] = s[i]
  <2> DEFINE u == SubSeq(s, 1, k)
  <2>1. k \in Int /\ \A i \in 1..k : s[i] \in R
        BY <1>1
  <2>2. /\ u \in Seq(R) /\ Len(u) = (IF 1 <= k THEN k - 1 + 1 ELSE 0)
        /\ \A i \in 1..(k - 1 + 1) : u[i] = s[1 + i - 1]
        BY <2>1, SubSeqProperties
  <2> HIDE DEF u
  <2>3. u \in Seq(R) /\ Len(u) = k /\ \A i \in 1..k : u[i] = s[i]
        BY <1>1, <2>2
  <2> QED  BY <2>3 DEF u
<1>3. SubSeq(s, 1, Len(s)) = s
  <2> DEFINE u == SubSeq(s, 1, Len(s))
  <2>1. u \in Seq(R) /\ Len(u) = Len(s) /\ \A i \in 1..Len(s) : u[i] = s[i]
        BY <1>1, <1>2
  <2> HIDE DEF u
  <2>2. u = s
        BY <2>1, SeqEqual
  <2> QED  BY <2>2 DEF u
<1>4. ASSUME n < Len(s)
      PROVE  s[n + 1] \in R /\ SubSeq(s, 1, n + 1) = Append(SubSeq(s, 1, n), s[n + 1])
  <2> DEFINE u == SubSeq(s, 1, n + 1)
             v == SubSeq(s, 1, n)
  <2>1. /\ n + 1 \in 0..Len(s) /\ s[n + 1] \in R
        BY <1>1, <1>4
  <2>2. /\ u \in Seq(R) /\ Len(u) = n + 1 /\ \A i \in 1..(n + 1) : u[i] = s[i]
        BY <1>2, <2>1
  <2>3. v \in Seq(R) /\ Len(v) = n /\ \A i \in 1..n : v[i] = s[i]
        BY <1>2
  <2> HIDE DEF u, v
  <2>4. /\ Append(v, s[n + 1]) \in Seq(R) /\ Len(Append(v, s[n + 1])) = n + 1
        /\ \A i \in 1..(n + 1) : Append(v, s[n + 1])[i] = s[i]
        BY <2>1, <2>3
  <2>5. u = Append(v, s[n + 1])
        BY <2>2, <2>4, SeqEqual
  <2> QED  BY <2>1, <2>5 DEF u, v
<1> QED  BY <1>2, <1>3, <1>4

\* What is picked of the beginning of a sequence is the beginning of what is
\* picked of it.
LEMMA PickedBeginning ==
    ASSUME NEW s \in Seq(Msgs), NEW S, NEW n \in 0..Len(s)
    PROVE  /\ Picked(SubSeq(s, 1, n), S) \in Seq(Msgs)
           /\ IsPrefix(Picked(SubSeq(s, 1, n), S), Picked(s, S))
           /\ n < Len(s) =>
                 Picked(SubSeq(s, 1, n + 1), S) =
                     IF s[n + 1] \in S THEN Append(Picked(SubSeq(s, 1, n), S), s[n + 1])
                                       ELSE Picked(SubSeq(s, 1, n), S)
<1> DEFINE N == Len(s)
           p(k) == Picked(SubSeq(s, 1, k), S)
<1>1. N \in Nat /\ n \in 0..N
      OBVIOUS
<1>2. ASSUME NEW k \in 0..N
      PROVE  /\ p(k) \in Seq(Msgs) /\ Len(p(k)) \in Nat
             /\ k < N => /\ s[k + 1] \in Msgs
                         /\ p(k + 1) = IF s[k + 1] \in S THEN Append(p(k), s[k + 1]) ELSE p(k)
  <2> DEFINE u == SubSeq(s, 1, k)
             x == s[k + 1]
  <2>1. u \in Seq(Msgs) /\ (k < N => x \in Msgs /\ SubSeq(s, 1, k + 1) = Append(u, x))
        BY FirstOnes
  <2> HIDE DEF u, x
  <2>2. Picked(u, S) \in Seq(Msgs)
        BY <2>1, PickedMembers
  <2>3. ASSUME k < N
        PROVE  Picked(Append(u, x), S) = IF x \in S THEN Append(Picked(u, S), x) ELSE Picked(u, S)
    <3>1. u \in Seq(Msgs) /\ x \in Msgs
          BY <2>1, <2>3
    <3>2. \A ms \in Seq(Msgs), y \in Msgs :
              Picked(Append(ms, y), S) = IF y \in S THEN Append(Picked(ms, S), y) ELSE Picked(ms, S)
          BY PickedAppend
    <3> QED  BY <3>1, <3>2, Zenon
  <2>4. p(k) = Picked(u, S) /\ (k < N => p(k + 1) = Picked(Append(u, x), S))
        BY <2>1, Zenon DEF u
  <2> HIDE DEF p
  <2>5. p(k) \in Seq(Msgs) /\ Len(p(k)) \in Nat
        BY <2>2, <2>4
  <2>6. ASSUME k < N
        PROVE  x \in Msgs /\ p(k + 1) = IF x \in S THEN Append(p(k), x) ELSE p(k)
        BY <2>1, <2>3, <2>4, <2>6
  <2> QED  BY <2>5, <2>6 DEF x
<1>3. p(N) = Picked(s, S)
      BY <1>1, FirstOnes
<1> HIDE DEF p
<1> DEFINE M == N - n
           G == {d \in 0..M : IsPrefix(p(n), p(n + d))}
<1>4. 0 \in G /\ M \in Nat
  <2>1. IsPrefix(p(n), p(n))
        BY <1>1, <1>2, PrefixByPlaces
  <2> QED  BY <1>1, <2>1
<1>5. ASSUME NEW d \in 0..M, d \in G, d < M PROVE d + 1 \in G
  <2> DEFINE k == n + d
  <2>1. k \in 0..N /\ k < N /\ n + (d + 1) = k + 1 /\ d + 1 \in 0..M
        BY <1>1, <1>5
  <2>2. IsPrefix(p(n), p(k))
        BY <1>5
  <2> HIDE DEF k
  <2>3. p(n) \in Seq(Msgs) /\ p(k) \in Seq(Msgs) /\ s[k + 1] \in Msgs
        BY <1>1, <1>2, <2>1
  <2>4. IsPrefix(p(n), Append(p(k), s[k + 1]))
        BY ONLY <2>2, <2>3, PrefixOfAppend
  <2>5. IsPrefix(p(n), p(k + 1))
        BY <1>2, <2>1, <2>2, <2>4
  <2> QED  BY <2>1, <2>5
<1>6. 0..M \subseteq G
  <2> HIDE DEF G, M
  <2> QED  BY <1>4, <1>5, UpTo
<1>7. M \in G /\ n + M = N
      BY <1>1, <1>4, <1>6
<1>8. IsPrefix(p(n), p(N))
      BY <1>7
<1>9. p(n) \in Seq(Msgs)
      BY <1>1, <1>2
<1>10. n < N => p(n + 1) = IF s[n + 1] \in S THEN Append(p(n), s[n + 1]) ELSE p(n)
      BY <1>1, <1>2
<1> QED  BY <1>3, <1>8, <1>9, <1>10 DEF p
===============================================================================
