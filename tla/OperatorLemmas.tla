--------------------------- MODULE OperatorLemmas ---------------------------
(***************************************************************************)
(* Facts about the operators that the proofs about several components use: *)
(* the operators on sequences, and the module graph validation, which      *)
(* ModuleGraph runs step by step and Kernel calls as a function.           *)
(***************************************************************************)
EXTENDS Integers, Subsequences, ModuleGraphOps, SequenceTheorems, FiniteSetTheorems, TLAPS

\* Taking the first element off a nonempty sequence.
LEMMA TailFacts ==
  ASSUME NEW S, NEW s \in Seq(S), s # <<>>
  PROVE  /\ Head(s) \in S /\ Head(s) = s[1]
         /\ Len(s) \in Nat \ {0}
         /\ Tail(s) \in Seq(S)
         /\ Len(Tail(s)) = Len(s) - 1
         /\ \A i \in 1..(Len(s) - 1) : Tail(s)[i] = s[i + 1]
BY HeadTailProperties

\* Appending an element.
LEMMA AppendFacts ==
  ASSUME NEW S, NEW s \in Seq(S), NEW e \in S
  PROVE  /\ Append(s, e) \in Seq(S)
         /\ Len(s) \in Nat
         /\ Len(Append(s, e)) = Len(s) + 1
         /\ DOMAIN Append(s, e) = 1..(Len(s) + 1)
         /\ \A i \in 1..Len(s) : Append(s, e)[i] = s[i]
         /\ Append(s, e)[Len(s) + 1] = e
BY AppendProperties

\* Reversing a sequence.
LEMMA ReverseFacts ==
  ASSUME NEW S, NEW s \in Seq(S)
  PROVE  /\ Reverse(s) \in Seq(S)
         /\ Len(Reverse(s)) = Len(s) /\ Len(s) \in Nat
         /\ \A i \in 1..Len(s) : Reverse(s)[i] = s[(Len(s) - i) + 1]
<1>1. Len(s) \in Nat /\ DOMAIN s = 1..Len(s)
  OBVIOUS
<1>2. \A i \in 1..Len(s) : s[(Len(s) - i) + 1] \in S
  <2> SUFFICES ASSUME NEW i \in 1..Len(s) PROVE s[(Len(s) - i) + 1] \in S
    OBVIOUS
  <2>1. (Len(s) - i) + 1 \in 1..Len(s)
    BY <1>1
  <2> QED BY <2>1
<1>3. Reverse(s) \in [1..Len(s) -> S]
  BY <1>2 DEF Reverse
<1>4. Reverse(s) \in Seq(S)
  BY <1>1, <1>3, SeqDef
<1>5. Len(Reverse(s)) = Len(s)
  BY <1>1, <1>3, <1>4
<1> QED BY <1>1, <1>4, <1>5 DEF Reverse

\* Removing the element at a position.
LEMMA RemoveAtFacts ==
  ASSUME NEW S, NEW s \in Seq(S), NEW i \in 1..Len(s)
  PROVE  /\ RemoveAt(s, i) \in Seq(S)
         /\ Len(RemoveAt(s, i)) = Len(s) - 1 /\ Len(s) \in Nat
         /\ \A j \in 1..(Len(s) - 1) : RemoveAt(s, i)[j] = IF j < i THEN s[j] ELSE s[j + 1]
<1> DEFINE before == SubSeq(s, 1, i - 1)
           after == SubSeq(s, i + 1, Len(s))
<1>1. Len(s) \in Nat /\ i \in Nat /\ 1 <= i /\ i <= Len(s)
  OBVIOUS
<1>2. /\ before \in Seq(S) /\ Len(before) = i - 1
      /\ \A j \in 1..(i - 1) : before[j] = s[j]
  <2>1. \A j \in 1..(i - 1) : s[j] \in S
    BY <1>1
  <2> QED BY <1>1, <2>1, SubSeqProperties
<1>3. /\ after \in Seq(S) /\ Len(after) = Len(s) - i
      /\ \A j \in 1..(Len(s) - i) : after[j] = s[i + j]
  <2>1. \A j \in (i + 1)..Len(s) : s[j] \in S
    BY <1>1
  <2>2. /\ after \in Seq(S)
        /\ Len(after) = IF i + 1 <= Len(s) THEN Len(s) - (i + 1) + 1 ELSE 0
        /\ \A j \in 1..(Len(s) - (i + 1) + 1) : after[j] = s[(i + 1) + j - 1]
    BY <1>1, <2>1, SubSeqProperties
  <2>3. Len(after) = Len(s) - i
    BY <1>1, <2>2
  <2>4. ASSUME NEW j \in 1..(Len(s) - i) PROVE after[j] = s[i + j]
    <3>1. j \in 1..(Len(s) - (i + 1) + 1) /\ (i + 1) + j - 1 = i + j
      BY <1>1
    <3> QED BY <2>2, <3>1
  <2> QED BY <2>2, <2>3, <2>4
<1> HIDE DEF before, after
<1>4. RemoveAt(s, i) = before \o after
  BY DEF RemoveAt, before, after
<1>5. before \o after \in Seq(S) /\ Len(before \o after) = Len(s) - 1
  <2>1. Len(before \o after) = Len(before) + Len(after)
    BY <1>2, <1>3, ConcatProperties
  <2> QED BY <1>1, <1>2, <1>3, <2>1, ConcatProperties
<1>6. ASSUME NEW j \in 1..(Len(s) - 1)
      PROVE  (before \o after)[j] = IF j < i THEN s[j] ELSE s[j + 1]
  <2>1. CASE j < i
    BY <1>1, <1>2, <1>3, <2>1
  <2>2. CASE ~(j < i)
    <3>1. j - (i - 1) \in 1..(Len(s) - i) /\ i + (j - (i - 1)) = j + 1
      BY <1>1, <2>2
    <3>2. (before \o after)[j] = after[j - (i - 1)]
      BY <1>1, <1>2, <1>3, <2>2
    <3>3. after[j - (i - 1)] = s[i + (j - (i - 1))]
      BY <1>3, <3>1
    <3> QED BY <2>2, <3>1, <3>2, <3>3
  <2> QED BY <2>1, <2>2
<1> QED BY <1>1, <1>4, <1>5, <1>6

\* Putting an element in front.
LEMMA ConsFacts ==
  ASSUME NEW S, NEW s \in Seq(S), NEW e \in S
  PROVE  /\ <<e>> \o s \in Seq(S)
         /\ Len(<<e>> \o s) = Len(s) + 1 /\ Len(s) \in Nat
         /\ <<e>> \o s # <<>> /\ (<<e>> \o s)[1] = e
         /\ \A i \in 2..(Len(s) + 1) : (<<e>> \o s)[i] = s[i - 1]
<1>1. <<e>> \in Seq(S) /\ Len(<<e>>) = 1 /\ <<e>>[1] = e
  OBVIOUS
<1> QED BY <1>1

\* Place enumerates a finite set of numbers in increasing order.
LEMMA PlaceFacts ==
  ASSUME NEW I \in SUBSET Nat, IsFiniteSet(I)
  PROVE  /\ Cardinality(I) \in Nat
         /\ \A k \in 1..Cardinality(I) : Place(I, k) \in I
         /\ \A k, l \in 1..Cardinality(I) : k < l => Place(I, k) < Place(I, l)
         /\ \A i \in I : \E k \in 1..Cardinality(I) : Place(I, k) = i
<1> DEFINE n == Cardinality(I)
           upto(i) == {j \in I : j <= i}
           rank == [i \in I |-> Cardinality(upto(i))]
           at(k) == Place(I, k)
<1>1. \A i \in I : i \in Nat
  OBVIOUS
<1>2. IsFiniteSet(I) /\ n \in Nat
  BY FS_CardinalityType
<1>3. ASSUME NEW i \in I PROVE IsFiniteSet(upto(i)) /\ Cardinality(upto(i)) \in 1..n /\ Cardinality(upto(i)) \in Nat
  <2>1. upto(i) \in SUBSET I /\ i \in upto(i)
    BY <1>1
  <2>2. IsFiniteSet(upto(i)) /\ Cardinality(upto(i)) <= n
    BY <1>2, <2>1, FS_Subset
  <2>3. Cardinality(upto(i)) \in Nat /\ Cardinality(upto(i)) # 0
    BY <2>1, <2>2, FS_CardinalityType, FS_EmptySet
  <2> QED BY <1>2, <2>2, <2>3
<1>4. ASSUME NEW i \in I, NEW j \in I, i < j PROVE Cardinality(upto(i)) < Cardinality(upto(j))
  <2>1. upto(i) \in SUBSET upto(j) /\ j \in upto(j) /\ j \notin upto(i)
    <3>1. j <= j /\ ~(j <= i)
      BY <1>1, <1>4
    <3>2. \A k \in I : k <= i => k <= j
      BY <1>1, <1>4
    <3> QED BY <3>1, <3>2
  <2>2. IsFiniteSet(upto(j)) /\ Cardinality(upto(i)) \in Nat /\ Cardinality(upto(j)) \in Nat
    BY <1>3
  <2>3. /\ Cardinality(upto(i)) <= Cardinality(upto(j))
        /\ Cardinality(upto(j)) = Cardinality(upto(i)) => upto(j) = upto(i)
    BY <2>1, <2>2, FS_Subset
  <2> QED BY <2>1, <2>2, <2>3
<1> HIDE DEF upto
<1>5. ASSUME NEW k \in 1..n PROVE \E i \in I : Cardinality(upto(i)) = k
  <2> SUFFICES ASSUME \A i \in I : Cardinality(upto(i)) # k PROVE FALSE
    OBVIOUS
  <2>1. rank \in [I -> (1..n) \ {k}]
    BY <1>3
  <2>2. /\ IsFiniteSet((1..n) \ {k}) /\ Cardinality((1..n) \ {k}) = n - 1
    <3>1. IsFiniteSet(1..n) /\ Cardinality(1..n) = n
      BY <1>2, FS_Interval
    <3>2. IsFiniteSet((1..n) \ {k}) /\ Cardinality((1..n) \ {k}) = Cardinality(1..n) - 1
      BY <3>1, FS_RemoveElement, Zenon
    <3> QED BY <3>1, <3>2, Zenon
  <2>3. PICK i \in I, j \in I : i # j /\ rank[i] = rank[j]
    <3>1. Cardinality((1..n) \ {k}) < Cardinality(I)
      BY <1>2, <2>2
    <3> HIDE DEF rank
    <3> QED BY <1>2, <2>1, <2>2, <3>1, FS_PigeonHole
  <2>4. Cardinality(upto(i)) = Cardinality(upto(j)) /\ (i < j \/ j < i)
    BY <1>1, <2>3
  <2>5. Cardinality(upto(i)) \in Nat
    BY <1>3
  <2> QED BY <1>4, <2>4, <2>5
<1>6. ASSUME NEW k \in 1..n PROVE at(k) \in I /\ Cardinality(upto(at(k))) = k
  <2>1. at(k) = CHOOSE i \in I : Cardinality(upto(i)) = k
    BY DEF Place, upto
  <2> QED BY <1>5, <2>1
<1> HIDE DEF at
<1>8. ASSUME NEW k \in 1..n, NEW l \in 1..n, k < l PROVE at(k) < at(l)
  <2>1. CASE at(l) < at(k)
    <3>1. l < k
      BY <1>4, <1>6, <2>1
    <3> QED BY <1>2, <1>8, <3>1
  <2>2. at(k) # at(l)
    BY <1>6, <1>8, <1>2
  <2>3. at(k) \in Nat /\ at(l) \in Nat
    BY <1>1, <1>6
  <2> QED BY <2>1, <2>2, <2>3
<1>9. ASSUME NEW i \in I PROVE \E k \in 1..n : at(k) = i
  <2> DEFINE k == Cardinality(upto(i))
  <2>1. k \in 1..n
    BY <1>3
  <2>2. at(k) \in I /\ Cardinality(upto(at(k))) = k
    BY <1>6, <2>1
  <2>3. at(k) \in Nat /\ i \in Nat /\ k \in Nat
    <3>1. at(k) \in Nat /\ i \in Nat
      BY <1>1, <2>2
    <3> QED BY <1>3, <3>1
  <2>4. at(k) = i
    BY <1>4, <2>2, <2>3
  <2> QED BY <2>1, <2>4
<1>10. \A k \in 1..n : at(k) \in I
  BY <1>6
<1>11. \A k, l \in 1..n : k < l => at(k) < at(l)
  BY <1>8
<1>12. \A i \in I : \E k \in 1..n : at(k) = i
  BY <1>9
<1> HIDE DEF n
<1> QED BY <1>2, <1>10, <1>11, <1>12 DEF n, at

\* A subsequence is given by the increasing enumeration of its positions.
LEMMA SubsequenceFacts ==
  ASSUME NEW S, NEW s \in Seq(S), NEW I \in SUBSET DOMAIN s
  PROVE  /\ Subsequence(s, I) \in Seq(S)
         /\ Cardinality(I) \in Nat
         /\ DOMAIN Subsequence(s, I) = 1..Cardinality(I)
         /\ \A k \in 1..Cardinality(I) : Place(I, k) \in I /\ Subsequence(s, I)[k] = s[Place(I, k)]
         /\ \A k, l \in 1..Cardinality(I) : k < l => Place(I, k) < Place(I, l)
         /\ \A i \in I : \E k \in 1..Cardinality(I) : Place(I, k) = i
<1> DEFINE n == Cardinality(I)
           at(k) == Place(I, k)
<1>1. Len(s) \in Nat /\ DOMAIN s = 1..Len(s) /\ I \subseteq 1..Len(s) /\ I \in SUBSET Nat
  OBVIOUS
<1>2. IsFiniteSet(I)
  <2>1. IsFiniteSet(1..Len(s))
    BY <1>1, FS_Interval
  <2> QED BY <1>1, <2>1, FS_Subset
<1>3. /\ n \in Nat /\ \A k \in 1..n : at(k) \in I
      /\ \A k, l \in 1..n : k < l => at(k) < at(l)
      /\ \A i \in I : \E k \in 1..n : at(k) = i
  BY <1>1, <1>2, PlaceFacts
<1>4. Subsequence(s, I) = [k \in 1..n |-> s[at(k)]]
  BY DEF Subsequence
<1> HIDE DEF at, n
<1>5. Subsequence(s, I) \in Seq(S)
  <2>1. \A k \in 1..n : s[at(k)] \in S
    BY <1>1, <1>3
  <2>2. [k \in 1..n |-> s[at(k)]] \in [1..n -> S]
    BY <2>1
  <2> QED BY <1>3, <1>4, <2>2, SeqDef
<1>6. \A k \in 1..n : at(k) \in I /\ Subsequence(s, I)[k] = s[at(k)]
  BY <1>3, <1>4
<1>7. DOMAIN Subsequence(s, I) = 1..n
  BY <1>4
<1> QED BY <1>3, <1>5, <1>6, <1>7 DEF n, at

\* What Keep leaves are the items in the set, in their order.
LEMMA KeepFacts ==
  ASSUME NEW S, NEW s \in Seq(S), NEW kept
  PROVE  LET r == Keep(s, kept)
             I == Places(s, kept)
         IN /\ r \in Seq(S) /\ Len(r) \in Nat /\ DOMAIN r = 1..Len(r)
            /\ \A k \in DOMAIN r : /\ Place(I, k) \in DOMAIN s
                                   /\ r[k] = s[Place(I, k)] /\ r[k] \in kept
            /\ \A k, l \in DOMAIN r : k < l => Place(I, k) < Place(I, l)
            /\ \A i \in DOMAIN s : s[i] \in kept => \E k \in DOMAIN r : Place(I, k) = i
<1> DEFINE I == Places(s, kept)
           r == Keep(s, kept)
<1>1. I \in SUBSET DOMAIN s /\ \A i \in DOMAIN s : i \in I <=> s[i] \in kept
  BY DEF Places
<1> HIDE DEF I
<1>2. r = Subsequence(s, I)
  BY DEF Keep, I
<1> HIDE DEF r
<1>3. /\ r \in Seq(S) /\ DOMAIN r = 1..Cardinality(I)
      /\ \A k \in DOMAIN r : Place(I, k) \in I /\ r[k] = s[Place(I, k)]
      /\ \A k, l \in DOMAIN r : k < l => Place(I, k) < Place(I, l)
      /\ \A i \in I : \E k \in DOMAIN r : Place(I, k) = i
  <2> DEFINE t == Subsequence(s, I)
             n == Cardinality(I)
  <2>1. /\ t \in Seq(S) /\ DOMAIN t = 1..n
        /\ \A k \in 1..n : Place(I, k) \in I /\ t[k] = s[Place(I, k)]
        /\ \A k, l \in 1..n : k < l => Place(I, k) < Place(I, l)
        /\ \A i \in I : \E k \in 1..n : Place(I, k) = i
    BY <1>1, SubsequenceFacts
  <2>2. r = t
    BY <1>2
  <2> HIDE DEF t, n
  <2>3. DOMAIN r = 1..n
    BY <2>1, <2>2
  <2> QED BY <2>1, <2>2, <2>3 DEF n
<1>4. Len(r) \in Nat /\ DOMAIN r = 1..Len(r)
  BY <1>3
<1>5. \A k \in DOMAIN r : Place(I, k) \in DOMAIN s /\ r[k] = s[Place(I, k)] /\ r[k] \in kept
  BY <1>1, <1>3
<1>6. \A i \in DOMAIN s : s[i] \in kept => \E k \in DOMAIN r : Place(I, k) = i
  BY <1>1, <1>3
<1> QED BY <1>3, <1>4, <1>5, <1>6 DEF I, r

\* The least of a nonempty set of numbers.
LEMMA MinFacts ==
  ASSUME NEW S \in SUBSET Nat, S # {}
  PROVE  Min(S) \in S /\ \A y \in S : Min(S) <= y
<1>1. PICK x \in S : \A y \in S : ~(<<y, x>> \in OpToRel(<, Nat))
  BY NatLessThanWellFounded, WFMin
<1>2. ASSUME NEW y \in S PROVE x <= y
  <2>1. x \in Nat /\ y \in Nat
    BY <1>1, <1>2
  <2>2. y < x => <<y, x>> \in OpToRel(<, Nat)
    BY <2>1 DEF OpToRel
  <2>3. ~(y < x)
    BY <1>1, <2>2, Zenon
  <2> QED BY <2>1, <2>3
<1> QED BY <1>1, <1>2 DEF Min

\* The first n items of t are moved to the end of s.
MovedTo(s, t, n) == s \o SubSeq(t, 1, n)
LeftBy(t, n) == SubSeq(t, n + 1, Len(t))

\* Moving the first n items of one sequence to the end of another loses and reorders nothing.
LEMMA MoveFacts ==
  ASSUME NEW S, NEW s \in Seq(S), NEW t \in Seq(S), NEW n \in 1..Len(t)
  PROVE  /\ MovedTo(s, t, n) \in Seq(S) /\ LeftBy(t, n) \in Seq(S)
         /\ MovedTo(s, t, n) \o LeftBy(t, n) = s \o t
         /\ MovedTo(s, t, n) # <<>> /\ Len(MovedTo(s, t, n)) \in Nat
         /\ MovedTo(s, t, n)[Len(MovedTo(s, t, n))] = t[n]
         /\ n < Len(t) => LeftBy(t, n) # <<>>
<1> DEFINE first == SubSeq(t, 1, n)
           rest == SubSeq(t, n + 1, Len(t))
           done == s \o first
           ls == Len(s)
           lt == Len(t)
<1>1. ls \in Nat /\ lt \in Nat /\ n \in Nat /\ n <= lt /\ \A i \in 1..lt : t[i] \in S
  OBVIOUS
<1>2. /\ first \in Seq(S) /\ Len(first) = n
      /\ \A i \in 1..n : first[i] = t[i]
  <2>1. \A i \in 1..n : t[i] \in S
    BY <1>1
  <2>2. /\ first \in Seq(S) /\ Len(first) = IF 1 <= n THEN n - 1 + 1 ELSE 0
        /\ \A i \in 1..(n - 1 + 1) : first[i] = t[1 + i - 1]
    BY <1>1, <2>1, SubSeqProperties
  <2> HIDE DEF first
  <2>3. n - 1 + 1 = n /\ \A i \in 1..n : 1 + i - 1 = i
    BY <1>1
  <2> QED BY <1>1, <2>2, <2>3
<1>3. /\ rest \in Seq(S) /\ Len(rest) = lt - n
      /\ \A i \in 1..(lt - n) : rest[i] = t[n + i]
  <2>1. \A i \in (n + 1)..lt : t[i] \in S
    BY <1>1
  <2>2. /\ rest \in Seq(S) /\ Len(rest) = IF n + 1 <= lt THEN lt - (n + 1) + 1 ELSE 0
        /\ \A i \in 1..(lt - (n + 1) + 1) : rest[i] = t[(n + 1) + i - 1]
    BY <1>1, <2>1, SubSeqProperties
  <2> HIDE DEF rest, lt
  <2>3. lt - (n + 1) + 1 = lt - n /\ \A i \in 1..(lt - n) : (n + 1) + i - 1 = n + i
    BY <1>1
  <2>4. Len(rest) = lt - n
    BY <1>1, <2>2
  <2> QED BY <2>2, <2>3, <2>4
<1> HIDE DEF first, rest, ls, lt
<1>4. /\ done \in Seq(S) /\ Len(done) = ls + n
      /\ \A i \in 1..(ls + n) : done[i] = IF i <= ls THEN s[i] ELSE first[i - ls]
  BY <1>2, ConcatProperties DEF ls
<1> HIDE DEF done
<1>5. /\ done \o rest \in Seq(S) /\ Len(done \o rest) = ls + lt
      /\ \A i \in 1..(ls + lt) : (done \o rest)[i] = IF i <= ls + n THEN done[i] ELSE rest[i - (ls + n)]
  <2>1. (ls + n) + (lt - n) = ls + lt
    BY <1>1
  <2> DEFINE all == done \o rest
  <2>2. /\ all \in Seq(S) /\ Len(all) = Len(done) + Len(rest)
        /\ \A i \in 1..(Len(done) + Len(rest)) :
             all[i] = IF i <= Len(done) THEN done[i] ELSE rest[i - Len(done)]
    BY <1>3, <1>4, ConcatProperties
  <2>3. Len(done) = ls + n /\ Len(done) + Len(rest) = ls + lt
    BY <1>3, <1>4, <2>1
  <2> HIDE DEF all
  <2>4. /\ all \in Seq(S) /\ Len(all) = ls + lt
        /\ \A i \in 1..(ls + lt) : all[i] = IF i <= ls + n THEN done[i] ELSE rest[i - (ls + n)]
    BY <2>2, <2>3
  <2> QED BY <2>4 DEF all
<1>6. /\ s \o t \in Seq(S) /\ Len(s \o t) = ls + lt
      /\ \A i \in 1..(ls + lt) : (s \o t)[i] = IF i <= ls THEN s[i] ELSE t[i - ls]
  BY ConcatProperties DEF ls, lt
<1>7. ASSUME NEW i \in 1..(ls + lt) PROVE (done \o rest)[i] = (s \o t)[i]
  <2>1. CASE i <= ls
    BY <1>1, <1>4, <1>5, <1>6, <2>1
  <2>2. CASE i > ls /\ i <= ls + n
    <3>1. i \in 1..(ls + n) /\ i - ls \in 1..n /\ ~(i <= ls)
      BY <1>1, <2>2
    <3> QED BY <1>2, <1>4, <1>5, <1>6, <2>2, <3>1
  <2>3. CASE i > ls + n
    <3>1. i - (ls + n) \in 1..(lt - n) /\ n + (i - (ls + n)) = i - ls /\ ~(i <= ls) /\ ~(i <= ls + n)
      BY <1>1, <2>3
    <3> QED BY <1>3, <1>5, <1>6, <3>1
  <2>4. i <= ls \/ (i > ls /\ i <= ls + n) \/ i > ls + n
    BY <1>1
  <2> QED BY <2>1, <2>2, <2>3, <2>4
<1>8. done \o rest = s \o t
  BY <1>5, <1>6, <1>7, SeqEqual
<1>9. done # <<>> /\ Len(done) \in Nat /\ done[Len(done)] = t[n]
  <2>1. ls + n \in 1..(ls + n) /\ ~(ls + n <= ls) /\ (ls + n) - ls = n /\ n \in 1..n
    BY <1>1
  <2> QED BY <1>2, <1>4, <2>1
<1>10. n < lt => rest # <<>>
  BY <1>1, <1>3
<1> QED BY <1>3, <1>4, <1>8, <1>9, <1>10 DEF MovedTo, LeftBy, done, first, rest, lt

-----------------------------------------------------------------------------
(***************************************************************************)
(* The operators of ValidateModuleGraph.                                   *)
(***************************************************************************)
\* Every nonempty set of naturals has a smallest element.
LEMMA SmallestIsMember ==
  ASSUME NEW T \in SUBSET Nat, T # {}
  PROVE  Smallest(T) \in T /\ \A y \in T : Smallest(T) <= y
<1>1. \E x \in T : \A y \in T : x <= y
  BY MinFacts
<1> QED BY <1>1 DEF Smallest

\* A module list declares finitely many ids.
LEMMA KnownIdsFinite ==
  ASSUME NEW ms \in Seq(ModuleSpecs)
  PROVE  IsFiniteSet(KnownIds(ms)) /\ KnownIds(ms) \subseteq Nat
<1> DEFINE f == [i \in 1..Len(ms) |-> ms[i].id]
<1>1. f \in Surjection(1..Len(ms), KnownIds(ms))
  BY DEF Surjection, KnownIds
<1>2. IsFiniteSet(1..Len(ms))
  BY FS_Interval
<1>3. IsFiniteSet(KnownIds(ms))
  BY <1>1, <1>2, FS_Surjection
<1>4. KnownIds(ms) \subseteq Nat
  <2>1. \A i \in DOMAIN ms : ms[i] \in ModuleSpecs
    OBVIOUS
  <2> QED BY <2>1 DEF KnownIds, ModuleSpecs
<1> QED BY <1>3, <1>4

(***************************************************************************)
(* The loop.  a is the adjacency function, s a state of the loop.          *)
(***************************************************************************)
\* A finite graph whose edges join its vertices.
IsGraph(a) ==
  IsFiniteSet(DOMAIN a) /\ DOMAIN a \subseteq Nat /\ a \in [DOMAIN a -> SUBSET DOMAIN a]

KahnStates(a) ==
  [indegree : [DOMAIN a -> Nat], ready : SUBSET DOMAIN a, base_order : Seq(DOMAIN a)]

EmittedIn(s) == ToSet(s.base_order)
LeftIn(a, s) == DOMAIN a \ EmittedIn(s)

\* indegree counts the consumers left, ready holds the modules left without any, and no
\* module was emitted twice.
KahnCounts(a, s) ==
  /\ \A d \in DOMAIN a : s.indegree[d] = Cardinality(Consumers(a, LeftIn(a, s), d))
  /\ s.ready = {d \in LeftIn(a, s) : s.indegree[d] = 0}
  /\ Cardinality(EmittedIn(s)) = Len(s.base_order)

\* Consumers are emitted before their dependencies.
KahnOrder(a, s) ==
  /\ \A i, j \in DOMAIN s.base_order : s.base_order[i] = s.base_order[j] => i = j
  /\ \A c \in DOMAIN a : \A j \in DOMAIN s.base_order :
       s.base_order[j] \in a[c] => \E i \in DOMAIN s.base_order : i < j /\ s.base_order[i] = c

\* A set of modules each of which is a dependency of another member of the set.
IsCyclic(a, T) == T # {} /\ \A d \in T : \E c \in T : d \in a[c]

\* No member of a cycle is ever emitted.
KahnSkipsCycles(a, s) ==
  \A T \in SUBSET DOMAIN a : IsCyclic(a, T) => T \cap EmittedIn(s) = {}

\* Each emitted module is the smallest of those that could have been emitted then: of
\* the ones not emitted before whose consumers all were.
FreeIn(a, s, j, d) ==
  /\ \A i \in 1..(j - 1) : s.base_order[i] # d
  /\ \A c \in DOMAIN a : d \in a[c] => \E i \in 1..(j - 1) : s.base_order[i] = c
KahnIsGreedy(a, s) ==
  \A j \in DOMAIN s.base_order : \A d \in DOMAIN a : FreeIn(a, s, j, d) => s.base_order[j] <= d

KahnLoop(a, s) ==
  /\ s \in KahnStates(a)
  /\ KahnCounts(a, s)
  /\ KahnOrder(a, s)
  /\ KahnSkipsCycles(a, s)
  /\ KahnIsGreedy(a, s)

\* The loop's initial state satisfies the invariant, for every graph.
LEMMA KahnInitOK ==
  ASSUME NEW a, IsGraph(a)
  PROVE  KahnLoop(a, KahnInit(a))
<1> DEFINE s == KahnInit(a)
<1>0. IsFiniteSet(DOMAIN a)
  BY DEF IsGraph
<1>1. s.base_order = <<>> /\ EmittedIn(s) = {}
  BY DEF KahnInit, EmittedIn, ToSet
<1>2. \A d \in DOMAIN a : Cardinality(Consumers(a, DOMAIN a, d)) \in Nat
  <2> TAKE d \in DOMAIN a
  <2>1. Consumers(a, DOMAIN a, d) \in SUBSET DOMAIN a
    BY DEF Consumers
  <2> QED BY <1>0, <2>1, FS_Subset, FS_CardinalityType
<1>3. /\ s.indegree = [d \in DOMAIN a |-> Cardinality(Consumers(a, DOMAIN a, d))]
      /\ s.ready = {d \in DOMAIN a : s.indegree[d] = 0}
      /\ s = [indegree |-> s.indegree, ready |-> s.ready, base_order |-> <<>>]
  BY DEF KahnInit
<1> HIDE DEF s
<1>4. s \in KahnStates(a)
  <2>1. s.indegree \in [DOMAIN a -> Nat]
    BY <1>2, <1>3
  <2>2. s.ready \in SUBSET DOMAIN a /\ <<>> \in Seq(DOMAIN a)
    BY <1>3
  <2> DEFINE i == s.indegree  r == s.ready
  <2>3. s = [indegree |-> i, ready |-> r, base_order |-> <<>>]
    BY <1>3
  <2>4. i \in [DOMAIN a -> Nat] /\ r \in SUBSET DOMAIN a
    BY <2>1, <2>2
  <2> HIDE DEF i, r
  <2> QED BY <2>2, <2>3, <2>4 DEF KahnStates
<1>5. KahnCounts(a, s)
  <2>1. LeftIn(a, s) = DOMAIN a
    BY <1>1 DEF LeftIn
  <2>2. Cardinality({}) = 0
    BY FS_EmptySet
  <2> QED BY <1>1, <1>3, <2>1, <2>2 DEF KahnCounts
<1>6. KahnOrder(a, s) /\ KahnSkipsCycles(a, s) /\ KahnIsGreedy(a, s)
  BY <1>1 DEF KahnOrder, KahnSkipsCycles, KahnIsGreedy
<1> QED BY <1>4, <1>5, <1>6 DEF KahnLoop, s

\* A module whose count is zero has no consumer left that was not emitted.
LEMMA NoConsumerLeft ==
  ASSUME NEW a, NEW s, IsGraph(a), KahnCounts(a, s), NEW d \in LeftIn(a, s), s.indegree[d] = 0
  PROVE  \A c \in LeftIn(a, s) : d \notin a[c]
<1>1. d \in DOMAIN a /\ IsFiniteSet(DOMAIN a) /\ LeftIn(a, s) \subseteq DOMAIN a
  BY DEF LeftIn, IsGraph
<1>2. Consumers(a, LeftIn(a, s), d) \in SUBSET DOMAIN a
  BY <1>1 DEF Consumers
<1>3. Cardinality(Consumers(a, LeftIn(a, s), d)) = 0
  BY <1>1 DEF KahnCounts
<1>4. Consumers(a, LeftIn(a, s), d) = {}
  BY <1>1, <1>2, <1>3, FS_Subset, FS_EmptySet
<1> QED BY <1>4 DEF Consumers

\* One iteration preserves the invariant.
LEMMA KahnStepOK ==
  ASSUME NEW a, NEW s, IsGraph(a), KahnLoop(a, s), s.ready # {}
  PROVE  /\ KahnLoop(a, KahnStep(a, s))
         /\ Len(KahnStep(a, s).base_order) = Len(s.base_order) + 1
<1> DEFINE t == KahnStep(a, s)
           current == Smallest(s.ready)
           count(d) == IF d \in a[current] /\ s.indegree[d] > 0
                       THEN s.indegree[d] - 1 ELSE s.indegree[d]
           indegree == [d \in DOMAIN a |-> count(d)]
           ready == (s.ready \ {current}) \cup {d \in a[current] : indegree[d] = 0}
<1>g. s \in KahnStates(a) /\ KahnCounts(a, s) /\ KahnOrder(a, s) /\ KahnSkipsCycles(a, s) /\ KahnIsGreedy(a, s)
  BY DEF KahnLoop
<1>a. /\ IsFiniteSet(DOMAIN a) /\ DOMAIN a \subseteq Nat
      /\ a \in [DOMAIN a -> SUBSET DOMAIN a]
      /\ s.indegree \in [DOMAIN a -> Nat] /\ s.ready \in SUBSET DOMAIN a
      /\ s.base_order \in Seq(DOMAIN a)
  BY <1>g DEF KahnStates, IsGraph
<1>b. t = [indegree |-> indegree, ready |-> ready,
               base_order |-> Append(s.base_order, current)]
  BY DEF KahnStep
<1>c. current \in s.ready /\ current \in DOMAIN a /\ current \notin EmittedIn(s)
        /\ s.indegree[current] = 0
  <2>1. current \in s.ready
    BY <1>a, SmallestIsMember
  <2> QED BY <2>1, <1>a, <1>g DEF KahnCounts, LeftIn
<1>h. \A c \in LeftIn(a, s) : current \notin a[c]
  BY <1>a, <1>c, <1>g, NoConsumerLeft DEF LeftIn
<1>d. \A d \in DOMAIN a : count(d) \in Nat
  <2> TAKE d \in DOMAIN a
  <2>1. s.indegree[d] \in Nat
    BY <1>a
  <2> QED BY <2>1
<1>e. /\ t.indegree = indegree /\ indegree \in [DOMAIN a -> Nat]
      /\ t.ready = ready /\ ready \in SUBSET DOMAIN a
      /\ t.base_order = Append(s.base_order, current)
      /\ t.base_order \in Seq(DOMAIN a)
  <2>1. indegree \in [DOMAIN a -> Nat]
    BY <1>d
  <2>2. a[current] \subseteq DOMAIN a
    BY <1>a, <1>c
  <2> HIDE DEF indegree
  <2> QED BY <1>a, <1>b, <1>c, <2>1, <2>2
<1> HIDE DEF t, current, count, indegree, ready
<1>f. EmittedIn(t) = EmittedIn(s) \cup {current} /\ LeftIn(a, t) = LeftIn(a, s) \ {current}
  <2>1. ToSet(Append(s.base_order, current)) = ToSet(s.base_order) \cup {current}
    <3> DEFINE old == s.base_order  new == Append(old, current)  n == Len(old)
    <3>1. /\ n \in Nat /\ DOMAIN old = 1..n /\ DOMAIN new = 1..(n+1)
          /\ \A i \in 1..n : new[i] = old[i]
          /\ new[n+1] = current
      BY <1>a, <1>c, AppendProperties
    <3> HIDE DEF old, new, n
    <3>2. ToSet(new) = ToSet(old) \cup {current}
      BY <3>1 DEF ToSet
    <3> QED BY <3>2 DEF old, new
  <2> QED BY <1>a, <1>e, <2>1 DEF EmittedIn, LeftIn
<1>1. t \in KahnStates(a)
  <2>1. t \in [indegree : [DOMAIN a -> Nat], ready : SUBSET DOMAIN a, base_order : Seq(DOMAIN a)]
    BY <1>b, <1>e
  <2> QED BY <1>a, <2>1 DEF KahnStates
<1>2. \A d \in DOMAIN a : indegree[d] = Cardinality(Consumers(a, LeftIn(a, t), d))
  <2> SUFFICES ASSUME NEW d \in DOMAIN a
               PROVE  indegree[d] = Cardinality(Consumers(a, LeftIn(a, t), d))
    OBVIOUS
  <2> DEFINE cs == Consumers(a, LeftIn(a, s), d)
  <2>1. IsFiniteSet(cs) /\ Cardinality(cs) \in Nat
    <3>1. cs \in SUBSET DOMAIN a
      BY DEF Consumers, LeftIn
    <3> QED BY <1>a, <3>1, FS_Subset, FS_CardinalityType
  <2>2. Consumers(a, LeftIn(a, t), d) = cs \ {current}
    BY <1>f DEF Consumers
  <2>3. current \in cs <=> d \in a[current]
    BY <1>c DEF Consumers, LeftIn
  <2>4. s.indegree[d] = Cardinality(cs)
    BY <1>g DEF KahnCounts
  <2>5. current \in cs => Cardinality(cs) > 0
    BY <2>1, FS_EmptySet
  <2>6. Cardinality(cs \ {current}) = IF current \in cs THEN Cardinality(cs) - 1 ELSE Cardinality(cs)
    BY <2>1, FS_RemoveElement
  <2>7. indegree[d] = IF d \in a[current] /\ s.indegree[d] > 0
                      THEN s.indegree[d] - 1 ELSE s.indegree[d]
    BY DEF indegree, count
  <2> HIDE DEF cs
  <2> QED BY <2>1, <2>2, <2>3, <2>4, <2>5, <2>6, <2>7
<1>3. ready = {d \in LeftIn(a, t) : indegree[d] = 0}
  <2>1. ASSUME NEW d \in ready PROVE d \in LeftIn(a, t) /\ indegree[d] = 0
    <3>1. CASE d \in s.ready \ {current}
      <4>1. d \in LeftIn(a, s) /\ s.indegree[d] = 0 /\ d \in DOMAIN a
        BY <1>a, <1>g, <3>1 DEF KahnCounts
      <4>2. indegree[d] = 0
        BY <4>1 DEF indegree, count
      <4> QED BY <1>f, <3>1, <4>1, <4>2
    <3>2. CASE d \in a[current] /\ indegree[d] = 0
      <4>1. d \in DOMAIN a
        BY <1>a, <1>c, <3>2
      <4>2. d \notin EmittedIn(s)
        <5>1. SUFFICES ASSUME d \in EmittedIn(s) PROVE FALSE
          OBVIOUS
        <5>2. PICK j \in DOMAIN s.base_order : s.base_order[j] = d
          BY <5>1 DEF EmittedIn, ToSet
        <5>3. \E i \in DOMAIN s.base_order : s.base_order[i] = current
          BY <1>c, <1>g, <3>2, <5>2 DEF KahnOrder
        <5> QED BY <1>c, <5>3 DEF EmittedIn, ToSet
      <4>3. d # current
        BY <1>c, <1>h, <3>2 DEF LeftIn
      <4> QED BY <1>f, <3>2, <4>1, <4>2, <4>3 DEF LeftIn
    <3> QED BY <2>1, <3>1, <3>2 DEF ready
  <2>2. ASSUME NEW d \in LeftIn(a, t), indegree[d] = 0 PROVE d \in ready
    <3>1. d \in LeftIn(a, s) /\ d # current /\ d \in DOMAIN a
      BY <1>f, <2>2 DEF LeftIn
    <3>2. CASE d \in a[current]
      BY <2>2, <3>2 DEF ready
    <3>3. CASE d \notin a[current]
      <4>1. s.indegree[d] = 0
        BY <2>2, <3>1, <3>3 DEF indegree, count
      <4> QED BY <1>g, <3>1, <4>1 DEF KahnCounts, ready
    <3> QED BY <3>2, <3>3
  <2> QED BY <2>1, <2>2
<1>4. KahnCounts(a, t)
  <2>1. Cardinality(EmittedIn(t)) = Len(t.base_order)
    <3>1. IsFiniteSet(EmittedIn(s))
      <4>1. EmittedIn(s) \in SUBSET DOMAIN a
        BY <1>a DEF EmittedIn, ToSet
      <4> QED BY <1>a, <4>1, FS_Subset
    <3>2. Cardinality(EmittedIn(s) \cup {current}) = Cardinality(EmittedIn(s)) + 1
      BY <1>c, <3>1, FS_AddElement
    <3>3. Len(Append(s.base_order, current)) = Len(s.base_order) + 1
      BY <1>a, <1>c, AppendProperties
    <3> QED BY <1>e, <1>f, <1>g, <3>2, <3>3 DEF KahnCounts
  <2> QED BY <1>a, <1>e, <1>2, <1>3, <2>1 DEF KahnCounts
<1>5. KahnOrder(a, t)
  <2> DEFINE old == s.base_order  new == Append(old, current)  n == Len(old)
  <2>1. /\ n \in Nat /\ DOMAIN old = 1..n /\ DOMAIN new = 1..(n+1)
        /\ \A i \in 1..n : new[i] = old[i]
        /\ new[n+1] = current
    BY <1>a, <1>c, AppendProperties
  <2>2. /\ \A i, j \in 1..n : old[i] = old[j] => i = j
        /\ \A c \in DOMAIN a : \A j \in 1..n : old[j] \in a[c] =>
              \E i \in 1..n : i < j /\ old[i] = c
    BY <1>g, <2>1 DEF KahnOrder
  <2>3. \A i \in 1..n : old[i] # current
    BY <1>c, <2>1 DEF EmittedIn, ToSet
  <2>4. \A c \in DOMAIN a : current \in a[c] => \E i \in 1..n : old[i] = c
    <3> SUFFICES ASSUME NEW c \in DOMAIN a, current \in a[c], c \notin EmittedIn(s) PROVE FALSE
      BY <2>1 DEF EmittedIn, ToSet
    <3> QED BY <1>h DEF LeftIn
  <2> HIDE DEF old, new, n
  <2>5. \A i, j \in 1..(n+1) : new[i] = new[j] => i = j
    BY <2>1, <2>2, <2>3
  <2>6. ASSUME NEW c \in DOMAIN a, NEW j \in 1..(n+1), new[j] \in a[c]
        PROVE  \E i \in 1..(n+1) : i < j /\ new[i] = c
    <3>1. CASE j \in 1..n
      BY <2>1, <2>2, <2>6, <3>1
    <3>2. CASE j = n + 1
      BY <2>1, <2>4, <2>6, <3>2
    <3> QED BY <2>1, <2>6, <3>1, <3>2
  <2>7. t.base_order = new
    BY <1>e DEF new, old
  <2> QED BY <1>a, <2>1, <2>5, <2>6, <2>7, SMTT(30) DEF KahnOrder
<1>6. KahnSkipsCycles(a, t)
  <2> SUFFICES ASSUME NEW T \in SUBSET DOMAIN a, IsCyclic(a, T)
               PROVE  T \cap EmittedIn(t) = {}
    BY <1>a DEF KahnSkipsCycles, IsCyclic
  <2>1. T \cap EmittedIn(s) = {}
    BY <1>g DEF KahnSkipsCycles
  <2>2. current \notin T
    <3> SUFFICES ASSUME current \in T PROVE FALSE
      OBVIOUS
    <3>1. PICK c \in T : current \in a[c]
      BY DEF IsCyclic
    <3> QED BY <1>h, <2>1, <3>1 DEF LeftIn
  <2> QED BY <1>f, <2>1, <2>2
<1>7. KahnIsGreedy(a, t)
  <2> DEFINE old == s.base_order  new == Append(old, current)  n == Len(old)
             before(q, j, d) ==
               /\ \A i \in 1..(j - 1) : q[i] # d
               /\ \A c \in DOMAIN a : d \in a[c] => \E i \in 1..(j - 1) : q[i] = c
  <2>1. /\ n \in Nat /\ DOMAIN old = 1..n /\ DOMAIN new = 1..(n+1)
        /\ \A i \in 1..n : new[i] = old[i]
        /\ new[n+1] = current
    BY <1>a, <1>c, AppendProperties
  <2>2. \A j \in 1..n : \A d \in DOMAIN a : before(old, j, d) => old[j] <= d
    BY <1>g, <2>1 DEF KahnIsGreedy, FreeIn
  <2>3. ASSUME NEW d \in DOMAIN a, before(old, n + 1, d) PROVE current <= d
    <3>1. (n + 1) - 1 = n
      BY <2>1
    <3>2. d \notin EmittedIn(s)
      BY <2>1, <2>3, <3>1 DEF EmittedIn, ToSet
    <3>3. \A c \in LeftIn(a, s) : d \notin a[c]
      BY <2>1, <2>3, <3>1 DEF LeftIn, EmittedIn, ToSet
    <3>4. Consumers(a, LeftIn(a, s), d) = {}
      BY <3>3 DEF Consumers
    <3>5. s.indegree[d] = 0
      BY <1>g, <3>4, FS_EmptySet DEF KahnCounts
    <3>6. d \in s.ready
      BY <1>g, <3>2, <3>5 DEF KahnCounts, LeftIn
    <3>7. s.ready \in SUBSET Nat
      BY <1>a
    <3> QED BY <3>6, <3>7, SmallestIsMember DEF current
  <2> HIDE DEF old, n
  <2>4. ASSUME NEW j \in 1..(n+1), NEW d \in DOMAIN a, before(new, j, d) PROVE new[j] <= d
    <3>1. before(old, j, d)
      <4>1. \A i \in 1..(j - 1) : new[i] = old[i]
        BY <2>1
      <4> HIDE DEF new
      <4> QED BY <2>4, <4>1
    <3>2. CASE j \in 1..n
      BY <2>1, <2>2, <3>1, <3>2
    <3>3. CASE j = n + 1
      BY <2>1, <2>3, <3>1, <3>3
    <3> QED BY <2>1, <2>4, <3>2, <3>3
  <2>5. t.base_order = new /\ DOMAIN new = 1..(n+1)
    BY <1>e, <2>1 DEF old
  <2> HIDE DEF new
  <2> QED BY <1>a, <2>4, <2>5 DEF KahnIsGreedy, FreeIn
<1>8. Len(t.base_order) = Len(s.base_order) + 1
  BY <1>a, <1>c, <1>e, AppendProperties
<1> QED BY <1>1, <1>4, <1>5, <1>6, <1>7, <1>8 DEF KahnLoop, t
-----------------------------------------------------------------------------
(***************************************************************************)
(* The declaration passes.                                                 *)
(***************************************************************************)
\* A finite list of n items has fewer than n different ones exactly when one of them
\* comes back at a later place.
LEMMA RepeatsAreCounted ==
  ASSUME NEW n \in Nat, NEW T, NEW f \in Surjection(1..n, T)
  PROVE  /\ IsFiniteSet(T) /\ Cardinality(T) \in Nat /\ Cardinality(T) <= n
         /\ Cardinality(T) < n <=> \E i \in 1..n : \E j \in 1..(i - 1) : f[j] = f[i]
<1>1. f \in [1..n -> T]
  BY DEF Surjection
<1>2. IsFiniteSet(1..n) /\ Cardinality(1..n) = n
  BY FS_Interval
<1>3. /\ IsFiniteSet(T) /\ Cardinality(T) <= n
      /\ Cardinality(T) = n <=> f \in Injection(1..n, T)
  BY <1>2, FS_Surjection
<1>4. Cardinality(T) \in Nat
  BY <1>3, FS_CardinalityType
<1>5. f \in Injection(1..n, T) <=> \A i, j \in 1..n : f[i] = f[j] => i = j
  BY <1>1 DEF Injection, IsInjective
<1>6. (\A i, j \in 1..n : f[i] = f[j] => i = j) <=> ~ \E i \in 1..n : \E j \in 1..(i - 1) : f[j] = f[i]
  <2>1. ASSUME NEW i \in 1..n, NEW j \in 1..n, f[i] = f[j], i # j
        PROVE  \E a \in 1..n : \E b \in 1..(a - 1) : f[b] = f[a]
    <3>1. i < j => i \in 1..(j - 1)
      OBVIOUS
    <3>2. j < i => j \in 1..(i - 1)
      OBVIOUS
    <3>3. i < j \/ j < i
      BY <2>1
    <3> QED BY <2>1, <3>1, <3>2, <3>3
  <2>2. ASSUME NEW i \in 1..n, NEW j \in 1..(i - 1) PROVE j \in 1..n /\ j # i
    OBVIOUS
  <2> QED BY <2>1, <2>2
<1> QED BY <1>3, <1>4, <1>5, <1>6

\* The number of declared ids, and what a repeated id does to it.
LEMMA DeclaredIds ==
  ASSUME NEW ms \in Seq(ModuleSpecs)
  PROVE  /\ Len(ms) \in Nat /\ DOMAIN ms = 1..Len(ms)
         /\ Cardinality(KnownIds(ms)) \in Nat /\ Cardinality(KnownIds(ms)) <= Len(ms)
         /\ Cardinality(KnownIds(ms)) < Len(ms) <=>
              \E i \in DOMAIN ms : \E j \in 1..(i - 1) : ms[j].id = ms[i].id
<1> DEFINE n == Len(ms)
           f == [i \in 1..n |-> ms[i].id]
<1>1. n \in Nat /\ DOMAIN ms = 1..n
  OBVIOUS
<1>2. f \in Surjection(1..n, KnownIds(ms))
  BY <1>1 DEF KnownIds, Surjection
<1>3. \A i \in 1..n : \A j \in 1..(i - 1) : j \in 1..n /\ f[i] = ms[i].id /\ f[j] = ms[j].id
  BY <1>1
<1> HIDE DEF f, n
<1>4. /\ Cardinality(KnownIds(ms)) \in Nat /\ Cardinality(KnownIds(ms)) <= n
      /\ Cardinality(KnownIds(ms)) < n <=> \E i \in 1..n : \E j \in 1..(i - 1) : f[j] = f[i]
  BY <1>1, <1>2, RepeatsAreCounted
<1> QED BY <1>1, <1>3, <1>4 DEF n

\* The number of different dependency entries, and what a repeated entry does to it.
LEMMA DeclaredEntries ==
  ASSUME NEW s \in Seq(Nat)
  PROVE  /\ Len(s) \in Nat /\ DOMAIN s = 1..Len(s)
         /\ Cardinality(ToSet(s)) < Len(s) <=> \E k \in DOMAIN s : \E l \in 1..(k - 1) : s[l] = s[k]
<1>1. Len(s) \in Nat /\ DOMAIN s = 1..Len(s)
  OBVIOUS
<1>2. s \in Surjection(1..Len(s), ToSet(s))
  BY <1>1 DEF ToSet, Surjection
<1>3. Cardinality(ToSet(s)) < Len(s) <=> \E k \in 1..Len(s) : \E l \in 1..(k - 1) : s[l] = s[k]
  BY <1>1, <1>2, RepeatsAreCounted
<1> QED BY <1>1, <1>3

\* The entries of a module: the required ones come first.
LEMMA EntriesFacts ==
  ASSUME NEW m \in ModuleSpecs
  PROVE  /\ m.id \in Nat
         /\ EntriesOf(m) \in Seq(Nat)
         /\ Len(m.required_dependencies) \in Nat
         /\ DOMAIN m.required_dependencies = 1..Len(m.required_dependencies)
         /\ \A k \in 1..Len(m.required_dependencies) :
              k \in DOMAIN EntriesOf(m) /\ EntriesOf(m)[k] = m.required_dependencies[k]
         /\ \A d \in ToSet(EntriesOf(m)) : d \in ToSet(m.required_dependencies)
                                             \/ d \in ToSet(m.optional_dependencies)
<1> DEFINE r == m.required_dependencies  o == m.optional_dependencies
<1>1. m.id \in Nat /\ r \in Seq(Nat) /\ o \in Seq(Nat)
  BY DEF ModuleSpecs
<1>2. EntriesOf(m) = r \o o
  BY DEF EntriesOf
<1> HIDE DEF r, o
<1>3. /\ r \o o \in Seq(Nat) /\ Len(r \o o) = Len(r) + Len(o) /\ Len(r) \in Nat /\ Len(o) \in Nat
      /\ DOMAIN r = 1..Len(r) /\ DOMAIN o = 1..Len(o) /\ DOMAIN (r \o o) = 1..(Len(r) + Len(o))
      /\ \A k \in 1..(Len(r) + Len(o)) : (r \o o)[k] = IF k <= Len(r) THEN r[k] ELSE o[k - Len(r)]
  BY <1>1, ConcatProperties
<1>4. \A k \in 1..Len(r) : k \in DOMAIN (r \o o) /\ (r \o o)[k] = r[k]
  BY <1>3
<1>5. ASSUME NEW d \in ToSet(r \o o) PROVE d \in ToSet(r) \/ d \in ToSet(o)
  <2>1. PICK k \in 1..(Len(r) + Len(o)) : (r \o o)[k] = d
    BY <1>3 DEF ToSet
  <2>2. CASE k <= Len(r)
    BY <1>3, <2>1, <2>2 DEF ToSet
  <2>3. CASE ~(k <= Len(r))
    <3>1. k - Len(r) \in 1..Len(o) /\ o[k - Len(r)] = d
      BY <1>3, <2>1, <2>3
    <3> QED BY <1>3, <3>1 DEF ToSet
  <2> QED BY <2>2, <2>3
<1> QED BY <1>1, <1>2, <1>3, <1>4, <1>5 DEF r, o

\* The error of a list is the error of one of its elements, and "None" only if none of
\* them has one.
LEMMA DeclarationErrors ==
  ASSUME NEW ms \in Seq(ModuleSpecs)
  PROVE  /\ DeclarationError(ms) = "None" =>
              /\ \A i \in DOMAIN ms : IdError(ms, i) = "None"
              /\ \A i \in DOMAIN ms : \A k \in DOMAIN EntriesOf(ms[i]) : EntryError(ms, i, k) = "None"
         /\ DeclarationError(ms) # "None" =>
              \/ \E i \in DOMAIN ms : IdError(ms, i) = DeclarationError(ms)
              \/ \E i \in DOMAIN ms : \E k \in DOMAIN EntriesOf(ms[i]) :
                   EntryError(ms, i, k) = DeclarationError(ms)
<1> DEFINE badIds == {i \in DOMAIN ms : IdError(ms, i) # "None"}
           badEntries(i) == {k \in DOMAIN EntriesOf(ms[i]) : EntryError(ms, i, k) # "None"}
           badModules == {i \in DOMAIN ms : badEntries(i) # {}}
<1>1. DeclarationError(ms) =
        IF badIds # {} THEN IdError(ms, Smallest(badIds))
        ELSE IF badModules # {}
             THEN EntryError(ms, Smallest(badModules), Smallest(badEntries(Smallest(badModules))))
             ELSE "None"
  BY DEF DeclarationError
<1>2. DOMAIN ms = 1..Len(ms) /\ Len(ms) \in Nat /\ \A i \in DOMAIN ms : ms[i] \in ModuleSpecs
  OBVIOUS
<1>3. CASE badIds # {}
  <2>1. badIds \in SUBSET Nat
    BY <1>2
  <2>2. Smallest(badIds) \in badIds
    BY <1>3, <2>1, SmallestIsMember
  <2>3. PICK i \in DOMAIN ms : IdError(ms, i) # "None" /\ i = Smallest(badIds)
    BY <2>2
  <2> HIDE DEF badIds
  <2> QED BY <1>1, <1>3, <2>3
<1>4. CASE badIds = {} /\ badModules # {}
  <2>1. badModules \in SUBSET Nat
    BY <1>2
  <2>2. Smallest(badModules) \in badModules
    BY <1>4, <2>1, SmallestIsMember
  <2>3. PICK i \in DOMAIN ms : badEntries(i) # {} /\ i = Smallest(badModules)
    BY <2>2
  <2>4. EntriesOf(ms[i]) \in Seq(Nat)
    BY <1>2, EntriesFacts
  <2>5. badEntries(i) \in SUBSET Nat
    BY <2>4
  <2>6. Smallest(badEntries(i)) \in badEntries(i)
    BY <2>3, <2>5, SmallestIsMember
  <2>7. PICK k \in DOMAIN EntriesOf(ms[i]) : EntryError(ms, i, k) # "None" /\ k = Smallest(badEntries(i))
    BY <2>6
  <2> HIDE DEF badIds, badModules, badEntries
  <2> QED BY <1>1, <1>4, <2>3, <2>7
<1>5. CASE badIds = {} /\ badModules = {}
  <2>1. DeclarationError(ms) = "None"
    BY <1>1, <1>5
  <2>2. \A i \in DOMAIN ms : IdError(ms, i) = "None"
    BY <1>5
  <2>3. \A i \in DOMAIN ms : badEntries(i) = {}
    BY <1>5
  <2>4. \A i \in DOMAIN ms : \A k \in DOMAIN EntriesOf(ms[i]) : EntryError(ms, i, k) = "None"
    BY <2>3
  <2> QED BY <2>1, <2>2, <2>4
<1> QED BY <1>3, <1>4, <1>5
-----------------------------------------------------------------------------
(***************************************************************************)
(* The loop as a recursive function: what KahnRun returns.                 *)
(***************************************************************************)
\* Induction up to n, for a set of numbers.
LEMMA InductionUpTo ==
  ASSUME NEW n \in Nat, NEW P, 0 \in P, \A k \in 0..(n - 1) : k \in P => k + 1 \in P
  PROVE  \A k \in 0..n : k \in P
<1> SUFFICES ASSUME NEW k \in 0..n, k \notin P PROVE FALSE
  OBVIOUS
<1> DEFINE S == {j \in 0..n : j \notin P}
<1>1. S \in SUBSET Nat /\ S # {}
  OBVIOUS
<1>2. PICK m \in S : \A y \in S : m <= y
  BY <1>1, MinFacts
<1>3. m \in 0..n /\ m \notin P /\ m # 0
  BY <1>2
<1>4. m - 1 \in 0..(n - 1) /\ m - 1 \in 0..n /\ (m - 1) + 1 = m /\ ~(m <= m - 1)
  BY <1>3
<1>5. m - 1 \in P
  BY <1>2, <1>4
<1> QED BY <1>3, <1>4, <1>5

\* One round: the loop's condition and its body.
Round(a, s) == IF s.ready = {} THEN s ELSE KahnStep(a, s)

\* The states of the first n rounds.
IsRun(a, n, run) == run = [k \in 0..n |-> IF k = 0 THEN KahnInit(a) ELSE Round(a, run[k - 1])]
RunOf(a) == CHOOSE run : IsRun(a, Cardinality(DOMAIN a), run)

\* The recursive definition defines a function.
LEMMA RunExists ==
  ASSUME NEW a, NEW n \in Nat
  PROVE  \E run : IsRun(a, n, run)
<1> DEFINE P == {m \in 0..n : \E run : IsRun(a, m, run)}
<1>1. 0 \in P
  <2> DEFINE g == [k \in 0..0 |-> KahnInit(a)]
  <2>1. IsRun(a, 0, g)
    BY DEF IsRun
  <2> QED BY <2>1
<1>2. ASSUME NEW m \in 0..(n - 1), m \in P PROVE m + 1 \in P
  <2>1. PICK g : IsRun(a, m, g)
    BY <1>2
  <2> DEFINE h == [k \in 0..(m + 1) |-> IF k = m + 1 THEN Round(a, g[m]) ELSE g[k]]
  <2>2. ASSUME NEW k \in 0..(m + 1)
        PROVE  h[k] = IF k = 0 THEN KahnInit(a) ELSE Round(a, h[k - 1])
    <3>1. CASE k = m + 1
      <4>1. k # 0 /\ k - 1 = m /\ m \in 0..(m + 1) /\ m # m + 1
        BY <3>1
      <4> QED BY <3>1, <4>1
    <3>2. CASE k # m + 1 /\ k # 0
      <4>1. k \in 0..m /\ k - 1 \in 0..(m + 1) /\ k - 1 # m + 1
        BY <3>2
      <4>2. g[k] = Round(a, g[k - 1])
        BY <2>1, <3>2, <4>1 DEF IsRun
      <4> QED BY <3>2, <4>1, <4>2
    <3>3. CASE k # m + 1 /\ k = 0
      <4>1. k \in 0..m
        BY <3>3
      <4>2. g[k] = KahnInit(a)
        BY <2>1, <3>3, <4>1 DEF IsRun
      <4> QED BY <3>3, <4>2
    <3> QED BY <3>1, <3>2, <3>3
  <2>3. h = [k \in 0..(m + 1) |-> h[k]]
    OBVIOUS
  <2> HIDE DEF h
  <2>4. h = [k \in 0..(m + 1) |-> IF k = 0 THEN KahnInit(a) ELSE Round(a, h[k - 1])]
    BY <2>2, <2>3
  <2>5. IsRun(a, m + 1, h) /\ m + 1 \in 0..n
    BY <2>4 DEF IsRun
  <2> QED BY <2>5
<1> HIDE DEF P
<1>3. n \in P
  BY <1>1, <1>2, InductionUpTo
<1> QED BY <1>3 DEF P

\* The equation of the recursive definition, and its last value.
LEMMA RunFacts ==
  ASSUME NEW a, IsGraph(a)
  PROVE  LET n == Cardinality(DOMAIN a)
             run == RunOf(a)
         IN /\ n \in Nat
            /\ run[0] = KahnInit(a)
            /\ \A k \in 1..n : run[k] = Round(a, run[k - 1])
            /\ KahnRun(a) = run[n]
<1> DEFINE n == Cardinality(DOMAIN a)  run == RunOf(a)
<1>1. n \in Nat
  BY FS_CardinalityType DEF IsGraph
<1>2. IsRun(a, n, run)
  BY <1>1, RunExists DEF RunOf
<1>3. KahnRun(a) = run[n]
  BY DEF KahnRun, RunOf, IsRun, Round
<1> HIDE DEF n, run
<1>4. run[0] = KahnInit(a) /\ \A k \in 1..n : run[k] = Round(a, run[k - 1])
  BY <1>1, <1>2 DEF IsRun
<1> QED BY <1>1, <1>3, <1>4 DEF n, run

\* Modules are left as long as one is ready, and every iteration emits one: at most as many
\* iterations as there are modules.
LEMMA KahnLength ==
  ASSUME NEW a, NEW s, IsGraph(a), KahnLoop(a, s)
  PROVE  LET n == Cardinality(DOMAIN a)
         IN /\ Len(s.base_order) \in 0..n
            /\ Len(s.base_order) = n => EmittedIn(s) = DOMAIN a
            /\ s.ready # {} => Len(s.base_order) < n
<1> DEFINE n == Cardinality(DOMAIN a)
<1>1. IsFiniteSet(DOMAIN a) /\ s.base_order \in Seq(DOMAIN a)
  BY DEF IsGraph, KahnLoop, KahnStates
<1>2. Cardinality(EmittedIn(s)) = Len(s.base_order) /\ s.ready \subseteq LeftIn(a, s)
  BY DEF KahnLoop, KahnCounts
<1>3. EmittedIn(s) \in SUBSET DOMAIN a
  BY <1>1 DEF EmittedIn, ToSet
<1>4. /\ Cardinality(EmittedIn(s)) <= n
      /\ n = Cardinality(EmittedIn(s)) => DOMAIN a = EmittedIn(s)
  BY <1>1, <1>3, FS_Subset
<1>5. n \in Nat /\ Len(s.base_order) \in Nat
  BY <1>1, FS_CardinalityType
<1>6. s.ready # {} => EmittedIn(s) # DOMAIN a
  BY <1>2 DEF LeftIn
<1> QED BY <1>2, <1>4, <1>5, <1>6

\* After k rounds the loop has run k iterations, unless nothing was ready before.
LEMMA RunInvariant ==
  ASSUME NEW a, IsGraph(a)
  PROVE  \A k \in 0..Cardinality(DOMAIN a) :
           /\ KahnLoop(a, RunOf(a)[k])
           /\ RunOf(a)[k].ready = {} \/ Len(RunOf(a)[k].base_order) = k
<1> DEFINE n == Cardinality(DOMAIN a)  run == RunOf(a)
           P == {k \in 0..n : /\ KahnLoop(a, run[k])
                              /\ run[k].ready = {} \/ Len(run[k].base_order) = k}
<1>1. n \in Nat /\ run[0] = KahnInit(a) /\ \A k \in 1..n : run[k] = Round(a, run[k - 1])
  BY RunFacts
<1>2. 0 \in P
  <2>1. KahnLoop(a, run[0])
    BY <1>1, KahnInitOK
  <2>2. Len(run[0].base_order) = 0
    BY <1>1 DEF KahnInit
  <2> QED BY <1>1, <2>1, <2>2
<1> HIDE DEF n, run
<1>3. ASSUME NEW k \in 0..(n - 1), k \in P PROVE k + 1 \in P
  <2>1. KahnLoop(a, run[k]) /\ (run[k].ready = {} \/ Len(run[k].base_order) = k)
    BY <1>3
  <2>2. k + 1 \in 0..n /\ run[k + 1] = Round(a, run[k])
    <3>1. k + 1 \in 1..n /\ (k + 1) - 1 = k
      BY <1>1
    <3> QED BY <1>1, <3>1
  <2>3. CASE run[k].ready = {}
    BY <2>1, <2>2, <2>3 DEF Round
  <2>4. CASE run[k].ready # {}
    <3>1. run[k + 1] = KahnStep(a, run[k])
      BY <2>2, <2>4 DEF Round
    <3>2. KahnLoop(a, run[k + 1]) /\ Len(run[k + 1].base_order) = k + 1
      BY <2>1, <2>4, <3>1, KahnStepOK
    <3> QED BY <2>2, <3>2
  <2> QED BY <2>3, <2>4
<1> HIDE DEF P
<1>4. \A k \in 0..n : k \in P
  BY <1>1, <1>2, <1>3, InductionUpTo
<1> QED BY <1>4 DEF P, n, run

\* KahnRun stops where the loop does: in a state of the invariant with nothing ready.
LEMMA KahnRunOK ==
  ASSUME NEW a, IsGraph(a)
  PROVE  KahnLoop(a, KahnRun(a)) /\ KahnRun(a).ready = {}
<1> DEFINE n == Cardinality(DOMAIN a)
<1>1. n \in Nat /\ n \in 0..n /\ KahnRun(a) = RunOf(a)[n]
  BY RunFacts
<1>2. KahnLoop(a, KahnRun(a)) /\ (KahnRun(a).ready = {} \/ Len(KahnRun(a).base_order) = n)
  BY <1>1, RunInvariant
<1>3. KahnRun(a).ready # {} => Len(KahnRun(a).base_order) < n
  BY <1>2, KahnLength
<1> QED BY <1>1, <1>2, <1>3

\* A state of the loop is the one the recursive function has after as many rounds.
IsReached(a, s) == s = RunOf(a)[Len(s.base_order)]

\* So it is before the first iteration.
LEMMA ReachedInit ==
  ASSUME NEW a, IsGraph(a)
  PROVE  IsReached(a, KahnInit(a))
<1>1. Len(KahnInit(a).base_order) = 0
  BY DEF KahnInit
<1> QED BY <1>1, RunFacts DEF IsReached

\* And one iteration later.
LEMMA ReachedStep ==
  ASSUME NEW a, NEW s, IsGraph(a), KahnLoop(a, s), IsReached(a, s), s.ready # {}
  PROVE  IsReached(a, KahnStep(a, s))
<1> DEFINE n == Cardinality(DOMAIN a)  k == Len(s.base_order)
<1>1. k \in 0..n /\ k < n /\ n \in Nat
  BY KahnLength, RunFacts
<1>2. Len(KahnStep(a, s).base_order) = k + 1
  BY KahnStepOK
<1>3. k + 1 \in 1..n /\ (k + 1) - 1 = k
  BY <1>1
<1>4. RunOf(a)[k + 1] = Round(a, RunOf(a)[k])
  BY <1>3, RunFacts
<1> QED BY <1>2, <1>4 DEF IsReached, Round

\* When the loop exits, its state is the one KahnRun returns.
LEMMA ReachedEnd ==
  ASSUME NEW a, NEW s, IsGraph(a), KahnLoop(a, s), IsReached(a, s), s.ready = {}
  PROVE  s = KahnRun(a)
<1> DEFINE n == Cardinality(DOMAIN a)  k == Len(s.base_order)  run == RunOf(a)
           P == {i \in 0..(n - k) : run[k + i] = s}
<1>1. k \in 0..n /\ n \in Nat /\ run[k] = s
  BY KahnLength, RunFacts DEF IsReached
<1>2. \A i \in 1..n : run[i] = Round(a, run[i - 1])
  BY RunFacts
<1>3. KahnRun(a) = run[n]
  BY RunFacts
<1> HIDE DEF n, k, run
<1>4. n - k \in Nat /\ k + 0 = k /\ k + (n - k) = n /\ 0 \in 0..(n - k)
  BY <1>1
<1>5. 0 \in P
  BY <1>1, <1>4
<1>6. ASSUME NEW i \in 0..((n - k) - 1), i \in P PROVE i + 1 \in P
  <2>1. i + 1 \in 0..(n - k) /\ k + (i + 1) \in 1..n /\ (k + (i + 1)) - 1 = k + i
    BY <1>1, <1>4
  <2>2. run[k + (i + 1)] = Round(a, run[k + i])
    BY <1>2, <2>1
  <2>3. run[k + (i + 1)] = s
    BY <1>6, <2>2 DEF Round
  <2> QED BY <2>1, <2>3
<1> HIDE DEF P
<1>7. n - k \in P
  BY <1>4, <1>5, <1>6, InductionUpTo
<1> QED BY <1>3, <1>4, <1>7 DEF P

-----------------------------------------------------------------------------
(***************************************************************************)
(* The result of ValidateModuleGraph.                                      *)
(***************************************************************************)
\* The adjacency function of a module list is a finite graph over its ids.
LEMMA AdjacencyOK ==
  ASSUME NEW ms \in Seq(ModuleSpecs)
  PROVE  IsGraph(Adjacency(ms)) /\ DOMAIN Adjacency(ms) = KnownIds(ms)
<1>1. IsFiniteSet(KnownIds(ms)) /\ KnownIds(ms) \subseteq Nat
  BY KnownIdsFinite
<1>2. DOMAIN Adjacency(ms) = KnownIds(ms)
  BY DEF Adjacency
<1>3. Adjacency(ms) \in [KnownIds(ms) -> SUBSET KnownIds(ms)]
  BY DEF Adjacency
<1> QED BY <1>1, <1>2, <1>3 DEF IsGraph

\* What a list that passes the declaration checks looks like.
LEMMA AcceptedList ==
  ASSUME NEW ms \in Seq(ModuleSpecs), DeclarationError(ms) = "None"
  PROVE  /\ EmptyId \notin KnownIds(ms)
         /\ Cardinality(KnownIds(ms)) = Len(ms)
         /\ \A i \in DOMAIN ms :
              /\ ms[i].id \notin ToSet(EntriesOf(ms[i]))
              /\ ~(Cardinality(ToSet(EntriesOf(ms[i]))) < Len(EntriesOf(ms[i])))
              /\ ToSet(ms[i].required_dependencies) \subseteq ToSet(EntriesOf(ms[i])) \cap KnownIds(ms)
<1>1. /\ \A i \in DOMAIN ms : ms[i] \in ModuleSpecs
      /\ \A i \in DOMAIN ms : IdError(ms, i) = "None"
      /\ \A i \in DOMAIN ms : \A k \in DOMAIN EntriesOf(ms[i]) : EntryError(ms, i, k) = "None"
  BY DeclarationErrors
<1>2. EmptyId \notin KnownIds(ms)
  BY <1>1 DEF KnownIds, IdError
<1>3. Cardinality(KnownIds(ms)) = Len(ms)
  <2>1. ~ \E i \in DOMAIN ms : \E j \in 1..(i - 1) : ms[j].id = ms[i].id
    BY <1>1 DEF IdError
  <2> QED BY <2>1, DeclaredIds
<1>4. ASSUME NEW i \in DOMAIN ms
      PROVE  LET m == ms[i]
                 entries == EntriesOf(m)
             IN /\ m.id \notin ToSet(entries)
                /\ ~(Cardinality(ToSet(entries)) < Len(entries))
                /\ ToSet(m.required_dependencies) \subseteq ToSet(entries) \cap KnownIds(ms)
  <2> DEFINE m == ms[i]  entries == EntriesOf(m)
  <2>1. m \in ModuleSpecs /\ entries \in Seq(Nat)
    BY <1>1, EntriesFacts
  <2>2. \A k \in DOMAIN entries :
          /\ entries[k] # m.id
          /\ ~ \E l \in 1..(k - 1) : entries[l] = entries[k]
          /\ k <= Len(m.required_dependencies) => entries[k] \in KnownIds(ms)
    BY <1>1 DEF EntryError
  <2>3. m.id \notin ToSet(entries)
    BY <2>2 DEF ToSet
  <2>4. ~(Cardinality(ToSet(entries)) < Len(entries))
    BY <2>1, <2>2, DeclaredEntries
  <2>5. ToSet(m.required_dependencies) \subseteq ToSet(entries) \cap KnownIds(ms)
    <3>1. /\ DOMAIN m.required_dependencies = 1..Len(m.required_dependencies)
          /\ Len(m.required_dependencies) \in Nat
          /\ \A k \in 1..Len(m.required_dependencies) :
               k \in DOMAIN entries /\ entries[k] = m.required_dependencies[k]
      BY <2>1, EntriesFacts
    <3>2. \A k \in DOMAIN m.required_dependencies :
            m.required_dependencies[k] \in KnownIds(ms) /\ m.required_dependencies[k] \in ToSet(entries)
      BY <2>2, <3>1 DEF ToSet
    <3> QED BY <3>2 DEF ToSet
  <2> QED BY <2>3, <2>4, <2>5
<1> QED BY <1>2, <1>3, <1>4

\* A valid verdict was reached with every module emitted.
LEMMA ValidVerdict ==
  ASSUME NEW ms \in Seq(ModuleSpecs), ValidateModuleGraph(ms).valid
  PROVE  LET a == Adjacency(ms)
             s == KahnRun(a)
             r == ValidateModuleGraph(ms)
         IN /\ DeclarationError(ms) = "None" /\ IsGraph(a) /\ KahnLoop(a, s)
            /\ EmittedIn(s) = KnownIds(ms) /\ Len(s.base_order) = Len(ms)
            /\ r.error = "None" /\ r.base_order = s.base_order /\ r.startup_order = Reverse(s.base_order)
<1> DEFINE a == Adjacency(ms)  s == KahnRun(a)  r == ValidateModuleGraph(ms)
<1>1. DeclarationError(ms) = "None" /\ r = Verdict(a, s)
  BY DEF ValidateModuleGraph, Invalid
<1>2. IsGraph(a) /\ DOMAIN a = KnownIds(ms)
  BY AdjacencyOK
<1>3. KahnLoop(a, s)
  BY <1>2, KahnRunOK
<1> HIDE DEF a, s
<1>4. /\ Len(s.base_order) = Cardinality(DOMAIN a)
      /\ r = [valid |-> TRUE, error |-> "None", base_order |-> s.base_order,
              startup_order |-> Reverse(s.base_order)]
  BY <1>1 DEF Verdict, Invalid
<1>5. EmittedIn(s) = DOMAIN a
  BY <1>2, <1>3, <1>4, KahnLength
<1>6. Cardinality(KnownIds(ms)) = Len(ms)
  BY <1>1, AcceptedList
<1> HIDE DEF r
<1> QED BY <1>1, <1>2, <1>3, <1>4, <1>5, <1>6 DEF a, s, r

\* The startup order of a valid list has the declared modules, each of them once and after
\* all of its declared dependencies.
LEMMA StartupOrder ==
  ASSUME NEW ms \in Seq(ModuleSpecs), ValidateModuleGraph(ms).valid
  PROVE  LET order == ValidateModuleGraph(ms).startup_order
             ids == KnownIds(ms)
         IN /\ order \in Seq(ids) /\ Len(order) \in Nat /\ DOMAIN order = 1..Len(order)
            /\ Len(order) = Len(ms)
            /\ \A i, j \in 1..Len(order) : order[i] = order[j] => i = j
            /\ \A d \in ids : \E i \in 1..Len(order) : order[i] = d
            /\ \A i, j \in 1..Len(order) : order[j] \in Adjacency(ms)[order[i]] => j < i
<1> DEFINE a == Adjacency(ms)  base == KahnRun(a).base_order  n == Len(base)
           order == ValidateModuleGraph(ms).startup_order  ids == KnownIds(ms)
<1>0. /\ KahnLoop(a, KahnRun(a)) /\ DOMAIN a = ids /\ EmittedIn(KahnRun(a)) = ids
      /\ n = Len(ms) /\ order = Reverse(base) /\ a \in [ids -> SUBSET ids]
  BY ValidVerdict, AdjacencyOK DEF IsGraph
<1>1. base \in Seq(ids) /\ n \in Nat /\ DOMAIN base = 1..n
  BY <1>0 DEF KahnLoop, KahnStates
<1>2. /\ \A i, j \in 1..n : base[i] = base[j] => i = j
      /\ \A c \in ids : \A j \in 1..n : base[j] \in a[c] => \E i \in 1..n : i < j /\ base[i] = c
  BY <1>0, <1>1 DEF KahnLoop, KahnOrder
<1>3. \A d \in ids : \E i \in 1..n : base[i] = d
  BY <1>0, <1>1 DEF EmittedIn, ToSet
<1>5. order \in Seq(ids) /\ Len(order) = n /\ \A i \in 1..n : order[i] = base[(n - i) + 1]
  BY <1>0, <1>1, ReverseFacts
<1> HIDE DEF a, base, order, n
<1>6. \A i \in 1..n : (n - i) + 1 \in 1..n /\ (n - ((n - i) + 1)) + 1 = i
  BY <1>1
<1>7. \A i, j \in 1..n : order[i] = order[j] => i = j
  <2> SUFFICES ASSUME NEW i \in 1..n, NEW j \in 1..n, order[i] = order[j] PROVE i = j
    OBVIOUS
  <2> DEFINE k == (n - i) + 1  l == (n - j) + 1
  <2>1. k \in 1..n /\ l \in 1..n /\ base[k] = base[l]
    BY <1>5, <1>6
  <2> HIDE DEF k, l
  <2>2. k = l
    BY <1>2, <2>1
  <2> QED BY <1>1, <2>2 DEF k, l
<1>8. \A d \in ids : \E i \in 1..n : order[i] = d
  <2> SUFFICES ASSUME NEW d \in ids PROVE \E i \in 1..n : order[i] = d
    OBVIOUS
  <2>1. PICK i \in 1..n : base[i] = d
    BY <1>3
  <2>2. (n - i) + 1 \in 1..n /\ order[(n - i) + 1] = d
    BY <1>5, <1>6, <2>1
  <2> QED BY <2>2
<1>9. \A i, j \in 1..n : order[j] \in a[order[i]] => j < i
  <2> SUFFICES ASSUME NEW i \in 1..n, NEW j \in 1..n, order[j] \in a[order[i]] PROVE j < i
    OBVIOUS
  <2> DEFINE k == (n - i) + 1  l == (n - j) + 1
  <2>1. k \in 1..n /\ l \in 1..n /\ order[i] = base[k] /\ order[j] = base[l] /\ base[k] \in ids
    BY <1>1, <1>5, <1>6
  <2> HIDE DEF k, l
  <2>2. PICK c \in 1..n : c < l /\ base[c] = base[k]
    BY <1>2, <2>1
  <2>3. k < l
    BY <1>2, <2>1, <2>2
  <2> QED BY <1>1, <2>3 DEF k, l
<1>10. DOMAIN order = 1..n
  BY <1>5
<1>11. n = Len(ms)
  BY <1>0
<1> QED BY <1>1, <1>5, <1>7, <1>8, <1>9, <1>10, <1>11 DEF order, a

\* The type of the result, valid or not.
LEMMA ResultType ==
  ASSUME NEW ms \in Seq(ModuleSpecs)
  PROVE  LET r == ValidateModuleGraph(ms)
         IN r.valid \in BOOLEAN /\ r.error \in ErrorCodes /\ r.startup_order \in Seq(KnownIds(ms))
<1> DEFINE r == ValidateModuleGraph(ms)
<1>1. CASE r.valid
  <2>1. r.startup_order \in Seq(KnownIds(ms)) /\ r.error = "None"
    BY <1>1, StartupOrder, ValidVerdict
  <2>2. r.valid \in BOOLEAN
    BY DEF ValidateModuleGraph, Verdict, Invalid
  <2> QED BY <2>1, <2>2 DEF ErrorCodes
<1>2. CASE ~r.valid
  <2>1. r = Invalid(r.error) /\ r.error \in {DeclarationError(ms), "CycleDetected"}
    BY <1>2 DEF ValidateModuleGraph, Verdict, Invalid
  <2>2. DeclarationError(ms) \in ErrorCodes
    BY DeclarationErrors DEF IdError, EntryError, ErrorCodes
  <2>3. r.valid = FALSE /\ r.startup_order = <<>>
    BY <2>1 DEF Invalid
  <2>4. r.error \in ErrorCodes
    BY <2>1, <2>2 DEF ErrorCodes
  <2> HIDE DEF r
  <2>5. <<>> \in Seq(KnownIds(ms))
    OBVIOUS
  <2> QED BY <2>3, <2>4, <2>5 DEF r
<1> QED BY <1>1, <1>2
=============================================================================
