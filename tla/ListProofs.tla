------------------------------ MODULE ListProofs ------------------------------
(***************************************************************************)
(* Filters, numberings and sequences laid end to end, by the least place   *)
(* where they would go wrong; what a paste from a word processor comes to: *)
(* the paragraphs are the lists they were in, however many and however     *)
(* deep; what a picker of records keeps: its limit and its focus, whatever *)
(* answers are on their way; and the list whose rows are dragged: any      *)
(* number of rows, drags and reports.                                      *)
(***************************************************************************)
EXTENDS MCLists, Subsequences, SequencesExt, FiniteSetTheorems, SequenceTheorems, TLAPS

-----------------------------------------------------------------------------
(* Numbers.  Induction enters here: a set of naturals has a least element. *)

\* The order of the naturals, as a set of pairs.
Below == {p \in Nat \X Nat : p[1] < p[2]}

LEMMA BelowWF == IsWellFoundedOn(Below, Nat)
<1>1. Below = OpToRel(<, Nat)
  BY Zenon DEF Below, OpToRel
<1> QED
  BY <1>1, NatLessThanWellFounded, Zenon

\* A set of naturals that is not empty has a least one.
LEMMA LeastNumber ==
    ASSUME NEW T, T \subseteq Nat, T # {}
    PROVE \E x \in T : \A y \in T : x <= y
<1>1. PICK x \in T : \A y \in T : ~(<<y, x>> \in Below)
  BY BelowWF, WFMin
<1>2. ASSUME NEW y \in T PROVE x <= y
  <2>1. x \in Nat /\ y \in Nat
    OBVIOUS
  <2>2. ~(<<y, x>> \in Below)
    BY <1>1
  <2>3. ~(y < x)
    BY <2>1, <2>2 DEF Below
  <2> QED
    BY <2>1, <2>3
<1> QED
  BY <1>2

\* One that no number above n is in has a greatest one.
LEMMA GreatestNumber ==
    ASSUME NEW T, T \subseteq Nat, T # {}, NEW n \in Nat, \A y \in T : y <= n
    PROVE \E x \in T : \A y \in T : y <= x
<1> DEFINE Gaps == {n - y : y \in T}
<1>0. \A y \in T : y \in Nat /\ y <= n
  OBVIOUS
<1>1. Gaps \subseteq Nat /\ Gaps # {}
  <2>1. \A y \in T : n - y \in Nat
    BY <1>0
  <2> QED
    BY <2>1
<1> HIDE DEF Gaps
<1>2. PICK g \in Gaps : \A h \in Gaps : g <= h
  BY <1>1, LeastNumber
<1> USE DEF Gaps
<1>3. PICK x \in T : g = n - x
  OBVIOUS
<1>4. ASSUME NEW y \in T PROVE y <= x
  <2>1. n - x <= n - y
    BY <1>2, <1>3
  <2> QED
    BY <1>0, <2>1
<1> QED
  BY <1>4

LEMMA FirstNumbers ==
    ASSUME NEW n \in Nat
    PROVE IsFiniteSet(1..n) /\ Cardinality(1..n) = n
<1>1. 1 \in Int /\ n \in Int
  OBVIOUS
<1>2. /\ IsFiniteSet(1..n)
      /\ Cardinality(1..n) = IF 1 > n THEN 0 ELSE n - 1 + 1
  BY <1>1, FS_Interval
<1> QED
  BY <1>2

-----------------------------------------------------------------------------
(* The places of a set, in order.                                          *)

Rank(P, i) == Cardinality({j \in P : j <= i})
Places(P) == P \subseteq Nat /\ IsFiniteSet(P)

LEMMA RankType ==
    ASSUME NEW P, Places(P), NEW i \in P
    PROVE Rank(P, i) \in 1..Cardinality(P)
<1> DEFINE upto == {j \in P : j <= i}
<1>1. upto \in SUBSET P /\ i \in upto
  BY DEF Places
<1> HIDE DEF upto
<1>2. IsFiniteSet(upto) /\ Cardinality(upto) <= Cardinality(P)
  BY <1>1, FS_Subset DEF Places
<1>3. Cardinality(upto) # 0
  BY <1>1, <1>2, FS_EmptySet
<1>4. Cardinality(upto) \in Nat /\ Cardinality(P) \in Nat
  BY <1>2, FS_CardinalityType DEF Places
<1>5. Rank(P, i) = Cardinality(upto)
  BY DEF Rank, upto
<1> QED
  BY <1>2, <1>3, <1>4, <1>5

LEMMA RankGrows ==
    ASSUME NEW P, Places(P), NEW i \in P, NEW j \in P, i < j
    PROVE Rank(P, i) < Rank(P, j)
<1> DEFINE low == {k \in P : k <= i}
           high == {k \in P : k <= j}
<1>0. i \in Nat /\ j \in Nat /\ \A k \in P : k \in Nat
  BY DEF Places
<1>1. low \in SUBSET high /\ high \in SUBSET P /\ j \in high /\ j \notin low
  <2>1. \A k \in P : k <= i => k <= j
    BY <1>0
  <2>2. j <= j /\ ~(j <= i)
    BY <1>0
  <2>3. low \subseteq high /\ high \subseteq P
    BY <2>1
  <2> QED
    BY <2>2, <2>3
<1>2. Rank(P, i) = Cardinality(low) /\ Rank(P, j) = Cardinality(high)
  BY DEF Rank
<1> HIDE DEF low, high
<1>3. IsFiniteSet(high)
  BY <1>1, FS_Subset DEF Places
<1>4. /\ Cardinality(low) <= Cardinality(high)
      /\ Cardinality(low) # Cardinality(high)
  BY <1>1, <1>3, FS_Subset
<1>5. Rank(P, i) \in Nat /\ Rank(P, j) \in Nat
  BY RankType
<1> QED
  BY <1>2, <1>4, <1>5

LEMMA RankOnto ==
    ASSUME NEW P, Places(P), NEW k \in 1..Cardinality(P)
    PROVE \E i \in P : Rank(P, i) = k
<1> DEFINE f == [i \in P |-> Rank(P, i)]
           T == 1..Cardinality(P)
<1>1. Cardinality(P) \in Nat
  BY FS_CardinalityType DEF Places
<1>2. IsFiniteSet(T) /\ Cardinality(T) = Cardinality(P)
  BY <1>1, FS_Interval
<1>3. f \in [P -> T]
  BY RankType
<1>4. ASSUME NEW i \in P, NEW j \in P, f[i] = f[j] PROVE i = j
  <2>1. i \in Nat /\ j \in Nat
    BY DEF Places
  <2>2. Rank(P, i) = Rank(P, j) /\ Rank(P, i) \in Nat
    BY <1>4, RankType
  <2>3. ~(i < j) /\ ~(j < i)
    BY <2>2, RankGrows
  <2> QED
    BY <2>1, <2>3
<1>5. f \in Injection(P, T)
  BY <1>3, <1>4 DEF Injection, IsInjective
<1> HIDE DEF f, T
<1>6. f \in Surjection(P, T)
  BY <1>2, <1>5, FS_Injection DEF Places
<1>7. k \in T
  BY DEF T
<1>8. \E i \in P : f[i] = k
  BY <1>6, <1>7 DEF Surjection
<1> QED
  BY <1>8 DEF f

LEMMA NthFacts ==
    ASSUME NEW P, Places(P), NEW k \in 1..Cardinality(P)
    PROVE Nth(P, k) \in P /\ Rank(P, Nth(P, k)) = k
BY RankOnto DEF Nth, Rank

LEMMA NthGrows ==
    ASSUME NEW P, Places(P), NEW k \in 1..Cardinality(P), NEW l \in 1..Cardinality(P), k < l
    PROVE Nth(P, k) < Nth(P, l)
<1> DEFINE a == Nth(P, k)
           b == Nth(P, l)
<1>1. a \in P /\ Rank(P, a) = k /\ b \in P /\ Rank(P, b) = l
  BY NthFacts
<1>2. Cardinality(P) \in Nat /\ a \in Nat /\ b \in Nat
  BY <1>1, FS_CardinalityType DEF Places
<1> HIDE DEF a, b
<1>3. a # b
  BY <1>1, <1>2
<1>4. ~(b < a)
  <2> SUFFICES ASSUME b < a PROVE FALSE
    OBVIOUS
  <2>1. l < k
    BY <1>1, RankGrows
  <2> QED
    BY <1>2, <2>1
<1>5. a < b
  BY <1>2, <1>3, <1>4
<1> QED
  BY <1>5 DEF a, b

LEMMA NthOfRank ==
    ASSUME NEW P, Places(P), NEW i \in P
    PROVE Nth(P, Rank(P, i)) = i
<1> DEFINE k == Rank(P, i)
           n == Nth(P, k)
<1>1. k \in 1..Cardinality(P)
  BY RankType
<1>2. n \in P /\ Rank(P, n) = k
  BY <1>1, NthFacts
<1>3. n \in Nat /\ i \in Nat /\ k \in Nat
  <2> HIDE DEF k, n
  <2> QED
    BY <1>1, <1>2, FS_CardinalityType DEF Places
<1> HIDE DEF k, n
<1>4. ~(n < i) /\ ~(i < n)
  BY <1>2, <1>3, RankGrows DEF k
<1>5. n = i
  BY <1>3, <1>4
<1> QED
  BY <1>5 DEF k, n

-----------------------------------------------------------------------------
(* What a filter leaves.                                                   *)

LEMMA PickedType ==
    ASSUME NEW S, NEW seq \in Seq(S), NEW P, P \subseteq DOMAIN seq
    PROVE /\ Places(P)
          /\ PickedAt(seq, P) \in Seq(S)
          /\ Len(PickedAt(seq, P)) = Cardinality(P)
          /\ DOMAIN PickedAt(seq, P) = 1..Cardinality(P)
<1>1. DOMAIN seq = 1..Len(seq) /\ Len(seq) \in Nat
  BY LenProperties
<1>2. IsFiniteSet(1..Len(seq))
  BY <1>1, FirstNumbers
<1>3. Places(P)
  BY <1>1, <1>2, FS_Subset DEF Places
<1>4. Cardinality(P) \in Nat
  BY <1>3, FS_CardinalityType DEF Places
<1>5. \A k \in 1..Cardinality(P) : seq[Nth(P, k)] \in S
  <2> SUFFICES ASSUME NEW k \in 1..Cardinality(P) PROVE seq[Nth(P, k)] \in S
    OBVIOUS
  <2>1. Nth(P, k) \in 1..Len(seq)
    BY <1>1, <1>3, NthFacts
  <2> QED
    BY <2>1, ElementOfSeq
<1>6. PickedAt(seq, P) \in Seq(S) /\ Len(PickedAt(seq, P)) = Cardinality(P)
  <2> DEFINE f(k) == seq[Nth(P, k)]
  <2>1. PickedAt(seq, P) = [k \in 1..Cardinality(P) |-> seq[Nth(P, k)]]
    BY DEF PickedAt
  <2>2. PickedAt(seq, P) \in [1..Cardinality(P) -> S]
    BY <1>5, <2>1
  <2> QED
    BY <1>4, <2>2, SeqDef, LenProperties
<1> QED
  BY <1>3, <1>6 DEF PickedAt

\* Every item that was picked stands at a place of P, and in its order.
LEMMA PickedItem ==
    ASSUME NEW S, NEW seq \in Seq(S), NEW P, P \subseteq DOMAIN seq,
           NEW k \in 1..Cardinality(P)
    PROVE PickedAt(seq, P)[k] = seq[Nth(P, k)] /\ Nth(P, k) \in P
<1>1. Places(P)
  BY PickedType
<1> QED
  BY <1>1, NthFacts DEF PickedAt

LEMMA PickedRange ==
    ASSUME NEW S, NEW seq \in Seq(S), NEW P, P \subseteq DOMAIN seq
    PROVE Range(PickedAt(seq, P)) = {seq[i] : i \in P}
<1>1. Places(P) /\ DOMAIN PickedAt(seq, P) = 1..Cardinality(P)
  BY PickedType
<1>2. ASSUME NEW x \in Range(PickedAt(seq, P)) PROVE x \in {seq[i] : i \in P}
  <2>1. PICK k \in 1..Cardinality(P) : x = PickedAt(seq, P)[k]
    BY <1>1 DEF Range
  <2> QED
    BY <2>1, PickedItem
<1>3. ASSUME NEW i \in P PROVE seq[i] \in Range(PickedAt(seq, P))
  <2>1. Rank(P, i) \in 1..Cardinality(P) /\ Nth(P, Rank(P, i)) = i
    BY <1>1, RankType, NthOfRank
  <2>2. PickedAt(seq, P)[Rank(P, i)] = seq[i]
    BY <2>1, PickedItem
  <2> QED
    BY <1>1, <2>1, <2>2 DEF Range
<1> QED
  BY <1>2, <1>3

\* A sequence without repetition has none after a filter.
NoRepeat(seq) == \A i, j \in 1..Len(seq) : seq[i] = seq[j] => i = j

LEMMA PickedOnce ==
    ASSUME NEW S, NEW seq \in Seq(S), NEW P, P \subseteq DOMAIN seq, NoRepeat(seq)
    PROVE NoRepeat(PickedAt(seq, P))
<1>1. Places(P) /\ Len(PickedAt(seq, P)) = Cardinality(P) /\ DOMAIN seq = 1..Len(seq)
  BY PickedType, LenProperties
<1> SUFFICES ASSUME NEW i \in 1..Cardinality(P), NEW j \in 1..Cardinality(P),
                    PickedAt(seq, P)[i] = PickedAt(seq, P)[j]
             PROVE i = j
  BY <1>1 DEF NoRepeat
<1>2. seq[Nth(P, i)] = seq[Nth(P, j)] /\ Nth(P, i) \in 1..Len(seq) /\ Nth(P, j) \in 1..Len(seq)
  BY <1>1, PickedItem
<1>3. Nth(P, i) = Nth(P, j)
  BY <1>2 DEF NoRepeat
<1>4. Rank(P, Nth(P, i)) = i /\ Rank(P, Nth(P, j)) = j
  BY <1>1, NthFacts
<1> QED
  BY <1>3, <1>4

LEMMA KeptFacts ==
    ASSUME NEW S, NEW seq \in Seq(S), NEW T
    PROVE /\ Kept(seq, T) \in Seq(S)
          /\ Len(Kept(seq, T)) <= Len(seq)
          /\ Range(Kept(seq, T)) = Range(seq) \cap T
          /\ NoRepeat(seq) => NoRepeat(Kept(seq, T))
          /\ ~(Range(seq) \subseteq T) => Len(Kept(seq, T)) < Len(seq)
<1> DEFINE P == {i \in DOMAIN seq : seq[i] \in T}
<1>1. P \subseteq DOMAIN seq /\ DOMAIN seq = 1..Len(seq) /\ Len(seq) \in Nat
  BY LenProperties
<1>2. Kept(seq, T) = PickedAt(seq, P)
  BY DEF Kept
<1>3. Range(seq) \cap T = {seq[i] : i \in P}
  BY DEF Range
<1>6. ~(Range(seq) \subseteq T) => P # 1..Len(seq)
  BY <1>1 DEF Range
<1> HIDE DEF P
<1>4. IsFiniteSet(1..Len(seq)) /\ Cardinality(1..Len(seq)) = Len(seq)
  BY <1>1, FirstNumbers
<1>5. /\ Cardinality(P) <= Len(seq) /\ Cardinality(P) \in Nat
      /\ ~(Range(seq) \subseteq T) => Cardinality(P) # Len(seq)
  BY <1>1, <1>4, <1>6, FS_Subset, FS_CardinalityType
<1>7. ~(Range(seq) \subseteq T) => Cardinality(P) < Len(seq)
  BY <1>1, <1>5
<1> QED
  BY <1>1, <1>2, <1>3, <1>5, <1>7, PickedType, PickedRange, PickedOnce

LEMMA AscendingFacts ==
    ASSUME NEW P, Places(P)
    PROVE /\ Ascending(P) \in Seq(P)
          /\ Len(Ascending(P)) = Cardinality(P)
          /\ Range(Ascending(P)) = P
          /\ \A k, l \in 1..Cardinality(P) : k < l => Ascending(P)[k] < Ascending(P)[l]
          /\ NoRepeat(Ascending(P))
<1>1. Cardinality(P) \in Nat
  BY FS_CardinalityType DEF Places
<1>2. Ascending(P) \in [1..Cardinality(P) -> P]
  BY NthFacts DEF Ascending
<1>3. Ascending(P) \in Seq(P) /\ Len(Ascending(P)) = Cardinality(P)
  BY <1>1, <1>2, SeqDef, LenProperties
<1>4. ASSUME NEW i \in P PROVE i \in Range(Ascending(P))
  <2>1. Rank(P, i) \in 1..Cardinality(P) /\ Nth(P, Rank(P, i)) = i
    BY RankType, NthOfRank
  <2> QED
    BY <2>1 DEF Range, Ascending
<1>5. Range(Ascending(P)) \subseteq P
  BY <1>2 DEF Range
<1>6. \A k, l \in 1..Cardinality(P) : k < l => Ascending(P)[k] < Ascending(P)[l]
  BY NthGrows DEF Ascending
<1>7. NoRepeat(Ascending(P))
  <2> SUFFICES ASSUME NEW k \in 1..Cardinality(P), NEW l \in 1..Cardinality(P),
                      Ascending(P)[k] = Ascending(P)[l]
               PROVE k = l
    BY <1>3 DEF NoRepeat
  <2>1. Rank(P, Nth(P, k)) = k /\ Rank(P, Nth(P, l)) = l
    BY NthFacts
  <2>2. Nth(P, k) = Nth(P, l)
    BY DEF Ascending
  <2> QED
    BY <2>1, <2>2
<1> QED
  BY <1>3, <1>4, <1>5, <1>6, <1>7

LEMMA Joined ==
    ASSUME NEW S, NEW s \in Seq(S), NEW t \in Seq(S)
    PROVE /\ Range(s \o t) = Range(s) \union Range(t)
          /\ NoRepeat(s) /\ NoRepeat(t) /\ Range(s) \cap Range(t) = {} => NoRepeat(s \o t)
<1>1. /\ Len(s) \in Nat /\ Len(t) \in Nat
      /\ DOMAIN s = 1..Len(s) /\ DOMAIN t = 1..Len(t)
      /\ Len(s \o t) = Len(s) + Len(t) /\ DOMAIN (s \o t) = 1..(Len(s) + Len(t))
  BY ConcatProperties, LenProperties
<1>2. \A i \in 1..(Len(s) + Len(t)) :
         /\ i <= Len(s) => i \in 1..Len(s) /\ (s \o t)[i] = s[i]
         /\ ~(i <= Len(s)) => i - Len(s) \in 1..Len(t) /\ (s \o t)[i] = t[i - Len(s)]
  BY <1>1, ConcatProperties
<1>3. Range(s \o t) \subseteq Range(s) \union Range(t)
  BY <1>1, <1>2 DEF Range
<1>4. ASSUME NEW i \in 1..Len(s) PROVE s[i] \in Range(s \o t)
  <2>1. i \in 1..(Len(s) + Len(t)) /\ i <= Len(s)
    BY <1>1
  <2>2. (s \o t)[i] = s[i]
    BY <1>2, <2>1
  <2> QED
    BY <1>1, <2>1, <2>2 DEF Range
<1>5. ASSUME NEW i \in 1..Len(t) PROVE t[i] \in Range(s \o t)
  <2> DEFINE j == i + Len(s)
  <2>1. j \in 1..(Len(s) + Len(t)) /\ ~(j <= Len(s)) /\ j - Len(s) = i
    BY <1>1
  <2> HIDE DEF j
  <2>2. (s \o t)[j] = t[i]
    BY <1>2, <2>1
  <2> QED
    BY <1>1, <2>1, <2>2 DEF Range
<1>6. ASSUME NoRepeat(s), NoRepeat(t), Range(s) \cap Range(t) = {},
             NEW i \in 1..(Len(s) + Len(t)), NEW j \in 1..(Len(s) + Len(t)),
             (s \o t)[i] = (s \o t)[j]
      PROVE i = j
  <2>1. i \in Nat /\ j \in Nat
    BY <1>1
  <2>2. \A k \in 1..Len(s), l \in 1..Len(t) : s[k] # t[l]
    BY <1>1, <1>6 DEF Range
  <2>3. CASE i <= Len(s) /\ j <= Len(s)
    BY <1>2, <1>6, <2>3 DEF NoRepeat
  <2>4. CASE ~(i <= Len(s)) /\ ~(j <= Len(s))
    <3>1. i - Len(s) \in 1..Len(t) /\ j - Len(s) \in 1..Len(t) /\ t[i - Len(s)] = t[j - Len(s)]
      BY <1>2, <1>6, <2>4
    <3>2. i - Len(s) = j - Len(s)
      BY <1>6, <3>1 DEF NoRepeat
    <3> QED
      BY <1>1, <2>1, <3>2
  <2>5. ~(i <= Len(s) /\ ~(j <= Len(s))) /\ ~(j <= Len(s) /\ ~(i <= Len(s)))
    BY <1>2, <1>6, <2>2
  <2> QED
    BY <2>3, <2>4, <2>5
<1>7. Range(s \o t) = Range(s) \union Range(t)
  <2>1. Range(s) = {s[i] : i \in 1..Len(s)} /\ Range(t) = {t[i] : i \in 1..Len(t)}
    BY <1>1 DEF Range
  <2> QED
    BY <1>3, <1>4, <1>5, <2>1
<1>8. NoRepeat(s) /\ NoRepeat(t) /\ Range(s) \cap Range(t) = {} => NoRepeat(s \o t)
  BY <1>1, <1>6 DEF NoRepeat
<1> QED
  BY <1>7, <1>8

\* Queues: what is added at the end and taken from the front.
LEMMA Added ==
    ASSUME NEW S, NEW s \in Seq(S), NEW e \in S
    PROVE /\ Append(s, e) \in Seq(S)
          /\ Len(Append(s, e)) = Len(s) + 1
          /\ \A k \in 1..Len(s) : Append(s, e)[k] = s[k]
          /\ Append(s, e)[Len(s) + 1] = e
          /\ Append(s, e) # <<>>
BY AppendProperties, LenProperties

LEMMA Taken ==
    ASSUME NEW S, NEW s \in Seq(S), s # <<>>
    PROVE /\ Head(s) \in S /\ Head(s) = s[1]
          /\ Tail(s) \in Seq(S)
          /\ Len(s) \in Nat /\ Len(s) >= 1
          /\ Len(Tail(s)) = Len(s) - 1
          /\ \A k \in 1..Len(Tail(s)) : k + 1 \in 1..Len(s) /\ Tail(s)[k] = s[k + 1]
<1>1. Len(s) \in Nat /\ Len(s) # 0
  BY LenProperties, EmptySeq
<1>2. /\ Head(s) \in S /\ Head(s) = s[1]
      /\ Tail(s) \in Seq(S) /\ Len(Tail(s)) = Len(s) - 1
      /\ \A k \in 1..Len(Tail(s)) : Tail(s)[k] = s[k + 1]
  BY <1>1, HeadTailProperties, ElementOfSeq
<1> QED
  BY <1>1, <1>2

-----------------------------------------------------------------------------
(* Sequences laid end to end.  FlattenSeq is a recursive function: that    *)
(* there is one, and only one, is by the least place where there is not.   *)

LaidOut(seqs, n, f) == f = [i \in 1..n |-> IF i = 1 THEN seqs[i] ELSE f[i - 1] \o seqs[i]]

LEMMA LaidOutItem ==
    ASSUME NEW seqs, NEW n \in Nat, NEW f, LaidOut(seqs, n, f), NEW i \in 1..n
    PROVE f[i] = IF i = 1 THEN seqs[i] ELSE f[i - 1] \o seqs[i]
BY DEF LaidOut

LEMMA LaidOutAlike ==
    ASSUME NEW n \in Nat, NEW m \in Nat, n <= m, NEW s, NEW t, NEW f, NEW g,
           LaidOut(s, m, f), LaidOut(t, n, g), \A i \in 1..n : s[i] = t[i]
    PROVE \A i \in 1..n : f[i] = g[i]
<1> DEFINE differ == {i \in 1..n : f[i] # g[i]}
<1> SUFFICES ASSUME differ # {} PROVE FALSE
  OBVIOUS
<1>1. differ \subseteq Nat
  OBVIOUS
<1>2. PICK i \in differ : \A j \in differ : i <= j
  BY <1>1, LeastNumber
<1>3. /\ i \in 1..n /\ i \in 1..m /\ f[i] # g[i] /\ s[i] = t[i]
  BY <1>2
<1>4. /\ f[i] = IF i = 1 THEN s[i] ELSE f[i - 1] \o s[i]
      /\ g[i] = IF i = 1 THEN t[i] ELSE g[i - 1] \o t[i]
  BY <1>3, LaidOutItem
<1>5. CASE i = 1
  BY <1>3, <1>4, <1>5
<1>6. CASE i # 1
  <2>1. i - 1 \in 1..n /\ ~(i <= i - 1)
    BY <1>3, <1>6
  <2>2. f[i - 1] = g[i - 1]
    BY <1>2, <2>1
  <2> QED
    BY <1>3, <1>4, <1>6, <2>2
<1> QED
  BY <1>5, <1>6

LEMMA LaidOutExists ==
    ASSUME NEW seqs, NEW n \in Nat
    PROVE \E f : LaidOut(seqs, n, f)
<1> DEFINE never == {m \in Nat : ~\E f : LaidOut(seqs, m, f)}
<1> SUFFICES ASSUME never # {} PROVE FALSE
  OBVIOUS
<1>1. never \subseteq Nat
  OBVIOUS
<1>2. PICK m \in never : \A j \in never : m <= j
  BY <1>1, LeastNumber
<1>3. m \in Nat /\ ~\E f : LaidOut(seqs, m, f)
  BY <1>2
<1>4. CASE m = 0
  <2>1. LaidOut(seqs, 0, <<>>)
    BY DEF LaidOut
  <2> QED
    BY <1>3, <1>4, <2>1
<1>5. CASE m # 0
  <2>1. m - 1 \in Nat /\ ~(m <= m - 1)
    BY <1>3, <1>5
  <2>2. PICK f : LaidOut(seqs, m - 1, f)
    BY <1>2, <2>1
  <2> DEFINE g == [i \in 1..m |-> IF i = 1 THEN seqs[i] ELSE f[i - 1] \o seqs[i]]
  <2>3. ASSUME NEW i \in 1..m, i # 1
        PROVE f[i - 1] = g[i - 1]
    <3>1. i - 1 \in 1..(m - 1) /\ i - 1 \in 1..m
      BY <1>3, <2>3
    <3>2. f[i - 1] = IF i - 1 = 1 THEN seqs[i - 1] ELSE f[i - 1 - 1] \o seqs[i - 1]
      BY <2>1, <2>2, <3>1, LaidOutItem
    <3> QED
      BY <3>1, <3>2
  <2>4. g = [i \in 1..m |-> IF i = 1 THEN seqs[i] ELSE g[i - 1] \o seqs[i]]
    <3>1. \A i \in 1..m : g[i] = IF i = 1 THEN seqs[i] ELSE g[i - 1] \o seqs[i]
      BY <2>3
    <3>2. DOMAIN g = 1..m /\ g = [i \in 1..m |-> g[i]]
      OBVIOUS
    <3> HIDE DEF g
    <3> QED
      BY <3>1, <3>2
  <2> HIDE DEF g
  <2>5. LaidOut(seqs, m, g)
    BY <2>4 DEF LaidOut
  <2> QED
    BY <1>3, <2>5
<1> QED
  BY <1>4, <1>5

LEMMA FlatIsLaidOut ==
    ASSUME NEW S, NEW seqs \in Seq(Seq(S)), seqs # <<>>
    PROVE /\ Len(seqs) \in Nat /\ Len(seqs) >= 1
          /\ \E f : LaidOut(seqs, Len(seqs), f) /\ FlattenSeq(seqs) = f[Len(seqs)]
<1>1. Len(seqs) \in Nat /\ Len(seqs) # 0
  BY LenProperties, EmptySeq
<1> DEFINE n == Len(seqs)
           f == CHOOSE g : g = [i \in 1..n |-> IF i = 1 THEN seqs[i] ELSE g[i - 1] \o seqs[i]]
<1>2. FlattenSeq(seqs) = f[n]
  BY <1>1 DEF FlattenSeq
<1>3. \E g : g = [i \in 1..n |-> IF i = 1 THEN seqs[i] ELSE g[i - 1] \o seqs[i]]
  BY <1>1, LaidOutExists DEF LaidOut
<1>4. f = [i \in 1..n |-> IF i = 1 THEN seqs[i] ELSE f[i - 1] \o seqs[i]]
  BY <1>3
<1>5. LaidOut(seqs, n, f)
  BY <1>4, Zenon DEF LaidOut
<1> HIDE DEF f
<1>6. \E h : LaidOut(seqs, n, h) /\ FlattenSeq(seqs) = h[n]
  BY <1>2, <1>5
<1> QED
  BY <1>1, <1>6

LEMMA LaidOutType ==
    ASSUME NEW S, NEW seqs \in Seq(Seq(S)), NEW f, LaidOut(seqs, Len(seqs), f)
    PROVE \A i \in 1..Len(seqs) : f[i] \in Seq(S)
<1>1. Len(seqs) \in Nat /\ \A i \in 1..Len(seqs) : seqs[i] \in Seq(S)
  BY LenProperties, ElementOfSeq
<1> DEFINE bad == {i \in 1..Len(seqs) : f[i] \notin Seq(S)}
<1> SUFFICES ASSUME bad # {} PROVE FALSE
  OBVIOUS
<1>2. bad \subseteq Nat
  OBVIOUS
<1>3. PICK i \in bad : \A j \in bad : i <= j
  BY <1>2, LeastNumber
<1>4. i \in 1..Len(seqs) /\ f[i] \notin Seq(S)
  BY <1>3
<1>5. f[i] = IF i = 1 THEN seqs[i] ELSE f[i - 1] \o seqs[i]
  BY <1>1, <1>4, LaidOutItem
<1>6. i # 1
  BY <1>1, <1>4, <1>5
<1>7. i - 1 \in 1..Len(seqs) /\ ~(i <= i - 1)
  BY <1>1, <1>4, <1>6
<1>8. f[i - 1] \in Seq(S)
  BY <1>3, <1>7
<1> QED
  BY <1>1, <1>4, <1>5, <1>6, <1>8, ConcatProperties

LEMMA FlatType ==
    ASSUME NEW S, NEW seqs \in Seq(Seq(S))
    PROVE FlattenSeq(seqs) \in Seq(S)
<1>1. CASE seqs = <<>>
  <2>1. Len(seqs) = 0
    BY <1>1
  <2> QED
    BY <1>1, <2>1, EmptySeq DEF FlattenSeq
<1>2. CASE seqs # <<>>
  <2>1. PICK f : LaidOut(seqs, Len(seqs), f) /\ FlattenSeq(seqs) = f[Len(seqs)]
    BY <1>2, FlatIsLaidOut
  <2>2. Len(seqs) \in 1..Len(seqs)
    BY <1>2, FlatIsLaidOut
  <2> QED
    BY <2>1, <2>2, LaidOutType
<1> QED
  BY <1>1, <1>2

LEMMA FlatEmpty == FlattenSeq(<<>>) = <<>>
BY DEF FlattenSeq

\* One more sequence is laid at the end.
LEMMA FlatAppend ==
    ASSUME NEW S, NEW seqs \in Seq(Seq(S)), NEW s \in Seq(S)
    PROVE FlattenSeq(Append(seqs, s)) = FlattenSeq(seqs) \o s
<1> DEFINE n == Len(seqs)
           more == Append(seqs, s)
<1>1. /\ more \in Seq(Seq(S)) /\ Len(more) = n + 1 /\ more # <<>> /\ n \in Nat
      /\ \A i \in 1..n : more[i] = seqs[i]
      /\ more[n + 1] = s
  BY Added, LenProperties
<1> HIDE DEF more
<1>2. PICK f : LaidOut(more, n + 1, f) /\ FlattenSeq(more) = f[n + 1]
  BY <1>1, FlatIsLaidOut
<1>3. n + 1 \in Nat /\ n + 1 \in 1..(n + 1)
  BY <1>1
<1>4. f[n + 1] = IF n + 1 = 1 THEN s ELSE f[n + 1 - 1] \o s
  BY <1>1, <1>2, <1>3, LaidOutItem
<1>5. CASE seqs = <<>>
  <2>1. n = 0 /\ FlattenSeq(seqs) = <<>>
    BY <1>5, FlatEmpty
  <2>2. <<>> \o s = s
    BY ConcatEmptySeq
  <2> QED
    BY <1>2, <1>4, <1>5, <2>1, <2>2 DEF more
<1>6. CASE seqs # <<>>
  <2>1. PICK g : LaidOut(seqs, n, g) /\ FlattenSeq(seqs) = g[n]
    BY <1>6, FlatIsLaidOut
  <2>2. n >= 1 /\ n \in 1..n /\ n <= n + 1 /\ n <= n
    BY <1>6, FlatIsLaidOut
  <2>3. \A i \in 1..n : f[i] = g[i]
    <3> DEFINE m == n + 1
    <3>1. m \in Nat /\ n \in Nat /\ n <= m
      BY <1>1, <1>3
    <3>2. LaidOut(more, m, f) /\ LaidOut(seqs, n, g)
      BY <1>2, <2>1
    <3>3. \A i \in 1..n : more[i] = seqs[i]
      BY <1>1
    <3> HIDE DEF m, n
    <3> QED
      BY <3>1, <3>2, <3>3, LaidOutAlike
  <2>4. n + 1 # 1 /\ n + 1 - 1 = n
    BY <2>2
  <2> QED
    BY <1>2, <1>4, <2>1, <2>2, <2>3, <2>4 DEF more
<1> QED
  BY <1>5, <1>6

-----------------------------------------------------------------------------
(* Lists that were pasted: the levels of a run of Word's items.            *)

Unbroken(i, j) == \A m \in i..j : Lists!IsWord(pasted[m])
Level(i) == pasted[i].n
\* Not followed by an item as high or higher: the lists that are open at z.
OpenAt(z) == {i \in 1..z : Unbroken(i, z) /\ \A m \in (i + 1)..z : Level(m) > Level(i)}

PastedOK == pasted \in Seq(Lists!FromWord) \/ pasted \in Seq(Lists!FromText)

LEMMA WordFacts ==
    ASSUME NEW p \in Lists!FromWord
    PROVE p = Lists!Plain \/ (Lists!IsWord(p) /\ p.n \in Nat /\ p.n # 0)
BY PasteAssumption DEF Lists!FromWord, Lists!Word, Lists!IsWord

LEMMA TextFacts ==
    ASSUME NEW p \in Lists!FromText
    PROVE /\ ~Lists!IsWord(p) /\ p.n \in Nat
          /\ Lists!Bullet(p) \/ p.kind \in {"plain", "number"}
          /\ p.kind = "glyph" => p = Lists!Glyph
BY PasteAssumption DEF Lists!FromText, Lists!IsWord, Lists!Plain, Lists!Glyph, Lists!Dash,
                       Lists!Number, Lists!Bullet

LEMMA LevelType ==
    ASSUME PastedOK, NEW i \in 1..Len(pasted)
    PROVE /\ Level(i) \in Nat
          /\ Lists!IsWord(pasted[i]) => pasted \in Seq(Lists!FromWord) /\ Level(i) # 0
<1>1. CASE pasted \in Seq(Lists!FromWord)
  <2>1. pasted[i] \in Lists!FromWord
    BY <1>1, ElementOfSeq
  <2>2. Lists!Plain.n = 0 /\ ~Lists!IsWord(Lists!Plain)
    BY DEF Lists!Plain, Lists!IsWord
  <2> QED
    BY <1>1, <2>1, <2>2, WordFacts DEF Level
<1>2. CASE pasted \in Seq(Lists!FromText)
  <2>1. pasted[i] \in Lists!FromText
    BY <1>2, ElementOfSeq
  <2> QED
    BY <2>1, TextFacts DEF Level
<1> QED
  BY <1>1, <1>2 DEF PastedOK

\* Whatever level a run reaches, a list of that level or above is open after it.
LEMMA OpenBelow ==
    ASSUME PastedOK, NEW z \in 0..Len(pasted), NEW m \in 1..z, Unbroken(m, z)
    PROVE \E i \in OpenAt(z) : m <= i /\ Level(i) <= Level(m)
<1>0. Len(pasted) \in Nat /\ z \in Nat /\ m \in Nat /\ m >= 1 /\ m <= z
  BY LenProperties DEF PastedOK
<1>1. \A j \in m..z : Level(j) \in Nat
  <2>1. \A j \in m..z : j \in 1..Len(pasted)
    BY <1>0
  <2> QED
    BY <2>1, LevelType
<1> DEFINE levels == {Level(j) : j \in m..z}
<1>2. levels \subseteq Nat /\ levels # {}
  BY <1>0, <1>1
<1>3. PICK v \in levels : \A x \in levels : v <= x
  BY <1>2, LeastNumber
<1> DEFINE lowest == {j \in m..z : Level(j) = v}
<1>4. lowest \subseteq Nat /\ lowest # {} /\ \A j \in lowest : j <= z
  BY <1>0, <1>3
<1>5. PICK i \in lowest : \A j \in lowest : j <= i
  BY <1>0, <1>4, GreatestNumber
<1>6. i \in m..z /\ Level(i) = v /\ v \in Nat
  BY <1>2, <1>3, <1>5
<1>7. \A j \in m..z : v <= Level(j)
  BY <1>3
<1>8. \A j \in m..z : j > i => Level(j) # v
  <2> SUFFICES ASSUME NEW j \in m..z, j > i, Level(j) = v PROVE FALSE
    OBVIOUS
  <2>1. j <= i
    BY <1>5
  <2> QED
    BY <1>0, <1>6, <2>1
<1>9. \A j \in (i + 1)..z : j \in m..z /\ j > i
  BY <1>0, <1>6
<1>10. \A j \in (i + 1)..z : Level(j) > Level(i)
  <2> SUFFICES ASSUME NEW j \in (i + 1)..z PROVE Level(j) > Level(i)
    OBVIOUS
  <2>1. Level(j) \in Nat /\ v <= Level(j) /\ Level(j) # v
    BY <1>1, <1>7, <1>8, <1>9
  <2> QED
    BY <1>6, <2>1
<1>11. Unbroken(i, z)
  <2>1. \A j \in i..z : j \in m..z
    BY <1>0, <1>6
  <2> QED
    BY <2>1 DEF Unbroken
<1>12. i \in OpenAt(z)
  BY <1>0, <1>6, <1>10, <1>11 DEF OpenAt
<1>13. m <= i /\ Level(i) <= Level(m)
  BY <1>0, <1>1, <1>6, <1>7
<1> QED
  BY <1>12, <1>13

\* Where an item of level x after z goes: under t, or beside it; 0 is under none.
Goes(z, x, t) ==
    /\ t \in 0..z
    /\ t = 0 => \A m \in 1..z : Unbroken(m, z) => Level(m) > x
    /\ t # 0 => Unbroken(t, z) /\ Level(t) <= x /\ \A m \in (t + 1)..z : Level(m) > x

LEMMA GoesNowhere ==
    ASSUME PastedOK, NEW z \in 0..Len(pasted), NEW x \in Nat,
           \A i \in OpenAt(z) : Level(i) > x
    PROVE Goes(z, x, 0)
<1>1. ASSUME NEW m \in 1..z, Unbroken(m, z) PROVE Level(m) > x
  <2>1. PICK i \in OpenAt(z) : m <= i /\ Level(i) <= Level(m)
    BY <1>1, OpenBelow
  <2>2. Len(pasted) \in Nat
    BY LenProperties DEF PastedOK
  <2>3. i \in 1..Len(pasted) /\ m \in 1..Len(pasted)
    BY <2>2 DEF OpenAt
  <2>4. Level(i) \in Nat /\ Level(m) \in Nat /\ Level(i) > x
    BY <2>3, LevelType
  <2> QED
    BY <2>1, <2>4
<1> QED
  BY <1>1 DEF Goes

LEMMA GoesTo ==
    ASSUME PastedOK, NEW z \in 0..Len(pasted), NEW x \in Nat,
           NEW t \in OpenAt(z), Level(t) <= x,
           \A i \in OpenAt(z) : Level(i) <= x => i <= t
    PROVE Goes(z, x, t)
<1>0. Len(pasted) \in Nat
  BY LenProperties DEF PastedOK
<1>1. t \in 1..z /\ Unbroken(t, z)
  BY DEF OpenAt
<1>2. ASSUME NEW m \in (t + 1)..z PROVE Level(m) > x
  <2>1. m \in 1..z /\ m \in 1..Len(pasted) /\ Unbroken(m, z)
    <3>1. \A j \in m..z : j \in t..z
      BY <1>0, <1>1
    <3>2. m \in 1..z /\ m \in 1..Len(pasted)
      BY <1>0, <1>1
    <3> QED
      BY <1>1, <3>1, <3>2 DEF Unbroken
  <2>2. PICK i \in OpenAt(z) : m <= i /\ Level(i) <= Level(m)
    BY <2>1, OpenBelow
  <2>3. i \in 1..Len(pasted)
    BY <1>0 DEF OpenAt
  <2>4. Level(i) \in Nat /\ Level(m) \in Nat
    BY <2>1, <2>3, LevelType
  <2>5. ~(i <= t)
    BY <1>1, <2>1, <2>2, <2>3
  <2>6. ~(Level(i) <= x)
    BY <2>5
  <2> QED
    BY <2>2, <2>4, <2>6
<1>3. t # 0 /\ t \in 0..z
  BY <1>1
<1> QED
  BY <1>1, <1>2, <1>3 DEF Goes


LEMMA SiblingLevels ==
    ASSUME NEW i, NEW j
    PROVE Lists!Siblings(i, j) <=>
            Level(i) = Level(j) /\ Unbroken(i, j) /\ \A k \in i..j : Level(k) >= Level(i)
BY DEF Lists!Siblings, Unbroken, Level

Candidates(i) == {k \in 1..(i - 1) : Unbroken(k, i) /\ Level(k) < Level(i)
                                     /\ \A m \in (k + 1)..(i - 1) : Level(m) >= Level(i)}

OneOf(S) == IF S = {} THEN 0 ELSE CHOOSE k \in S : TRUE

LEMMA AboveIs ==
    ASSUME NEW i
    PROVE Lists!Above(i) = OneOf(Candidates(i))
<1>1. Candidates(i) = {k \in 1..(i - 1) :
                          /\ \A j \in k..i : Lists!IsWord(pasted[j])
                          /\ pasted[k].n < pasted[i].n
                          /\ \A j \in (k + 1)..(i - 1) : pasted[j].n >= pasted[i].n}
  BY DEF Candidates, Unbroken, Level
<1> QED
  BY <1>1 DEF Lists!Above, Lists!NoItem, OneOf

\* A new list hangs under the item it goes to, and holds nobody's sibling.
LEMMA NewListGoes ==
    ASSUME PastedOK, NEW z \in 0..(Len(pasted) - 1), Lists!IsWord(pasted[z + 1]),
           NEW t, Goes(z, Level(z + 1), t), t # 0 => Level(t) < Level(z + 1)
    PROVE /\ Lists!Above(z + 1) = t
          /\ \A i \in 1..z : ~Lists!Siblings(i, z + 1)
<1> DEFINE j == z + 1
           x == Level(j)
<1>0. /\ Len(pasted) \in Nat /\ z \in Nat /\ j \in 1..Len(pasted) /\ j - 1 = z /\ x \in Nat
      /\ \A m \in 1..z : Level(m) \in Nat
  <2>1. Len(pasted) \in Nat
    BY LenProperties DEF PastedOK
  <2>2. z \in Nat /\ j \in 1..Len(pasted) /\ j - 1 = z /\ \A m \in 1..z : m \in 1..Len(pasted)
    BY <2>1
  <2> QED
    BY <2>1, <2>2, LevelType
<1>1. /\ t \in 0..z
      /\ t = 0 => \A m \in 1..z : Unbroken(m, z) => Level(m) > x
      /\ t # 0 => Unbroken(t, z) /\ Level(t) < x /\ \A m \in (t + 1)..z : Level(m) > x
  BY DEF Goes
<1>2. \A k \in 1..z : Unbroken(k, j) <=> Unbroken(k, z)
  <2>1. \A k \in 1..z : \A m \in k..j : m \in k..z \/ m = j
    BY <1>0
  <2>2. \A k \in 1..z : \A m \in k..z : m \in k..j
    BY <1>0
  <2> QED
    BY <2>1, <2>2 DEF Unbroken
<1> HIDE DEF j, x
<1>3. \A k \in 1..z : k \in Candidates(j) <=>
         Unbroken(k, z) /\ Level(k) < x /\ \A m \in (k + 1)..z : Level(m) >= x
  BY <1>0, <1>2 DEF Candidates, x
<1>4. Candidates(j) \subseteq 1..z
  BY <1>0 DEF Candidates
<1>5. CASE t = 0
  <2>1. Candidates(j) = {}
    <3> SUFFICES ASSUME NEW k \in Candidates(j) PROVE FALSE
      OBVIOUS
    <3>1. k \in 1..z /\ Unbroken(k, z) /\ Level(k) < x
      BY <1>3, <1>4
    <3>2. Level(k) > x
      BY <1>1, <1>5, <3>1
    <3> QED
      BY <1>0, <3>1, <3>2
  <2>2. Lists!Above(j) = 0
    BY <2>1, AboveIs DEF OneOf
  <2>3. ASSUME NEW i \in 1..z, Lists!Siblings(i, j) PROVE FALSE
    <3>1. Level(i) = x /\ Unbroken(i, j)
      BY <2>3, SiblingLevels DEF x
    <3>2. Level(i) > x
      BY <1>1, <1>2, <1>5, <3>1
    <3> QED
      BY <1>0, <3>1, <3>2
  <2> QED
    BY <1>5, <2>2, <2>3 DEF j
<1>6. CASE t # 0
  <2>1. t \in 1..z /\ Unbroken(t, z) /\ Level(t) < x /\ \A m \in (t + 1)..z : Level(m) > x
    BY <1>0, <1>1, <1>6
  <2>2. t \in Candidates(j)
    <3>1. \A m \in (t + 1)..z : Level(m) >= x
      <4> SUFFICES ASSUME NEW m \in (t + 1)..z PROVE Level(m) >= x
        OBVIOUS
      <4>1. Level(m) > x /\ m \in 1..z
        BY <1>0, <2>1
      <4> QED
        BY <1>0, <4>1
    <3> QED
      BY <1>3, <2>1, <3>1
  <2>3. ASSUME NEW k \in Candidates(j) PROVE k = t
    <3>1. k \in 1..z /\ Unbroken(k, z) /\ Level(k) < x /\ \A m \in (k + 1)..z : Level(m) >= x
      BY <1>3, <1>4
    <3>2. ~(k < t)
      <4> SUFFICES ASSUME k < t PROVE FALSE
        OBVIOUS
      <4>1. t \in (k + 1)..z
        BY <1>0, <2>1, <3>1
      <4>2. Level(t) >= x
        BY <3>1, <4>1
      <4> QED
        BY <1>0, <2>1, <4>2
    <3>3. ~(t < k)
      <4> SUFFICES ASSUME t < k PROVE FALSE
        OBVIOUS
      <4>1. k \in (t + 1)..z
        BY <1>0, <2>1, <3>1
      <4>2. Level(k) > x
        BY <2>1, <4>1
      <4> QED
        BY <1>0, <3>1, <4>2
    <3> QED
      BY <1>0, <2>1, <3>1, <3>2, <3>3
  <2>4. Lists!Above(j) = t
    BY <2>2, <2>3, AboveIs DEF OneOf
  <2>5. ASSUME NEW i \in 1..z, Lists!Siblings(i, j) PROVE FALSE
    <3>1. Level(i) = x /\ \A k \in i..j : Level(k) >= Level(i)
      BY <2>5, SiblingLevels DEF x
    <3>2. ~(i <= t)
      <4> SUFFICES ASSUME i <= t PROVE FALSE
        OBVIOUS
      <4>1. t \in i..j
        BY <1>0, <2>1
      <4>2. Level(t) >= x
        BY <3>1, <4>1
      <4> QED
        BY <1>0, <2>1, <4>2
    <3>3. i \in (t + 1)..z
      BY <1>0, <2>1, <3>2
    <3>4. Level(i) > x
      BY <2>1, <3>3
    <3> QED
      BY <1>0, <3>1, <3>4
  <2> QED
    BY <2>4, <2>5 DEF j
<1> QED
  BY <1>5, <1>6

\* An item beside another hangs where that one does, and is a sibling of its siblings.
LEMMA SameListGoes ==
    ASSUME PastedOK, NEW z \in 0..(Len(pasted) - 1), Lists!IsWord(pasted[z + 1]),
           NEW t, Goes(z, Level(z + 1), t), t # 0, Level(t) = Level(z + 1)
    PROVE /\ Lists!Above(z + 1) = Lists!Above(t)
          /\ \A i \in 1..z : Lists!Siblings(i, z + 1) <=> i = t \/ (i < t /\ Lists!Siblings(i, t))
          /\ \A i \in 1..z : t < i => ~Lists!Siblings(t, i)
<1> DEFINE j == z + 1
           x == Level(j)
<1>0. /\ Len(pasted) \in Nat /\ z \in Nat /\ j \in 1..Len(pasted) /\ j - 1 = z /\ x \in Nat
      /\ j = z + 1
      /\ \A m \in 1..z : Level(m) \in Nat
  <2>1. Len(pasted) \in Nat
    BY LenProperties DEF PastedOK
  <2>2. z \in Nat /\ j \in 1..Len(pasted) /\ j - 1 = z /\ \A m \in 1..z : m \in 1..Len(pasted)
    BY <2>1
  <2> QED
    BY <2>1, <2>2, LevelType
<1>1. t \in 1..z /\ Unbroken(t, z) /\ Level(t) = x /\ \A m \in (t + 1)..z : Level(m) > x
  <2>1. t \in 0..z /\ Unbroken(t, z) /\ Level(t) = x /\ \A m \in (t + 1)..z : Level(m) > x
    BY DEF Goes
  <2> QED
    BY <2>1
<1>a. Unbroken(t, j)
  <2>1. \A m \in t..j : m \in t..z \/ m = j
    BY <1>0
  <2> QED
    BY <1>1, <2>1 DEF Unbroken
<1> HIDE DEF j, x
<1>2. \A m \in t..j : Level(m) >= x
  <2> SUFFICES ASSUME NEW m \in t..j PROVE Level(m) >= x
    OBVIOUS
  <2>1. m = t \/ m = j \/ m \in (t + 1)..z
    BY <1>0, <1>1
  <2>2. m \in (t + 1)..z => Level(m) > x /\ Level(m) \in Nat
    BY <1>0, <1>1
  <2>3. Level(j) = x
    BY DEF x
  <2> QED
    BY <1>0, <1>1, <2>1, <2>2, <2>3
<1>3. \A k \in 1..(t - 1) : Unbroken(k, j) <=> Unbroken(k, t)
  <2>1. \A k \in 1..(t - 1) : \A m \in k..j : m \in k..t \/ m \in t..j
    BY <1>0, <1>1
  <2>2. \A k \in 1..(t - 1) : \A m \in k..t : m \in k..j
    BY <1>0, <1>1
  <2> QED
    BY <1>a, <2>1, <2>2 DEF Unbroken
<1>4. \A k \in 1..(t - 1) :
         (\A m \in (k + 1)..z : Level(m) >= x) <=> (\A m \in (k + 1)..(t - 1) : Level(m) >= x)
  <2>1. \A k \in 1..(t - 1) : \A m \in (k + 1)..z : m \in (k + 1)..(t - 1) \/ m \in t..j
    BY <1>0, <1>1
  <2>2. \A k \in 1..(t - 1) : \A m \in (k + 1)..(t - 1) : m \in (k + 1)..z
    BY <1>0, <1>1
  <2> QED
    BY <1>2, <2>1, <2>2
<1>5. Candidates(j) = Candidates(t)
  <2>1. Candidates(j) = {k \in 1..z : Unbroken(k, j) /\ Level(k) < x
                                       /\ \A m \in (k + 1)..z : Level(m) >= x}
    BY <1>0 DEF Candidates, x
  <2>2. Candidates(t) = {k \in 1..(t - 1) : Unbroken(k, t) /\ Level(k) < x
                                       /\ \A m \in (k + 1)..(t - 1) : Level(m) >= x}
    BY <1>1 DEF Candidates
  <2>3. \A k \in 1..(t - 1) : k \in 1..z
    BY <1>0, <1>1
  <2>4. ASSUME NEW k \in Candidates(j) PROVE k \in 1..(t - 1)
    <3>1. k \in 1..z /\ Level(k) < x /\ \A m \in (k + 1)..z : Level(m) >= x
      BY <2>1
    <3>2. ~(k \in t..j)
      <4> SUFFICES ASSUME k \in t..j PROVE FALSE
        OBVIOUS
      <4>1. Level(k) >= x
        BY <1>2
      <4> QED
        BY <1>0, <3>1, <4>1
    <3> QED
      BY <1>0, <1>1, <3>1, <3>2
  <2>5. \A k \in 1..(t - 1) : k \in Candidates(j) <=> k \in Candidates(t)
    BY <1>3, <1>4, <2>1, <2>2, <2>3
  <2>6. Candidates(t) \subseteq 1..(t - 1)
    BY <2>2
  <2> QED
    BY <2>4, <2>5, <2>6
<1>6. Lists!Above(j) = Lists!Above(t)
  BY <1>5, AboveIs
<1>7. ASSUME NEW i \in 1..z
      PROVE Lists!Siblings(i, j) <=> i = t \/ (i < t /\ Lists!Siblings(i, t))
  <2>1. CASE i = t
    <3>1. Lists!Siblings(t, j)
      BY <1>1, <1>2, <1>a, SiblingLevels DEF x
    <3> QED
      BY <2>1, <3>1
  <2>2. CASE t < i
    <3>1. i \in (t + 1)..z
      BY <1>0, <1>1, <2>2
    <3>2. Level(i) > x
      BY <1>1, <3>1
    <3>3. ~Lists!Siblings(i, j)
      <4> SUFFICES ASSUME Level(i) = x PROVE FALSE
        BY SiblingLevels DEF x
      <4> QED
        BY <1>0, <3>2
    <3> QED
      BY <1>0, <1>1, <2>2, <3>3
  <2>3. CASE i < t
    <3>1. i \in 1..(t - 1)
      BY <1>0, <1>1, <2>3
    <3>2. \A k \in i..j : k \in i..t \/ k \in t..j
      BY <1>0, <1>1, <3>1
    <3>3. \A k \in i..t : k \in i..j
      BY <1>0, <1>1, <3>1
    <3>4. Level(i) = x =>
             ((\A k \in i..j : Level(k) >= Level(i)) <=> (\A k \in i..t : Level(k) >= Level(i)))
      BY <1>2, <3>2, <3>3
    <3>5. Lists!Siblings(i, j) <=> Lists!Siblings(i, t)
      BY <1>1, <1>3, <3>1, <3>4, SiblingLevels DEF x
    <3> QED
      BY <1>0, <1>1, <2>3, <3>1, <3>5
  <2> QED
    BY <1>0, <1>1, <2>1, <2>2, <2>3
<1>8. ASSUME NEW i \in 1..z, t < i PROVE ~Lists!Siblings(t, i)
  <2>1. i \in (t + 1)..z
    BY <1>0, <1>1, <1>8
  <2>2. Level(i) > x
    BY <1>1, <2>1
  <2> SUFFICES ASSUME Level(i) = x PROVE FALSE
    BY <1>1, SiblingLevels
  <2> QED
    BY <1>0, <2>2
<1> QED
  BY <1>6, <1>7, <1>8 DEF j


\* The stack of open lists: for each list that is open its latest item.
Entry == [list : Nat, level : Nat, item : Nat]
MadeList == [ordered : BOOLEAN, under : Nat]

HoldsOpen(s, S, p) ==
    /\ s \in Seq(Entry)
    /\ \A k \in 1..Len(s) : /\ s[k].item \in S
                            /\ s[k].level = Level(s[k].item) /\ s[k].list = p[s[k].item]
    /\ \A i \in S : \E k \in 1..Len(s) : s[k].item = i
    /\ \A k, l \in 1..Len(s) : k < l => s[k].item < s[l].item

Shaped(p, l, j) ==
    /\ l[p[j]].under = Lists!Above(j)
    /\ \A i \in 1..(j - 1) : Lists!IsWord(pasted[i]) => (p[i] = p[j] <=> Lists!Siblings(i, j))

PlacesHeld(z, p, l) ==
    /\ p \in Seq(Nat) /\ Len(p) = z /\ l \in Seq(MadeList)
    /\ \A i \in 1..z : Lists!IsWord(pasted[i]) => p[i] \in 1..Len(l) /\ Shaped(p, l, i)

\* What is open after one more item: what it leaves open, and itself.
LEMMA OpenNext ==
    ASSUME PastedOK, NEW z \in 0..(Len(pasted) - 1), Lists!IsWord(pasted[z + 1])
    PROVE OpenAt(z + 1) = {i \in OpenAt(z) : Level(i) < Level(z + 1)} \union {z + 1}
<1> DEFINE j == z + 1
<1>0. Len(pasted) \in Nat /\ z \in Nat /\ j \in Nat /\ j = z + 1 /\ j \in 1..j
  BY LenProperties DEF PastedOK
<1> HIDE DEF j
<1>1. \A i \in 1..z : Unbroken(i, j) <=> Unbroken(i, z)
  <2>1. \A k \in 1..z : \A m \in k..j : m \in k..z \/ m = j
    BY <1>0
  <2>2. \A k \in 1..z : \A m \in k..z : m \in k..j
    BY <1>0
  <2>3. Lists!IsWord(pasted[j])
    BY DEF j
  <2> QED
    BY <2>1, <2>2, <2>3 DEF Unbroken
<1>2. \A i \in 1..z : (\A m \in (i + 1)..j : Level(m) > Level(i)) <=>
                      Level(j) > Level(i) /\ (\A m \in (i + 1)..z : Level(m) > Level(i))
  <2>1. \A i \in 1..z : \A m \in (i + 1)..j : m \in (i + 1)..z \/ m = j
    BY <1>0
  <2>2. \A i \in 1..z : j \in (i + 1)..j /\ \A m \in (i + 1)..z : m \in (i + 1)..j
    BY <1>0
  <2> QED
    BY <2>1, <2>2
<1>3. \A i \in 1..z : Level(j) > Level(i) <=> Level(i) < Level(j)
  <2>1. \A i \in 1..z : Level(i) \in Nat
    <3>1. \A i \in 1..z : i \in 1..Len(pasted)
      BY <1>0
    <3> QED
      BY <3>1, LevelType
  <2>2. Level(j) \in Nat
    BY <1>0, LevelType
  <2> QED
    BY <2>1, <2>2
<1>4. \A i \in 1..z : i \in OpenAt(j) <=> i \in OpenAt(z) /\ Level(i) < Level(j)
  <2>1. \A i \in 1..z : i \in 1..j
    BY <1>0
  <2> QED
    BY <1>1, <1>2, <1>3, <2>1 DEF OpenAt
<1>5. j \in OpenAt(j)
  <2>1. Unbroken(j, j)
    <3>1. \A m \in j..j : m = j
      BY <1>0
    <3>2. Lists!IsWord(pasted[j])
      BY DEF j
    <3> QED
      BY <3>1, <3>2 DEF Unbroken
  <2>2. (j + 1)..j = {}
    BY <1>0
  <2> QED
    BY <1>0, <2>1, <2>2 DEF OpenAt
<1>6. \A i \in OpenAt(j) : i \in 1..z \/ i = j
  BY <1>0 DEF OpenAt
<1>7. OpenAt(z) \subseteq 1..z
  BY DEF OpenAt
<1>8. OpenAt(j) = {i \in OpenAt(z) : Level(i) < Level(j)} \union {j}
  BY <1>4, <1>5, <1>6, <1>7
<1> QED
  BY <1>8 DEF j

\* Where a paragraph was put does not depend on what is put after it.
LEMMA ShapedStays ==
    ASSUME NEW z \in Nat, NEW p, NEW l, PlacesHeld(z, p, l),
           NEW q, \A i \in 1..z : q[i] = p[i],
           NEW m, \A k \in 1..Len(l) : m[k] = l[k], NEW i \in 1..z, Lists!IsWord(pasted[i])
    PROVE Shaped(q, m, i)
<1>1. p[i] \in 1..Len(l) /\ Shaped(p, l, i) /\ q[i] = p[i] /\ m[p[i]] = l[p[i]]
  BY DEF PlacesHeld
<1>2. \A k \in 1..(i - 1) : k \in 1..z
  OBVIOUS
<1> QED
  BY <1>1, <1>2 DEF Shaped

LEMMA NewListStep ==
    ASSUME PastedOK, NEW z \in 0..(Len(pasted) - 1), Lists!IsWord(pasted[z + 1]),
           NEW p, NEW l, PlacesHeld(z, p, l),
           NEW t, Goes(z, Level(z + 1), t), t # 0 => Level(t) < Level(z + 1),
           NEW ordered \in BOOLEAN
    PROVE PlacesHeld(z + 1, Append(p, Len(l) + 1),
                     Append(l, [ordered |-> ordered, under |-> t]))
<1> DEFINE j == z + 1
           q == Append(p, Len(l) + 1)
           e == [ordered |-> ordered, under |-> t]
           m == Append(l, e)
<1>0. z \in Nat /\ j \in Nat /\ j = z + 1 /\ t \in Nat
  <2>1. z \in Nat
    OBVIOUS
  <2> QED
    BY <2>1 DEF Goes
<1>1. /\ p \in Seq(Nat) /\ Len(p) = z /\ l \in Seq(MadeList) /\ Len(l) \in Nat
      /\ \A i \in 1..z : Lists!IsWord(pasted[i]) => p[i] \in 1..Len(l) /\ Shaped(p, l, i)
  BY LenProperties DEF PlacesHeld
<1>2. e \in MadeList /\ e.under = t
  BY <1>0 DEF MadeList
<1> HIDE DEF e
<1>3. /\ q \in Seq(Nat) /\ Len(q) = j /\ \A i \in 1..z : q[i] = p[i]
      /\ q[j] = Len(l) + 1
  BY <1>1, Added
<1>4. /\ m \in Seq(MadeList) /\ Len(m) = Len(l) + 1 /\ \A k \in 1..Len(l) : m[k] = l[k]
      /\ m[Len(l) + 1] = e
  BY <1>1, <1>2, Added
<1> HIDE DEF q, m
<1>5. Lists!Above(j) = t /\ \A i \in 1..z : ~Lists!Siblings(i, j)
  BY NewListGoes
<1>6. Shaped(q, m, j)
  <2>1. \A i \in 1..(j - 1) : i \in 1..z
    BY <1>0
  <2>2. m[q[j]].under = Lists!Above(j)
    BY <1>2, <1>3, <1>4, <1>5
  <2>3. \A i \in 1..z : Lists!IsWord(pasted[i]) => q[i] # q[j]
    BY <1>1, <1>3
  <2> QED
    BY <1>5, <2>1, <2>2, <2>3 DEF Shaped
<1>7. ASSUME NEW i \in 1..z, Lists!IsWord(pasted[i])
      PROVE q[i] \in 1..Len(m) /\ Shaped(q, m, i)
  <2>1. Shaped(q, m, i)
    <3>1. \A k \in 1..z : q[k] = p[k]
      BY <1>3
    <3>2. \A k \in 1..Len(l) : m[k] = l[k]
      BY <1>4
    <3> QED
      BY <1>0, <1>7, <3>1, <3>2, ShapedStays
  <2>2. q[i] \in 1..Len(m)
    <3>1. q[i] = p[i] /\ p[i] \in 1..Len(l)
      BY <1>1, <1>3, <1>7
    <3> DEFINE w == Len(l)
               v == Len(m)
    <3>2. w \in Nat /\ v = w + 1
      BY <1>1, <1>4, LenProperties
    <3> HIDE DEF w, v
    <3>3. 1..w \subseteq 1..v
      BY <3>2
    <3> QED
      BY <3>1, <3>3 DEF w, v
  <2> QED
    BY <2>1, <2>2
<1>8. q[j] \in 1..Len(m)
  BY <1>1, <1>3, <1>4
<1>9. \A i \in 1..j : i \in 1..z \/ i = j
  BY <1>0
<1>10. PlacesHeld(j, q, m)
  BY <1>3, <1>4, <1>6, <1>7, <1>8, <1>9 DEF PlacesHeld
<1> QED
  BY <1>10 DEF j, q, m, e

LEMMA SameListStep ==
    ASSUME PastedOK, NEW z \in 0..(Len(pasted) - 1), Lists!IsWord(pasted[z + 1]),
           NEW p, NEW l, PlacesHeld(z, p, l),
           NEW t, Goes(z, Level(z + 1), t), t # 0, Level(t) = Level(z + 1)
    PROVE PlacesHeld(z + 1, Append(p, p[t]), l)
<1> DEFINE j == z + 1
           q == Append(p, p[t])
<1>0. z \in Nat /\ j \in Nat /\ j = z + 1 /\ t \in 1..z /\ Lists!IsWord(pasted[t])
  <2>1. z \in Nat /\ t \in 0..z /\ Unbroken(t, z)
    BY DEF Goes
  <2>2. t \in t..z
    BY <2>1
  <2> QED
    BY <2>1, <2>2 DEF Unbroken
<1>1. /\ p \in Seq(Nat) /\ Len(p) = z /\ l \in Seq(MadeList) /\ Len(l) \in Nat
      /\ \A i \in 1..z : Lists!IsWord(pasted[i]) => p[i] \in 1..Len(l) /\ Shaped(p, l, i)
  BY LenProperties DEF PlacesHeld
<1>2. p[t] \in Nat
  BY <1>0, <1>1
<1>3. /\ q \in Seq(Nat) /\ Len(q) = j /\ \A i \in 1..z : q[i] = p[i]
      /\ q[j] = p[t]
  BY <1>1, <1>2, Added
<1> HIDE DEF q
<1>5. /\ Lists!Above(j) = Lists!Above(t)
      /\ \A i \in 1..z : Lists!Siblings(i, j) <=> i = t \/ (i < t /\ Lists!Siblings(i, t))
      /\ \A i \in 1..z : t < i => ~Lists!Siblings(t, i)
  BY SameListGoes
<1>6. Shaped(q, l, j)
  <2>1. \A i \in 1..(j - 1) : i \in 1..z
    BY <1>0
  <2>2. l[q[j]].under = Lists!Above(j)
    BY <1>0, <1>1, <1>3, <1>5 DEF Shaped
  <2>3. ASSUME NEW i \in 1..z, Lists!IsWord(pasted[i])
        PROVE q[i] = q[j] <=> Lists!Siblings(i, j)
    <3>1. CASE i = t
      BY <1>3, <1>5, <3>1
    <3>2. CASE i < t
      <4>1. i \in 1..(t - 1)
        BY <1>0, <3>2
      <4>2. p[i] = p[t] <=> Lists!Siblings(i, t)
        BY <1>0, <1>1, <2>3, <4>1 DEF Shaped
      <4>3. i # t
        BY <1>0, <3>2
      <4> QED
        BY <1>3, <1>5, <3>2, <4>2, <4>3
    <3>3. CASE t < i
      <4>1. t \in 1..(i - 1)
        BY <1>0, <3>3
      <4>2. p[t] = p[i] <=> Lists!Siblings(t, i)
        BY <1>0, <1>1, <2>3, <4>1 DEF Shaped
      <4>3. i # t /\ ~(i < t)
        BY <1>0, <3>3
      <4> QED
        BY <1>3, <1>5, <3>3, <4>2, <4>3
    <3> QED
      BY <1>0, <3>1, <3>2, <3>3
  <2> QED
    BY <2>1, <2>2, <2>3 DEF Shaped
<1>7. ASSUME NEW i \in 1..z, Lists!IsWord(pasted[i])
      PROVE q[i] \in 1..Len(l) /\ Shaped(q, l, i)
  <2>1. Shaped(q, l, i)
    BY <1>0, <1>3, <1>7, ShapedStays
  <2> QED
    BY <1>1, <1>3, <1>7, <2>1
<1>8. q[j] \in 1..Len(l)
  BY <1>0, <1>1, <1>3
<1>9. \A i \in 1..j : i \in 1..z \/ i = j
  BY <1>0
<1>10. PlacesHeld(j, q, l)
  BY <1>1, <1>3, <1>6, <1>7, <1>8, <1>9 DEF PlacesHeld
<1> QED
  BY <1>10 DEF j, q


LEMMA EntryType ==
    ASSUME NEW s \in Seq(Entry), NEW k \in 1..Len(s)
    PROVE s[k].item \in Nat /\ s[k].level \in Nat /\ s[k].list \in Nat
<1>1. s[k] \in Entry
  BY ElementOfSeq
<1> QED
  BY <1>1 DEF Entry

\* The items on the stack are in order, and so are their levels.
LEMMA LaterIsDeeper ==
    ASSUME NEW z, NEW s, NEW p, HoldsOpen(s, OpenAt(z), p),
           NEW k \in 1..Len(s), NEW l \in 1..Len(s), k < l
    PROVE s[l].level > s[k].level
<1>1. /\ s[k].item \in OpenAt(z) /\ s[l].item \in OpenAt(z) /\ s[k].item < s[l].item
      /\ s[k].level = Level(s[k].item) /\ s[l].level = Level(s[l].item)
      /\ s \in Seq(Entry)
  BY DEF HoldsOpen
<1>2. s[k].item \in Nat /\ s[l].item \in Nat
  BY <1>1, EntryType
<1>3. s[l].item \in 1..z /\ \A m \in (s[k].item + 1)..z : Level(m) > Level(s[k].item)
  BY <1>1 DEF OpenAt
<1>4. s[l].item \in (s[k].item + 1)..z
  BY <1>1, <1>2, <1>3
<1> QED
  BY <1>1, <1>3, <1>4

LEMMA DepthFacts ==
    ASSUME PastedOK, NEW z \in 0..Len(pasted), NEW p, HoldsOpen(stack, OpenAt(z), p), NEW x \in Nat
    PROVE /\ Lists!Depth(x) \in 0..Len(stack)
          /\ \A k \in 1..Len(stack) : stack[k].level <= x <=> k <= Lists!Depth(x)
<1> DEFINE fit == {k \in DOMAIN stack : stack[k].level <= x}
           S == {0} \union fit
           d == Lists!Depth(x)
<1>0. stack \in Seq(Entry) /\ Len(stack) \in Nat /\ DOMAIN stack = 1..Len(stack)
  BY LenProperties DEF HoldsOpen
<1>1. \A k \in 1..Len(stack) : stack[k].level \in Nat
  BY <1>0, EntryType
<1>2. S \subseteq Nat /\ S # {} /\ \A k \in S : k <= Len(stack)
  BY <1>0
<1>3. d = CHOOSE k \in S : \A i \in S : k >= i
  BY DEF Lists!Depth, Lists!Max
<1> HIDE DEF S, d
<1>4. PICK k \in S : \A i \in S : i <= k
  BY <1>0, <1>2, GreatestNumber
<1>5. \A i \in S : k >= i
  BY <1>2, <1>4
<1>6. d \in S /\ \A i \in S : d >= i
  BY <1>3, <1>5
<1>7. d \in 0..Len(stack)
  BY <1>0, <1>2, <1>6
<1>8. ASSUME NEW i \in 1..Len(stack), stack[i].level <= x PROVE i <= d
  <2>1. i \in S
    BY <1>0, <1>8 DEF S
  <2> QED
    BY <1>2, <1>6, <2>1
<1>9. ASSUME NEW i \in 1..Len(stack), i <= d PROVE stack[i].level <= x
  <2>1. d \in 1..Len(stack) /\ stack[d].level <= x
    <3>1. d # 0
      BY <1>7, <1>9
    <3> QED
      BY <1>0, <1>6, <3>1 DEF S
  <2>2. CASE i = d
    BY <2>1, <2>2
  <2>3. CASE i # d
    <3>1. i < d
      BY <1>7, <1>9, <2>3
    <3>2. stack[d].level > stack[i].level
      BY <2>1, <3>1, LaterIsDeeper
    <3> QED
      BY <1>1, <2>1, <3>2
  <2> QED
    BY <2>2, <2>3
<1> QED
  BY <1>7, <1>8, <1>9 DEF d

LEMMA PrefixOpen ==
    ASSUME PastedOK, NEW z \in 0..Len(pasted), NEW p, HoldsOpen(stack, OpenAt(z), p), NEW x \in Nat
    PROVE HoldsOpen(SubSeq(stack, 1, Lists!Depth(x)), {i \in OpenAt(z) : Level(i) <= x}, p)
<1> DEFINE d == Lists!Depth(x)
           s == SubSeq(stack, 1, d)
           S == {i \in OpenAt(z) : Level(i) <= x}
<1>0. stack \in Seq(Entry) /\ Len(stack) \in Nat
  BY LenProperties DEF HoldsOpen
<1>1. d \in 0..Len(stack) /\ \A k \in 1..Len(stack) : stack[k].level <= x <=> k <= d
  BY DepthFacts
<1> HIDE DEF d
<1>2. /\ s \in Seq(Entry) /\ Len(s) = d /\ \A k \in 1..d : s[k] = stack[k]
  <2>1. 1 \in 1..(Len(stack) + 1) /\ d \in (1 - 1)..Len(stack) /\ d - 1 + 1 = d
    BY <1>0, <1>1
  <2>2. /\ s \in Seq(Entry) /\ Len(s) = d - 1 + 1
        /\ \A k \in 1..(d - 1 + 1) : s[k] = stack[1 + k - 1]
    BY <1>0, <2>1, SubSeqProperties
  <2>3. \A k \in 1..d : 1 + k - 1 = k
    BY <1>0, <1>1
  <2> QED
    BY <2>1, <2>2, <2>3
<1> HIDE DEF s
<1>3. \A k \in 1..d : k \in 1..Len(stack) /\ stack[k].level <= x
  <2>1. \A k \in 1..d : k \in 1..Len(stack) /\ k <= d
    BY <1>0, <1>1
  <2> QED
    BY <1>1, <2>1
<1>4. /\ \A k \in 1..Len(stack) : /\ stack[k].item \in OpenAt(z)
                                  /\ stack[k].level = Level(stack[k].item)
                                  /\ stack[k].list = p[stack[k].item]
      /\ \A i \in OpenAt(z) : \E k \in 1..Len(stack) : stack[k].item = i
      /\ \A k, l \in 1..Len(stack) : k < l => stack[k].item < stack[l].item
  BY DEF HoldsOpen
<1>5. \A k \in 1..d : s[k].item \in S /\ s[k].level = Level(s[k].item) /\ s[k].list = p[s[k].item]
  BY <1>2, <1>3, <1>4
<1>6. ASSUME NEW i \in S PROVE \E k \in 1..d : s[k].item = i
  <2>1. PICK k \in 1..Len(stack) : stack[k].item = i
    BY <1>4
  <2>2. stack[k].level <= x
    BY <1>4, <2>1
  <2>3. k \in 1..d
    BY <1>0, <1>1, <2>2
  <2> QED
    BY <1>2, <2>1, <2>3
<1>7. \A k, l \in 1..d : k < l => s[k].item < s[l].item
  BY <1>2, <1>3, <1>4
<1>8. HoldsOpen(s, S, p)
  BY <1>2, <1>5, <1>6, <1>7 DEF HoldsOpen
<1> QED
  BY <1>8 DEF s, d

\* A new list is opened on top.
LEMMA StackNew ==
    ASSUME PastedOK, NEW z \in 0..(Len(pasted) - 1), Lists!IsWord(pasted[z + 1]),
           NEW p, NEW s, NEW S, HoldsOpen(s, S, p),
           S = {i \in OpenAt(z) : Level(i) < Level(z + 1)},
           NEW q, \A i \in 1..z : q[i] = p[i], q[z + 1] \in Nat
    PROVE HoldsOpen(Append(s, [list |-> q[z + 1], level |-> Level(z + 1), item |-> z + 1]),
                    OpenAt(z + 1), q)
<1> DEFINE j == z + 1
           e == [list |-> q[j], level |-> Level(j), item |-> j]
           r == Append(s, e)
           n == Len(s)
<1>0. z \in Nat /\ j \in Nat /\ j = z + 1 /\ S \subseteq 1..z /\ Level(j) \in Nat
  <2>1. Len(pasted) \in Nat
    BY LenProperties DEF PastedOK
  <2>2. j \in 1..Len(pasted) /\ z \in Nat
    BY <2>1
  <2> QED
    BY <2>2, LevelType DEF OpenAt
<1>1. /\ s \in Seq(Entry) /\ n \in Nat
      /\ \A k \in 1..n : s[k].item \in S /\ s[k].level = Level(s[k].item) /\ s[k].list = p[s[k].item]
      /\ \A i \in S : \E k \in 1..n : s[k].item = i
      /\ \A k, l \in 1..n : k < l => s[k].item < s[l].item
  BY LenProperties DEF HoldsOpen
<1>2. OpenAt(j) = S \union {j}
  BY OpenNext
<1>3. e \in Entry /\ e.item = j /\ e.level = Level(j) /\ e.list = q[j]
  BY <1>0 DEF Entry
<1> HIDE DEF e, j, n
<1>4. /\ r \in Seq(Entry) /\ Len(r) = n + 1 /\ \A k \in 1..n : r[k] = s[k]
      /\ r[n + 1] = e
  BY <1>1, <1>3, Added DEF n
<1> HIDE DEF r
<1>5. \A k \in 1..(n + 1) : k \in 1..n \/ k = n + 1
  BY <1>1
<1>6. \A k \in 1..n : s[k].item \in 1..z /\ q[s[k].item] = p[s[k].item]
  BY <1>0, <1>1
<1>7. ASSUME NEW k \in 1..(n + 1)
      PROVE /\ r[k].item \in OpenAt(j) /\ r[k].level = Level(r[k].item)
            /\ r[k].list = q[r[k].item]
  <2>1. CASE k \in 1..n
    <3>1. r[k] = s[k]
      BY <1>4, <2>1
    <3>2. s[k].item \in OpenAt(j) /\ s[k].level = Level(s[k].item) /\ s[k].list = q[s[k].item]
      BY <1>1, <1>2, <1>6, <2>1
    <3> QED
      BY <3>1, <3>2
  <2>2. CASE k = n + 1
    <3>1. r[k] = e /\ j \in OpenAt(j)
      BY <1>2, <1>4, <2>2
    <3> QED
      BY <1>3, <3>1
  <2> QED
    BY <1>5, <2>1, <2>2
<1>8. \A i \in OpenAt(j) : \E k \in 1..(n + 1) : r[k].item = i
  <2>1. n + 1 \in 1..(n + 1) /\ \A k \in 1..n : k \in 1..(n + 1)
    BY <1>1
  <2> QED
    BY <1>1, <1>2, <1>3, <1>4, <2>1
<1>9. ASSUME NEW k \in 1..(n + 1), NEW l \in 1..(n + 1), k < l PROVE r[k].item < r[l].item
  <2>1. k \in 1..n
    BY <1>1, <1>9
  <2>2. CASE l \in 1..n
    BY <1>1, <1>4, <1>9, <2>1, <2>2
  <2>3. CASE l = n + 1
    <3>1. r[k].item = s[k].item /\ s[k].item \in 1..z /\ r[l].item = j
      BY <1>3, <1>4, <1>6, <2>1, <2>3
    <3> QED
      BY <1>0, <3>1
  <2> QED
    BY <1>5, <2>2, <2>3
<1>10. HoldsOpen(r, OpenAt(j), q)
  BY <1>4, <1>7, <1>8, <1>9 DEF HoldsOpen
<1> QED
  BY <1>10 DEF r, e, j

\* The list on top gets one more item.
LEMMA StackSame ==
    ASSUME PastedOK, NEW z \in 0..(Len(pasted) - 1), Lists!IsWord(pasted[z + 1]),
           NEW p, NEW s, NEW S, HoldsOpen(s, S, p), s # <<>>,
           S = {i \in OpenAt(z) : Level(i) <= Level(z + 1)},
           NEW t, t = s[Len(s)].item, Level(t) = Level(z + 1),
           NEW q, \A i \in 1..z : q[i] = p[i], q[z + 1] = p[t]
    PROVE HoldsOpen([s EXCEPT ![Len(s)].item = z + 1], OpenAt(z + 1), q)
<1> DEFINE j == z + 1
           n == Len(s)
           e == [s[n] EXCEPT !.item = j]
           r == [s EXCEPT ![n] = e]
<1>0. z \in Nat /\ j \in Nat /\ j = z + 1 /\ S \subseteq 1..z /\ Level(j) \in Nat
  <2>1. Len(pasted) \in Nat
    BY LenProperties DEF PastedOK
  <2>2. j \in 1..Len(pasted) /\ z \in Nat
    BY <2>1
  <2> QED
    BY <2>2, LevelType DEF OpenAt
<1>1. /\ s \in Seq(Entry) /\ n \in Nat
      /\ \A k \in 1..n : s[k].item \in S /\ s[k].level = Level(s[k].item) /\ s[k].list = p[s[k].item]
      /\ \A i \in S : \E k \in 1..n : s[k].item = i
      /\ \A k, l \in 1..n : k < l => s[k].item < s[l].item
  BY LenProperties DEF HoldsOpen
<1>2. OpenAt(j) = {i \in OpenAt(z) : Level(i) < Level(j)} \union {j}
  BY OpenNext
<1>a. n \in 1..n /\ n # 0
  BY <1>1, EmptySeq
<1>b. s[n] \in Entry
  BY <1>1, <1>a, ElementOfSeq
<1>3. e \in Entry /\ e.item = j /\ e.level = s[n].level /\ e.list = s[n].list
  BY <1>0, <1>b DEF Entry
<1>c. [s EXCEPT ![n].item = j] = r
  OBVIOUS
<1>d. s[n].item = t /\ Level(t) = Level(j) /\ q[j] = p[t]
  OBVIOUS
<1> HIDE DEF e, j, n
<1>4. /\ r \in Seq(Entry) /\ Len(r) = n /\ \A k \in 1..n : k # n => r[k] = s[k]
      /\ r[n] = e
  <2>1. r \in Seq(Entry)
    BY <1>1, <1>3, <1>a, ExceptSeq DEF n
  <2>2. DOMAIN s = 1..n
    BY <1>1, LenProperties DEF n
  <2>3. DOMAIN r = 1..n /\ r[n] = e /\ \A k \in 1..n : k # n => r[k] = s[k]
    BY <1>a, <2>2
  <2> HIDE DEF r
  <2>4. Len(r) = n
    BY <1>1, <2>1, <2>3, LenProperties
  <2> QED
    BY <2>1, <2>3, <2>4
<1> HIDE DEF r
<1>6. \A k \in 1..n : s[k].item \in 1..z /\ q[s[k].item] = p[s[k].item]
  BY <1>0, <1>1
<1>e. \A i \in 1..z : Level(i) \in Nat
  <2>1. Len(pasted) \in Nat
    BY LenProperties DEF PastedOK
  <2>2. \A i \in 1..z : i \in 1..Len(pasted)
    BY <2>1
  <2> QED
    BY <2>2, LevelType
<1>f. \A k \in 1..n : k # n => Level(s[k].item) < Level(j)
  <2> SUFFICES ASSUME NEW k \in 1..n, k # n PROVE Level(s[k].item) < Level(j)
    OBVIOUS
  <2>1. k < n
    BY <1>1
  <2>2. s[k].item < t /\ s[k].item \in OpenAt(z) /\ t \in 1..z
    BY <1>0, <1>1, <1>a, <1>d, <2>1
  <2>3. \A m \in (s[k].item + 1)..z : Level(m) > Level(s[k].item)
    BY <2>2 DEF OpenAt
  <2>4. t \in (s[k].item + 1)..z
    <3> DEFINE under == s[k].item
    <3>1. under \in Nat /\ under < t /\ t \in 1..z /\ z \in Nat
      BY <1>0, <1>6, <2>2
    <3> HIDE DEF under
    <3>2. t \in (under + 1)..z
      BY <3>1
    <3> QED
      BY <3>2 DEF under
  <2>5. Level(t) > Level(s[k].item) /\ Level(s[k].item) \in Nat /\ Level(t) \in Nat
    BY <1>6, <1>e, <2>2, <2>3, <2>4
  <2> QED
    BY <1>d, <2>5
<1>7. ASSUME NEW k \in 1..n
      PROVE /\ r[k].item \in OpenAt(j) /\ r[k].level = Level(r[k].item)
            /\ r[k].list = q[r[k].item]
  <2>1. CASE k = n
    <3>1. r[k].item = j /\ r[k].level = Level(t) /\ r[k].list = p[t]
      BY <1>1, <1>3, <1>4, <1>a, <1>d, <2>1
    <3> QED
      BY <1>2, <1>d, <3>1
  <2>2. CASE k # n
    <3>1. r[k] = s[k] /\ s[k].item \in OpenAt(z)
      BY <1>1, <1>4, <2>2
    <3> QED
      BY <1>1, <1>2, <1>6, <1>f, <2>2, <3>1
  <2> QED
    BY <2>1, <2>2
<1>8. ASSUME NEW i \in OpenAt(j) PROVE \E k \in 1..n : r[k].item = i
  <2>1. CASE i = j
    BY <1>3, <1>4, <1>a, <2>1
  <2>2. CASE i # j
    <3>1. i \in OpenAt(z) /\ Level(i) < Level(j)
      BY <1>2, <2>2
    <3>2. i \in 1..z
      BY <3>1 DEF OpenAt
    <3>3. i \in S
      <4>1. Level(i) <= Level(j)
        BY <1>0, <1>e, <3>1, <3>2
      <4> QED
        BY <3>1, <4>1 DEF j
    <3>4. PICK k \in 1..n : s[k].item = i
      BY <1>1, <3>3
    <3>5. k # n
      <4> SUFFICES ASSUME k = n PROVE FALSE
        OBVIOUS
      <4>1. Level(i) = Level(j)
        BY <1>d, <3>4
      <4> QED
        BY <1>0, <3>1, <4>1
    <3> QED
      BY <1>4, <3>4, <3>5
  <2> QED
    BY <2>1, <2>2
<1>9. ASSUME NEW k \in 1..n, NEW l \in 1..n, k < l PROVE r[k].item < r[l].item
  <2>1. k # n /\ r[k].item = s[k].item /\ s[k].item \in 1..z
    <3>1. k # n
      BY <1>1, <1>9
    <3> QED
      BY <1>4, <1>6, <3>1
  <2>2. CASE l # n
    BY <1>1, <1>4, <1>9, <2>1, <2>2
  <2>3. CASE l = n
    <3>1. r[l].item = j
      BY <1>3, <1>4, <2>3
    <3> QED
      BY <1>0, <2>1, <3>1
  <2> QED
    BY <2>2, <2>3
<1>10. HoldsOpen(r, OpenAt(j), q)
  BY <1>4, <1>7, <1>8, <1>9 DEF HoldsOpen
<1> QED
  BY <1>10, <1>c DEF r, e, j, n


\* What Word's items have been made into, up to the one the pass has come to.
WordInv ==
    /\ at \in 1..(Len(pasted) + 1)
    /\ PlacesHeld(at - 1, place, lists)
    /\ stack \in Seq(Entry)
    /\ at > 1 /\ Lists!IsWord(pasted[at - 1]) => HoldsOpen(stack, OpenAt(at - 1), place)

LEMMA NothingOpen ==
    ASSUME NEW z, z \in Nat, z # 0 => ~Lists!IsWord(pasted[z])
    PROVE OpenAt(z) = {}
<1> SUFFICES ASSUME NEW i \in OpenAt(z) PROVE FALSE
  OBVIOUS
<1>1. i \in 1..z /\ Unbroken(i, z)
  BY DEF OpenAt
<1>2. z \in i..z /\ z # 0
  BY <1>1
<1> QED
  BY <1>1, <1>2 DEF Unbroken

LEMMA OpenForFacts ==
    ASSUME PastedOK, WordInv, at <= Len(pasted), NEW x \in Nat
    PROVE HoldsOpen(Lists!OpenFor(x), {i \in OpenAt(at - 1) : Level(i) <= x}, place)
<1> DEFINE z == at - 1
           S == {i \in OpenAt(z) : Level(i) <= x}
<1>0. Len(pasted) \in Nat /\ at \in Nat /\ at >= 1
  BY LenProperties DEF PastedOK, WordInv
<1>1. z \in 0..Len(pasted) /\ z \in Nat /\ (at = 1 <=> z = 0) /\ (at > 1 <=> z # 0)
  BY <1>0
<1>2. CASE at = 1 \/ ~Lists!IsWord(pasted[at - 1])
  <2>1. Lists!OpenFor(x) = <<>>
    BY <1>2 DEF Lists!OpenFor
  <2>2. OpenAt(z) = {}
    <3>1. z # 0 => ~Lists!IsWord(pasted[z])
      BY <1>1, <1>2
    <3> HIDE DEF z
    <3> QED
      BY <1>1, <3>1, NothingOpen
  <2>3. S = {}
    BY <2>2
  <2>4. <<>> \in Seq(Entry) /\ Len(<<>>) = 0
    BY EmptySeq
  <2>5. HoldsOpen(<<>>, {}, place)
    <3>1. 1..0 = {}
      OBVIOUS
    <3> QED
      BY <2>4, <3>1 DEF HoldsOpen
  <2> QED
    BY <2>1, <2>3, <2>5
<1>3. CASE ~(at = 1 \/ ~Lists!IsWord(pasted[at - 1]))
  <2>1. Lists!OpenFor(x) = SubSeq(stack, 1, Lists!Depth(x))
    BY <1>3 DEF Lists!OpenFor
  <2>2. HoldsOpen(stack, OpenAt(z), place)
    BY <1>1, <1>3 DEF WordInv
  <2>3. HoldsOpen(SubSeq(stack, 1, Lists!Depth(x)), S, place)
    <3> HIDE DEF z
    <3> QED
      BY <1>1, <2>2, PrefixOpen
  <2> QED
    BY <2>1, <2>3
<1> QED
  BY <1>2, <1>3

LEMMA PastedSame ==
    ASSUME pasted' = pasted
    PROVE /\ \A j : Lists!Above(j)' = Lists!Above(j)
          /\ \A i, j : Lists!Siblings(i, j)' = Lists!Siblings(i, j)
          /\ \A i : Level(i)' = Level(i)
          /\ \A i : OpenAt(i)' = OpenAt(i)
<1>1. \A i : Lists!IsWord(pasted[i])' = Lists!IsWord(pasted[i])
  BY DEF Lists!IsWord
<1>2. \A i : Level(i)' = Level(i)
  BY DEF Level
<1>3. \A j : Lists!Above(j)' = Lists!Above(j)
  BY DEF Lists!Above, Lists!NoItem, Lists!IsWord
<1>4. \A i, j : Lists!Siblings(i, j)' = Lists!Siblings(i, j)
  BY DEF Lists!Siblings, Lists!IsWord
<1>5. \A i : OpenAt(i)' = OpenAt(i)
  BY DEF OpenAt, Unbroken, Level, Lists!IsWord
<1> QED
  BY <1>2, <1>3, <1>4, <1>5

LEMMA WordInvNext ==
    ASSUME pasted' = pasted, at' \in 1..(Len(pasted) + 1), NEW z, at' - 1 = z,
           PlacesHeld(z, place', lists'),
           \/ HoldsOpen(stack', OpenAt(z), place')
           \/ ~Lists!IsWord(pasted[z]) /\ stack' \in Seq(Entry)
    PROVE WordInv'
<1>1. PlacesHeld(at - 1, place, lists)'
  <2>1. /\ place' \in Seq(Nat) /\ Len(place') = z /\ lists' \in Seq(MadeList)
        /\ \A i \in 1..z : Lists!IsWord(pasted[i]) =>
              place'[i] \in 1..Len(lists') /\ Shaped(place', lists', i)
    BY DEF PlacesHeld
  <2>2. \A i \in 1..z : Lists!IsWord(pasted[i]) <=> Lists!IsWord(pasted[i])'
    BY DEF Lists!IsWord
  <2>3. \A i \in 1..z : Shaped(place', lists', i) => Shaped(place, lists, i)'
    BY PastedSame DEF Shaped, Lists!IsWord
  <2> QED
    BY <2>1, <2>2, <2>3 DEF PlacesHeld
<1>2. HoldsOpen(stack', OpenAt(z), place') => HoldsOpen(stack, OpenAt(at - 1), place)'
  BY PastedSame DEF HoldsOpen
<1>3. HoldsOpen(stack', OpenAt(z), place') => stack' \in Seq(Entry)
  BY DEF HoldsOpen
<1>4. Lists!IsWord(pasted[z]) <=> Lists!IsWord(pasted[at - 1])'
  BY DEF Lists!IsWord
<1> QED
  BY <1>1, <1>2, <1>3, <1>4 DEF WordInv

LEMMA TakeItemStep ==
    ASSUME PastedOK, WordInv, Lists!TakeItem
    PROVE WordInv'
<1> DEFINE z == at - 1
           item == pasted[at]
           x == item.n
           open == Lists!OpenFor(x)
           S == {i \in OpenAt(z) : Level(i) <= x}
           top == IF open = <<>> THEN [list |-> 0, level |-> 0, item |-> 0] ELSE Lists!Last(open)
           new == Len(lists) + 1
<1>1. /\ at <= Len(pasted) /\ Lists!IsWord(item) /\ at' = at + 1 /\ pasted' = pasted
      /\ IF top.level < x
         THEN /\ lists' = Append(lists, [ordered |-> item.ordered, under |-> top.item])
              /\ place' = Append(place, new)
              /\ stack' = Append(open, [list |-> new, level |-> x, item |-> at])
         ELSE /\ place' = Append(place, top.list)
              /\ stack' = [open EXCEPT ![Len(open)].item = at]
              /\ UNCHANGED lists
  BY Zenon DEF Lists!TakeItem, Lists!NoItem
<1>2. Len(pasted) \in Nat /\ at \in 1..Len(pasted)
  BY <1>1, LenProperties DEF PastedOK, WordInv
<1>3. z \in 0..(Len(pasted) - 1) /\ z \in 0..Len(pasted) /\ z \in Nat /\ z + 1 = at /\ at' - 1 = z + 1
  BY <1>1, <1>2
<1>4. /\ x = Level(at) /\ x \in Nat /\ x # 0 /\ item.ordered \in BOOLEAN
  <2>1. pasted \in Seq(Lists!FromWord) /\ x = Level(at) /\ x \in Nat /\ x # 0
    BY <1>1, <1>2, LevelType DEF Level
  <2>2. item \in Lists!FromWord
    BY <1>2, <2>1, ElementOfSeq
  <2>3. item.ordered \in BOOLEAN
    <3>1. item = Lists!Plain \/ \E l \in 1..MaxLevel, o \in BOOLEAN : item = Lists!Word(l, o)
      BY <2>2 DEF Lists!FromWord
    <3>2. Lists!Plain.ordered \in BOOLEAN /\ \A l, o : Lists!Word(l, o).ordered = o
      BY DEF Lists!Word, Lists!Plain
    <3> QED
      BY <3>1, <3>2
  <2> QED
    BY <2>1, <2>3
<1>5. HoldsOpen(open, S, place)
  BY <1>1, <1>4, OpenForFacts
<1>6. PlacesHeld(z, place, lists)
  BY DEF WordInv
<1> HIDE DEF item, open, z, x
<1>7. /\ open \in Seq(Entry) /\ Len(open) \in Nat
      /\ \A k \in 1..Len(open) : /\ open[k].item \in S
                                 /\ open[k].level = Level(open[k].item)
                                 /\ open[k].list = place[open[k].item]
      /\ \A i \in S : \E k \in 1..Len(open) : open[k].item = i
      /\ \A k, l \in 1..Len(open) : k < l => open[k].item < open[l].item
  BY <1>5, LenProperties DEF HoldsOpen
<1>8. place \in Seq(Nat) /\ Len(place) = z /\ lists \in Seq(MadeList) /\ Len(lists) \in Nat
  BY <1>6, LenProperties DEF PlacesHeld
\* The item above, or none.
<1>9. /\ Goes(z, x, top.item) /\ top.item \in Nat
      /\ top.item = 0 => top.level < x /\ S = {}
      /\ top.item # 0 => /\ open # <<>> /\ top.item = open[Len(open)].item
                         /\ top.level = Level(top.item) /\ top.list = place[top.item]
                         /\ top.item \in S /\ top.item \in 1..z
                         /\ \A i \in S : i <= top.item
  <2>1. CASE open = <<>>
    <3>1. Len(open) = 0 /\ top.item = 0 /\ top.level = 0
      BY <2>1
    <3>2. S = {}
      BY <1>7, <3>1
    <3>3. \A i \in OpenAt(z) : Level(i) > x
      <4>1. \A i \in OpenAt(z) : Level(i) \in Nat
        <5>1. \A i \in OpenAt(z) : i \in 1..Len(pasted)
          BY <1>2, <1>3 DEF OpenAt
        <5> QED
          BY <5>1, LevelType
      <4>2. \A i \in OpenAt(z) : ~(Level(i) <= x)
        BY <3>2
      <4> QED
        BY <1>4, <4>1, <4>2
    <3>4. Goes(z, x, 0)
      BY <1>3, <1>4, <3>3, GoesNowhere
    <3>5. 0 < x
      BY <1>4
    <3> HIDE DEF top
    <3> QED
      BY <3>1, <3>2, <3>4, <3>5
  <2>2. CASE open # <<>>
    <3> DEFINE n == Len(open)
    <3>1. n \in 1..n /\ Lists!Last(open) = open[n]
      BY <1>7, <2>2, EmptySeq DEF Lists!Last
    <3>2. top = open[n]
      BY <2>2, <3>1
    <3> HIDE DEF top, n
    <3>3. /\ top.item \in S /\ top.level = Level(top.item) /\ top.list = place[top.item]
      BY <1>7, <3>1, <3>2 DEF n
    <3>4. top.item \in OpenAt(z) /\ Level(top.item) <= x /\ top.item \in 1..z
      BY <3>3 DEF OpenAt
    <3>5. \A i \in S : i <= top.item
      <4> SUFFICES ASSUME NEW i \in S PROVE i <= top.item
        OBVIOUS
      <4>1. PICK k \in 1..n : open[k].item = i
        BY <1>7 DEF n
      <4>2. i \in 1..z
        BY DEF OpenAt
      <4>3. k = n \/ k < n
        BY <3>1
      <4>4. k < n => i < top.item
        BY <1>7, <3>1, <3>2, <4>1 DEF n
      <4> QED
        BY <1>3, <3>2, <3>4, <4>1, <4>2, <4>3, <4>4
    <3>6. Goes(z, x, top.item)
      BY <1>3, <1>4, <3>4, <3>5, GoesTo
    <3>7. top.item # 0 /\ top.item \in Nat
      BY <1>3, <3>4
    <3> QED
      BY <2>2, <3>2, <3>3, <3>4, <3>5, <3>6, <3>7 DEF n
  <2> QED
    BY <2>1, <2>2
<1> HIDE DEF top, S
<1>10. CASE top.level < x
  <2> DEFINE t == top.item
  <2>1. /\ lists' = Append(lists, [ordered |-> item.ordered, under |-> t])
        /\ place' = Append(place, new)
        /\ stack' = Append(open, [list |-> new, level |-> x, item |-> at])
    BY <1>1, <1>10
  <2>2. t # 0 => Level(t) < x
    BY <1>9, <1>10
  <2> HIDE DEF t
  <2>3. PlacesHeld(z + 1, Append(place, new), Append(lists, [ordered |-> item.ordered, under |-> t]))
    <3>1. Goes(z, Level(z + 1), t) /\ (t # 0 => Level(t) < Level(z + 1))
      BY <1>3, <1>4, <1>9, <2>2 DEF t
    <3>2. Lists!IsWord(pasted[z + 1])
      BY <1>1, <1>3 DEF item
    <3> QED
      BY <1>3, <1>4, <1>6, <3>1, <3>2, NewListStep
  <2>4. /\ \A i \in 1..z : place'[i] = place[i]
        /\ place'[z + 1] = new /\ new \in Nat
    <3>1. new \in Nat
      BY <1>8
    <3> HIDE DEF new
    <3> QED
      BY <1>8, <2>1, <3>1, Added
  <2>5. S = {i \in OpenAt(z) : Level(i) < Level(z + 1)}
    <3>1. \A i \in OpenAt(z) : Level(i) \in Nat /\ i \in Nat
      <4>1. \A i \in OpenAt(z) : i \in 1..Len(pasted)
        BY <1>2, <1>3 DEF OpenAt
      <4> QED
        BY <4>1, LevelType
    <3>2. \A i \in S : Level(i) < x
      <4> SUFFICES ASSUME NEW i \in S PROVE Level(i) < x
        OBVIOUS
      <4>1. i \in OpenAt(z) /\ Level(i) <= x
        BY DEF S
      <4>2. t # 0 /\ i <= t /\ t \in 1..z /\ Level(t) < x
        BY <1>9, <2>2 DEF t
      <4>3. CASE i = t
        BY <4>2, <4>3
      <4>4. CASE i # t
        <5>1. t \in (i + 1)..z
          BY <1>3, <3>1, <4>1, <4>2, <4>4
        <5>2. Level(t) > Level(i)
          BY <4>1, <5>1 DEF OpenAt
        <5>3. t \in OpenAt(z)
          BY <1>9, <4>2 DEF S, t
        <5> QED
          BY <1>4, <3>1, <4>1, <4>2, <5>2, <5>3
      <4> QED
        BY <4>3, <4>4
    <3>3. \A i \in OpenAt(z) : Level(i) < x => Level(i) <= x
      BY <1>4, <3>1
    <3> QED
      BY <1>3, <1>4, <3>2, <3>3 DEF S
  <2>6. HoldsOpen(stack', OpenAt(z + 1), place')
    <3> DEFINE q == place'
    <3>1. (\A i \in 1..z : q[i] = place[i]) /\ q[z + 1] \in Nat /\ q[z + 1] = new
      BY <2>4
    <3>2. Lists!IsWord(pasted[z + 1])
      BY <1>1, <1>3 DEF item
    <3> HIDE DEF q
    <3>3. HoldsOpen(Append(open, [list |-> q[z + 1], level |-> Level(z + 1), item |-> z + 1]),
                    OpenAt(z + 1), q)
      BY <1>3, <1>5, <2>5, <3>1, <3>2, StackNew DEF S
    <3>4. stack' = Append(open, [list |-> q[z + 1], level |-> Level(z + 1), item |-> z + 1])
      BY <1>3, <1>4, <2>1, <3>1
    <3> QED
      BY <3>3, <3>4 DEF q
  <2>7. PlacesHeld(z + 1, place', lists')
    BY <2>1, <2>3
  <2> QED
    BY <1>1, <1>2, <1>3, <2>6, <2>7, WordInvNext
<1>11. CASE ~(top.level < x)
  <2> DEFINE t == top.item
  <2>1. /\ place' = Append(place, top.list) /\ stack' = [open EXCEPT ![Len(open)].item = at]
        /\ lists' = lists
    BY <1>1, <1>11
  <2>2. /\ t # 0 /\ open # <<>> /\ t = open[Len(open)].item /\ top.level = Level(t)
        /\ top.list = place[t] /\ t \in S /\ t \in 1..z
    BY <1>9, <1>11
  <2>3. Level(t) = x
    <3>1. Level(t) <= x /\ t \in 1..Len(pasted)
      BY <1>2, <1>3, <2>2 DEF S
    <3>2. Level(t) \in Nat
      BY <3>1, LevelType
    <3> HIDE DEF t
    <3> QED
      BY <1>4, <1>11, <2>2, <3>1, <3>2
  <2>a. Goes(z, x, t)
    BY <1>9
  <2> HIDE DEF t
  <2>b. Lists!IsWord(pasted[z + 1])
    BY <1>1, <1>3 DEF item
  <2>4. PlacesHeld(z + 1, place', lists')
    <3>1. Goes(z, Level(z + 1), t) /\ Level(t) = Level(z + 1)
      BY <1>3, <1>4, <2>3, <2>a
    <3>2. PlacesHeld(z + 1, Append(place, place[t]), lists)
      BY <1>3, <1>6, <2>2, <2>b, <3>1, SameListStep
    <3> QED
      BY <2>1, <2>2, <3>2
  <2>5. (\A i \in 1..z : place'[i] = place[i]) /\ place'[z + 1] = place[t]
    <3>1. place[t] \in Nat
      BY <1>8, <2>2
    <3> QED
      BY <1>8, <2>1, <2>2, <3>1, Added
  <2>6. HoldsOpen(stack', OpenAt(z + 1), place')
    <3> DEFINE q == place'
    <3>1. (\A i \in 1..z : q[i] = place[i]) /\ q[z + 1] = place[t]
      BY <2>5
    <3> HIDE DEF q
    <3>2. S = {i \in OpenAt(z) : Level(i) <= Level(z + 1)} /\ Level(t) = Level(z + 1)
      BY <1>3, <1>4, <2>3 DEF S
    <3>3. HoldsOpen([open EXCEPT ![Len(open)].item = z + 1], OpenAt(z + 1), q)
      BY <1>3, <1>5, <2>2, <2>b, <3>1, <3>2, StackSame
    <3>4. stack' = [open EXCEPT ![Len(open)].item = z + 1]
      BY <1>3, <2>1
    <3> QED
      BY <3>3, <3>4 DEF q
  <2> QED
    BY <1>1, <1>2, <1>3, <2>4, <2>6, WordInvNext
<1> QED
  BY <1>10, <1>11

\* A paragraph that is not Word's item is put nowhere.
LEMMA TakeParagraphWord ==
    ASSUME PastedOK, WordInv, Lists!TakeParagraph
    PROVE WordInv'
<1> DEFINE z == at - 1
<1>1. /\ at <= Len(pasted) /\ ~Lists!IsWord(pasted[at]) /\ at' = at + 1
      /\ UNCHANGED <<pasted, stack, lists>> /\ place' = Append(place, 0)
  BY DEF Lists!TakeParagraph
<1>2. Len(pasted) \in Nat /\ at \in 1..Len(pasted)
  BY <1>1, LenProperties DEF PastedOK, WordInv
<1>3. z \in Nat /\ z + 1 = at /\ at' - 1 = z + 1 /\ at' \in 1..(Len(pasted) + 1)
  BY <1>1, <1>2
<1>4. PlacesHeld(z, place, lists) /\ stack \in Seq(Entry)
  BY DEF WordInv
<1> HIDE DEF z
<1>5. /\ place \in Seq(Nat) /\ Len(place) = z /\ lists \in Seq(MadeList)
      /\ \A i \in 1..z : Lists!IsWord(pasted[i]) => place[i] \in 1..Len(lists) /\ Shaped(place, lists, i)
  BY <1>4 DEF PlacesHeld
<1>6. /\ place' \in Seq(Nat) /\ Len(place') = z + 1 /\ \A i \in 1..z : place'[i] = place[i]
  BY <1>1, <1>5, Added
<1>7. PlacesHeld(z + 1, place', lists')
  <2> DEFINE q == place'
  <2>1. q \in Seq(Nat) /\ Len(q) = z + 1 /\ \A i \in 1..z : q[i] = place[i]
    BY <1>6
  <2> HIDE DEF q
  <2>2. ASSUME NEW i \in 1..(z + 1), Lists!IsWord(pasted[i])
        PROVE q[i] \in 1..Len(lists) /\ Shaped(q, lists, i)
    <3>1. i # z + 1
      BY <1>1, <1>3, <2>2
    <3>2. i \in 1..z
      BY <1>3, <3>1
    <3>3. Shaped(q, lists, i)
      BY <1>3, <1>4, <2>1, <2>2, <3>2, ShapedStays
    <3> QED
      BY <1>5, <2>1, <2>2, <3>2, <3>3
  <2>3. PlacesHeld(z + 1, q, lists)
    BY <1>5, <2>1, <2>2 DEF PlacesHeld
  <2>4. lists' = lists
    BY <1>1
  <2> QED
    BY <2>3, <2>4 DEF q
<1>8. ~Lists!IsWord(pasted[z + 1]) /\ stack' \in Seq(Entry)
  BY <1>1, <1>3, <1>4
<1> QED
  BY <1>1, <1>3, <1>7, <1>8, WordInvNext

LEMMA WordsKeepShape == ASSUME WordInv PROVE Lists!WordKeepsItsShape
<1>1. /\ Len(place) = at - 1
      /\ \A i \in 1..(at - 1) : Lists!IsWord(pasted[i]) => Shaped(place, lists, i)
  BY DEF WordInv, PlacesHeld
<1> QED
  BY <1>1 DEF Lists!WordKeepsItsShape, Shaped


-----------------------------------------------------------------------------
(* Runs of bullets and numbers.                                            *)

RunType == [start : Nat, ordered : BOOLEAN, strong : BOOLEAN, end : Nat]
IsGlyph(i) == pasted[i].kind = "glyph"

SoundRun(r, z) ==
    /\ r.start \in 1..r.end /\ r.end \in 1..z
    /\ IF r.ordered THEN Lists!Counts(r.start, r.end) ELSE Lists!Bullets(r.start, r.end)
    /\ r.strong <=> \E i \in r.start..r.end : IsGlyph(i)

AllRuns(rs, r) == {rs[k] : k \in 1..Len(rs)} \union {x \in {r} : x # Lists!NoRun}
Covers(R, s, e) == \E r \in R : r.start <= s /\ e <= r.end

TextRuns(z, rs, r) ==
    /\ rs \in Seq(RunType) /\ r \in RunType
    /\ \A k \in 1..Len(rs) : SoundRun(rs[k], z) /\ rs[k].end # z
    /\ \A k, l \in 1..Len(rs) : k < l => rs[k].end < rs[l].start
    /\ r # Lists!NoRun => /\ SoundRun(r, z) /\ r.end = z
                          /\ \A k \in 1..Len(rs) : rs[k].end < r.start
    /\ \A i \in 1..z : Lists!Bullet(pasted[i]) => Covers(AllRuns(rs, r), i, i)
    /\ \A i \in 1..(z - 1) : Lists!Bullet(pasted[i]) /\ Lists!Bullet(pasted[i + 1])
                             => Covers(AllRuns(rs, r), i, i + 1)
    /\ \A s, e \in 1..z : s <= e /\ Lists!Counts(s, e) =>
          \E x \in AllRuns(rs, r) : x.start = s /\ e <= x.end /\ x.ordered

LEMMA RunTypes ==
    ASSUME NEW rs \in Seq(RunType), NEW k \in 1..Len(rs)
    PROVE rs[k] \in RunType
BY ElementOfSeq

LEMMA RunFields ==
    ASSUME NEW r \in RunType
    PROVE r.start \in Nat /\ r.end \in Nat /\ r.ordered \in BOOLEAN /\ r.strong \in BOOLEAN
BY DEF RunType

LEMMA SoundLater ==
    ASSUME NEW r, NEW z \in Nat, SoundRun(r, z)
    PROVE SoundRun(r, z + 1)
<1>1. r.end \in 1..(z + 1)
  BY DEF SoundRun
<1> QED
  BY <1>1 DEF SoundRun

\* The run that reaches the last paragraph is the open one.
LEMMA LastIsOpen ==
    ASSUME NEW z \in Nat, NEW rs, NEW r, TextRuns(z, rs, r),
           NEW x \in AllRuns(rs, r), z <= x.end
    PROVE x = r /\ r # Lists!NoRun /\ SoundRun(r, z) /\ r.end = z
<1>1. ~\E k \in 1..Len(rs) : x = rs[k]
  <2> SUFFICES ASSUME NEW k \in 1..Len(rs), x = rs[k] PROVE FALSE
    OBVIOUS
  <2>1. SoundRun(rs[k], z) /\ rs[k].end # z
    BY DEF TextRuns
  <2>2. rs[k].end \in 1..z
    BY <2>1 DEF SoundRun
  <2> QED
    BY <2>1, <2>2
<1>2. x = r /\ r # Lists!NoRun
  BY <1>1 DEF AllRuns
<1> QED
  BY <1>2 DEF TextRuns

LEMMA BulletIsNoNumber ==
    ASSUME NEW p, Lists!Bullet(p) PROVE p.kind # "number" /\ p.kind # "word"
BY DEF Lists!Bullet

\* A paragraph continues the run that is open.
LEMMA RunGoesOn ==
    ASSUME PastedOK, NEW z \in 0..(Len(pasted) - 1), TextRuns(z, runs, run),
           pasted[z + 1] \in Lists!FromText, Lists!Continues(pasted[z + 1]),
           NEW r, r = [run EXCEPT !.end = z + 1,
                                  !.strong = run.strong \/ pasted[z + 1].kind = "glyph"]
    PROVE TextRuns(z + 1, runs, r)
<1> DEFINE j == z + 1
           p == pasted[j]
           R == AllRuns(runs, run)
           Q == AllRuns(runs, r)
<1>0. z \in Nat /\ j \in Nat /\ j = z + 1 /\ j - 1 = z
  BY LenProperties DEF PastedOK
<1>1. /\ run # Lists!NoRun /\ run \in RunType /\ runs \in Seq(RunType)
      /\ SoundRun(run, z) /\ run.end = z
      /\ \A k \in 1..Len(runs) : runs[k].end < run.start
  BY DEF Lists!Continues, TextRuns
<1>2. /\ run.start \in 1..z /\ run.ordered \in BOOLEAN /\ run.strong \in BOOLEAN /\ z # 0
      /\ IF run.ordered THEN Lists!Counts(run.start, z) ELSE Lists!Bullets(run.start, z)
      /\ run.strong <=> \E i \in run.start..z : IsGlyph(i)
  BY <1>1, RunFields DEF SoundRun
<1>3. \/ Lists!Bullet(p) /\ ~run.ordered
      \/ p.kind = "number" /\ run.ordered /\ p.n = z - run.start + 2
  BY <1>1 DEF Lists!Continues
<1>4. /\ r \in RunType /\ r.start = run.start /\ r.end = j /\ r.ordered = run.ordered
      /\ r.strong = (run.strong \/ IsGlyph(j))
  <2>1. (run.strong \/ IsGlyph(j)) \in BOOLEAN
    OBVIOUS
  <2>2. r = [run EXCEPT !.end = j, !.strong = run.strong \/ IsGlyph(j)]
    BY DEF IsGlyph
  <2> HIDE DEF IsGlyph, j, p, R, Q
  <2> QED
    BY <1>0, <1>1, <1>2, <2>1, <2>2 DEF RunType
<1> HIDE DEF j
<1>5. r # Lists!NoRun
  <2>1. Lists!NoRun.end = 0
    BY DEF Lists!NoRun
  <2>2. r.end # 0
    BY <1>0, <1>4
  <2> QED
    BY <2>1, <2>2, Zenon
<1>6. \A i \in run.start..j : i \in run.start..z \/ i = j
  BY <1>0, <1>2
<1>7. SoundRun(r, j)
  <2>1. r.start \in 1..r.end /\ r.end \in 1..j
    BY <1>0, <1>2, <1>4
  <2>2. r.strong <=> \E i \in r.start..r.end : IsGlyph(i)
    <3>1. \A i \in run.start..z : i \in run.start..j
      BY <1>0, <1>2
    <3>2. j \in run.start..j
      BY <1>0, <1>2
    <3> QED
      BY <1>2, <1>4, <1>6, <3>1, <3>2
  <2>3. CASE run.ordered
    <3>1. p.kind = "number" /\ p.n = j - run.start + 1
      <4>1. p.kind = "number" /\ p.n = z - run.start + 2
        BY <1>3, <2>3
      <4>2. z - run.start + 2 = j - run.start + 1
        BY <1>0, <1>2
      <4> QED
        BY <4>1, <4>2
    <3>2. Lists!Counts(run.start, z)
      BY <1>2, <2>3
    <3>3. Lists!Counts(run.start, j)
      BY <1>6, <3>1, <3>2 DEF Lists!Counts
    <3> QED
      BY <1>4, <2>1, <2>2, <2>3, <3>3 DEF SoundRun
  <2>4. CASE ~run.ordered
    <3>1. Lists!Bullet(p)
      BY <1>3, <2>4
    <3>2. Lists!Bullets(run.start, z)
      BY <1>2, <2>4
    <3>3. Lists!Bullets(run.start, j)
      BY <1>6, <3>1, <3>2 DEF Lists!Bullets
    <3> QED
      BY <1>4, <2>1, <2>2, <2>4, <3>3 DEF SoundRun
  <2> QED
    BY <2>3, <2>4
<1>8. \A k \in 1..Len(runs) : SoundRun(runs[k], j) /\ runs[k].end # j
  <2> SUFFICES ASSUME NEW k \in 1..Len(runs) PROVE SoundRun(runs[k], j) /\ runs[k].end # j
    OBVIOUS
  <2>1. SoundRun(runs[k], z)
    BY DEF TextRuns
  <2>2. runs[k].end \in 1..z
    BY <2>1 DEF SoundRun
  <2> QED
    BY <1>0, <2>1, <2>2, SoundLater
\* What was covered is, the run being longer.
<1>9. ASSUME NEW x \in R
      PROVE \E y \in Q : y.start = x.start /\ x.end <= y.end /\ y.ordered = x.ordered
  <2>1. CASE x = run
    <3>1. r \in Q
      BY <1>5 DEF AllRuns
    <3>2. x.end <= r.end
      BY <1>0, <1>1, <1>4, <2>1
    <3> QED
      BY <1>4, <2>1, <3>1, <3>2
  <2>2. CASE x # run
    <3>1. PICK k \in 1..Len(runs) : x = runs[k]
      BY <2>2 DEF AllRuns
    <3>2. x \in Q /\ x.end \in Nat
      BY <1>1, <3>1, RunTypes, RunFields DEF AllRuns
    <3>3. x.end <= x.end
      BY <3>2
    <3> QED
      BY <3>2, <3>3
  <2> QED
    BY <2>1, <2>2
<1>a. \A x \in R : x.start \in Nat /\ x.end \in Nat
  BY <1>1, RunTypes, RunFields DEF AllRuns
<1>b. \A x \in Q : x.start \in Nat /\ x.end \in Nat
  BY <1>1, <1>4, RunTypes, RunFields DEF AllRuns
<1>c. r \in Q
  BY <1>5 DEF AllRuns
<1> HIDE DEF R, Q
<1>10. ASSUME NEW s \in Nat, NEW e \in Nat, Covers(R, s, e) PROVE Covers(Q, s, e)
  <2>1. PICK x \in R : x.start <= s /\ e <= x.end
    BY <1>10 DEF Covers
  <2>2. PICK y \in Q : y.start = x.start /\ x.end <= y.end
    BY <1>9
  <2>3. y.start <= s /\ e <= y.end
    BY <1>a, <1>b, <2>1, <2>2
  <2> QED
    BY <2>3 DEF Covers
<1>11. Covers(Q, j, j) /\ Covers(Q, z, j)
  <2>1. r.start <= z /\ z <= j /\ r.start <= j /\ j <= r.end
    BY <1>0, <1>2, <1>4
  <2> QED
    BY <1>c, <2>1 DEF Covers
<1>12. ASSUME NEW i \in 1..j, Lists!Bullet(pasted[i]) PROVE Covers(Q, i, i)
  <2>1. CASE i = j
    BY <1>11, <2>1
  <2>2. CASE i # j
    <3>1. i \in 1..z /\ i \in Nat
      BY <1>0, <2>2
    <3>2. Covers(R, i, i)
      BY <1>12, <3>1 DEF TextRuns, R
    <3> QED
      BY <1>10, <3>1, <3>2
  <2> QED
    BY <2>1, <2>2
<1>13. ASSUME NEW i \in 1..(j - 1), Lists!Bullet(pasted[i]), Lists!Bullet(pasted[i + 1])
       PROVE Covers(Q, i, i + 1)
  <2>1. CASE i = z
    BY <1>0, <1>11, <2>1
  <2>2. CASE i # z
    <3>1. i \in 1..(z - 1) /\ i \in Nat /\ i + 1 \in Nat
      BY <1>0, <2>2
    <3>2. Covers(R, i, i + 1)
      BY <1>13, <3>1 DEF TextRuns, R
    <3> QED
      BY <1>10, <3>1, <3>2
  <2> QED
    BY <2>1, <2>2
<1>14. ASSUME NEW s \in 1..j, NEW e \in 1..j, s <= e, Lists!Counts(s, e)
       PROVE \E x \in Q : x.start = s /\ e <= x.end /\ x.ordered
  <2>1. CASE e # j
    <3>1. s \in 1..z /\ e \in 1..z
      BY <1>0, <1>14, <2>1
    <3>2. PICK x \in R : x.start = s /\ e <= x.end /\ x.ordered
      BY <1>14, <3>1 DEF TextRuns, R
    <3>3. PICK y \in Q : y.start = x.start /\ x.end <= y.end /\ y.ordered = x.ordered
      BY <1>9
    <3>4. e <= y.end
      BY <1>a, <1>b, <3>1, <3>2, <3>3
    <3> QED
      BY <3>2, <3>3, <3>4
  <2>2. CASE e = j
    <3>1. p.kind = "number" /\ p.n = j - s + 1
      <4>1. j \in s..e
        BY <1>0, <2>2
      <4> QED
        BY <1>14, <4>1 DEF Lists!Counts
    <3>2. run.ordered /\ p.n = z - run.start + 2
      BY <1>3, <3>1, BulletIsNoNumber
    <3>3. run.start = s
      <4> DEFINE from == run.start
      <4>1. from \in Nat
        BY <1>2
      <4>2. j - s + 1 = z - from + 2
        BY <3>1, <3>2
      <4> HIDE DEF from, p, R, Q
      <4>3. s \in Nat /\ z \in Nat /\ j = z + 1
        BY <1>0
      <4>4. from = s
        BY <4>1, <4>2, <4>3
      <4> QED
        BY <4>4 DEF from
    <3>4. e <= r.end
      BY <1>0, <1>4, <2>2
    <3> QED
      BY <1>4, <1>c, <3>2, <3>3, <3>4
  <2> QED
    BY <2>1, <2>2
<1>15. /\ \A k, l \in 1..Len(runs) : k < l => runs[k].end < runs[l].start
       /\ \A k \in 1..Len(runs) : runs[k].end < r.start
  BY <1>1, <1>4 DEF TextRuns
<1>16. TextRuns(j, runs, r)
  BY <1>1, <1>4, <1>7, <1>8, <1>12, <1>13, <1>14, <1>15 DEF TextRuns, Q
<1> QED
  BY <1>16 DEF j


\* A paragraph that does not continue the run ends it, and may start one.
LEMMA RunEnds ==
    ASSUME PastedOK, NEW z \in 0..(Len(pasted) - 1), TextRuns(z, runs, run),
           pasted[z + 1] \in Lists!FromText, ~Lists!Continues(pasted[z + 1]),
           NEW rs, rs = IF run = Lists!NoRun THEN runs ELSE Append(runs, run),
           NEW r, r = IF Lists!Starts(pasted[z + 1])
                      THEN [start |-> z + 1, end |-> z + 1, ordered |-> ~Lists!Bullet(pasted[z + 1]),
                            strong |-> pasted[z + 1].kind = "glyph"]
                      ELSE Lists!NoRun
    PROVE TextRuns(z + 1, rs, r)
<1> DEFINE j == z + 1
           p == pasted[j]
           R == AllRuns(runs, run)
           Q == AllRuns(rs, r)
           n == Len(runs)
<1>0. z \in Nat /\ j \in Nat /\ j = z + 1 /\ j - 1 = z
  BY LenProperties DEF PastedOK
<1>1. /\ run \in RunType /\ runs \in Seq(RunType) /\ n \in Nat
      /\ run # Lists!NoRun => /\ SoundRun(run, z) /\ run.end = z
                              /\ \A k \in 1..n : runs[k].end < run.start
      /\ \A k \in 1..n : SoundRun(runs[k], z) /\ runs[k].end # z
      /\ \A k, l \in 1..n : k < l => runs[k].end < runs[l].start
  BY LenProperties DEF TextRuns
<1>2. ASSUME run # Lists!NoRun
      PROVE ~(Lists!Bullet(p) /\ ~run.ordered)
            /\ ~(p.kind = "number" /\ run.ordered /\ p.n = z - run.start + 2)
  BY <1>1, <1>2 DEF Lists!Continues
<1>3. Lists!Starts(p) => r = [start |-> j, end |-> j, ordered |-> ~Lists!Bullet(p),
                              strong |-> IsGlyph(j)]
  BY DEF IsGlyph
<1>4. ~Lists!Starts(p) => r = Lists!NoRun
  OBVIOUS
<1>5. p.n \in Nat /\ (Lists!Starts(p) <=> Lists!Bullet(p) \/ (p.kind = "number" /\ p.n = 1))
  BY TextFacts DEF Lists!Starts
<1> HIDE DEF j
<1>a. Lists!NoRun \in RunType /\ Lists!NoRun.end = 0
  BY DEF Lists!NoRun, RunType
<1>6. /\ Lists!Starts(p) => /\ r.start = j /\ r.end = j /\ r.ordered = ~Lists!Bullet(p)
                            /\ r.strong = IsGlyph(j)
      /\ r \in RunType
  <2>1. CASE Lists!Starts(p)
    <3> DEFINE strong == IsGlyph(j)
               ordered == ~Lists!Bullet(p)
    <3>1. r = [start |-> j, end |-> j, ordered |-> ordered, strong |-> strong]
      BY <1>3, <2>1
    <3>2. strong \in BOOLEAN /\ ordered \in BOOLEAN
      BY DEF IsGlyph, Lists!Bullet
    <3> HIDE DEF strong, ordered, p
    <3>3. r \in RunType /\ r.start = j /\ r.end = j /\ r.ordered = ordered /\ r.strong = strong
      BY <1>0, <3>1, <3>2 DEF RunType
    <3> QED
      BY <3>3 DEF strong, ordered
  <2>2. CASE ~Lists!Starts(p)
    BY <1>4, <1>a, <2>2
  <2> QED
    BY <2>1, <2>2
<1>7. Lists!Starts(p) => r # Lists!NoRun
  <2>1. Lists!Starts(p) => r.end # 0
    BY <1>0, <1>6
  <2> QED
    BY <1>a, <2>1, Zenon
<1>8. r # Lists!NoRun => Lists!Starts(p)
  BY <1>4
<1>9. SoundRun(r, j) \/ r = Lists!NoRun
  <2> SUFFICES ASSUME Lists!Starts(p) PROVE SoundRun(r, j)
    BY <1>4
  <2>1. \A i \in j..j : i = j
    BY <1>0
  <2>2. r.start \in 1..r.end /\ r.end \in 1..j /\ j \in j..j
    BY <1>0, <1>6
  <2>3. r.strong <=> \E i \in r.start..r.end : IsGlyph(i)
    BY <1>6, <2>1, <2>2
  <2>4. CASE Lists!Bullet(p)
    <3>1. Lists!Bullets(j, j)
      BY <2>1, <2>4 DEF Lists!Bullets
    <3> QED
      BY <1>6, <2>2, <2>3, <2>4, <3>1 DEF SoundRun
  <2>5. CASE ~Lists!Bullet(p)
    <3>1. p.kind = "number" /\ p.n = j - j + 1
      BY <1>0, <1>5, <2>5
    <3>2. Lists!Counts(j, j)
      BY <2>1, <3>1 DEF Lists!Counts
    <3> QED
      BY <1>6, <2>2, <2>3, <2>5, <3>2 DEF SoundRun
  <2> QED
    BY <2>4, <2>5
\* The runs that are closed.
<1>10. /\ rs \in Seq(RunType) /\ Len(rs) \in Nat
       /\ \A k \in 1..Len(rs) : (k \in 1..n /\ rs[k] = runs[k])
                                \/ (k = n + 1 /\ rs[k] = run /\ run # Lists!NoRun)
       /\ \A k \in 1..n : k \in 1..Len(rs) /\ rs[k] = runs[k]
       /\ run # Lists!NoRun => n + 1 \in 1..Len(rs) /\ rs[n + 1] = run
  <2>1. CASE run = Lists!NoRun
    BY <1>1, <2>1
  <2>2. CASE run # Lists!NoRun
    <3>1. rs = Append(runs, run)
      BY <2>2
    <3>2. /\ rs \in Seq(RunType) /\ Len(rs) = n + 1 /\ \A k \in 1..n : rs[k] = runs[k]
          /\ rs[n + 1] = run
      BY <1>1, <3>1, Added
    <3>3. \A k \in 1..(n + 1) : k \in 1..n \/ k = n + 1
      BY <1>1
    <3>4. n + 1 \in Nat /\ n + 1 \in 1..(n + 1) /\ \A k \in 1..n : k \in 1..(n + 1)
      BY <1>1
    <3> QED
      BY <2>2, <3>2, <3>3, <3>4
  <2> QED
    BY <2>1, <2>2
<1> HIDE DEF n
<1>11. \A k \in 1..Len(rs) : SoundRun(rs[k], z)
  BY <1>1, <1>10
<1>12. ASSUME NEW k \in 1..Len(rs) PROVE SoundRun(rs[k], j) /\ rs[k].end # j
  <2>1. SoundRun(rs[k], z)
    BY <1>11
  <2>2. rs[k].end \in 1..z
    BY <2>1 DEF SoundRun
  <2> QED
    BY <1>0, <2>1, <2>2, SoundLater
<1>13. ASSUME NEW k \in 1..Len(rs), NEW l \in 1..Len(rs), k < l
       PROVE rs[k].end < rs[l].start
  <2>1. k \in 1..n /\ rs[k] = runs[k]
    <3>1. l \in 1..n \/ l = n + 1
      BY <1>10
    <3>2. k # n + 1
      BY <1>1, <1>13, <3>1
    <3> QED
      BY <1>10, <3>2
  <2>2. CASE l \in 1..n /\ rs[l] = runs[l]
    BY <1>1, <1>13, <2>1, <2>2
  <2>3. CASE rs[l] = run /\ run # Lists!NoRun
    BY <1>1, <2>1, <2>3
  <2> QED
    BY <1>10, <2>2, <2>3
<1>14. ASSUME r # Lists!NoRun
       PROVE SoundRun(r, j) /\ r.end = j /\ \A k \in 1..Len(rs) : rs[k].end < r.start
  <2>1. ASSUME NEW k \in 1..Len(rs) PROVE rs[k].end < j
    <3>1. SoundRun(rs[k], z)
      BY <1>11
    <3>2. rs[k].end \in 1..z
      BY <3>1 DEF SoundRun
    <3> QED
      BY <1>0, <3>2
  <2> QED
    BY <1>6, <1>8, <1>9, <1>14, <2>1
\* Every run is still there.
<1>15. R \subseteq Q
  <2> SUFFICES ASSUME NEW x \in R PROVE x \in Q
    OBVIOUS
  <2>1. CASE \E k \in 1..n : x = runs[k]
    BY <1>10, <2>1 DEF AllRuns
  <2>2. CASE x = run /\ run # Lists!NoRun
    BY <1>10, <2>2 DEF AllRuns
  <2> QED
    BY <2>1, <2>2 DEF AllRuns, n
<1>16. Lists!Starts(p) => r \in Q
  BY <1>7 DEF AllRuns
<1> HIDE DEF R, Q
<1>17. \A s, e : Covers(R, s, e) => Covers(Q, s, e)
  BY <1>15 DEF Covers
<1>18. ASSUME NEW i \in 1..j, Lists!Bullet(pasted[i]) PROVE Covers(Q, i, i)
  <2>1. CASE i = j
    <3>1. Lists!Starts(p)
      BY <1>5, <1>18, <2>1
    <3>2. r.start <= i /\ i <= r.end
      BY <1>0, <1>6, <2>1, <3>1
    <3> QED
      BY <1>16, <3>1, <3>2 DEF Covers
  <2>2. CASE i # j
    <3>1. i \in 1..z
      BY <1>0, <2>2
    <3>2. Covers(R, i, i)
      BY <1>18, <3>1 DEF TextRuns, R
    <3> QED
      BY <1>17, <3>2
  <2> QED
    BY <2>1, <2>2
<1>19. ASSUME NEW i \in 1..(j - 1), Lists!Bullet(pasted[i]), Lists!Bullet(pasted[i + 1])
       PROVE Covers(Q, i, i + 1)
  <2>1. CASE i = z
    <3>1. z \in 1..z /\ z # 0
      BY <1>0, <2>1
    <3>2. Covers(R, z, z)
      BY <1>19, <2>1, <3>1 DEF TextRuns, R
    <3>3. PICK x \in R : x.start <= z /\ z <= x.end
      BY <3>2 DEF Covers
    <3>4. run # Lists!NoRun /\ SoundRun(run, z) /\ run.end = z
      BY <1>0, <3>3, LastIsOpen DEF R
    <3>5. ~run.ordered
      <4> SUFFICES ASSUME run.ordered PROVE FALSE
        OBVIOUS
      <4>1. Lists!Counts(run.start, z) /\ z \in run.start..z
        <5>1. run.start \in 1..z
          BY <3>4 DEF SoundRun
        <5> QED
          BY <1>0, <3>4, <5>1 DEF SoundRun
      <4>2. pasted[z].kind = "number"
        BY <4>1 DEF Lists!Counts
      <4> QED
        BY <1>19, <2>1, <4>2, BulletIsNoNumber
    <3>6. Lists!Bullet(p)
      BY <1>0, <1>19, <2>1
    <3> QED
      BY <1>2, <3>4, <3>5, <3>6
  <2>2. CASE i # z
    <3>1. i \in 1..(z - 1)
      BY <1>0, <2>2
    <3>2. Covers(R, i, i + 1)
      BY <1>19, <3>1 DEF TextRuns, R
    <3> QED
      BY <1>17, <3>2
  <2> QED
    BY <2>1, <2>2
<1>20. ASSUME NEW s \in 1..j, NEW e \in 1..j, s <= e, Lists!Counts(s, e)
       PROVE \E x \in Q : x.start = s /\ e <= x.end /\ x.ordered
  <2>1. CASE e # j
    <3>1. s \in 1..z /\ e \in 1..z
      BY <1>0, <1>20, <2>1
    <3>2. \E x \in R : x.start = s /\ e <= x.end /\ x.ordered
      BY <1>20, <3>1 DEF TextRuns, R
    <3> QED
      BY <1>15, <3>2
  <2>2. CASE e = j
    <3>1. p.kind = "number" /\ p.n = j - s + 1
      <4>1. j \in s..e
        BY <1>0, <2>2
      <4> QED
        BY <1>20, <4>1 DEF Lists!Counts
    <3>2. CASE s = j
      <4>1. Lists!Starts(p) /\ ~Lists!Bullet(p)
        <5>1. p.n = 1
          BY <1>0, <3>1, <3>2
        <5> QED
          BY <1>5, <3>1, <5>1, BulletIsNoNumber
      <4>2. e <= r.end
        BY <1>0, <1>6, <2>2, <4>1
      <4> QED
        BY <1>6, <1>16, <3>2, <4>1, <4>2
    <3>3. CASE s # j
      <4>1. s \in 1..z /\ z \in 1..z /\ s <= z
        BY <1>0, <3>3
      <4>2. Lists!Counts(s, z)
        <5>1. \A k \in s..z : k \in s..e
          BY <1>0, <2>2, <4>1
        <5> QED
          BY <1>20, <5>1 DEF Lists!Counts
      <4>3. PICK x \in R : x.start = s /\ z <= x.end /\ x.ordered
        BY <4>1, <4>2 DEF TextRuns, R
      <4>4. x = run /\ run # Lists!NoRun
        BY <1>0, <4>3, LastIsOpen DEF R
      <4>5. p.n = z - run.start + 2
        BY <1>0, <3>1, <4>1, <4>3, <4>4
      <4> QED
        BY <1>2, <3>1, <4>3, <4>4, <4>5
    <3> QED
      BY <3>2, <3>3
  <2> QED
    BY <2>1, <2>2
<1>21. TextRuns(j, rs, r)
  BY <1>6, <1>10, <1>12, <1>13, <1>14, <1>18, <1>19, <1>20 DEF TextRuns, Q
<1> QED
  BY <1>21 DEF j


RunInv ==
    /\ at \in 1..(Len(pasted) + 1)
    /\ \/ pasted \notin Seq(Lists!FromText) /\ runs = <<>> /\ run = Lists!NoRun
       \/ pasted \in Seq(Lists!FromText) /\ TextRuns(at - 1, runs, run)

LEMMA RunSame ==
    ASSUME pasted' = pasted
    PROVE /\ \A r, z : SoundRun(r, z)' = SoundRun(r, z)
          /\ \A s, e : Lists!Counts(s, e)' = Lists!Counts(s, e)
          /\ \A i : Lists!Bullet(pasted[i])' = Lists!Bullet(pasted[i])
<1>1. \A s, e : Lists!Counts(s, e)' = Lists!Counts(s, e)
  BY DEF Lists!Counts
<1>2. \A i : Lists!Bullet(pasted[i])' = Lists!Bullet(pasted[i])
  BY DEF Lists!Bullet
<1>3. \A r, z : SoundRun(r, z)' = SoundRun(r, z)
  BY DEF SoundRun, Lists!Counts, Lists!Bullets, Lists!Bullet, IsGlyph
<1> QED
  BY <1>1, <1>2, <1>3

LEMMA TextRunsNext ==
    ASSUME pasted' = pasted, NEW z, at' - 1 = z, TextRuns(z, runs', run')
    PROVE TextRuns(at - 1, runs, run)'
<1>1. Lists!NoRun' = Lists!NoRun
  BY DEF Lists!NoRun
<1>2. AllRuns(runs, run)' = AllRuns(runs', run')
  BY DEF AllRuns
<1>3. \A s, e : Covers(AllRuns(runs, run), s, e)' = Covers(AllRuns(runs', run'), s, e)
  BY <1>2 DEF Covers
<1> QED
  BY <1>1, <1>2, <1>3, RunSame DEF TextRuns

LEMMA TakeItemRuns ==
    ASSUME PastedOK, RunInv, Lists!TakeItem
    PROVE RunInv'
<1>1. /\ at <= Len(pasted) /\ Lists!IsWord(pasted[at]) /\ at' = at + 1
      /\ UNCHANGED <<pasted, run, runs>>
  BY DEF Lists!TakeItem
<1>2. Len(pasted) \in Nat /\ at \in 1..Len(pasted)
  BY <1>1, LenProperties DEF PastedOK, RunInv
<1>3. pasted \notin Seq(Lists!FromText)
  <2> SUFFICES ASSUME pasted \in Seq(Lists!FromText) PROVE FALSE
    OBVIOUS
  <2>1. pasted[at] \in Lists!FromText
    BY <1>2, ElementOfSeq
  <2> QED
    BY <1>1, <2>1, TextFacts
<1>4. runs = <<>> /\ run = Lists!NoRun
  BY <1>3 DEF RunInv
<1>5. at' \in 1..(Len(pasted) + 1)
  BY <1>1, <1>2
<1> QED
  BY <1>1, <1>3, <1>4, <1>5 DEF RunInv, Lists!FromText, Lists!NoRun, Lists!Plain, Lists!Glyph,
     Lists!Dash, Lists!Number

LEMMA TakeParagraphRuns ==
    ASSUME PastedOK, RunInv, Lists!TakeParagraph
    PROVE RunInv'
<1> DEFINE p == pasted[at]
           strong == p.kind = "glyph"
           z == at - 1
<1>1. /\ at <= Len(pasted) /\ ~Lists!IsWord(p) /\ at' = at + 1 /\ pasted' = pasted
      /\ IF Lists!Continues(p)
         THEN /\ run' = [run EXCEPT !.end = at, !.strong = run.strong \/ strong]
              /\ runs' = runs
         ELSE /\ runs' = IF run = Lists!NoRun THEN runs ELSE Append(runs, run)
              /\ run' = IF Lists!Starts(p)
                        THEN [start |-> at, end |-> at, ordered |-> ~Lists!Bullet(p), strong |-> strong]
                        ELSE Lists!NoRun
  BY DEF Lists!TakeParagraph
<1>2. Len(pasted) \in Nat /\ at \in 1..Len(pasted)
  BY <1>1, LenProperties DEF PastedOK, RunInv
<1>3. z \in 0..(Len(pasted) - 1) /\ z + 1 = at /\ at' - 1 = z + 1 /\ at' \in 1..(Len(pasted) + 1)
  BY <1>1, <1>2
<1> HIDE DEF z
<1>4. CASE pasted \notin Seq(Lists!FromText)
  <2>1. runs = <<>> /\ run = Lists!NoRun
    BY <1>4 DEF RunInv
  <2>2. p = Lists!Plain
    <3>1. p \in Lists!FromWord
      BY <1>2, <1>4, ElementOfSeq DEF PastedOK
    <3> QED
      BY <1>1, <3>1, WordFacts
  <2>3. ~Lists!Continues(p)
    BY <2>1 DEF Lists!Continues
  <2>4. ~Lists!Starts(p)
    BY <2>2 DEF Lists!Starts, Lists!Bullet, Lists!Plain
  <2>5. runs' = <<>> /\ run' = Lists!NoRun
    BY <1>1, <2>1, <2>3, <2>4
  <2> QED
    BY <1>1, <1>3, <1>4, <2>5 DEF RunInv, Lists!FromText, Lists!NoRun, Lists!Plain, Lists!Glyph,
       Lists!Dash, Lists!Number
<1>5. CASE pasted \in Seq(Lists!FromText)
  <2>1. TextRuns(z, runs, run)
    BY <1>5 DEF RunInv, z
  <2>2. pasted[z + 1] \in Lists!FromText
    BY <1>2, <1>3, <1>5, ElementOfSeq
  <2>3. TextRuns(z + 1, runs', run')
    <3>1. CASE Lists!Continues(p)
      <4> DEFINE r == run'
      <4>1. runs' = runs /\ Lists!Continues(pasted[z + 1])
            /\ r = [run EXCEPT !.end = z + 1,
                               !.strong = run.strong \/ pasted[z + 1].kind = "glyph"]
        BY <1>1, <1>3, <3>1
      <4> HIDE DEF r
      <4>2. TextRuns(z + 1, runs, r)
        BY <1>3, <2>1, <2>2, <4>1, RunGoesOn
      <4> QED
        BY <4>1, <4>2 DEF r
    <3>2. CASE ~Lists!Continues(p)
      <4> DEFINE r == run'
                 rs == runs'
      <4>1. /\ ~Lists!Continues(pasted[z + 1])
            /\ rs = IF run = Lists!NoRun THEN runs ELSE Append(runs, run)
            /\ r = IF Lists!Starts(pasted[z + 1])
                   THEN [start |-> z + 1, end |-> z + 1, ordered |-> ~Lists!Bullet(pasted[z + 1]),
                         strong |-> pasted[z + 1].kind = "glyph"]
                   ELSE Lists!NoRun
        BY <1>1, <1>3, <3>2
      <4> HIDE DEF r, rs
      <4>2. TextRuns(z + 1, rs, r)
        BY <1>3, <2>1, <2>2, <4>1, RunEnds
      <4> QED
        BY <4>2 DEF r, rs
    <3> QED
      BY <3>1, <3>2
  <2>4. TextRuns(at - 1, runs, run)'
    BY <1>1, <1>3, <2>3, TextRunsNext
  <2>5. pasted' \in Seq(Lists!FromText')
    BY <1>1, <1>5 DEF Lists!FromText, Lists!Plain, Lists!Glyph, Lists!Dash, Lists!Number
  <2> QED
    BY <1>1, <1>3, <2>4, <2>5 DEF RunInv
<1> QED
  BY <1>4, <1>5

\* The lists of a slice, in its order.
InOrder(L, z) ==
    /\ L \in Seq(RunType)
    /\ \A k \in 1..Len(L) : L[k].start \in 1..L[k].end /\ L[k].end \in 1..z
    /\ \A k, l \in 1..Len(L) : k < l => L[k].end < L[l].start

LEMMA ListsPicked == ASSUME NEW s, NEW P PROVE Lists!PickedAt(s, P) = PickedAt(s, P)
<1>1. \A k : Lists!Nth(P, k) = Nth(P, k)
  BY Zenon DEF Lists!Nth, Nth, Lists!Cardinality, Cardinality
<1> QED
  BY <1>1, Zenon DEF Lists!PickedAt, PickedAt, Lists!Cardinality, Cardinality

IsList(r) == r.end > r.start \/ r.strong

LEMMA NoLists ==
    ASSUME runs = <<>>, run = Lists!NoRun
    PROVE Lists!Lists = <<>>
<1>1. Lists!Closed = <<>>
  BY DEF Lists!Closed
<1> DEFINE P == {k \in DOMAIN Lists!Closed : Lists!Closed[k].end > Lists!Closed[k].start
                                             \/ Lists!Closed[k].strong}
<1>2. <<>> \in Seq(RunType) /\ DOMAIN <<>> = {} /\ Len(<<>>) = 0
  BY EmptySeq
<1>3. P = {}
  BY <1>1, <1>2
<1> HIDE DEF P
<1>4. Lists!Lists = PickedAt(<<>>, P)
  BY <1>1, ListsPicked DEF Lists!Lists, P
<1>5. /\ PickedAt(<<>>, P) \in Seq(RunType) /\ Len(PickedAt(<<>>, P)) = Cardinality(P)
  <2>1. P \subseteq DOMAIN <<>>
    BY <1>3
  <2> HIDE DEF RunType
  <2> QED
    BY <1>2, <2>1, PickedType
<1>6. Cardinality(P) = 0
  BY <1>3, FS_EmptySet
<1> QED
  BY <1>4, <1>5, <1>6, EmptySeq

LEMMA ClosedFacts ==
    ASSUME NEW z \in Nat, TextRuns(z, runs, run)
    PROVE /\ InOrder(Lists!Closed, z)
          /\ {Lists!Closed[k] : k \in 1..Len(Lists!Closed)} = AllRuns(runs, run)
          /\ \A k \in 1..Len(Lists!Closed) : SoundRun(Lists!Closed[k], z)
<1> DEFINE n == Len(runs)
           c == Lists!Closed
<1>1. /\ run \in RunType /\ runs \in Seq(RunType) /\ n \in Nat
      /\ run # Lists!NoRun => SoundRun(run, z) /\ \A k \in 1..n : runs[k].end < run.start
      /\ \A k \in 1..n : SoundRun(runs[k], z)
      /\ \A k, l \in 1..n : k < l => runs[k].end < runs[l].start
  BY LenProperties DEF TextRuns
<1>2. CASE run = Lists!NoRun
  <2>1. c = runs
    BY <1>2 DEF Lists!Closed
  <2>2. \A k \in 1..n : SoundRun(c[k], z)
    BY <1>1, <2>1
  <2>3. InOrder(c, z)
    BY <1>1, <2>1 DEF InOrder, SoundRun
  <2>4. {c[k] : k \in 1..n} = AllRuns(runs, run)
    BY <1>2, <2>1 DEF AllRuns
  <2> QED
    BY <2>1, <2>2, <2>3, <2>4
<1>3. CASE run # Lists!NoRun
  <2>1. c = Append(runs, run)
    BY <1>3 DEF Lists!Closed
  <2> HIDE DEF c
  <2>2. c \in Seq(RunType) /\ Len(c) = n + 1 /\ (\A k \in 1..n : c[k] = runs[k]) /\ c[n + 1] = run
    BY <1>1, <2>1, Added
  <2>3. \A k \in 1..(n + 1) : k \in 1..n \/ k = n + 1
    BY <1>1
  <2>4. n + 1 \in 1..(n + 1) /\ \A k \in 1..n : k \in 1..(n + 1)
    BY <1>1
  <2> HIDE DEF n
  <2>5. \A k \in 1..(n + 1) : SoundRun(c[k], z)
    BY <1>1, <1>3, <2>2, <2>3
  <2>6. ASSUME NEW k \in 1..(n + 1), NEW l \in 1..(n + 1), k < l PROVE c[k].end < c[l].start
    <3>1. k \in 1..n
      BY <1>1, <2>6
    <3>2. CASE l \in 1..n
      BY <1>1, <2>2, <2>6, <3>1, <3>2
    <3>3. CASE l = n + 1
      BY <1>1, <1>3, <2>2, <3>1, <3>3
    <3> QED
      BY <2>3, <3>2, <3>3
  <2>7. InOrder(c, z)
    BY <2>2, <2>5, <2>6 DEF InOrder, SoundRun
  <2>8. {c[k] : k \in 1..(n + 1)} = AllRuns(runs, run)
    <3>1. ASSUME NEW k \in 1..(n + 1) PROVE c[k] \in AllRuns(runs, run)
      <4>1. CASE k \in 1..n
        BY <2>2, <4>1 DEF AllRuns, n
      <4>2. CASE k = n + 1
        BY <1>3, <2>2, <4>2 DEF AllRuns
      <4> QED
        BY <2>3, <4>1, <4>2
    <3>2. ASSUME NEW x \in AllRuns(runs, run) PROVE x \in {c[k] : k \in 1..(n + 1)}
      <4>1. CASE \E k \in 1..n : x = runs[k]
        BY <2>2, <2>4, <4>1
      <4>2. CASE x = run
        BY <2>2, <2>4, <4>2
      <4> QED
        BY <4>1, <4>2 DEF AllRuns, n
    <3> QED
      BY <3>1, <3>2
  <2> QED
    BY <2>2, <2>5, <2>7, <2>8 DEF c
<1> QED
  BY <1>2, <1>3

LEMMA ListsFacts ==
    ASSUME NEW z \in Nat, TextRuns(z, runs, run)
    PROVE /\ InOrder(Lists!Lists, z)
          /\ \A x : (\E k \in DOMAIN Lists!Lists : x = Lists!Lists[k]) <=>
                        x \in AllRuns(runs, run) /\ IsList(x)
          /\ \A x \in AllRuns(runs, run) : SoundRun(x, z)
<1> DEFINE c == Lists!Closed
           P == {k \in DOMAIN c : IsList(c[k])}
           L == Lists!Lists
<1>1. /\ InOrder(c, z)
      /\ {c[k] : k \in 1..Len(c)} = AllRuns(runs, run)
      /\ \A k \in 1..Len(c) : SoundRun(c[k], z)
  BY ClosedFacts
<1>2. L = PickedAt(c, P)
  BY ListsPicked DEF Lists!Lists, IsList
<1> HIDE DEF c, L
<1>3. c \in Seq(RunType) /\ DOMAIN c = 1..Len(c) /\ Len(c) \in Nat /\ P \subseteq DOMAIN c
  BY <1>1, LenProperties DEF InOrder
<1>p. \A k \in P : k \in 1..Len(c) /\ IsList(c[k])
  BY <1>3
<1>q. \A k \in 1..Len(c) : IsList(c[k]) => k \in P
  BY <1>3
<1> HIDE DEF P
<1>4. /\ Places(P) /\ L \in Seq(RunType) /\ Len(L) = Cardinality(P) /\ DOMAIN L = 1..Cardinality(P)
  BY <1>2, <1>3, PickedType
<1>5. \A k \in 1..Cardinality(P) : L[k] = c[Nth(P, k)] /\ Nth(P, k) \in P
  BY <1>2, <1>3, PickedItem
<1>6. ASSUME NEW k \in 1..Len(L), NEW l \in 1..Len(L), k < l PROVE L[k].end < L[l].start
  <2> DEFINE a == Nth(P, k)
             b == Nth(P, l)
  <2>1. a < b
    BY <1>4, <1>6, NthGrows
  <2>2. L[k] = c[a] /\ L[l] = c[b] /\ a \in 1..Len(c) /\ b \in 1..Len(c)
    BY <1>4, <1>5, <1>p
  <2> HIDE DEF a, b
  <2> QED
    BY <1>1, <2>1, <2>2 DEF InOrder
<1>7. InOrder(L, z)
  <2>1. ASSUME NEW k \in 1..Len(L) PROVE L[k].start \in 1..L[k].end /\ L[k].end \in 1..z
    <3> DEFINE a == Nth(P, k)
    <3>1. L[k] = c[a] /\ a \in 1..Len(c)
      BY <1>4, <1>5, <1>p
    <3> HIDE DEF a
    <3> QED
      BY <1>1, <3>1 DEF InOrder
  <2> QED
    BY <1>4, <1>6, <2>1 DEF InOrder
<1>8. Range(L) = {c[i] : i \in P}
  BY <1>2, <1>3, PickedRange
<1>9. ASSUME NEW x
      PROVE (\E k \in DOMAIN L : x = L[k]) <=> x \in AllRuns(runs, run) /\ IsList(x)
  <2>1. (\E k \in DOMAIN L : x = L[k]) <=> x \in Range(L)
    BY DEF Range
  <2>2. x \in Range(L) <=> \E i \in P : x = c[i]
    BY <1>8
  <2>3. (\E i \in P : x = c[i]) <=> (\E i \in 1..Len(c) : x = c[i]) /\ IsList(x)
    BY <1>p, <1>q
  <2>4. (\E i \in 1..Len(c) : x = c[i]) <=> x \in AllRuns(runs, run)
    BY <1>1
  <2> QED
    BY <2>1, <2>2, <2>3, <2>4
<1>10. ASSUME NEW x \in AllRuns(runs, run) PROVE SoundRun(x, z)
  <2>1. PICK k \in 1..Len(c) : x = c[k]
    BY <1>1
  <2> QED
    BY <1>1, <2>1
<1> QED
  BY <1>7, <1>9, <1>10 DEF L


\* A paragraph is in a list exactly when its neighbours make it an item.
Meant(i) ==
    \/ pasted[i] = Lists!Glyph
    \/ \E s, e \in 1..(at - 1) : s <= i /\ i <= e /\ s < e /\ (Lists!Bullets(s, e) \/ Lists!Counts(s, e))
InAList(i) == \E l \in Lists!Range(Lists!Lists) : l.start <= i /\ i <= l.end

LEMMA ItemIsMeant ==
    ASSUME pasted \in Seq(Lists!FromText), RunInv, NEW i \in 1..(at - 1), InAList(i)
    PROVE Meant(i)
<1> DEFINE z == at - 1
<1>0. Len(pasted) \in Nat /\ at \in 1..(Len(pasted) + 1) /\ z \in Nat /\ z <= Len(pasted)
  BY LenProperties DEF RunInv
<1>1. TextRuns(z, runs, run)
  BY DEF RunInv
<1> HIDE DEF z
<1>2. PICK k \in DOMAIN Lists!Lists : Lists!Lists[k].start <= i /\ i <= Lists!Lists[k].end
  BY DEF InAList, Lists!Range
<1> DEFINE x == Lists!Lists[k]
<1>3. x \in AllRuns(runs, run) /\ IsList(x)
  BY <1>0, <1>1, ListsFacts
<1>4. SoundRun(x, z)
  BY <1>0, <1>1, <1>3, ListsFacts
<1>5. /\ x.start \in 1..x.end /\ x.end \in 1..z
      /\ IF x.ordered THEN Lists!Counts(x.start, x.end) ELSE Lists!Bullets(x.start, x.end)
      /\ x.strong <=> \E m \in x.start..x.end : IsGlyph(m)
  BY <1>4 DEF SoundRun
<1>6. x.start <= i /\ i <= x.end
  BY <1>2
<1> HIDE DEF x
<1>7. CASE x.end > x.start
  <2>1. x.start \in 1..z /\ x.end \in 1..z /\ x.start < x.end
    BY <1>0, <1>5, <1>7
  <2> QED
    BY <1>5, <1>6, <2>1 DEF Meant, z
<1>8. CASE ~(x.end > x.start)
  <2>1. PICK m \in x.start..x.end : IsGlyph(m)
    BY <1>3, <1>5, <1>8 DEF IsList
  <2>2. m = i
    BY <1>0, <1>5, <1>6, <1>8
  <2>3. i \in 1..Len(pasted)
    BY <1>0 DEF z
  <2>4. pasted[i] = Lists!Glyph
    BY <2>1, <2>2, <2>3, ElementOfSeq, TextFacts DEF IsGlyph
  <2> QED
    BY <2>4 DEF Meant
<1> QED
  BY <1>7, <1>8

LEMMA MeantIsItem ==
    ASSUME pasted \in Seq(Lists!FromText), RunInv, NEW i \in 1..(at - 1), Meant(i)
    PROVE InAList(i)
<1> DEFINE z == at - 1
           R == AllRuns(runs, run)
<1>0. Len(pasted) \in Nat /\ at \in 1..(Len(pasted) + 1) /\ z \in Nat /\ z <= Len(pasted) /\ i \in 1..z
      /\ i \in Nat
  BY LenProperties DEF RunInv
<1>1. TextRuns(z, runs, run)
  BY DEF RunInv
<1>2. \A s, e \in 1..z : s <= e /\ Lists!Counts(s, e) =>
          \E x \in R : x.start = s /\ e <= x.end /\ x.ordered
  BY <1>1 DEF TextRuns
<1>3. \A j \in 1..z : Lists!Bullet(pasted[j]) => Covers(R, j, j)
  BY <1>1 DEF TextRuns
<1>4. \A j \in 1..(z - 1) : Lists!Bullet(pasted[j]) /\ Lists!Bullet(pasted[j + 1])
                            => Covers(R, j, j + 1)
  BY <1>1 DEF TextRuns
<1>5. \A x \in R : SoundRun(x, z)
  BY <1>0, <1>1, ListsFacts
<1>6. ASSUME NEW x \in R, IsList(x), x.start <= i, i <= x.end PROVE InAList(i)
  <2>1. PICK k \in DOMAIN Lists!Lists : x = Lists!Lists[k]
    BY <1>0, <1>1, <1>6, ListsFacts
  <2> QED
    BY <1>6, <2>1 DEF InAList, Lists!Range
<1> HIDE DEF z, R
<1>7. CASE pasted[i] = Lists!Glyph
  <2>1. Lists!Bullet(pasted[i]) /\ IsGlyph(i)
    BY <1>7 DEF Lists!Bullet, IsGlyph, Lists!Glyph, Lists!Plain
  <2>2. PICK x \in R : x.start <= i /\ i <= x.end
    BY <1>0, <1>3, <2>1 DEF Covers
  <2>3. x.start \in 1..x.end /\ x.end \in 1..z /\ (x.strong <=> \E m \in x.start..x.end : IsGlyph(m))
    BY <1>5 DEF SoundRun
  <2>4. i \in x.start..x.end
    BY <1>0, <2>2, <2>3
  <2>5. IsList(x)
    BY <2>1, <2>3, <2>4 DEF IsList
  <2> QED
    BY <1>6, <2>2, <2>5
<1>8. CASE pasted[i] # Lists!Glyph
  <2>1. PICK s \in 1..z, e \in 1..z :
            s <= i /\ i <= e /\ s < e /\ (Lists!Bullets(s, e) \/ Lists!Counts(s, e))
    BY <1>8 DEF Meant, z
  <2>2. CASE Lists!Counts(s, e)
    <3>1. s <= e
      BY <1>0, <2>1
    <3>2. PICK x \in R : x.start = s /\ e <= x.end
      BY <1>2, <2>2, <3>1
    <3>3. x.end \in 1..z
      BY <1>5 DEF SoundRun
    <3>4. x.start <= i /\ i <= x.end /\ x.end > x.start
      BY <1>0, <2>1, <3>2, <3>3
    <3> QED
      BY <1>6, <3>4 DEF IsList
  <2>3. CASE Lists!Bullets(s, e)
    <3>1. \A j \in s..e : Lists!Bullet(pasted[j])
      BY <2>3 DEF Lists!Bullets
    <3>2. PICK j \in 1..(z - 1) : j \in s..e /\ j + 1 \in s..e /\ (i = j \/ i = j + 1)
      <4>1. CASE i = e
        <5>1. i - 1 \in 1..(z - 1) /\ i - 1 \in s..e /\ (i - 1) + 1 \in s..e /\ i = (i - 1) + 1
          BY <1>0, <2>1, <4>1
        <5> QED
          BY <5>1
      <4>2. CASE i # e
        <5>1. i \in 1..(z - 1) /\ i \in s..e /\ i + 1 \in s..e
          BY <1>0, <2>1, <4>2
        <5> QED
          BY <5>1
      <4> QED
        BY <4>1, <4>2
    <3>3. PICK x \in R : x.start <= j /\ j + 1 <= x.end
      BY <1>4, <3>1, <3>2 DEF Covers
    <3>4. x.start \in 1..x.end /\ x.end \in 1..z
      BY <1>5 DEF SoundRun
    <3>5. x.start <= i /\ i <= x.end /\ x.end > x.start
      BY <1>0, <3>2, <3>3, <3>4
    <3> QED
      BY <1>6, <3>5 DEF IsList
  <2> QED
    BY <2>1, <2>2, <2>3
<1> QED
  BY <1>7, <1>8

LEMMA RunsAreLists ==
    ASSUME PastedOK, RunInv
    PROVE Lists!RunsAreTheLists
<1>0. Len(pasted) \in Nat /\ at \in 1..(Len(pasted) + 1)
  BY LenProperties DEF PastedOK, RunInv
<1> SUFFICES ASSUME NEW i \in 1..(at - 1) PROVE InAList(i) <=> Meant(i)
  BY DEF Lists!RunsAreTheLists, InAList, Meant
<1>1. CASE pasted \in Seq(Lists!FromText)
  BY <1>1, ItemIsMeant, MeantIsItem
<1>2. CASE pasted \notin Seq(Lists!FromText)
  <2>1. Lists!Lists = <<>>
    BY <1>2, NoLists DEF RunInv
  <2>2. ~InAList(i)
    <3>1. DOMAIN <<>> = {}
      BY EmptySeq
    <3> QED
      BY <2>1, <3>1 DEF InAList, Lists!Range
  <2>3. \A j \in 1..(at - 1) : pasted[j].kind \in {"plain", "word"}
    <3>1. \A j \in 1..(at - 1) : j \in 1..Len(pasted)
      BY <1>0
    <3>2. \A j \in 1..(at - 1) : pasted[j] \in Lists!FromWord
      BY <1>2, <3>1, ElementOfSeq DEF PastedOK
    <3> QED
      BY <3>2, WordFacts DEF Lists!Plain, Lists!IsWord
  <2>4. pasted[i] # Lists!Glyph
    BY <2>3 DEF Lists!Glyph, Lists!Plain
  <2>5. ASSUME NEW s \in 1..(at - 1), NEW e \in 1..(at - 1), s < e
        PROVE ~Lists!Bullets(s, e) /\ ~Lists!Counts(s, e)
    <3>1. s \in s..e
      BY <1>0, <2>5
    <3> QED
      BY <2>3, <3>1 DEF Lists!Bullets, Lists!Counts, Lists!Bullet
  <2> QED
    BY <2>2, <2>4, <2>5 DEF Meant
<1> QED
  BY <1>1, <1>2


-----------------------------------------------------------------------------
(* The paragraphs of a slice, in order, once its lists are made.           *)

NodeType == [list : BOOLEAN, items : Seq(Nat)]
UpTo(a) == [i \in 1..(a - 1) |-> i]
ItemsIn(nodes) == [k \in DOMAIN nodes |-> nodes[k].items]
\* The nodes hold the paragraphs before a, in order.
Reads(nodes, a) == nodes \in Seq(NodeType) /\ FlattenSeq(ItemsIn(nodes)) = UpTo(a)

LEMMA NodeFields ==
    ASSUME NEW nodes \in Seq(NodeType), NEW k \in 1..Len(nodes)
    PROVE nodes[k] \in NodeType /\ nodes[k].items \in Seq(Nat) /\ nodes[k].list \in BOOLEAN
<1>1. nodes[k] \in NodeType
  BY ElementOfSeq
<1> QED
  BY <1>1 DEF NodeType

LEMMA ItemsType ==
    ASSUME NEW nodes \in Seq(NodeType)
    PROVE ItemsIn(nodes) \in Seq(Seq(Nat)) /\ Len(ItemsIn(nodes)) = Len(nodes)
<1>1. Len(nodes) \in Nat /\ DOMAIN nodes = 1..Len(nodes)
  BY LenProperties
<1>2. ItemsIn(nodes) \in [1..Len(nodes) -> Seq(Nat)]
  BY <1>1, NodeFields DEF ItemsIn
<1>3. ItemsIn(nodes) \in Seq(Seq(Nat))
  BY <1>1, <1>2, SeqDef
<1>4. DOMAIN ItemsIn(nodes) = 1..Len(nodes)
  BY <1>1 DEF ItemsIn
<1> QED
  BY <1>1, <1>3, <1>4, LenProperties

LEMMA OneMoreNode ==
    ASSUME NEW nodes \in Seq(NodeType), NEW x \in NodeType
    PROVE FlattenSeq(ItemsIn(Append(nodes, x))) = FlattenSeq(ItemsIn(nodes)) \o x.items
<1> DEFINE more == Append(nodes, x)
           n == Len(nodes)
           its == ItemsIn(nodes)
           now == ItemsIn(more)
           with == Append(its, x.items)
<1>1. /\ more \in Seq(NodeType) /\ Len(more) = n + 1 /\ n \in Nat
      /\ \A k \in 1..n : more[k] = nodes[k]
      /\ more[n + 1] = x
  BY Added, LenProperties
<1>2. its \in Seq(Seq(Nat)) /\ Len(its) = n /\ now \in Seq(Seq(Nat)) /\ Len(now) = n + 1
  BY <1>1, ItemsType
<1>3. x.items \in Seq(Nat)
  BY DEF NodeType
<1>4. /\ with \in Seq(Seq(Nat)) /\ Len(with) = n + 1 /\ (\A k \in 1..n : with[k] = its[k])
      /\ with[n + 1] = x.items
  BY <1>2, <1>3, Added
<1>5. DOMAIN nodes = 1..n /\ DOMAIN more = 1..(n + 1)
  BY <1>1, LenProperties
<1>6. ASSUME NEW k \in 1..(n + 1) PROVE now[k] = with[k]
  <2>1. now[k] = more[k].items
    BY <1>5 DEF ItemsIn
  <2>2. CASE k \in 1..n
    <3>1. its[k] = nodes[k].items
      BY <1>5, <2>2 DEF ItemsIn
    <3> QED
      BY <1>1, <1>4, <2>1, <2>2, <3>1
  <2>3. CASE k = n + 1
    BY <1>1, <1>4, <2>1, <2>3
  <2>4. k \in 1..n \/ k = n + 1
    BY <1>1
  <2> QED
    BY <2>2, <2>3, <2>4
<1> HIDE DEF now, with, its, more, n
<1>7. now = with
  BY <1>2, <1>4, <1>6, SeqEqual
<1>8. FlattenSeq(with) = FlattenSeq(its) \o x.items
  BY <1>2, <1>3, FlatAppend DEF with
<1> QED
  BY <1>7, <1>8 DEF now, its, more

\* A paragraph, or a list of some, that goes on where the nodes end.
LEMMA ReadsOn ==
    ASSUME NEW nodes, NEW a \in Nat, NEW b \in Nat, 1 <= a, a <= b, Reads(nodes, a), NEW x \in NodeType,
           x.items = [k \in 1..(b - a + 1) |-> a + k - 1]
    PROVE Reads(Append(nodes, x), b + 1)
<1> DEFINE u == UpTo(a)
           t == x.items
           w == UpTo(b + 1)
<1>1. nodes \in Seq(NodeType) /\ Append(nodes, x) \in Seq(NodeType)
  BY Added DEF Reads
<1>2. FlattenSeq(ItemsIn(Append(nodes, x))) = u \o t
  BY <1>1, OneMoreNode DEF Reads
<1>3. t \in Seq(Nat)
  BY DEF NodeType
<1>4. u \in Seq(Nat) /\ Len(u) = a - 1 /\ \A i \in 1..(a - 1) : u[i] = i
  <2>1. u \in [1..(a - 1) -> Nat] /\ DOMAIN u = 1..(a - 1) /\ a - 1 \in Nat
    BY DEF UpTo
  <2>2. u \in Seq(Nat)
    BY <2>1, SeqDef
  <2>3. Len(u) = a - 1
    BY <2>1, <2>2, LenProperties
  <2> QED
    BY <2>2, <2>3 DEF UpTo
<1>5. w \in Seq(Nat) /\ Len(w) = b /\ \A i \in 1..b : w[i] = i
  <2>0. (b + 1) - 1 = b
    OBVIOUS
  <2>1. w \in [1..b -> Nat] /\ DOMAIN w = 1..b
    BY <2>0 DEF UpTo
  <2>2. w \in Seq(Nat)
    BY <2>1, SeqDef
  <2>3. Len(w) = b
    BY <2>1, <2>2, LenProperties
  <2> QED
    BY <2>0, <2>2, <2>3 DEF UpTo
<1>6. Len(t) = b - a + 1 /\ \A k \in 1..(b - a + 1) : t[k] = a + k - 1
  <2>1. DOMAIN t = 1..(b - a + 1) /\ b - a + 1 \in Nat
    OBVIOUS
  <2>2. Len(t) = b - a + 1
    BY <1>3, <2>1, LenProperties
  <2> QED
    BY <2>2
<1> HIDE DEF u, t, w
<1>7. /\ u \o t \in Seq(Nat) /\ Len(u \o t) = b
      /\ \A i \in 1..b : (u \o t)[i] = IF i <= a - 1 THEN u[i] ELSE t[i - (a - 1)]
  <2>1. Len(u) + Len(t) = b /\ Len(u) = a - 1
    BY <1>4, <1>6
  <2>2. /\ u \o t \in Seq(Nat) /\ Len(u \o t) = Len(u) + Len(t)
        /\ \A i \in 1..(Len(u) + Len(t)) :
              (u \o t)[i] = IF i <= Len(u) THEN u[i] ELSE t[i - Len(u)]
    BY <1>3, <1>4, ConcatProperties
  <2> QED
    BY <2>1, <2>2
<1>8. ASSUME NEW i \in 1..b PROVE (u \o t)[i] = w[i]
  <2>1. CASE i <= a - 1
    <3>1. i \in 1..(a - 1)
      BY <2>1
    <3> QED
      BY <1>4, <1>5, <1>7, <2>1, <3>1
  <2>2. CASE ~(i <= a - 1)
    <3>1. i - (a - 1) \in 1..(b - a + 1) /\ a + (i - (a - 1)) - 1 = i
      BY <2>2
    <3> QED
      BY <1>5, <1>6, <1>7, <2>2, <3>1
  <2> QED
    BY <2>1, <2>2
<1>9. u \o t = w
  BY <1>5, <1>7, <1>8, SeqEqual
<1> QED
  BY <1>1, <1>2, <1>9 DEF Reads, w

LEMMA NodeTypes ==
    /\ \A i \in Nat : Lists!Node(i) \in NodeType /\ Lists!Node(i).list = FALSE
                      /\ Lists!Node(i).items = [k \in 1..(i - i + 1) |-> i + k - 1]
    /\ \A r \in RunType : /\ Lists!ListOf(r).list = TRUE
                          /\ Lists!ListOf(r).items = [k \in 1..(r.end - r.start + 1) |-> r.start + k - 1]
                          /\ r.start # 0 /\ r.start <= r.end => Lists!ListOf(r) \in NodeType
<1>1. ASSUME NEW i \in Nat
      PROVE Lists!Node(i) \in NodeType /\ Lists!Node(i).list = FALSE
            /\ Lists!Node(i).items = [k \in 1..(i - i + 1) |-> i + k - 1]
  <2>1. <<i>> \in Seq(Nat)
    OBVIOUS
  <2>2. <<i>> = [k \in 1..(i - i + 1) |-> i + k - 1]
    <3>1. i - i + 1 = 1 /\ \A k \in 1..1 : k = 1 /\ i + k - 1 = i
      OBVIOUS
    <3>2. <<i>> = [k \in 1..1 |-> i]
      OBVIOUS
    <3>3. [k \in 1..1 |-> i] = [k \in 1..1 |-> i + k - 1]
      BY <3>1
    <3> QED
      BY <3>1, <3>2, <3>3
  <2> QED
    BY <2>1, <2>2 DEF Lists!Node, NodeType
<1>2. ASSUME NEW r \in RunType, r.start # 0, r.start <= r.end
      PROVE Lists!ListOf(r) \in NodeType
  <2>1. r.start \in Nat /\ r.end \in Nat
    BY RunFields
  <2>2. r.end - r.start + 1 \in Nat
    BY <1>2, <2>1
  <2>3. [k \in 1..(r.end - r.start + 1) |-> r.start + k - 1] \in [1..(r.end - r.start + 1) -> Nat]
    BY <1>2, <2>1
  <2>4. [k \in 1..(r.end - r.start + 1) |-> r.start + k - 1] \in Seq(Nat)
    BY <2>2, <2>3, SeqDef
  <2> QED
    BY <2>4 DEF Lists!ListOf, NodeType
<1> QED
  BY <1>1, <1>2 DEF Lists!ListOf

After(L, k) == IF k = 0 THEN 1 ELSE L[k].end + 1
Part(L, k) == Append(Lists!Between(After(L, k - 1), L[k].start), Lists!ListOf(L[k]))
FlatOf(L, k) == FlattenSeq([j \in 1..k |-> Part(L, j)])

LEMMA BetweenType ==
    ASSUME NEW a \in Nat, NEW b \in Nat, a <= b
    PROVE /\ Lists!Between(a, b) \in Seq(NodeType) /\ Len(Lists!Between(a, b)) = b - a
          /\ \A k \in 1..(b - a) : Lists!Between(a, b)[k].list = FALSE
          /\ Lists!Between(a, a) = <<>>
          /\ Lists!Between(a, b + 1) = Append(Lists!Between(a, b), Lists!Node(b))
<1> DEFINE B(c) == Lists!Between(a, c)
<1>1. ASSUME NEW c \in Nat, a <= c
      PROVE /\ B(c) \in Seq(NodeType) /\ Len(B(c)) = c - a
            /\ \A k \in 1..(c - a) : B(c)[k] = Lists!Node(a + k - 1) /\ a + k - 1 \in Nat
  <2>1. c - a \in Nat /\ \A k \in 1..(c - a) : a + k - 1 \in Nat
    BY <1>1
  <2>2. DOMAIN B(c) = 1..(c - a) /\ \A k \in 1..(c - a) : B(c)[k] = Lists!Node(a + k - 1)
    BY DEF Lists!Between
  <2>3. B(c) \in [1..(c - a) -> NodeType]
    BY <2>1, NodeTypes DEF Lists!Between
  <2>4. B(c) \in Seq(NodeType)
    BY <2>1, <2>3, SeqDef
  <2>5. Len(B(c)) = c - a
    BY <2>1, <2>2, <2>4, LenProperties
  <2> QED
    BY <2>1, <2>2, <2>4, <2>5
<1>2. b + 1 \in Nat /\ a <= b + 1 /\ a - a = 0 /\ a <= a /\ (b + 1) - a = (b - a) + 1 /\ b - a \in Nat
  OBVIOUS
<1>3. \A k \in 1..(b - a) : B(b)[k].list = FALSE
  <2> SUFFICES ASSUME NEW k \in 1..(b - a) PROVE B(b)[k].list = FALSE
    OBVIOUS
  <2>1. B(b)[k] = Lists!Node(a + k - 1) /\ a + k - 1 \in Nat
    BY <1>1
  <2> QED
    BY <2>1, NodeTypes
<1>4. B(a) = <<>>
  <2>1. B(a) \in Seq(NodeType) /\ Len(B(a)) = 0
    BY <1>1, <1>2
  <2> QED
    BY <2>1, EmptySeq
<1>5. B(b + 1) = Append(B(b), Lists!Node(b))
  <2> DEFINE s == B(b + 1)
             u == B(b)
             n == b - a
             x == Lists!Node(b)
             t == Append(u, x)
  <2>1. s \in Seq(NodeType) /\ Len(s) = n + 1 /\ \A k \in 1..(n + 1) : s[k] = Lists!Node(a + k - 1)
    BY <1>1, <1>2
  <2>2. u \in Seq(NodeType) /\ Len(u) = n /\ \A k \in 1..n : u[k] = Lists!Node(a + k - 1)
    BY <1>1
  <2>3. x \in NodeType
    BY NodeTypes
  <2>4. t \in Seq(NodeType) /\ Len(t) = n + 1 /\ (\A k \in 1..n : t[k] = u[k]) /\ t[n + 1] = x
    BY <2>2, <2>3, Added
  <2>5. n \in Nat /\ a + (n + 1) - 1 = b
    OBVIOUS
  <2> HIDE DEF s, u, n, t
  <2>6. ASSUME NEW k \in 1..(n + 1) PROVE s[k] = t[k]
    <3>1. k \in 1..n \/ k = n + 1
      BY <2>5
    <3>2. CASE k \in 1..n
      BY <2>1, <2>2, <2>4, <3>2
    <3>3. CASE k = n + 1
      BY <2>1, <2>4, <2>5, <3>3
    <3> QED
      BY <3>1, <3>2, <3>3
  <2>7. s = t
    BY <2>1, <2>4, <2>6, SeqEqual
  <2> QED
    BY <2>7 DEF s, t, u
<1> QED
  BY <1>1, <1>3, <1>4, <1>5

LEMMA AppendOfJoined ==
    ASSUME NEW s \in Seq(NodeType), NEW t \in Seq(NodeType), NEW e \in NodeType
    PROVE Append(s \o t, e) = s \o Append(t, e)
<1>1. s \o t \in Seq(NodeType) /\ <<e>> \in Seq(NodeType)
  BY ConcatProperties
<1>2. Append(s \o t, e) = (s \o t) \o <<e>>
  BY <1>1, AppendIsConcat
<1>3. Append(t, e) = t \o <<e>>
  BY AppendIsConcat
<1>4. (s \o t) \o <<e>> = s \o (t \o <<e>>)
  BY <1>1, ConcatAssociative
<1> QED
  BY <1>2, <1>3, <1>4

LEMMA BetweenReadsOn ==
    ASSUME NEW nodes \in Seq(NodeType), NEW a \in Nat, NEW d \in Nat, 1 <= a, a <= d,
           Reads(nodes \o Lists!Between(a, d), d)
    PROVE Reads(nodes \o Lists!Between(a, d + 1), d + 1)
<1> DEFINE u == Lists!Between(a, d)
           x == Lists!Node(d)
           w == nodes \o u
<1>1. u \in Seq(NodeType) /\ Lists!Between(a, d + 1) = Append(u, x)
  BY BetweenType
<1>2. x \in NodeType /\ x.items = [k \in 1..(d - d + 1) |-> d + k - 1]
  BY NodeTypes
<1>3. Reads(w, d) /\ d <= d /\ 1 <= d
  OBVIOUS
<1> HIDE DEF u, x
<1>4. Append(w, x) = nodes \o Append(u, x)
  BY <1>1, <1>2, AppendOfJoined
<1> HIDE DEF w
<1>5. Reads(Append(w, x), d + 1)
  BY <1>2, <1>3, ReadsOn
<1> QED
  BY <1>1, <1>4, <1>5

\* Paragraphs left alone go on where the nodes end.
LEMMA BetweenReads ==
    ASSUME NEW nodes, NEW a \in Nat, 1 <= a, Reads(nodes, a), NEW b \in Nat, a <= b
    PROVE Reads(nodes \o Lists!Between(a, b), b)
<1> DEFINE bad == {c \in Nat : a <= c /\ ~Reads(nodes \o Lists!Between(a, c), c)}
<1> SUFFICES ASSUME bad # {} PROVE FALSE
  OBVIOUS
<1>1. bad \subseteq Nat
  OBVIOUS
<1>2. PICK c \in bad : \A y \in bad : c <= y
  BY <1>1, LeastNumber
<1>3. c \in Nat /\ a <= c /\ ~Reads(nodes \o Lists!Between(a, c), c)
  OBVIOUS
<1>n. nodes \in Seq(NodeType)
  BY DEF Reads
<1>4. c # a
  <2> SUFFICES ASSUME c = a PROVE FALSE
    OBVIOUS
  <2>1. Lists!Between(a, a) = <<>>
    BY BetweenType
  <2>2. nodes \o Lists!Between(a, a) = nodes
    BY <1>n, <2>1, ConcatEmptySeq
  <2> QED
    BY <1>3, <2>2
<1>5. c - 1 \in Nat /\ a <= c - 1 /\ ~(c <= c - 1) /\ (c - 1) + 1 = c
  BY <1>3, <1>4
<1>6. Reads(nodes \o Lists!Between(a, c - 1), c - 1)
  BY <1>2, <1>5
<1>7. Reads(nodes \o Lists!Between(a, (c - 1) + 1), (c - 1) + 1)
  BY <1>n, <1>5, <1>6, BetweenReadsOn
<1> QED
  BY <1>3, <1>5, <1>7


LEMMA AfterFacts ==
    ASSUME NEW z \in Nat, NEW L, InOrder(L, z), NEW k \in 0..Len(L)
    PROVE /\ Len(L) \in Nat /\ After(L, k) \in Nat /\ 1 <= After(L, k) /\ After(L, k) <= z + 1
          /\ k # Len(L) => /\ k + 1 \in 1..Len(L) /\ L[k + 1] \in RunType
                           /\ L[k + 1].start \in Nat /\ L[k + 1].end \in Nat
                           /\ After(L, k) <= L[k + 1].start /\ L[k + 1].start <= L[k + 1].end
                           /\ After(L, k + 1) = L[k + 1].end + 1
<1>0. /\ L \in Seq(RunType) /\ Len(L) \in Nat
      /\ \A i \in 1..Len(L) : L[i].start \in 1..L[i].end /\ L[i].end \in 1..z
      /\ \A i, j \in 1..Len(L) : i < j => L[i].end < L[j].start
  BY LenProperties DEF InOrder
<1>1. After(L, k) \in Nat /\ 1 <= After(L, k) /\ After(L, k) <= z + 1
  <2>1. CASE k = 0
    <3>1. After(L, k) = 1
      BY <2>1 DEF After
    <3> QED
      BY <3>1
  <2>2. CASE k # 0
    <3>1. k \in 1..Len(L)
      BY <1>0, <2>2
    <3>2. After(L, k) = L[k].end + 1 /\ L[k].end \in 1..z
      BY <1>0, <2>2, <3>1 DEF After
    <3> QED
      BY <3>2
  <2> QED
    BY <2>1, <2>2
<1>2. ASSUME k # Len(L)
      PROVE /\ k + 1 \in 1..Len(L) /\ L[k + 1] \in RunType
            /\ L[k + 1].start \in Nat /\ L[k + 1].end \in Nat
            /\ After(L, k) <= L[k + 1].start /\ L[k + 1].start <= L[k + 1].end
            /\ After(L, k + 1) = L[k + 1].end + 1
  <2> DEFINE n == k + 1
  <2>1. n \in 1..Len(L) /\ n # 0
    BY <1>0, <1>2
  <2> HIDE DEF n
  <2>2. L[n] \in RunType
    BY <1>0, <2>1, RunTypes
  <2>3. L[n].start \in 1..L[n].end /\ L[n].end \in 1..z
    BY <1>0, <2>1
  <2>4. L[n].start \in Nat /\ L[n].end \in Nat /\ L[n].start >= 1 /\ L[n].start <= L[n].end
    BY <2>3
  <2>5. After(L, k) <= L[n].start
    <3>1. CASE k = 0
      <4>1. After(L, k) = 1
        BY <3>1 DEF After
      <4> QED
        BY <2>4, <4>1
    <3>2. CASE k # 0
      <4>1. k \in 1..Len(L) /\ k < n
        BY <1>0, <3>2 DEF n
      <4>2. L[k].end < L[n].start /\ L[k].end \in 1..z
        BY <1>0, <2>1, <4>1
      <4>3. After(L, k) = L[k].end + 1
        BY <3>2 DEF After
      <4> QED
        BY <2>4, <4>2, <4>3
    <3> QED
      BY <3>1, <3>2
  <2>6. After(L, n) = L[n].end + 1
    BY <2>1 DEF After
  <2> QED
    BY <2>1, <2>2, <2>4, <2>5, <2>6 DEF n
<1> QED
  BY <1>0, <1>1, <1>2

LEMMA PartType ==
    ASSUME NEW z \in Nat, NEW L, InOrder(L, z), NEW k \in 1..Len(L)
    PROVE Part(L, k) \in Seq(NodeType)
<1> DEFINE j == k - 1
           B == Lists!Between(After(L, j), L[k].start)
           x == Lists!ListOf(L[k])
<1>1. Len(L) \in Nat
  BY LenProperties DEF InOrder
<1>2. j \in 0..Len(L) /\ j # Len(L) /\ j + 1 = k
  BY <1>1
<1> HIDE DEF j
<1>3. /\ L[k] \in RunType /\ L[k].start \in Nat /\ L[k].end \in Nat /\ After(L, j) \in Nat
      /\ 1 <= After(L, j) /\ After(L, j) <= L[k].start /\ L[k].start <= L[k].end
  BY <1>2, AfterFacts
<1>4. B \in Seq(NodeType)
  BY <1>3, BetweenType
<1>5. x \in NodeType
  <2>1. L[k].start # 0
    BY <1>3
  <2> QED
    BY <1>3, <2>1, NodeTypes
<1>6. Append(B, x) \in Seq(NodeType)
  BY <1>4, <1>5, Added
<1> QED
  BY <1>6 DEF Part, j

\* The nodes up to the k-th list: nothing but it and what stands before it is added.
LEMMA FlatOfNext ==
    ASSUME NEW z \in Nat, NEW L, InOrder(L, z), NEW k \in 0..Len(L)
    PROVE /\ [j \in 1..k |-> Part(L, j)] \in Seq(Seq(NodeType))
          /\ FlatOf(L, k) \in Seq(NodeType)
          /\ k = 0 => FlatOf(L, k) = <<>>
          /\ k # Len(L) => FlatOf(L, k + 1) = FlatOf(L, k) \o Part(L, k + 1)
<1>0. Len(L) \in Nat
  BY LenProperties DEF InOrder
<1> DEFINE p(m) == [j \in 1..m |-> Part(L, j)]
<1>1. ASSUME NEW m \in 0..Len(L) PROVE p(m) \in Seq(Seq(NodeType)) /\ Len(p(m)) = m
  <2>1. m \in Nat /\ \A j \in 1..m : j \in 1..Len(L)
    BY <1>0
  <2>2. \A j \in 1..m : Part(L, j) \in Seq(NodeType)
    BY <2>1, PartType
  <2>3. p(m) \in [1..m -> Seq(NodeType)]
    BY <2>2
  <2>4. p(m) \in Seq(Seq(NodeType))
    BY <2>1, <2>3, SeqDef
  <2>5. DOMAIN p(m) = 1..m
    OBVIOUS
  <2> QED
    BY <2>1, <2>4, <2>5, LenProperties
<1>2. FlatOf(L, k) \in Seq(NodeType)
  BY <1>1, FlatType DEF FlatOf
<1>3. ASSUME k = 0 PROVE FlatOf(L, k) = <<>>
  <2>1. p(0) = <<>>
    <3>1. 0 \in 0..Len(L)
      BY <1>0
    <3>2. p(0) \in Seq(Seq(NodeType)) /\ Len(p(0)) = 0
      BY <1>1, <3>1
    <3> QED
      BY <3>2, EmptySeq
  <2> QED
    BY <1>3, <2>1, FlatEmpty DEF FlatOf
<1>4. ASSUME k # Len(L) PROVE FlatOf(L, k + 1) = FlatOf(L, k) \o Part(L, k + 1)
  <2> DEFINE n == k + 1
             s == p(k)
             x == Part(L, n)
             u == p(n)
             t == Append(s, x)
  <2>1. n \in 1..Len(L) /\ n \in 0..Len(L) /\ k \in Nat
    BY <1>0, <1>4
  <2>2. s \in Seq(Seq(NodeType)) /\ Len(s) = k /\ u \in Seq(Seq(NodeType)) /\ Len(u) = n
    BY <1>1, <2>1
  <2>3. x \in Seq(NodeType)
    BY <2>1, PartType
  <2>4. t \in Seq(Seq(NodeType)) /\ Len(t) = n /\ (\A j \in 1..k : t[j] = s[j]) /\ t[n] = x
    BY <2>2, <2>3, Added
  <2>5. (\A j \in 1..k : s[j] = Part(L, j)) /\ \A j \in 1..n : u[j] = Part(L, j)
    OBVIOUS
  <2>6. ASSUME NEW j \in 1..n PROVE u[j] = t[j]
    <3>1. j \in 1..k \/ j = n
      BY <2>1
    <3>2. CASE j \in 1..k
      BY <2>4, <2>5, <3>2
    <3>3. CASE j = n
      BY <2>4, <2>5, <3>3
    <3> QED
      BY <3>1, <3>2, <3>3
  <2> HIDE DEF u, t, s, x
  <2>7. u = t
    BY <2>2, <2>4, <2>6, SeqEqual
  <2>8. FlattenSeq(t) = FlattenSeq(s) \o x
    BY <2>2, <2>3, FlatAppend DEF t
  <2> QED
    BY <2>7, <2>8 DEF FlatOf, u, s, x
<1> QED
  BY <1>1, <1>2, <1>3, <1>4

Stage(L, k) ==
    /\ Reads(FlatOf(L, k), After(L, k))
    /\ k # 0 => /\ Len(FlatOf(L, k)) # 0
                /\ FlatOf(L, k)[1].list = (L[1].start = 1)
                /\ FlatOf(L, k)[Len(FlatOf(L, k))].list = TRUE

LEMMA FirstOfJoined ==
    ASSUME NEW s \in Seq(NodeType), NEW t \in Seq(NodeType)
    PROVE /\ s \o t \in Seq(NodeType) /\ Len(s \o t) = Len(s) + Len(t)
          /\ Len(s) # 0 => (s \o t)[1] = s[1]
          /\ s = <<>> => s \o t = t
          /\ t = <<>> => s \o t = s
          /\ Len(t) # 0 => (s \o t)[Len(s) + Len(t)] = t[Len(t)]
<1>1. /\ s \o t \in Seq(NodeType) /\ Len(s \o t) = Len(s) + Len(t)
      /\ \A i \in 1..(Len(s) + Len(t)) : (s \o t)[i] = IF i <= Len(s) THEN s[i] ELSE t[i - Len(s)]
      /\ Len(s) \in Nat /\ Len(t) \in Nat
  BY ConcatProperties, LenProperties
<1>2. s = <<>> => s \o t = t
  BY ConcatEmptySeq
<1>3. t = <<>> => s \o t = s
  BY ConcatEmptySeq
<1>4. ASSUME Len(s) # 0 PROVE (s \o t)[1] = s[1]
  <2>1. 1 \in 1..(Len(s) + Len(t)) /\ 1 <= Len(s)
    BY <1>1, <1>4
  <2> QED
    BY <1>1, <2>1
<1>5. ASSUME Len(t) # 0 PROVE (s \o t)[Len(s) + Len(t)] = t[Len(t)]
  <2> DEFINE i == Len(s) + Len(t)
  <2>1. i \in 1..(Len(s) + Len(t)) /\ ~(i <= Len(s)) /\ i - Len(s) = Len(t)
    BY <1>1, <1>5
  <2> HIDE DEF i
  <2>2. (s \o t)[i] = t[Len(t)]
    BY <1>1, <2>1
  <2> QED
    BY <2>2 DEF i
<1> QED
  BY <1>1, <1>2, <1>3, <1>4, <1>5

LEMMA AddedNode ==
    ASSUME NEW s \in Seq(NodeType), NEW x \in NodeType
    PROVE /\ Append(s, x) \in Seq(NodeType) /\ Len(Append(s, x)) # 0
          /\ Append(s, x)[Len(Append(s, x))] = x
          /\ Len(s) # 0 => Append(s, x)[1] = s[1]
          /\ Len(s) = 0 => Append(s, x)[1] = x
<1>1. /\ Append(s, x) \in Seq(NodeType) /\ Len(Append(s, x)) = Len(s) + 1 /\ Len(s) \in Nat
      /\ \A k \in 1..Len(s) : Append(s, x)[k] = s[k]
      /\ Append(s, x)[Len(s) + 1] = x
  BY Added, LenProperties
<1>2. Len(s) # 0 => 1 \in 1..Len(s)
  BY <1>1
<1>3. Len(s) = 0 => Len(s) + 1 = 1
  OBVIOUS
<1>4. Len(Append(s, x)) # 0
  BY <1>1
<1> QED
  BY <1>1, <1>2, <1>3, <1>4


LEMMA NextStage ==
    ASSUME NEW z \in Nat, NEW L, InOrder(L, z), NEW k \in 0..Len(L), k # Len(L), Stage(L, k)
    PROVE Stage(L, k + 1)
<1> DEFINE m == k + 1
           a == After(L, k)
           r == L[m]
           b == r.start
           e == r.end
           N == FlatOf(L, k)
           B == Lists!Between(a, b)
           x == Lists!ListOf(r)
           w == N \o B
           next == Append(w, x)
<1>1. /\ m \in 1..Len(L) /\ r \in RunType /\ a \in Nat /\ b \in Nat /\ e \in Nat
      /\ 1 <= a /\ a <= b /\ b <= e /\ After(L, m) = e + 1
  BY AfterFacts
<1>2. FlatOf(L, m) = N \o Part(L, m) /\ N \in Seq(NodeType) /\ (k = 0 => N = <<>>)
  BY FlatOfNext
<1>3. Part(L, m) = Append(B, x)
  <2>1. m - 1 = k
    OBVIOUS
  <2> QED
    BY <2>1 DEF Part
<1>4. /\ B \in Seq(NodeType) /\ Len(B) = b - a /\ (\A i \in 1..(b - a) : B[i].list = FALSE)
  BY <1>1, BetweenType
<1>5. x \in NodeType /\ x.list = TRUE /\ x.items = [i \in 1..(e - b + 1) |-> b + i - 1]
  <2>1. b # 0
    BY <1>1
  <2> QED
    BY <1>1, <2>1, NodeTypes
<1>6. Reads(N, a) /\ (k # 0 => Len(N) # 0 /\ N[1].list = (L[1].start = 1))
  BY DEF Stage
<1>7. Reads(w, b)
  BY <1>1, <1>6, BetweenReads
<1>k. m # 0 /\ (k = 0 => m = 1) /\ (k = 0 => a = 1)
  BY DEF After
<1>L. k = 0 => r = L[1]
  BY <1>k
<1> HIDE DEF a, m, r
<1> HIDE DEF b, e, N, B, x
<1>8. FlatOf(L, m) = next
  BY <1>2, <1>3, <1>4, <1>5, AppendOfJoined
<1>9. /\ w \in Seq(NodeType) /\ Len(w) = Len(N) + Len(B)
      /\ Len(N) # 0 => w[1] = N[1]
      /\ N = <<>> => w = B
  BY <1>2, <1>4, FirstOfJoined
<1> HIDE DEF w
<1>10. /\ next \in Seq(NodeType) /\ Len(next) # 0 /\ next[Len(next)] = x
       /\ Len(w) # 0 => next[1] = w[1]
       /\ Len(w) = 0 => next[1] = x
  BY <1>5, <1>9, AddedNode
<1>11. Reads(next, e + 1)
  <2>1. 1 <= b
    BY <1>1
  <2> QED
    BY <1>1, <1>5, <1>7, <2>1, ReadsOn
<1>12. next[1].list = (L[1].start = 1)
  <2>1. CASE k # 0
    <3>1. Len(w) # 0
      <4>1. Len(N) \in Nat /\ Len(B) \in Nat /\ Len(N) # 0
        BY <1>2, <1>4, <1>6, <2>1, LenProperties
      <4> QED
        BY <1>9, <4>1
    <3> QED
      BY <1>6, <1>9, <1>10, <2>1, <3>1
  <2>2. CASE k = 0
    <3>1. w = B /\ a = 1
      BY <1>2, <1>9, <1>k, <2>2
    <3>2. CASE b = 1
      <4>1. Len(w) = 0
        BY <1>4, <3>1, <3>2
      <4>2. L[1].start = 1
        BY <1>L, <2>2, <3>2 DEF b
      <4> QED
        BY <1>5, <1>10, <4>1, <4>2
    <3>3. CASE b # 1
      <4>1. Len(w) # 0 /\ 1 \in 1..(b - a)
        BY <1>1, <1>4, <3>1, <3>3
      <4>2. L[1].start # 1
        BY <1>L, <2>2, <3>3 DEF b
      <4>3. next[1].list = FALSE
        BY <1>4, <1>10, <3>1, <4>1
      <4> QED
        BY <4>2, <4>3
    <3> QED
      BY <3>2, <3>3
  <2> QED
    BY <2>1, <2>2
<1>13. Stage(L, m)
  BY <1>1, <1>5, <1>8, <1>10, <1>11, <1>12 DEF Stage
<1> QED
  BY <1>13 DEF m

LEMMA EveryStage ==
    ASSUME NEW z \in Nat, NEW L, InOrder(L, z), NEW k \in 0..Len(L)
    PROVE Stage(L, k)
<1>0. Len(L) \in Nat
  BY LenProperties DEF InOrder
<1> DEFINE bad == {j \in 0..Len(L) : ~Stage(L, j)}
<1> SUFFICES ASSUME bad # {} PROVE FALSE
  OBVIOUS
<1>1. bad \subseteq Nat
  BY <1>0
<1>2. PICK j \in bad : \A y \in bad : j <= y
  BY <1>1, LeastNumber
<1>3. j \in 0..Len(L) /\ ~Stage(L, j)
  OBVIOUS
<1>4. \A i \in 0..Len(L) : ~Stage(L, i) => j <= i
  BY <1>2
<1> HIDE DEF bad
<1>5. CASE j = 0
  <2>1. FlatOf(L, 0) = <<>> /\ 0 \in 0..Len(L)
    BY <1>3, <1>5, FlatOfNext
  <2>2. After(L, 0) = 1
    BY DEF After
  <2>3. Reads(<<>>, 1)
    <3>1. <<>> \in Seq(NodeType) /\ DOMAIN <<>> = {}
      BY EmptySeq
    <3>2. ItemsIn(<<>>) = <<>>
      <4>1. ItemsIn(<<>>) \in Seq(Seq(Nat)) /\ Len(ItemsIn(<<>>)) = 0
        BY <3>1, ItemsType, EmptySeq
      <4> QED
        BY <4>1, EmptySeq
    <3>3. UpTo(1) = <<>>
      <4>1. 1..(1 - 1) = {} /\ 1..0 = {}
        OBVIOUS
      <4>2. UpTo(1) \in [1..0 -> Nat] /\ DOMAIN UpTo(1) = 1..0
        BY <4>1 DEF UpTo
      <4>3. UpTo(1) \in Seq(Nat)
        BY <4>2, SeqDef
      <4>4. Len(UpTo(1)) = 0
        BY <4>2, <4>3, LenProperties
      <4> QED
        BY <4>3, <4>4, EmptySeq
    <3> QED
      BY <3>1, <3>2, <3>3, FlatEmpty DEF Reads
  <2>4. Stage(L, 0)
    BY <2>1, <2>2, <2>3 DEF Stage
  <2> QED
    BY <1>3, <1>5, <2>4
<1>6. CASE j # 0
  <2>1. j - 1 \in 0..Len(L) /\ j - 1 # Len(L) /\ ~(j <= j - 1) /\ (j - 1) + 1 = j
    BY <1>0, <1>3, <1>6
  <2>2. Stage(L, j - 1)
    BY <1>4, <2>1
  <2>3. Stage(L, (j - 1) + 1)
    BY <2>1, <2>2, NextStage
  <2> QED
    BY <1>3, <2>1, <2>3
<1> QED
  BY <1>5, <1>6

LEMMA ListFlat == ASSUME NEW s PROVE Lists!FlattenSeq(s) = FlattenSeq(s)
BY Zenon DEF Lists!FlattenSeq, FlattenSeq

LEMMA ListifiedIs ==
    ASSUME NEW z \in Nat, NEW L, L = Lists!Lists, InOrder(L, z), at = z + 1
    PROVE Lists!Listified = FlatOf(L, Len(L)) \o Lists!Between(After(L, Len(L)), at)
<1> DEFINE n == Len(L)
           upto == [j \in DOMAIN L |-> Part(L, j)]
           B == Lists!Between(After(L, n), at)
<1>0. n \in Nat /\ DOMAIN L = 1..n /\ n \in 0..Len(L) /\ at \in Nat
  BY LenProperties DEF InOrder
<1>1. Lists!Listified = Lists!FlattenSeq(Append(upto, B))
  BY DEF Lists!Listified, Part, After
<1>2. FlatOf(L, n) = FlattenSeq(upto) /\ upto \in Seq(Seq(NodeType))
  BY <1>0, FlatOfNext DEF FlatOf
<1>3. B \in Seq(NodeType)
  <2>1. After(L, n) \in Nat /\ After(L, n) <= at
    BY <1>0, AfterFacts
  <2> QED
    BY <1>0, <2>1, BetweenType
<1>4. FlattenSeq(Append(upto, B)) = FlattenSeq(upto) \o B
  BY <1>2, <1>3, FlatAppend
<1> QED
  BY <1>1, <1>2, <1>4, ListFlat

\* Making lists loses, repeats and moves no paragraph.
LEMMA NothingMoves ==
    ASSUME NEW z \in Nat, InOrder(Lists!Lists, z), at = z + 1
    PROVE Lists!NoParagraphMoves
<1> DEFINE L == Lists!Lists
           n == Len(L)
           a == After(L, n)
           N == FlatOf(L, n)
           B == Lists!Between(a, at)
           all == N \o B
<1>0. L \in Seq(RunType) /\ n \in Nat /\ n \in 0..Len(L) /\ at \in Nat
  BY LenProperties DEF InOrder
<1>1. Lists!Listified = all
  BY ListifiedIs
<1>2. Stage(L, n) /\ a \in Nat /\ 1 <= a /\ a <= at
  BY <1>0, EveryStage, AfterFacts
<1>3. Reads(all, at)
  BY <1>0, <1>2, BetweenReads DEF Stage
<1>4. Lists!FlattenSeq([k \in DOMAIN all |-> all[k].items]) = [i \in 1..(at - 1) |-> i]
  BY <1>3, ListFlat DEF Reads, ItemsIn, UpTo
<1>5. /\ N \in Seq(NodeType) /\ (n = 0 => N = <<>>)
      /\ n # 0 => /\ Len(N) # 0 /\ N[1].list = (L[1].start = 1) /\ N[Len(N)].list = TRUE
  BY <1>0, <1>2, FlatOfNext DEF Stage
<1>6. /\ B \in Seq(NodeType) /\ Len(B) = at - a /\ \A k \in 1..(at - a) : B[k].list = FALSE
  BY <1>0, <1>2, BetweenType
<1>a. B = <<>> <=> a = at
  <2>1. at - a = 0 <=> a = at
    BY <1>0, <1>2
  <2>2. B = <<>> <=> Len(B) = 0
    BY <1>6, EmptySeq
  <2> QED
    BY <1>6, <2>1, <2>2
<1>n. n = 0 <=> L = <<>>
  BY <1>0, EmptySeq
<1>7. /\ n = 0 => a = 1
      /\ n # 0 => a = L[n].end + 1 /\ L[n].end \in Nat
  <2>1. n # 0 => n \in 1..Len(L)
    BY <1>0
  <2>2. n # 0 => L[n] \in RunType
    BY <1>0, <2>1, RunTypes
  <2> QED
    BY <2>2, RunFields DEF After
<1>8. n # 0 => Lists!Last(L) = L[n] /\ Head(L) = L[1]
  BY <1>0, <1>n DEF Lists!Last
<1> HIDE DEF N, a
<1> HIDE DEF n
<1>9. /\ all \in Seq(NodeType) /\ Len(all) = Len(N) + Len(B)
      /\ Len(N) # 0 => all[1] = N[1]
      /\ N = <<>> => all = B
      /\ B = <<>> => all = N
      /\ Len(B) # 0 => all[Len(N) + Len(B)] = B[Len(B)]
  BY <1>5, <1>6, FirstOfJoined
<1>l. Len(N) \in Nat /\ Len(B) \in Nat /\ Len(<<>>) = 0
  BY <1>5, <1>6, LenProperties, EmptySeq
<1> HIDE DEF B
<1> HIDE DEF all
<1>10. ASSUME at > 1
       PROVE /\ Lists!OpenStart = ~Head(all).list
             /\ Lists!OpenEnd = ~Lists!Last(all).list
  <2>1. all # <<>>
    <3>1. CASE n = 0
      <4>1. a # at
        BY <1>7, <1>10, <3>1
      <4> QED
        BY <1>5, <1>9, <1>a, <3>1, <4>1
    <3>2. CASE n # 0
      <4>1. Len(all) # 0
        BY <1>5, <1>9, <1>l, <3>2
      <4> QED
        BY <1>l, <4>1
    <3> QED
      BY <3>1, <3>2
  <2>2. Head(all) = all[1] /\ Lists!Last(all) = all[Len(all)]
    BY <1>9, <2>1 DEF Lists!Last
  <2>3. /\ Lists!OpenStart = (n = 0 \/ L[1].start # 1)
        /\ Lists!OpenEnd = (n = 0 \/ L[n].end # at - 1)
    <3>1. CASE n = 0
      BY <1>n, <3>1 DEF Lists!OpenStart, Lists!OpenEnd
    <3>2. CASE n # 0
      <4>1. Lists!Lists # <<>> /\ Head(Lists!Lists) = L[1] /\ Lists!Last(Lists!Lists) = L[n]
        BY <1>8, <1>n, <3>2
      <4> QED
        BY <3>2, <4>1 DEF Lists!OpenStart, Lists!OpenEnd
    <3> QED
      BY <3>1, <3>2
  <2>4. all[1].list = ~(n = 0 \/ L[1].start # 1)
    <3>1. CASE n = 0
      <4>1. all = B /\ 1 \in 1..(at - a)
        BY <1>0, <1>2, <1>5, <1>7, <1>9, <1>10, <3>1
      <4>2. all[1].list = FALSE
        BY <1>6, <4>1 DEF B
      <4> QED
        BY <3>1, <4>2
    <3>2. CASE n # 0
      BY <1>5, <1>9, <3>2
    <3> QED
      BY <3>1, <3>2
  <2>5. all[Len(all)].list = ~(n = 0 \/ L[n].end # at - 1)
    <3>1. CASE a = at
      <4>1. n # 0 /\ L[n].end = at - 1
        BY <1>0, <1>7, <1>10, <3>1
      <4>2. all = N
        BY <1>9, <1>a, <3>1
      <4> QED
        BY <1>5, <4>1, <4>2
    <3>2. CASE a # at
      <4>1. n = 0 \/ L[n].end # at - 1
        BY <1>0, <1>7, <3>2
      <4>2. Len(B) = at - a /\ at - a \in 1..(at - a) /\ Len(B) # 0
        BY <1>0, <1>2, <1>6, <3>2 DEF B
      <4>3. all[Len(all)] = B[at - a]
        BY <1>9, <4>2
      <4>4. B[at - a].list = FALSE
        BY <1>6, <4>2 DEF B
      <4> QED
        BY <4>1, <4>3, <4>4
    <3> QED
      BY <3>1, <3>2
  <2> QED
    BY <2>2, <2>3, <2>4, <2>5
<1> QED
  BY <1>1, <1>4, <1>10 DEF Lists!NoParagraphMoves

-----------------------------------------------------------------------------
(* The two passes over a paste.                                            *)

ListsInv == PastedOK /\ WordInv /\ RunInv

LEMMA PastesAre ==
    ASSUME NEW S, NEW n \in Nat
    PROVE Lists!SeqOf(S, n) \subseteq Seq(S)
<1> SUFFICES ASSUME NEW s \in Lists!SeqOf(S, n) PROVE s \in Seq(S)
  OBVIOUS
<1>1. PICK m \in 0..n : s \in [1..m -> S]
  BY DEF Lists!SeqOf
<1>2. m \in Nat
  OBVIOUS
<1> QED
  BY <1>1, <1>2, SeqDef

LEMMA ListsStart == Lists!ListInit => ListsInv
<1> SUFFICES ASSUME Lists!ListInit PROVE ListsInv
  OBVIOUS
<1>1. /\ at = 1 /\ stack = <<>> /\ lists = <<>> /\ place = <<>> /\ run = Lists!NoRun /\ runs = <<>>
      /\ pasted \in Lists!SeqOf(Lists!FromWord, MaxParagraphs)
                    \union Lists!SeqOf(Lists!FromText, MaxParagraphs)
  BY DEF Lists!ListInit
<1>2. PastedOK
  BY <1>1, PasteAssumption, PastesAre DEF PastedOK
<1>3. Len(pasted) \in Nat /\ at \in 1..(Len(pasted) + 1)
  BY <1>1, <1>2, LenProperties DEF PastedOK
<1>4. \A S : <<>> \in Seq(S) /\ Len(<<>>) = 0
  BY EmptySeq
<1>5. at - 1 = 0 /\ 1..0 = {} /\ 1..(0 - 1) = {} /\ 1..Len(<<>>) = {}
  BY <1>1, <1>4
<1>6. WordInv
  BY <1>1, <1>3, <1>4, <1>5 DEF WordInv, PlacesHeld
<1>7. RunInv
  <2>1. TextRuns(0, <<>>, Lists!NoRun)
    <3>1. Lists!NoRun \in RunType
      BY DEF Lists!NoRun, RunType
    <3>2. <<>> \in Seq(RunType)
      BY <1>4
    <3> QED
      BY <1>5, <3>1, <3>2 DEF TextRuns
  <2>2. TextRuns(at - 1, runs, run)
    BY <1>1, <1>5, <2>1
  <2> QED
    BY <1>1, <1>3, <2>2 DEF RunInv
<1> QED
  BY <1>2, <1>6, <1>7 DEF ListsInv

LEMMA PastedOKSame == ASSUME pasted' = pasted, PastedOK PROVE PastedOK'
<1>1. Lists!FromWord' = Lists!FromWord
  BY DEF Lists!FromWord, Lists!Plain, Lists!Word
<1>2. Lists!FromText' = Lists!FromText
  BY DEF Lists!FromText, Lists!Plain, Lists!Glyph, Lists!Dash, Lists!Number
<1> QED
  BY <1>1, <1>2 DEF PastedOK

LEMMA WordInvSame ==
    ASSUME WordInv, UNCHANGED <<pasted, at, stack, lists, place>>
    PROVE WordInv'
<1> DEFINE z == at - 1
<1>0. at' = at /\ pasted' = pasted /\ stack' = stack /\ lists' = lists /\ place' = place
  OBVIOUS
<1>1. at' \in 1..(Len(pasted) + 1) /\ at' - 1 = z /\ stack' \in Seq(Entry)
  BY <1>0 DEF WordInv
<1>2. PlacesHeld(z, place', lists')
  BY <1>0 DEF WordInv
<1>3. at > 1 /\ Lists!IsWord(pasted[z]) => HoldsOpen(stack', OpenAt(z), place')
  BY <1>0 DEF WordInv
<1> HIDE DEF z
<1>4. CASE at > 1 /\ Lists!IsWord(pasted[z])
  BY <1>0, <1>1, <1>2, <1>3, <1>4, WordInvNext
<1>5. CASE at > 1 /\ ~Lists!IsWord(pasted[z])
  BY <1>0, <1>1, <1>2, <1>5, WordInvNext
<1>6. CASE ~(at > 1)
  <2>1. PlacesHeld(at - 1, place, lists)'
    <3>1. /\ place' \in Seq(Nat) /\ Len(place') = z /\ lists' \in Seq(MadeList)
          /\ \A i \in 1..z : Lists!IsWord(pasted[i]) =>
                place'[i] \in 1..Len(lists') /\ Shaped(place', lists', i)
      BY <1>2 DEF PlacesHeld
    <3>2. 1..z = {}
      BY <1>6 DEF WordInv, z
    <3> QED
      BY <1>1, <3>1, <3>2 DEF PlacesHeld
  <2>2. ~(at > 1)'
    BY <1>0, <1>6
  <2> QED
    BY <1>0, <1>1, <2>1, <2>2 DEF WordInv
<1> QED
  BY <1>4, <1>5, <1>6

LEMMA ListsStep ==
    ASSUME ListsInv, [Lists!ListNext]_(Lists!listVars)
    PROVE ListsInv'
<1>1. CASE Lists!TakeItem
  <2>1. pasted' = pasted
    BY <1>1 DEF Lists!TakeItem
  <2> QED
    BY <1>1, <2>1, TakeItemStep, TakeItemRuns, PastedOKSame DEF ListsInv
<1>2. CASE Lists!TakeParagraph
  <2>1. pasted' = pasted
    BY <1>2 DEF Lists!TakeParagraph
  <2> QED
    BY <1>2, <2>1, TakeParagraphWord, TakeParagraphRuns, PastedOKSame DEF ListsInv
<1>3. CASE UNCHANGED Lists!listVars
  <2>1. UNCHANGED <<pasted, at, stack, lists, place, run, runs>>
    BY <1>3 DEF Lists!listVars
  <2>2. PastedOK'
    BY <2>1, PastedOKSame DEF ListsInv
  <2>3. WordInv'
    BY <2>1, WordInvSame DEF ListsInv
  <2>4. RunInv'
    <3>1. (pasted \in Seq(Lists!FromText))' <=> pasted \in Seq(Lists!FromText)
      BY <2>1 DEF Lists!FromText, Lists!Plain, Lists!Glyph, Lists!Dash, Lists!Number
    <3>2. Lists!NoRun' = Lists!NoRun
      BY DEF Lists!NoRun
    <3>3. ASSUME TextRuns(at - 1, runs, run) PROVE TextRuns(at - 1, runs, run)'
      <4>1. TextRuns(at - 1, runs', run') /\ at' - 1 = at - 1
        BY <2>1, <3>3
      <4> QED
        BY <2>1, <4>1, TextRunsNext
    <3> QED
      BY <2>1, <3>1, <3>2, <3>3 DEF ListsInv, RunInv
  <2> QED
    BY <2>2, <2>3, <2>4 DEF ListsInv
<1> QED
  BY <1>1, <1>2, <1>3 DEF Lists!ListNext

LEMMA ListsSafe ==
    ListsInv => Lists!WordKeepsItsShape /\ Lists!RunsAreTheLists /\ Lists!NoParagraphMoves
<1> SUFFICES ASSUME ListsInv
             PROVE Lists!WordKeepsItsShape /\ Lists!RunsAreTheLists /\ Lists!NoParagraphMoves
  OBVIOUS
<1>1. Len(pasted) \in Nat /\ at \in 1..(Len(pasted) + 1)
  BY LenProperties DEF ListsInv, PastedOK, RunInv
<1> DEFINE z == at - 1
<1>2. z \in Nat /\ at = z + 1
  BY <1>1
<1>3. InOrder(Lists!Lists, z)
  <2>1. CASE pasted \in Seq(Lists!FromText)
    <3>1. TextRuns(z, runs, run)
      BY <2>1 DEF ListsInv, RunInv
    <3> QED
      BY <1>2, <3>1, ListsFacts
  <2>2. CASE pasted \notin Seq(Lists!FromText)
    <3>1. Lists!Lists = <<>>
      BY <2>2, NoLists DEF ListsInv, RunInv
    <3>2. <<>> \in Seq(RunType) /\ 1..Len(<<>>) = {}
      BY EmptySeq
    <3> QED
      BY <3>1, <3>2 DEF InOrder
  <2> QED
    BY <2>1, <2>2
<1> HIDE DEF z
<1> QED
  BY <1>2, <1>3, NothingMoves, RunsAreLists, WordsKeepShape DEF ListsInv


\* A list hangs under an item that has been taken, an item is in a list that was made.
Sized(z, p, l) ==
    /\ \A k \in 1..Len(l) : l[k].under \in 0..z
    /\ \A i \in 1..z : p[i] \in 0..Len(l)
ListsSized == Sized(at - 1, place, lists)

LEMMA ListsTypes == ListsInv /\ ListsSized => Lists!ListTypeOK
<1> SUFFICES ASSUME ListsInv, ListsSized PROVE Lists!ListTypeOK
  OBVIOUS
<1>1. at \in 1..(Len(pasted) + 1) /\ Len(place) = at - 1
  BY DEF ListsInv, WordInv, PlacesHeld
<1> QED
  BY <1>1 DEF ListsSized, Sized, Lists!ListTypeOK

LEMMA ListsSizedStart == Lists!ListInit => ListsSized
<1> SUFFICES ASSUME Lists!ListInit PROVE ListsSized
  OBVIOUS
<1>1. lists = <<>> /\ at = 1
  BY DEF Lists!ListInit
<1>2. 1..Len(lists) = {} /\ 1..(at - 1) = {}
  BY <1>1
<1> QED
  BY <1>2 DEF ListsSized, Sized

LEMMA SizedOn ==
    ASSUME NEW z \in Nat, NEW p, NEW l, Sized(z, p, l), NEW q, NEW m, Len(l) \in Nat,
           \A i \in 1..z : q[i] = p[i],
           Len(m) \in {Len(l), Len(l) + 1}, \A k \in 1..Len(l) : m[k] = l[k],
           q[z + 1] \in 0..Len(m),
           Len(m) = Len(l) \/ m[Len(l) + 1].under \in 0..(z + 1)
    PROVE Sized(z + 1, q, m)
<1>1. ASSUME NEW k \in 1..Len(m) PROVE m[k].under \in 0..(z + 1)
  <2>1. k \in 1..Len(l) \/ (Len(m) = Len(l) + 1 /\ k = Len(l) + 1)
    OBVIOUS
  <2>2. CASE k \in 1..Len(l)
    <3>1. m[k] = l[k] /\ l[k].under \in 0..z
      BY <2>2 DEF Sized
    <3> QED
      BY <3>1
  <2>3. CASE Len(m) = Len(l) + 1 /\ k = Len(l) + 1
    <3>1. Len(m) # Len(l)
      BY <2>3
    <3> QED
      BY <2>3, <3>1
  <2> QED
    BY <2>1, <2>2, <2>3
<1>2. ASSUME NEW i \in 1..(z + 1) PROVE q[i] \in 0..Len(m)
  <2>1. CASE i \in 1..z
    <3>1. q[i] = p[i] /\ p[i] \in 0..Len(l)
      BY <2>1 DEF Sized
    <3> QED
      BY <3>1
  <2>2. CASE i = z + 1
    BY <2>2
  <2> QED
    BY <2>1, <2>2
<1> QED
  BY <1>1, <1>2 DEF Sized

LEMMA Lengthened ==
    ASSUME NEW S, NEW s \in Seq(S), NEW e
    PROVE /\ Len(Append(s, e)) = Len(s) + 1
          /\ \A k \in 1..Len(s) : Append(s, e)[k] = s[k]
          /\ Append(s, e)[Len(s) + 1] = e
<1> DEFINE T == S \union {e}
<1>1. s \in Seq(T) /\ e \in T
  <2>1. s \in [1..Len(s) -> S] /\ Len(s) \in Nat
    BY LenProperties
  <2>2. s \in [1..Len(s) -> T]
    BY <2>1
  <2> QED
    BY <2>1, <2>2, SeqDef
<1> HIDE DEF T
<1> QED
  BY <1>1, Added

LEMMA ListsSizedStep ==
    ASSUME ListsInv, ListsSized, [Lists!ListNext]_(Lists!listVars)
    PROVE ListsSized'
<1> DEFINE z == at - 1
<1>1. ListsInv'
  BY ListsStep
<1>2. /\ at \in Nat /\ place \in Seq(Nat) /\ lists \in Seq(MadeList) /\ Len(place) \in Nat
      /\ Len(lists) \in Nat /\ Len(place) = z /\ Len(pasted) \in Nat
      /\ z \in Nat /\ z + 1 = at
  BY LenProperties DEF ListsInv, PastedOK, WordInv, PlacesHeld
<1>3. Sized(z, place, lists)
  BY DEF ListsSized
<1> HIDE DEF z
<1>4. CASE Lists!TakeItem
  <2>1. at' = at + 1 /\ Lists!IsWord(pasted[at]) /\ pasted' = pasted
    BY <1>4 DEF Lists!TakeItem
  <2>2. \E v : place' = Append(place, v)
    BY <1>4, Zenon DEF Lists!TakeItem
  <2>3. lists' = lists \/ \E w : lists' = Append(lists, w) /\ place' = Append(place, Len(lists) + 1)
    BY <1>4, Zenon DEF Lists!TakeItem
  <2>4. /\ place' \in Seq(Nat) /\ lists' \in Seq(MadeList) /\ Len(lists') \in Nat
        /\ place'[at] \in 1..Len(lists') /\ lists'[place'[at]].under \in 0..(z + 1)
    <3>1. at \in 1..(at' - 1) /\ Lists!IsWord(pasted'[at])
      BY <1>2, <2>1
    <3>2. /\ place' \in Seq(Nat) /\ lists' \in Seq(MadeList)
          /\ \A i \in 1..(at' - 1) : Lists!IsWord(pasted'[i]) =>
                place'[i] \in 1..Len(lists') /\ Shaped(place, lists, i)'
      BY <1>1 DEF ListsInv, WordInv, PlacesHeld, Lists!IsWord
    <3>3. ASSUME NEW i \in 1..(at' - 1), Lists!IsWord(pasted'[i])
          PROVE place'[i] \in 1..Len(lists') /\ lists'[place'[i]].under \in 0..i
      <4>1. place'[i] \in 1..Len(lists') /\ Shaped(place, lists, i)'
        BY <3>2, <3>3
      <4>2. lists'[place'[i]].under = Lists!Above(i)'
        BY <4>1 DEF Shaped
      <4>3. Lists!Above(i) \in 0..i
        BY DEF Lists!Above, Lists!NoItem
      <4>4. Lists!Above(i)' = Lists!Above(i)
        BY <2>1 DEF Lists!Above, Lists!IsWord, Lists!NoItem
      <4> QED
        BY <4>1, <4>2, <4>3, <4>4
    <3> QED
      BY <1>2, <3>1, <3>2, <3>3, LenProperties
  <2> DEFINE q == place'
             m == lists'
  <2>5. /\ \A i \in 1..z : q[i] = place[i]
        /\ q[z + 1] \in 0..Len(m)
    <3>1. PICK v : q = Append(place, v)
      BY <2>2
    <3> HIDE DEF q, m
    <3> QED
      BY <1>2, <2>4, <3>1, Lengthened DEF q, m
  <2>7. /\ Len(m) \in {Len(lists), Len(lists) + 1} /\ \A k \in 1..Len(lists) : m[k] = lists[k]
        /\ Len(m) = Len(lists) \/ m[Len(lists) + 1].under \in 0..(z + 1)
    <3>1. CASE m = lists
      <4> HIDE DEF m
      <4> QED
        BY <1>2, <3>1
    <3>2. CASE m # lists
      <4>1. PICK w : m = Append(lists, w) /\ q = Append(place, Len(lists) + 1)
        BY <2>3, <3>2
      <4>2. q[at] = Len(lists) + 1
        <5> HIDE DEF q
        <5> QED
          BY <1>2, <4>1, Lengthened
      <4>3. m[Len(lists) + 1].under \in 0..(z + 1)
        <5>1. m[q[at]].under \in 0..(z + 1)
          BY <2>4
        <5> HIDE DEF m, q
        <5> QED
          BY <4>2, <5>1
      <4> HIDE DEF m, q
      <4>4. Len(m) = Len(lists) + 1 /\ \A k \in 1..Len(lists) : m[k] = lists[k]
        BY <1>2, <4>1, Lengthened
      <4> QED
        BY <4>3, <4>4
    <3> QED
      BY <3>1, <3>2
  <2>8. Sized(z + 1, q, m)
    <3> HIDE DEF q, m
    <3> QED
      BY <1>2, <1>3, <2>5, <2>7, SizedOn
  <2>9. at' - 1 = z + 1
    BY <1>2, <2>1
  <2> QED
    BY <2>8, <2>9 DEF ListsSized
<1>5. CASE Lists!TakeParagraph
  <2>1. at' = at + 1 /\ place' = Append(place, 0) /\ lists' = lists
    BY <1>5 DEF Lists!TakeParagraph
  <2>2. (\A i \in 1..z : Append(place, 0)[i] = place[i]) /\ Append(place, 0)[z + 1] = 0
    BY <1>2, Added
  <2>3. Sized(z + 1, Append(place, 0), lists)
    <3>1. Len(lists) \in {Len(lists), Len(lists) + 1} /\ Append(place, 0)[z + 1] \in 0..Len(lists)
      BY <1>2, <2>2
    <3> QED
      BY <1>2, <1>3, <2>2, <3>1, SizedOn
  <2> QED
    BY <1>2, <2>1, <2>3 DEF ListsSized
<1>6. CASE UNCHANGED Lists!listVars
  BY <1>6 DEF Lists!listVars, ListsSized, Sized
<1> QED
  BY <1>4, <1>5, <1>6 DEF Lists!ListNext

-----------------------------------------------------------------------------
(* The reference picker.                                                   *)

PickerViews == [rows : Seq(Picker!Records), search : BOOLEAN, open : BOOLEAN,
                options : Seq(Picker!Records)]
PickerMessages == [kind : {"open", "close", "search", "pick", "remove", "add", "take"},
                   arg : SUBSET Picker!Records]
PickerFields == [ids : Seq(Picker!Records), query : SUBSET Picker!Records, open : BOOLEAN,
                 results : Seq(Picker!Records)]
PickerNotes == {n \in [kind : {"none", "pick", "remove"}, count : Nat, index : Nat] :
                  n.kind = "remove" => n.index # 0}
PickerFocus == {Picker!Input, Picker!Body} \union {Picker!RemoveButton(r) : r \in Picker!Records}

PickerTyped ==
    /\ ids \in Seq(Picker!Records) /\ picker \in PickerFields
    /\ mailbox \in Seq(PickerMessages) /\ patches \in Seq(PickerViews) /\ dom \in PickerViews
    /\ hook \in [active : Nat, note : PickerNotes]
    /\ focus \in PickerFocus /\ raced \in BOOLEAN

\* The last render is the component's; the search shows while there is room; focus is
\* on something the page has.
PickerShape ==
    /\ picker.ids = ids /\ NoRepeat(ids)
    /\ dom.search = (Len(dom.rows) < MaxItems)
    /\ \A k \in 1..Len(patches) : patches[k].search = (Len(patches[k].rows) < MaxItems)
    /\ IF patches = <<>> THEN dom = Picker!Shown(picker)
       ELSE patches[Len(patches)] = Picker!Shown(picker)
    /\ Picker!Exists(focus, dom)

LEMMA PickerKept == ASSUME NEW s, NEW T PROVE Picker!Kept(s, T) = Kept(s, T)
<1>1. \A P, k : Picker!Nth(P, k) = Nth(P, k)
  BY Zenon DEF Picker!Nth, Nth, Picker!Cardinality, Cardinality
<1> QED
  BY <1>1, Zenon DEF Picker!Kept, Kept, Picker!PickedAt, PickedAt, Picker!Cardinality, Cardinality

LEMMA PickerAscending == ASSUME NEW P PROVE Picker!Ascending(P) = Ascending(P)
<1>1. \A k : Picker!Nth(P, k) = Nth(P, k)
  BY Zenon DEF Picker!Nth, Nth, Picker!Cardinality, Cardinality
<1> QED
  BY <1>1, Zenon DEF Picker!Ascending, Ascending, Picker!Cardinality, Cardinality

LEMMA RecordPlaces ==
    ASSUME NEW P \in SUBSET Picker!Records
    PROVE /\ Places(P) /\ Ascending(P) \in Seq(Picker!Records)
          /\ Range(Ascending(P)) = P /\ NoRepeat(Ascending(P))
          /\ Len(Ascending(P)) = Cardinality(P)
<1>1. IsFiniteSet(Picker!Records) /\ Picker!Records \subseteq Nat
  BY PickerAssumption, FirstNumbers DEF Picker!Records
<1>2. Places(P)
  BY <1>1, FS_Subset DEF Places
<1>3. /\ Ascending(P) \in Seq(P) /\ Range(Ascending(P)) = P
      /\ NoRepeat(Ascending(P)) /\ Len(Ascending(P)) = Cardinality(P)
  BY <1>2, AscendingFacts
<1> QED
  BY <1>2, <1>3, SeqMonotonic

LEMMA PickerFound ==
    ASSUME NEW q \in SUBSET Picker!Records, NEW s \in Seq(Picker!Records)
    PROVE /\ Picker!Found(q, s) \in Seq(Picker!Records)
          /\ Range(Picker!Found(q, s)) \cap Range(s) = {}
<1>1. Picker!Found(q, s) = Ascending(q \ Range(s))
  BY PickerAscending DEF Picker!Found, Picker!Range, Range
<1>2. q \ Range(s) \in SUBSET Picker!Records
  OBVIOUS
<1>3. /\ Ascending(q \ Range(s)) \in Seq(Picker!Records)
      /\ Range(Ascending(q \ Range(s))) = q \ Range(s)
  BY <1>2, RecordPlaces
<1> QED
  BY <1>1, <1>3

LEMMA ShownType ==
    ASSUME NEW p \in PickerFields
    PROVE /\ Picker!Shown(p) \in PickerViews
          /\ Picker!Shown(p).rows = p.ids
          /\ Picker!Shown(p).search = (Len(p.ids) < MaxItems)
          /\ Picker!Shown(p).options # <<>> =>
                Picker!Searchable(p) /\ Picker!Shown(p).options = p.results
<1>1. p.ids \in Seq(Picker!Records) /\ p.results \in Seq(Picker!Records) /\ p.open \in BOOLEAN
  BY DEF PickerFields
<1>2. Len(p.ids) \in Nat /\ <<>> \in Seq(Picker!Records)
  BY <1>1, LenProperties
<1> QED
  BY <1>1, <1>2 DEF Picker!Shown, Picker!Searchable, PickerViews

\* What the component makes of an event.
LEMMA PushedType ==
    ASSUME NEW e \in PickerMessages, NEW p \in PickerFields
    PROVE /\ Picker!Pushed(e, p) \in PickerFields
          /\ Picker!Pushed(e, p).ids = p.ids
<1>1. /\ e.arg \in SUBSET Picker!Records /\ p.query \in SUBSET Picker!Records
      /\ p.ids \in Seq(Picker!Records) /\ p.results \in Seq(Picker!Records)
  BY DEF PickerMessages, PickerFields
<1>2. /\ Picker!Found(e.arg, p.ids) \in Seq(Picker!Records)
      /\ Picker!Found(p.query, p.ids) \in Seq(Picker!Records)
      /\ Picker!Kept(p.results, Picker!Records \ e.arg) \in Seq(Picker!Records)
  BY <1>1, PickerFound, PickerKept, KeptFacts
<1> DEFINE F == Picker!Found(e.arg, p.ids)
           G == Picker!Found(p.query, p.ids)
           K == Picker!Kept(p.results, Picker!Records \ e.arg)
<1>3. /\ [p EXCEPT !.query = e.arg, !.open = TRUE, !.results = F] \in PickerFields
      /\ [p EXCEPT !.open = TRUE, !.results = G] \in PickerFields
      /\ [p EXCEPT !.open = FALSE] \in PickerFields
      /\ [p EXCEPT !.results = K] \in PickerFields
  <2> HIDE DEF F, G, K
  <2>1. F \in Seq(Picker!Records) /\ G \in Seq(Picker!Records) /\ K \in Seq(Picker!Records)
    BY <1>2 DEF F, G, K
  <2> QED
    BY <1>1, <2>1 DEF PickerFields
<1>4. /\ [p EXCEPT !.query = e.arg, !.open = TRUE, !.results = F].ids = p.ids
      /\ [p EXCEPT !.open = TRUE, !.results = G].ids = p.ids
      /\ [p EXCEPT !.open = FALSE].ids = p.ids
      /\ [p EXCEPT !.results = K].ids = p.ids
  <2> HIDE DEF F, G, K
  <2> QED
    BY DEF PickerFields
<1> QED
  BY <1>3, <1>4 DEF Picker!Pushed

LEMMA EditedType ==
    ASSUME ids \in Seq(Picker!Records), NEW e \in PickerMessages
    PROVE Picker!Edited(e) \in Seq(Picker!Records) /\ (NoRepeat(ids) => NoRepeat(Picker!Edited(e)))
<1> DEFINE new == e.arg \ Range(ids)
<1>1. Picker!Edited(e) = CASE e.kind = "add" -> ids \o Ascending(new)
                           [] e.kind = "take" -> Kept(ids, Picker!Records \ e.arg)
                           [] OTHER -> ids
  BY PickerAscending, PickerKept DEF Picker!Edited, Picker!Range, Range
<1>2. new \in SUBSET Picker!Records
  BY DEF PickerMessages
<1>3. /\ Ascending(new) \in Seq(Picker!Records) /\ Range(Ascending(new)) = new
      /\ NoRepeat(Ascending(new))
  BY <1>2, RecordPlaces
<1>4. Range(ids) \cap new = {}
  OBVIOUS
<1> HIDE DEF new
<1>5. /\ ids \o Ascending(new) \in Seq(Picker!Records)
      /\ NoRepeat(ids) => NoRepeat(ids \o Ascending(new))
  BY <1>3, <1>4, Joined, ConcatProperties
<1>6. /\ Kept(ids, Picker!Records \ e.arg) \in Seq(Picker!Records)
      /\ NoRepeat(ids) => NoRepeat(Kept(ids, Picker!Records \ e.arg))
  BY KeptFacts
<1> QED
  BY <1>1, <1>5, <1>6

\* What a step of the page leaves alone, and what it is typed.
LEMMA PickerInitTyped == Picker!PickerInit => PickerTyped /\ PickerShape
<1> SUFFICES ASSUME Picker!PickerInit PROVE PickerTyped /\ PickerShape
  OBVIOUS
<1>1. /\ ids = <<>> /\ mailbox = <<>> /\ patches = <<>>
      /\ picker = [ids |-> <<>>, query |-> Picker!Records, open |-> FALSE, results |-> <<>>]
      /\ hook = [active |-> 0, note |-> [kind |-> "none", count |-> 0, index |-> 0]]
      /\ focus = Picker!Body /\ raced = FALSE /\ dom = Picker!Shown(picker)
  BY DEF Picker!PickerInit, Picker!NoNote
<1>2. /\ <<>> \in Seq(Picker!Records) /\ <<>> \in Seq(PickerMessages)
      /\ <<>> \in Seq(PickerViews)
  BY EmptySeq
<1>3. picker \in PickerFields
  BY <1>1, <1>2 DEF PickerFields
<1>4. Picker!Shown(picker) \in PickerViews /\ Picker!Shown(picker).rows = <<>>
      /\ Picker!Shown(picker).search = (Len(<<>>) < MaxItems)
  BY <1>1, <1>3, ShownType
<1>5. hook \in [active : Nat, note : PickerNotes]
  BY <1>1 DEF PickerNotes
<1>6. PickerTyped
  BY <1>1, <1>2, <1>3, <1>4, <1>5 DEF PickerTyped, PickerFocus
<1>7. PickerShape
  BY <1>1, <1>4 DEF PickerShape, NoRepeat, Picker!Exists
<1> QED
  BY <1>6, <1>7

\* A step that only sends a message, moves the highlight, takes a note or moves the
\* focus to something the page has.
LEMMA PickerPageStep ==
    ASSUME PickerTyped, PickerShape, UNCHANGED <<ids, picker, patches, dom>>,
           NEW e \in PickerMessages, mailbox' \in {mailbox, Append(mailbox, e)},
           hook' \in [active : Nat, note : PickerNotes], raced' \in BOOLEAN,
           focus' \in PickerFocus, Picker!Exists(focus, dom) => Picker!Exists(focus', dom)
    PROVE PickerTyped' /\ PickerShape'
<1>1. mailbox' \in Seq(PickerMessages)
  <2>1. mailbox \in Seq(PickerMessages)
    BY DEF PickerTyped
  <2>2. Append(mailbox, e) \in Seq(PickerMessages)
    BY <2>1, Added
  <2> QED
    BY <2>1, <2>2
<1>2. PickerTyped'
  BY <1>1 DEF PickerTyped
<1>3. PickerShape'
  BY DEF PickerShape, Picker!Shown, Picker!Searchable, Picker!Exists, NoRepeat
<1> QED
  BY <1>2, <1>3

LEMMA PickerNotesFit ==
    ASSUME PickerTyped
    PROVE /\ Len(dom.rows) \in Nat /\ Len(dom.options) \in Nat
          /\ hook.active \in Nat /\ hook.note \in PickerNotes
          /\ \A i \in 1..Len(dom.rows) : dom.rows[i] \in Picker!Records
          /\ \A i \in 1..Len(dom.options) : dom.options[i] \in Picker!Records
          /\ Picker!NoNote \in PickerNotes
<1>1. dom.rows \in Seq(Picker!Records) /\ dom.options \in Seq(Picker!Records)
  BY DEF PickerTyped, PickerViews
<1> QED
  BY <1>1, LenProperties, ElementOfSeq DEF PickerTyped, PickerNotes, Picker!NoNote

LEMMA PickerPageTyped ==
    ASSUME PickerTyped, PickerShape,
           \/ Picker!FocusInput \/ Picker!Arrow \/ Picker!Close \/ Picker!GiveUp
           \/ \E q \in {Picker!Records} \union {{r} : r \in Picker!Records} : Picker!Type(q)
           \/ \E i \in 1..Len(dom.options) : Picker!Pick(i)
           \/ \E i \in 1..Len(dom.rows) : Picker!ClickRemove(i)
    PROVE PickerTyped' /\ PickerShape'
<1> USE PickerNotesFit
<1>1. raced \in BOOLEAN /\ focus \in PickerFocus /\ Picker!Input \in PickerFocus
      /\ Picker!Body \in PickerFocus /\ hook \in [active : Nat, note : PickerNotes]
  BY DEF PickerTyped, PickerFocus
<1>2. ASSUME Picker!FocusInput PROVE PickerTyped' /\ PickerShape'
  <2>1. [kind |-> "open", arg |-> {}] \in PickerMessages
    BY DEF PickerMessages
  <2>2. mailbox' = Append(mailbox, [kind |-> "open", arg |-> {}])
    BY <1>2 DEF Picker!FocusInput, Picker!Opened, Picker!Event
  <2>3. /\ UNCHANGED <<ids, picker, patches, dom, hook>> /\ focus' = Picker!Input
        /\ raced' \in BOOLEAN /\ dom.search
    BY <1>1, <1>2 DEF Picker!FocusInput
  <2>4. Picker!Exists(focus', dom)
    BY <2>3 DEF Picker!Exists
  <2> QED
    BY <1>1, <2>1, <2>2, <2>3, <2>4, PickerPageStep
<1>3. ASSUME Picker!Arrow PROVE PickerTyped' /\ PickerShape'
  <2>1. [kind |-> "open", arg |-> {}] \in PickerMessages
    BY DEF PickerMessages
  <2>2. \/ hook' = [hook EXCEPT !.active = IF @ < Len(dom.options) THEN @ + 1 ELSE 1]
        \/ hook' = [hook EXCEPT !.active = IF @ > 1 THEN @ - 1 ELSE Len(dom.options)]
    BY <1>3 DEF Picker!Arrow
  <2>3. hook' \in [active : Nat, note : PickerNotes]
    BY <1>1, <2>2
  <2>4. UNCHANGED <<ids, picker, mailbox, patches, dom, focus, raced>>
    BY <1>3 DEF Picker!Arrow
  <2> QED
    BY <1>1, <2>1, <2>3, <2>4, PickerPageStep
<1>4. ASSUME Picker!Close PROVE PickerTyped' /\ PickerShape'
  <2>1. [kind |-> "close", arg |-> {}] \in PickerMessages
    BY DEF PickerMessages
  <2>2. mailbox' = Append(mailbox, [kind |-> "close", arg |-> {}])
    BY <1>4 DEF Picker!Close, Picker!Event
  <2>3. /\ UNCHANGED <<ids, picker, patches, dom, focus, raced>>
        /\ hook' = [hook EXCEPT !.active = 0] \/ UNCHANGED hook
    BY <1>4 DEF Picker!Close
  <2>4. hook' \in [active : Nat, note : PickerNotes]
    BY <1>1, <2>3
  <2> QED
    BY <1>1, <2>1, <2>2, <2>3, <2>4, PickerPageStep
<1>5. ASSUME Picker!GiveUp PROVE PickerTyped' /\ PickerShape'
  <2>1. [kind |-> "close", arg |-> {}] \in PickerMessages
    BY DEF PickerMessages
  <2>2. /\ UNCHANGED <<ids, picker, mailbox, patches, dom, focus>> /\ raced' \in BOOLEAN
        /\ hook' = [hook EXCEPT !.note = Picker!NoNote]
    BY <1>1, <1>5 DEF Picker!GiveUp
  <2>3. hook' \in [active : Nat, note : PickerNotes]
    BY <1>1, <2>2
  <2> QED
    BY <1>1, <2>1, <2>2, <2>3, PickerPageStep
<1>6. ASSUME NEW q \in {Picker!Records} \union {{r} : r \in Picker!Records}, Picker!Type(q)
      PROVE PickerTyped' /\ PickerShape'
  <2>1. [kind |-> "search", arg |-> q] \in PickerMessages
    BY DEF PickerMessages
  <2>2. mailbox' = Append(mailbox, [kind |-> "search", arg |-> q])
    BY <1>6 DEF Picker!Type, Picker!Event
  <2>3. /\ UNCHANGED <<ids, picker, patches, dom, focus>> /\ raced' \in BOOLEAN
        /\ hook' = [hook EXCEPT !.active = 0]
    BY <1>1, <1>6 DEF Picker!Type
  <2>4. hook' \in [active : Nat, note : PickerNotes]
    BY <1>1, <2>3
  <2> QED
    BY <1>1, <2>1, <2>2, <2>3, <2>4, PickerPageStep
<1>7. ASSUME NEW i \in 1..Len(dom.options), Picker!Pick(i) PROVE PickerTyped' /\ PickerShape'
  <2>1. [kind |-> "pick", arg |-> {dom.options[i]}] \in PickerMessages
    BY DEF PickerMessages
  <2>2. mailbox' = Append(mailbox, [kind |-> "pick", arg |-> {dom.options[i]}])
    BY <1>7 DEF Picker!Pick, Picker!Noted, Picker!Event
  <2>3. /\ UNCHANGED <<ids, picker, patches, dom>> /\ raced' \in BOOLEAN
        /\ hook' = [active |-> 0, note |-> [kind |-> "pick", count |-> Len(dom.rows), index |-> 0]]
        /\ focus' \in {Picker!Body, focus}
    BY <1>1, <1>7 DEF Picker!Pick, Picker!Noted, Picker!Note
  <2>4. hook' \in [active : Nat, note : PickerNotes]
    BY <2>3 DEF PickerNotes
  <2>5. Picker!Exists(focus, dom) => Picker!Exists(focus', dom)
    BY <2>3 DEF Picker!Exists
  <2> QED
    BY <1>1, <2>1, <2>2, <2>3, <2>4, <2>5, PickerPageStep
<1>8. ASSUME NEW i \in 1..Len(dom.rows), Picker!ClickRemove(i) PROVE PickerTyped' /\ PickerShape'
  <2>1. [kind |-> "remove", arg |-> {dom.rows[i]}] \in PickerMessages
    BY DEF PickerMessages
  <2>2. mailbox' = Append(mailbox, [kind |-> "remove", arg |-> {dom.rows[i]}])
    BY <1>8 DEF Picker!ClickRemove, Picker!Noted, Picker!Event
  <2>3. /\ UNCHANGED <<ids, picker, patches, dom>> /\ raced' \in BOOLEAN
        /\ hook' = [active |-> hook.active,
                    note |-> [kind |-> "remove", count |-> Len(dom.rows), index |-> i]]
        /\ focus' = Picker!RemoveButton(dom.rows[i])
    BY <1>1, <1>8 DEF Picker!ClickRemove, Picker!Noted, Picker!Note
  <2>4. hook' \in [active : Nat, note : PickerNotes]
    BY <2>3 DEF PickerNotes
  <2>5. Picker!Exists(focus', dom) /\ focus' \in PickerFocus
    <3>1. dom.rows \in Seq(Picker!Records)
      BY DEF PickerTyped, PickerViews
    <3>2. dom.rows[i] \in Range(dom.rows)
      BY <3>1, LenProperties DEF Range
    <3> QED
      BY <2>3, <3>2 DEF Picker!Exists, PickerFocus, Picker!Range, Range
  <2> QED
    BY <2>1, <2>2, <2>3, <2>4, <2>5, PickerPageStep
<1> QED
  BY <1>2, <1>3, <1>4, <1>5, <1>6, <1>7, <1>8

\* A render lands: focus is put where the note says, or stays where it is if the page
\* still has it.
LEMMA PickerPatched ==
    ASSUME PickerTyped, PickerShape, Picker!Patch
    PROVE /\ PickerTyped' /\ PickerShape'
          /\ patches # <<>> /\ Head(patches) \in PickerViews /\ Head(patches) = patches[1]
          /\ dom' = Head(patches) /\ patches' = Tail(patches)
          /\ hook'.note = IF Len(dom'.rows) = hook.note.count THEN hook.note ELSE Picker!NoNote
          /\ \E kept \in {focus, Picker!Body} :
               /\ Picker!Exists(focus, dom') => kept = focus
               /\ focus' = Picker!Restored(kept, dom')
               /\ \/ UNCHANGED mailbox
                  \/ /\ mailbox' = Append(mailbox, [kind |-> "open", arg |-> {}])
                     /\ focus' # kept
<1>1. patches # <<>> /\ patches \in Seq(PickerViews) /\ hook \in [active : Nat, note : PickerNotes]
  BY DEF Picker!Patch, PickerTyped
<1> DEFINE d == Head(patches)
           kept == IF Picker!Exists(focus, d) THEN focus ELSE Picker!Body
<1>2. /\ d \in PickerViews /\ d = patches[1] /\ Tail(patches) \in Seq(PickerViews)
      /\ Len(patches) \in Nat /\ Len(patches) >= 1 /\ Len(Tail(patches)) = Len(patches) - 1
      /\ \A k \in 1..Len(Tail(patches)) :
            k + 1 \in 1..Len(patches) /\ Tail(patches)[k] = patches[k + 1]
  BY <1>1, Taken
<1>3. /\ patches' = Tail(patches) /\ dom' = d /\ focus' = Picker!Restored(kept, d)
      /\ hook' = [active |-> IF hook.active > Len(d.options) THEN Len(d.options) ELSE hook.active,
                  note |-> IF Len(d.rows) = hook.note.count THEN hook.note ELSE Picker!NoNote]
      /\ mailbox' = IF focus' = Picker!Input /\ kept # Picker!Input
                    THEN Append(mailbox, [kind |-> "open", arg |-> {}]) ELSE mailbox
      /\ UNCHANGED <<ids, picker, raced>>
  BY DEF Picker!Patch, Picker!Opened, Picker!Event
<1>4. /\ d.rows \in Seq(Picker!Records) /\ d.options \in Seq(Picker!Records)
      /\ Len(d.rows) \in Nat /\ Len(d.options) \in Nat
  BY <1>2, LenProperties DEF PickerViews
<1>5. hook' \in [active : Nat, note : PickerNotes]
  <2>1. Picker!NoNote \in PickerNotes
    BY DEF Picker!NoNote, PickerNotes
  <2> HIDE DEF d
  <2> QED
    BY <1>1, <1>3, <1>4, <2>1
<1>6. [kind |-> "open", arg |-> {}] \in PickerMessages
  BY DEF PickerMessages
<1>7. mailbox' \in Seq(PickerMessages)
  <2>1. mailbox \in Seq(PickerMessages)
    BY DEF PickerTyped
  <2> HIDE DEF d, kept
  <2> QED
    BY <1>3, <1>6, <2>1, Added
<1>8. kept \in {focus, Picker!Body} /\ Picker!Exists(kept, d)
      /\ (Picker!Exists(focus, d) => kept = focus)
  BY DEF Picker!Exists
<1>9. Picker!Exists(focus', d) /\ focus' \in PickerFocus
  <2> HIDE DEF d, kept
  <2>1. kept \in PickerFocus /\ hook.note \in PickerNotes
    BY <1>1, <1>8 DEF PickerTyped, PickerFocus
  <2>2. \A i \in 1..Len(d.rows) : /\ Picker!Exists(Picker!RemoveButton(d.rows[i]), d)
                                  /\ Picker!RemoveButton(d.rows[i]) \in PickerFocus
    <3>1. DOMAIN d.rows = 1..Len(d.rows)
      BY <1>4, LenProperties
    <3>2. \A i \in 1..Len(d.rows) : d.rows[i] \in Picker!Records
      BY <1>4, ElementOfSeq
    <3> QED
      BY <3>1, <3>2 DEF Picker!Exists, Picker!Range, PickerFocus
  <2>3. d.search => Picker!Exists(Picker!Input, d)
    BY DEF Picker!Exists
  <2>4. Picker!Input \in PickerFocus
    BY DEF PickerFocus
  <2>5. d.rows # <<>> => Len(d.rows) \in 1..Len(d.rows)
    BY <1>4, EmptySeq
  <2>6. Picker!Last(d.rows) = d.rows[Len(d.rows)]
    BY DEF Picker!Last
  <2> DEFINE spot == IF hook.note.index < Len(d.rows) THEN hook.note.index ELSE Len(d.rows)
  <2>7. hook.note.kind = "remove" /\ d.rows # <<>> => spot \in 1..Len(d.rows)
    <3>1. hook.note.kind = "remove" => hook.note.index \in Nat /\ hook.note.index # 0
      BY <2>1 DEF PickerNotes
    <3> QED
      BY <1>4, <2>5, <3>1
  <2>8. \/ focus' = kept
        \/ focus' = Picker!Input /\ d.search
        \/ focus' = Picker!RemoveButton(Picker!Last(d.rows)) /\ d.rows # <<>>
        \/ focus' = Picker!RemoveButton(d.rows[spot]) /\ d.rows # <<>> /\ hook.note.kind = "remove"
    BY <1>3 DEF Picker!Restored
  <2> HIDE DEF spot
  <2>9. \/ focus' = kept
        \/ focus' = Picker!Input /\ d.search
        \/ \E i \in 1..Len(d.rows) : focus' = Picker!RemoveButton(d.rows[i])
    BY <2>5, <2>6, <2>7, <2>8
  <2> QED
    BY <1>8, <2>1, <2>2, <2>3, <2>4, <2>9
<1>10. PickerTyped'
  BY <1>2, <1>3, <1>5, <1>7, <1>9 DEF PickerTyped
<1>11. PickerShape'
  <2>1. /\ picker.ids = ids /\ NoRepeat(ids)
        /\ \A k \in 1..Len(patches) : patches[k].search = (Len(patches[k].rows) < MaxItems)
        /\ patches[Len(patches)] = Picker!Shown(picker)
    BY <1>1 DEF PickerShape
  <2>2. 1 \in 1..Len(patches)
    BY <1>2
  <2>3. d.search = (Len(d.rows) < MaxItems)
    <3> HIDE DEF d
    <3> QED
      BY <1>2, <2>1, <2>2
  <2>4. \A k \in 1..Len(Tail(patches)) :
           Tail(patches)[k].search = (Len(Tail(patches)[k].rows) < MaxItems)
    <3> HIDE DEF d
    <3> QED
      BY <1>2, <2>1
  <2>5. IF Tail(patches) = <<>> THEN d = Picker!Shown(picker)
        ELSE Tail(patches)[Len(Tail(patches))] = Picker!Shown(picker)
    <3> HIDE DEF d
    <3>1. CASE Tail(patches) = <<>>
      <4>1. Len(patches) = 1
        <5>1. Len(Tail(patches)) = 0
          BY <3>1, EmptySeq
        <5>2. Len(Tail(patches)) = Len(patches) - 1 /\ Len(patches) \in Nat
          BY <1>2
        <5> QED
          BY <5>1, <5>2
      <4> QED
        BY <1>2, <2>1, <3>1, <4>1
    <3>2. CASE Tail(patches) # <<>>
      <4>1. Len(Tail(patches)) \in Nat /\ Len(Tail(patches)) # 0
        BY <1>2, <3>2, EmptySeq, LenProperties
      <4>2. Tail(patches)[Len(Tail(patches))] = patches[Len(Tail(patches)) + 1]
        BY <1>2, <4>1
      <4> QED
        BY <1>2, <2>1, <3>2, <4>2
    <3> QED
      BY <3>1, <3>2
  <2> HIDE DEF d
  <2> QED
    BY <1>3, <1>9, <2>1, <2>3, <2>4, <2>5 DEF PickerShape, NoRepeat
<1>12. mailbox' # mailbox => focus' # kept /\ mailbox' = Append(mailbox, [kind |-> "open", arg |-> {}])
  <2> HIDE DEF d, kept
  <2> QED
    BY <1>3
<1>13. hook'.note = IF Len(d.rows) = hook.note.count THEN hook.note ELSE Picker!NoNote
  <2> HIDE DEF d
  <2> QED
    BY <1>3
<1> HIDE DEF d, kept
<1> QED
  BY <1>1, <1>2, <1>3, <1>8, <1>10, <1>11, <1>12, <1>13 DEF d

\* A message is handled: what the editor holds, what the component says of it and what
\* is asked next.
LEMMA PickerHandled ==
    ASSUME PickerTyped, PickerShape, Picker!Handle
    PROVE /\ PickerTyped' /\ PickerShape'
          /\ mailbox # <<>> /\ Head(mailbox) \in PickerMessages /\ Head(mailbox) = mailbox[1]
          /\ ids' = Picker!Edited(Head(mailbox))
          /\ picker' = [Picker!Pushed(Head(mailbox), picker) EXCEPT !.ids = ids']
          /\ mailbox' = Tail(mailbox) \o Picker!Asked(Head(mailbox), picker)
          /\ \/ UNCHANGED patches /\ Picker!Shown(picker') = Picker!Shown(picker)
             \/ patches' = Append(patches, Picker!Shown(picker'))
          /\ Picker!Shown(picker').rows = ids'
          /\ UNCHANGED <<dom, hook, focus, raced>>
<1> DEFINE e == Head(mailbox)
           p == Picker!Pushed(e, picker)
<1>1. /\ mailbox # <<>> /\ mailbox \in Seq(PickerMessages) /\ picker \in PickerFields
      /\ ids \in Seq(Picker!Records)
  BY DEF Picker!Handle, PickerTyped
<1>2. e \in PickerMessages /\ e = mailbox[1] /\ Tail(mailbox) \in Seq(PickerMessages)
  BY <1>1, Taken
<1>3. /\ ids' = Picker!Edited(e) /\ picker' = [p EXCEPT !.ids = ids']
      /\ mailbox' = Tail(mailbox) \o Picker!Asked(e, picker)
      /\ patches' = IF Picker!Shown(picker') = Picker!Shown(picker) THEN patches
                    ELSE Append(patches, Picker!Shown(picker'))
      /\ UNCHANGED <<dom, hook, focus, raced>>
  BY DEF Picker!Handle
<1> HIDE DEF e
<1>4. p \in PickerFields
  BY <1>1, <1>2, PushedType
<1> HIDE DEF p
<1>5. ids' \in Seq(Picker!Records) /\ NoRepeat(ids')
  <2>1. NoRepeat(ids)
    BY DEF PickerShape
  <2> QED
    BY <1>1, <1>2, <1>3, <2>1, EditedType
<1>6. picker' \in PickerFields /\ picker'.ids = ids'
  BY <1>3, <1>4, <1>5 DEF PickerFields
<1>7. /\ Picker!Shown(picker') \in PickerViews /\ Picker!Shown(picker').rows = ids'
      /\ Picker!Shown(picker').search = (Len(ids') < MaxItems)
  BY <1>6, ShownType
<1>8. Picker!Asked(e, picker) \in Seq(PickerMessages)
  <2>1. /\ [kind |-> "add", arg |-> e.arg] \in PickerMessages
        /\ [kind |-> "take", arg |-> e.arg] \in PickerMessages
    BY <1>2 DEF PickerMessages
  <2>2. /\ <<[kind |-> "add", arg |-> e.arg]>> \in Seq(PickerMessages)
        /\ <<[kind |-> "take", arg |-> e.arg]>> \in Seq(PickerMessages)
        /\ <<>> \in Seq(PickerMessages)
    BY <2>1
  <2> QED
    BY <2>2 DEF Picker!Asked, Picker!Event
<1>9. mailbox' \in Seq(PickerMessages)
  BY <1>2, <1>3, <1>8, ConcatProperties
<1> DEFINE v == Picker!Shown(picker')
<1>10. patches \in Seq(PickerViews) /\ v \in PickerViews
  BY <1>7 DEF PickerTyped
<1>11. /\ \/ UNCHANGED patches /\ v = Picker!Shown(picker)
          \/ patches' = Append(patches, v)
  BY <1>3
<1> HIDE DEF v
<1>12. /\ Append(patches, v) \in Seq(PickerViews) /\ Append(patches, v) # <<>>
       /\ Len(Append(patches, v)) = Len(patches) + 1 /\ Len(patches) \in Nat
       /\ \A k \in 1..Len(patches) : Append(patches, v)[k] = patches[k]
       /\ Append(patches, v)[Len(patches) + 1] = v
  BY <1>10, Added, LenProperties
<1>13. PickerTyped'
  <2>1. patches' \in Seq(PickerViews)
    BY <1>10, <1>11, <1>12
  <2> QED
    BY <1>3, <1>5, <1>6, <1>9, <2>1 DEF PickerTyped
<1>14. PickerShape'
  <2>1. /\ \A k \in 1..Len(patches) : patches[k].search = (Len(patches[k].rows) < MaxItems)
        /\ IF patches = <<>> THEN dom = Picker!Shown(picker)
           ELSE patches[Len(patches)] = Picker!Shown(picker)
        /\ dom.search = (Len(dom.rows) < MaxItems) /\ Picker!Exists(focus, dom)
    BY DEF PickerShape
  <2>2. v.search = (Len(v.rows) < MaxItems)
    BY <1>7 DEF v
  <2>3. \A k \in 1..Len(patches') : patches'[k].search = (Len(patches'[k].rows) < MaxItems)
    <3>1. CASE UNCHANGED patches
      BY <2>1, <3>1
    <3>2. CASE patches' = Append(patches, v)
      <4> SUFFICES ASSUME NEW k \in 1..(Len(patches) + 1)
                   PROVE Append(patches, v)[k].search = (Len(Append(patches, v)[k].rows) < MaxItems)
        BY <1>12, <3>2
      <4>1. CASE k = Len(patches) + 1
        BY <1>12, <2>2, <4>1
      <4>2. CASE k # Len(patches) + 1
        <5>1. k \in 1..Len(patches)
          BY <1>12, <4>2
        <5> QED
          BY <1>12, <2>1, <5>1
      <4> QED
        BY <4>1, <4>2
    <3> QED
      BY <1>11, <3>1, <3>2
  <2>4. IF patches' = <<>> THEN dom' = v ELSE patches'[Len(patches')] = v
    <3>1. CASE UNCHANGED patches /\ v = Picker!Shown(picker)
      BY <1>3, <2>1, <3>1
    <3>2. CASE patches' = Append(patches, v)
      BY <1>12, <3>2
    <3> QED
      BY <1>11, <3>1, <3>2
  <2>5. v = Picker!Shown(picker')
    BY DEF v
  <2>6. dom'.search = (Len(dom'.rows) < MaxItems) /\ Picker!Exists(focus', dom')
    BY <1>3, <2>1
  <2> QED
    BY <1>5, <1>6, <2>3, <2>4, <2>5, <2>6 DEF PickerShape
<1> QED
  BY <1>1, <1>2, <1>3, <1>7, <1>11, <1>13, <1>14 DEF e, p, v

\* While nobody has been faster than the answers, at most one pick or removal is under
\* way, and what it comes to is certain.
PickerWork == {"pick", "remove", "add", "take"}

PickerDue(m, have, offered) ==
    \/ /\ m.kind = "pick" /\ Len(have) < MaxItems
       /\ \E r \in Range(offered) : m.arg = {r}
    \/ /\ m.kind = "add" /\ Len(have) < MaxItems
       /\ \E r \in Picker!Records : m.arg = {r} /\ r \notin Range(have) /\ r \notin Range(offered)
    \/ m.kind \in {"remove", "take"} /\ \E r \in Range(have) : m.arg = {r}

\* It has not been answered: the page shows what the editor still holds.
PickerUnderway ==
    /\ hook.note.kind \in {"pick", "remove"} /\ hook.note.count = Len(ids)
    /\ dom.rows = ids /\ \A k \in 1..Len(patches) : patches[k].rows = ids
    /\ \E k \in 1..Len(mailbox) :
         /\ PickerDue(mailbox[k], ids, picker.results)
         /\ mailbox[k].kind = "pick" => k = 1
         /\ \A l \in 1..Len(mailbox) : l # k => mailbox[l].kind = "close"

\* It has, and the render that says so has not landed.
PickerAnswering ==
    /\ hook.note.kind \in {"pick", "remove"} /\ hook.note.count # Len(ids)
    /\ Len(dom.rows) = hook.note.count
    /\ \A k \in 1..Len(patches) : Len(patches[k].rows) # hook.note.count =>
          \A l \in k..Len(patches) : patches[l].rows = ids
    /\ \A k \in 1..Len(mailbox) : mailbox[k].kind = "close"

\* Nothing is under way, and focus was not left on <body>.
PickerSettled ==
    /\ hook.note = Picker!NoNote
    /\ dom.rows = ids /\ \A k \in 1..Len(patches) : patches[k].rows = ids
    /\ \A k \in 1..Len(mailbox) : mailbox[k].kind \notin PickerWork
    /\ ids # <<>> => focus # Picker!Body

PickerInOrder ==
    /\ Len(ids) <= MaxItems
    /\ Range(picker.results) \cap Range(ids) = {}
    /\ PickerUnderway \/ PickerAnswering \/ PickerSettled

PickerInv == PickerTyped /\ PickerShape /\ (~raced => PickerInOrder)

LEMMA PickerOneStage ==
    ASSUME PickerTyped
    PROVE /\ hook.note = Picker!NoNote => ~PickerUnderway /\ ~PickerAnswering
          /\ hook.note # Picker!NoNote => ~PickerSettled
BY DEF PickerUnderway, PickerAnswering, PickerSettled, Picker!NoNote

\* With nothing on its way, only the settled stage is left.
LEMMA PickerQuiet ==
    ASSUME PickerTyped, PickerShape, PickerInOrder, mailbox = <<>>, patches = <<>>
    PROVE /\ PickerSettled /\ dom = Picker!Shown(picker) /\ dom.rows = ids
          /\ \A i \in 1..Len(dom.options) :
                Len(ids) < MaxItems /\ dom.options[i] \in Range(picker.results)
<1>1. Len(mailbox) = 0
  BY EmptySeq
<1>2. ~PickerUnderway
  BY <1>1 DEF PickerUnderway
<1>3. dom = Picker!Shown(picker) /\ picker.ids = ids /\ picker \in PickerFields
  BY DEF PickerShape, PickerTyped
<1>4. /\ Picker!Shown(picker).rows = ids
      /\ Picker!Shown(picker).options # <<>> =>
            Picker!Searchable(picker) /\ Picker!Shown(picker).options = picker.results
  BY <1>3, ShownType
<1>5. ~PickerAnswering
  BY <1>3, <1>4 DEF PickerAnswering
<1>6. ASSUME NEW i \in 1..Len(dom.options)
      PROVE Len(ids) < MaxItems /\ dom.options[i] \in Range(picker.results)
  <2>1. dom.options # <<>>
    BY <1>6, EmptySeq
  <2>2. dom.options = picker.results /\ picker.results \in Seq(Picker!Records)
        /\ Picker!Searchable(picker)
    BY <1>3, <1>4, <2>1 DEF PickerFields
  <2>3. DOMAIN picker.results = 1..Len(picker.results)
    BY <2>2, LenProperties
  <2> QED
    BY <1>3, <1>6, <2>2, <2>3 DEF Range, Picker!Searchable
<1> QED
  BY <1>2, <1>3, <1>4, <1>5, <1>6 DEF PickerInOrder

\* Messages that are no work are sent at any time.
LEMMA PickerSent ==
    ASSUME PickerTyped, NEW e \in PickerMessages, e.kind \notin PickerWork,
           UNCHANGED <<ids, picker, patches, dom>>, hook'.note = hook.note,
           mailbox' = Append(mailbox, e),
           hook.note # Picker!NoNote => e.kind = "close",
           ids # <<>> /\ focus # Picker!Body => focus' # Picker!Body,
           PickerInOrder
    PROVE PickerInOrder'
<1>1. /\ Len(mailbox') = Len(mailbox) + 1 /\ Len(mailbox) \in Nat
      /\ \A k \in 1..Len(mailbox) : mailbox'[k] = mailbox[k]
      /\ mailbox'[Len(mailbox) + 1] = e
  BY Added, LenProperties DEF PickerTyped
<1>2. \A k \in 1..Len(mailbox') : k \in 1..Len(mailbox) \/ mailbox'[k] = e
  BY <1>1
<1>4. CASE PickerUnderway
  <2>1. PICK k \in 1..Len(mailbox) :
           /\ PickerDue(mailbox[k], ids, picker.results)
           /\ mailbox[k].kind = "pick" => k = 1
           /\ \A l \in 1..Len(mailbox) : l # k => mailbox[l].kind = "close"
    BY <1>4 DEF PickerUnderway
  <2>2. e.kind = "close"
    BY <1>4, PickerOneStage
  <2>3. k \in 1..Len(mailbox') /\ mailbox'[k] = mailbox[k]
    BY <1>1
  <2>4. \A l \in 1..Len(mailbox') : l # k => mailbox'[l].kind = "close"
    BY <1>1, <1>2, <2>1, <2>2
  <2>5. PickerDue(mailbox'[k], ids', picker'.results)
    BY <2>1, <2>3
  <2>6. mailbox'[k].kind = "pick" => k = 1
    BY <2>1, <2>3
  <2>7. /\ hook'.note.kind \in {"pick", "remove"} /\ hook'.note.count = Len(ids')
        /\ dom'.rows = ids' /\ \A l \in 1..Len(patches') : patches'[l].rows = ids'
    BY <1>4 DEF PickerUnderway
  <2>8. PickerUnderway'
    BY <2>3, <2>4, <2>5, <2>6, <2>7 DEF PickerUnderway
  <2>9. Len(ids') <= MaxItems /\ Range(picker'.results) \cap Range(ids') = {}
    BY DEF PickerInOrder
  <2> QED
    BY <2>8, <2>9 DEF PickerInOrder
<1>5. CASE PickerAnswering
  <2>1. e.kind = "close"
    BY <1>5, PickerOneStage
  <2> QED
    BY <1>1, <1>2, <1>5, <2>1 DEF PickerAnswering, PickerInOrder
<1>6. CASE PickerSettled
  BY <1>1, <1>2, <1>6 DEF PickerSettled, PickerInOrder
<1> QED
  BY <1>4, <1>5, <1>6 DEF PickerInOrder

LEMMA PickerSends ==
    ASSUME PickerTyped, PickerShape, PickerInOrder, ~raced',
           \/ Picker!FocusInput \/ Picker!Close
           \/ \E q \in {Picker!Records} \union {{r} : r \in Picker!Records} : Picker!Type(q)
    PROVE PickerInOrder'
<1>1. hook \in [active : Nat, note : PickerNotes]
  BY DEF PickerTyped
<1>2. ASSUME Picker!FocusInput PROVE PickerInOrder'
  <2> DEFINE e == [kind |-> "open", arg |-> {}]
  <2>1. e \in PickerMessages /\ e.kind \notin PickerWork
    BY DEF PickerMessages, PickerWork
  <2>2. /\ mailbox' = Append(mailbox, e) /\ UNCHANGED <<ids, picker, patches, dom, hook>>
        /\ focus' = Picker!Input /\ hook.note = Picker!NoNote
    BY <1>2 DEF Picker!FocusInput, Picker!Opened, Picker!Event
  <2>3. focus' # Picker!Body
    BY <2>2 DEF Picker!Input, Picker!Body
  <2> HIDE DEF e
  <2> QED
    BY <2>1, <2>2, <2>3, PickerSent
<1>3. ASSUME Picker!Close PROVE PickerInOrder'
  <2> DEFINE e == [kind |-> "close", arg |-> {}]
  <2>1. e \in PickerMessages /\ e.kind \notin PickerWork /\ e.kind = "close"
    BY DEF PickerMessages, PickerWork
  <2>2. /\ mailbox' = Append(mailbox, e) /\ UNCHANGED <<ids, picker, patches, dom, focus>>
        /\ hook' = [hook EXCEPT !.active = 0] \/ UNCHANGED hook
    BY <1>3 DEF Picker!Close, Picker!Event
  <2>3. hook'.note = hook.note
    BY <1>1, <2>2
  <2> HIDE DEF e
  <2> QED
    BY <2>1, <2>2, <2>3, PickerSent
<1>4. ASSUME NEW q \in {Picker!Records} \union {{r} : r \in Picker!Records}, Picker!Type(q)
      PROVE PickerInOrder'
  <2> DEFINE e == [kind |-> "search", arg |-> q]
  <2>1. e \in PickerMessages /\ e.kind \notin PickerWork
    BY DEF PickerMessages, PickerWork
  <2>2. /\ mailbox' = Append(mailbox, e) /\ UNCHANGED <<ids, picker, patches, dom, focus>>
        /\ hook' = [hook EXCEPT !.active = 0] /\ hook.note = Picker!NoNote
    BY <1>4 DEF Picker!Type, Picker!Event
  <2>3. hook'.note = hook.note
    BY <1>1, <2>2
  <2> HIDE DEF e
  <2> QED
    BY <2>1, <2>2, <2>3, PickerSent
<1> QED
  BY <1>2, <1>3, <1>4

LEMMA PickerMoved ==
    ASSUME PickerTyped, PickerInOrder, Picker!Arrow
    PROVE PickerInOrder'
<1>1. hook'.note = hook.note
  BY DEF Picker!Arrow, PickerTyped
<1>2. UNCHANGED <<ids, picker, mailbox, patches, dom, focus>>
  BY DEF Picker!Arrow
<1> QED
  BY <1>1, <1>2 DEF PickerInOrder, PickerUnderway, PickerAnswering, PickerSettled, PickerDue

\* One message alone, with a note of what the page shows.
LEMMA PickerAsked ==
    ASSUME PickerTyped, PickerShape, PickerInOrder, ~raced',
           \/ \E i \in 1..Len(dom.options) : Picker!Pick(i)
           \/ \E i \in 1..Len(dom.rows) : Picker!ClickRemove(i)
    PROVE PickerInOrder'
<1>1. mailbox = <<>> /\ patches = <<>> /\ UNCHANGED <<ids, picker, patches, dom>>
  BY DEF Picker!Pick, Picker!ClickRemove, Picker!Noted, Picker!Answered
<1>2. /\ dom.rows = ids
      /\ \A i \in 1..Len(dom.options) :
            Len(ids) < MaxItems /\ dom.options[i] \in Range(picker.results)
  BY <1>1, PickerQuiet
<1>3. PICK m : /\ mailbox' = Append(mailbox, m) /\ PickerDue(m, ids, picker.results)
               /\ hook'.note.kind \in {"pick", "remove"} /\ hook'.note.count = Len(ids)
  <2>1. ASSUME NEW i \in 1..Len(dom.options), Picker!Pick(i)
        PROVE /\ mailbox' = Append(mailbox, [kind |-> "pick", arg |-> {dom.options[i]}])
              /\ PickerDue([kind |-> "pick", arg |-> {dom.options[i]}], ids, picker.results)
              /\ hook'.note.kind \in {"pick", "remove"} /\ hook'.note.count = Len(ids)
    BY <1>2, <2>1 DEF Picker!Pick, Picker!Noted, Picker!Note, Picker!Event, PickerDue
  <2>2. ASSUME NEW i \in 1..Len(dom.rows), Picker!ClickRemove(i)
        PROVE /\ mailbox' = Append(mailbox, [kind |-> "remove", arg |-> {dom.rows[i]}])
              /\ PickerDue([kind |-> "remove", arg |-> {dom.rows[i]}], ids, picker.results)
              /\ hook'.note.kind \in {"pick", "remove"} /\ hook'.note.count = Len(ids)
    <3>1. dom.rows[i] \in Range(ids)
      <4>1. ids \in Seq(Picker!Records)
        BY DEF PickerTyped
      <4> QED
        BY <1>2, <2>2, <4>1, LenProperties DEF Range
    <3> QED
      BY <1>2, <2>2, <3>1 DEF Picker!ClickRemove, Picker!Noted, Picker!Note, Picker!Event, PickerDue
  <2> QED
    BY <2>1, <2>2
<1>4. Len(mailbox') = 1 /\ mailbox'[1] = m
  BY <1>1, <1>3
<1>5. Len(patches) = 0
  BY <1>1
<1>6. PickerDue(mailbox'[1], ids', picker'.results)
  BY <1>1, <1>3, <1>4
<1>7. PickerUnderway'
  BY <1>1, <1>2, <1>3, <1>4, <1>5, <1>6 DEF PickerUnderway
<1> QED
  BY <1>1, <1>7 DEF PickerInOrder

LEMMA PickerGivenUp ==
    ASSUME PickerTyped, PickerShape, PickerInOrder, ~raced'
    PROVE ~Picker!GiveUp
<1> SUFFICES ASSUME Picker!GiveUp PROVE FALSE
  OBVIOUS
<1>1. mailbox = <<>> /\ patches = <<>> /\ hook.note # Picker!NoNote
  BY DEF Picker!GiveUp, Picker!Answered
<1> QED
  BY <1>1, PickerQuiet DEF PickerSettled

LEMMA PickerLands ==
    ASSUME PickerTyped, PickerShape, PickerInOrder, Picker!Patch
    PROVE PickerInOrder'
<1>1. /\ PickerTyped' /\ PickerShape'
      /\ patches # <<>> /\ Head(patches) \in PickerViews /\ Head(patches) = patches[1]
      /\ dom' = Head(patches) /\ patches' = Tail(patches)
      /\ hook'.note = IF Len(dom'.rows) = hook.note.count THEN hook.note ELSE Picker!NoNote
      /\ UNCHANGED <<ids, picker, raced>>
  BY PickerPatched DEF Picker!Patch
<1>2. PICK kept \in {focus, Picker!Body} :
         /\ Picker!Exists(focus, dom') => kept = focus
         /\ focus' = Picker!Restored(kept, dom')
         /\ \/ UNCHANGED mailbox
            \/ /\ mailbox' = Append(mailbox, [kind |-> "open", arg |-> {}])
               /\ focus' # kept
  BY PickerPatched
<1> DEFINE d == patches[1]
           open == [kind |-> "open", arg |-> {}]
<1>3. /\ dom' = d /\ Len(patches) \in Nat /\ Len(patches) >= 1
      /\ Len(patches') = Len(patches) - 1
      /\ \A k \in 1..Len(patches') : k + 1 \in 1..Len(patches) /\ patches'[k] = patches[k + 1]
  <2>1. patches \in Seq(PickerViews)
    BY DEF PickerTyped
  <2> QED
    BY <1>1, <2>1, Taken
<1>4. 1 \in 1..Len(patches)
  BY <1>3
<1>5. /\ d.search = (Len(d.rows) < MaxItems) /\ dom.search = (Len(dom.rows) < MaxItems)
      /\ Picker!Exists(focus, dom)
  BY <1>4 DEF PickerShape
<1>6. d.rows = dom.rows => kept = focus
  <2> HIDE DEF d
  <2> QED
    BY <1>2, <1>3, <1>5 DEF Picker!Exists
<1>7. open \in PickerMessages /\ mailbox \in Seq(PickerMessages) /\ open.kind \notin PickerWork
  BY DEF PickerMessages, PickerTyped, PickerWork
<1>8. d.rows \in Seq(Picker!Records) /\ ids \in Seq(Picker!Records)
  BY <1>1, <1>3 DEF PickerViews, PickerTyped
<1> HIDE DEF d, open
<1>9. /\ Len(Append(mailbox, open)) = Len(mailbox) + 1 /\ Len(mailbox) \in Nat
      /\ \A k \in 1..Len(mailbox) : Append(mailbox, open)[k] = mailbox[k]
      /\ Append(mailbox, open)[Len(mailbox) + 1] = open
  BY <1>7, Added, LenProperties
<1>10. CASE PickerUnderway
  <2>1. d.rows = ids /\ dom.rows = ids /\ hook.note.count = Len(ids)
    BY <1>4, <1>10 DEF PickerUnderway, d
  <2>2. hook'.note = hook.note /\ kept = focus
    BY <1>1, <1>3, <1>6, <2>1
  <2>3. focus' = kept
    BY <1>2, <1>3, <2>1 DEF Picker!Restored
  <2>4. UNCHANGED mailbox
    BY <1>2, <2>3
  <2>5. \A k \in 1..Len(patches') : patches'[k].rows = ids
    BY <1>3, <1>10 DEF PickerUnderway
  <2>6. PICK k \in 1..Len(mailbox) :
           /\ PickerDue(mailbox[k], ids, picker.results)
           /\ mailbox[k].kind = "pick" => k = 1
           /\ \A l \in 1..Len(mailbox) : l # k => mailbox[l].kind = "close"
    BY <1>10 DEF PickerUnderway
  <2>7. PickerDue(mailbox'[k], ids', picker'.results)
    BY <1>1, <2>4, <2>6
  <2>8. PickerUnderway'
    BY <1>1, <1>3, <1>10, <2>1, <2>2, <2>4, <2>5, <2>6, <2>7 DEF PickerUnderway
  <2> QED
    BY <1>1, <2>8 DEF PickerInOrder
<1>11. CASE PickerAnswering
  <2>1. /\ hook.note.kind \in {"pick", "remove"} /\ hook.note.count # Len(ids)
        /\ \A k \in 1..Len(patches) : Len(patches[k].rows) # hook.note.count =>
              \A l \in k..Len(patches) : patches[l].rows = ids
        /\ \A k \in 1..Len(mailbox) : mailbox[k].kind = "close"
    BY <1>11 DEF PickerAnswering
  <2>2. CASE Len(d.rows) = hook.note.count
    <3>1. hook'.note = hook.note /\ focus' = kept
      BY <1>1, <1>2, <1>3, <2>2 DEF Picker!Restored
    <3>2. UNCHANGED mailbox
      BY <1>2, <3>1
    <3>3. \A k \in 1..Len(patches') : Len(patches'[k].rows) # hook.note.count =>
             \A l \in k..Len(patches') : patches'[l].rows = ids
      <4> SUFFICES ASSUME NEW k \in 1..Len(patches'), Len(patches'[k].rows) # hook.note.count,
                          NEW l \in k..Len(patches')
                   PROVE patches'[l].rows = ids
        OBVIOUS
      <4>1. /\ k + 1 \in 1..Len(patches) /\ patches'[k] = patches[k + 1]
            /\ l \in 1..Len(patches') /\ l + 1 \in (k + 1)..Len(patches)
        BY <1>3
      <4>2. patches'[l] = patches[l + 1]
        BY <1>3, <4>1
      <4> QED
        BY <2>1, <4>1, <4>2
    <3>4. PickerAnswering'
      BY <1>1, <1>3, <2>1, <2>2, <3>1, <3>2, <3>3 DEF PickerAnswering
    <3> QED
      BY <1>1, <3>4 DEF PickerInOrder
  <2>3. CASE Len(d.rows) # hook.note.count
    <3>1. \A l \in 1..Len(patches) : patches[l].rows = ids
      BY <1>4, <2>1, <2>3 DEF d
    <3>2. d.rows = ids /\ \A k \in 1..Len(patches') : patches'[k].rows = ids
      BY <1>3, <1>4, <3>1 DEF d
    <3>3. hook'.note = Picker!NoNote
      BY <1>1, <1>3, <2>3
    <3>4. ids # <<>> => focus' # Picker!Body
      <4> SUFFICES ASSUME ids # <<>> PROVE focus' # Picker!Body
        OBVIOUS
      <4>1. \/ focus' = Picker!Input
            \/ \E r : focus' = Picker!RemoveButton(r)
        BY <1>2, <1>3, <2>1, <2>3, <3>2 DEF Picker!Restored
      <4> QED
        BY <4>1 DEF Picker!Input, Picker!RemoveButton, Picker!Body
    <3>5. \A k \in 1..Len(mailbox') : mailbox'[k].kind \notin PickerWork
      <4>1. \A k \in 1..Len(mailbox) : mailbox[k].kind \notin PickerWork
        BY <2>1 DEF PickerWork
      <4>2. CASE UNCHANGED mailbox
        BY <4>1, <4>2
      <4>3. CASE mailbox' = Append(mailbox, open)
        <5>1. \A k \in 1..Len(mailbox') : k \in 1..Len(mailbox) \/ k = Len(mailbox) + 1
          BY <1>9, <4>3
        <5> QED
          BY <1>7, <1>9, <4>1, <4>3, <5>1
      <4> QED
        BY <1>2, <4>2, <4>3 DEF open
    <3>6. PickerSettled'
      BY <1>1, <1>3, <3>2, <3>3, <3>4, <3>5 DEF PickerSettled
    <3> QED
      BY <1>1, <3>6 DEF PickerInOrder
  <2> QED
    BY <2>2, <2>3
<1>12. CASE PickerSettled
  <2>1. /\ d.rows = ids /\ dom.rows = ids /\ hook.note = Picker!NoNote
        /\ \A k \in 1..Len(mailbox) : mailbox[k].kind \notin PickerWork
        /\ ids # <<>> => focus # Picker!Body
    BY <1>4, <1>12 DEF PickerSettled, d
  <2>2. hook'.note = Picker!NoNote /\ kept = focus
    BY <1>1, <1>6, <2>1
  <2>3. focus' = kept
    BY <1>2, <2>1 DEF Picker!Restored, Picker!NoNote
  <2>4. UNCHANGED mailbox
    BY <1>2, <2>3
  <2>5. \A k \in 1..Len(patches') : patches'[k].rows = ids
    BY <1>3, <1>12 DEF PickerSettled
  <2>6. \A k \in 1..Len(mailbox') : mailbox'[k].kind \notin PickerWork
    BY <2>1, <2>4
  <2>7. ids' # <<>> => focus' # Picker!Body
    BY <1>1, <2>1, <2>2, <2>3
  <2>8. dom'.rows = ids' /\ ids' = ids
    BY <1>1, <1>3, <2>1
  <2>9. PickerSettled'
    BY <2>2, <2>5, <2>6, <2>7, <2>8 DEF PickerSettled
  <2> QED
    BY <1>1, <2>9 DEF PickerInOrder
<1> QED
  BY <1>10, <1>11, <1>12 DEF PickerInOrder

\* What handling the first message leaves of the queues.
LEMMA PickerQueues ==
    ASSUME PickerTyped, PickerShape, Picker!Handle
    PROVE /\ \A k \in 1..Len(patches') :
                \/ k \in 1..Len(patches) /\ patches'[k] = patches[k]
                \/ k = Len(patches') /\ patches'[k].rows = ids'
          /\ ids' # ids => Len(patches') = Len(patches) + 1
          /\ Len(mailbox) \in Nat /\ Len(mailbox) >= 1
          /\ Picker!Asked(mailbox[1], picker) = <<>> =>
                /\ Len(mailbox') = Len(mailbox) - 1
                /\ \A k \in 1..Len(mailbox') : k + 1 \in 1..Len(mailbox) /\ mailbox'[k] = mailbox[k + 1]
          /\ \A m : Picker!Asked(mailbox[1], picker) = <<m>> =>
                /\ Len(mailbox') = Len(mailbox) /\ mailbox'[Len(mailbox)] = m
                /\ \A k \in 1..Len(mailbox) : k # Len(mailbox) =>
                      k + 1 \in 1..Len(mailbox) /\ mailbox'[k] = mailbox[k + 1]
<1>1. /\ mailbox # <<>> /\ mailbox \in Seq(PickerMessages) /\ patches \in Seq(PickerViews)
      /\ Head(mailbox) = mailbox[1] /\ PickerTyped'
      /\ mailbox' = Tail(mailbox) \o Picker!Asked(Head(mailbox), picker)
      /\ \/ UNCHANGED patches /\ Picker!Shown(picker') = Picker!Shown(picker)
         \/ patches' = Append(patches, Picker!Shown(picker'))
      /\ Picker!Shown(picker').rows = ids'
  BY PickerHandled DEF PickerTyped
<1>2. /\ Len(mailbox) \in Nat /\ Len(mailbox) >= 1 /\ Len(Tail(mailbox)) = Len(mailbox) - 1
      /\ Tail(mailbox) \in Seq(PickerMessages)
      /\ \A k \in 1..Len(Tail(mailbox)) :
            k + 1 \in 1..Len(mailbox) /\ Tail(mailbox)[k] = mailbox[k + 1]
  BY <1>1, Taken
<1> DEFINE v == Picker!Shown(picker')
<1>3. v \in PickerViews /\ v.rows = ids'
  <2>1. picker' \in PickerFields
    BY <1>1 DEF PickerTyped
  <2> QED
    BY <1>1, <2>1, ShownType
<1>4. picker.ids = ids /\ Picker!Shown(picker).rows = ids
  BY ShownType DEF PickerShape, PickerTyped
<1>5. \/ UNCHANGED patches /\ v = Picker!Shown(picker)
      \/ patches' = Append(patches, v)
  BY <1>1
<1> HIDE DEF v
<1>6. /\ Len(Append(patches, v)) = Len(patches) + 1 /\ Len(patches) \in Nat
      /\ \A k \in 1..Len(patches) : Append(patches, v)[k] = patches[k]
      /\ Append(patches, v)[Len(patches) + 1] = v
  BY <1>1, <1>3, Added, LenProperties
<1>7. /\ \A k \in 1..Len(patches') :
            \/ k \in 1..Len(patches) /\ patches'[k] = patches[k]
            \/ k = Len(patches') /\ patches'[k].rows = ids'
      /\ ids' # ids => Len(patches') = Len(patches) + 1
  <2>1. CASE UNCHANGED patches /\ v = Picker!Shown(picker)
    BY <1>3, <1>4, <2>1
  <2>2. CASE patches' = Append(patches, v)
    <3>1. \A k \in 1..Len(patches') : k \in 1..Len(patches) \/ k = Len(patches) + 1
      BY <1>6, <2>2
    <3> QED
      BY <1>3, <1>6, <2>2, <3>1
  <2> QED
    BY <1>5, <2>1, <2>2
<1>8. ASSUME Picker!Asked(mailbox[1], picker) = <<>>
      PROVE /\ Len(mailbox') = Len(mailbox) - 1
            /\ \A k \in 1..Len(mailbox') : k + 1 \in 1..Len(mailbox) /\ mailbox'[k] = mailbox[k + 1]
  <2>1. mailbox' = Tail(mailbox)
    BY <1>1, <1>2, <1>8, ConcatEmptySeq
  <2> QED
    BY <1>2, <2>1
<1>9. ASSUME NEW m, Picker!Asked(mailbox[1], picker) = <<m>>
      PROVE /\ Len(mailbox') = Len(mailbox) /\ mailbox'[Len(mailbox)] = m
            /\ \A k \in 1..Len(mailbox) : k # Len(mailbox) =>
                  k + 1 \in 1..Len(mailbox) /\ mailbox'[k] = mailbox[k + 1]
  <2> DEFINE T == PickerMessages \union {m}
             t == Tail(mailbox)
  <2>1. t \in Seq(T) /\ <<m>> \in Seq(T) /\ Len(<<m>>) = 1 /\ <<m>>[1] = m
    <3>1. t \in Seq(T)
      BY <1>2, SeqMonotonic
    <3> QED
      BY <3>1
  <2>2. mailbox' = t \o <<m>>
    BY <1>1, <1>9
  <2> HIDE DEF t, T
  <2>3. /\ Len(t \o <<m>>) = Len(t) + 1
        /\ \A k \in 1..(Len(t) + 1) : (t \o <<m>>)[k] = IF k <= Len(t) THEN t[k] ELSE <<m>>[k - Len(t)]
    BY <2>1, ConcatProperties
  <2>4. Len(t) = Len(mailbox) - 1 /\ Len(mailbox) \in Nat /\ Len(mailbox) >= 1
    BY <1>2 DEF t
  <2>8. \A k \in 1..Len(t) : k + 1 \in 1..Len(mailbox) /\ t[k] = mailbox[k + 1]
    BY <1>2 DEF t
  <2>9. Len(t) + 1 = Len(mailbox)
    BY <2>4
  <2>5. Len(mailbox') = Len(mailbox)
    BY <2>2, <2>3, <2>9
  <2>6. mailbox'[Len(mailbox)] = m
    <3>1. Len(mailbox) \in 1..(Len(t) + 1) /\ ~(Len(mailbox) <= Len(t)) /\ Len(mailbox) - Len(t) = 1
      BY <2>4
    <3> QED
      BY <2>1, <2>2, <2>3, <3>1
  <2>7. ASSUME NEW k \in 1..Len(mailbox), k # Len(mailbox)
        PROVE k + 1 \in 1..Len(mailbox) /\ mailbox'[k] = mailbox[k + 1]
    <3>1. k \in 1..Len(t) /\ k <= Len(t) /\ k \in 1..(Len(t) + 1)
      BY <2>4, <2>7
    <3> QED
      BY <2>2, <2>3, <2>8, <3>1
  <2> QED
    BY <2>5, <2>6, <2>7
<1> QED
  BY <1>2, <1>7, <1>8, <1>9

\* A message that is no work changes nothing the editor holds, and offers nothing it does.
LEMMA PickerRead ==
    ASSUME PickerTyped, PickerShape, PickerInOrder, Picker!Handle, mailbox[1].kind \notin PickerWork
    PROVE /\ ids' = ids /\ Picker!Asked(mailbox[1], picker) = <<>>
          /\ Range(picker'.results) \cap Range(ids') = {}
          /\ mailbox[1].kind = "close" => picker'.results = picker.results
<1> DEFINE e == mailbox[1]
           p == Picker!Pushed(e, picker)
<1>1. /\ e \in PickerMessages /\ ids' = Picker!Edited(e) /\ picker \in PickerFields
      /\ picker' = [p EXCEPT !.ids = ids'] /\ picker.ids = ids
  BY PickerHandled DEF PickerTyped, PickerShape
<1>2. e.kind \in {"open", "close", "search"}
  BY <1>1 DEF PickerMessages, PickerWork
<1>3. ids' = ids /\ Picker!Asked(e, picker) = <<>>
  BY <1>1, <1>2 DEF Picker!Edited, Picker!Asked
<1>4. p \in PickerFields
  BY <1>1, PushedType
<1>5. picker'.results = p.results
  <2> HIDE DEF p, e
  <2> QED
    BY <1>1, <1>4 DEF PickerFields
<1>6. \/ p.results = picker.results
      \/ e.kind # "close" /\ \E q \in SUBSET Picker!Records : p.results = Picker!Found(q, ids)
  <2> DEFINE F == Picker!Found(e.arg, picker.ids)
             G == Picker!Found(picker.query, picker.ids)
  <2>1. e.arg \in SUBSET Picker!Records /\ picker.query \in SUBSET Picker!Records
    BY <1>1 DEF PickerMessages, PickerFields
  <2>2. \/ p = [picker EXCEPT !.query = e.arg, !.open = TRUE, !.results = F] /\ e.kind = "search"
        \/ p = [picker EXCEPT !.open = TRUE, !.results = G] /\ e.kind = "open"
        \/ p = [picker EXCEPT !.open = FALSE]
        \/ p = picker
    BY <1>2 DEF Picker!Pushed
  <2>3. F = Picker!Found(e.arg, ids) /\ G = Picker!Found(picker.query, ids)
    BY <1>1
  <2> HIDE DEF F, G, p, e
  <2>4. p.results \in {F, G, picker.results} /\ (p.results = picker.results \/ e.kind # "close")
    BY <1>1, <2>2 DEF PickerFields
  <2> QED
    BY <2>1, <2>3, <2>4
<1>7. Range(picker'.results) \cap Range(ids) = {}
  <2> HIDE DEF p, e
  <2>1. ids \in Seq(Picker!Records)
    BY DEF PickerTyped
  <2>2. \A q \in SUBSET Picker!Records : Range(Picker!Found(q, ids)) \cap Range(ids) = {}
    BY <2>1, PickerFound
  <2> QED
    BY <1>5, <1>6, <2>2 DEF PickerInOrder
<1> QED
  BY <1>3, <1>5, <1>6, <1>7

\* A pick is handed on to the editor.
LEMMA PickHandedOn ==
    ASSUME PickerTyped, PickerShape, PickerInOrder, Picker!Handle, mailbox[1].kind = "pick",
           PickerDue(mailbox[1], ids, picker.results)
    PROVE \E m : /\ Picker!Asked(mailbox[1], picker) = <<m>> /\ ids' = ids
                 /\ PickerDue(m, ids', picker'.results) /\ m.kind # "pick"
                 /\ Range(picker'.results) \cap Range(ids') = {}
<1> DEFINE e == mailbox[1]
           p == Picker!Pushed(e, picker)
           K == Picker!Kept(picker.results, Picker!Records \ e.arg)
           m == [kind |-> "add", arg |-> e.arg]
<1>1. /\ e \in PickerMessages /\ ids' = Picker!Edited(e) /\ picker \in PickerFields
      /\ picker' = [p EXCEPT !.ids = ids'] /\ picker.ids = ids
  BY PickerHandled DEF PickerTyped, PickerShape
<1>2. PICK r \in Range(picker.results) : e.arg = {r} /\ Len(ids) < MaxItems /\ e.kind = "pick"
  BY DEF PickerDue
<1>3. picker.results \in Seq(Picker!Records)
  BY <1>1 DEF PickerFields
<1>4. r \in Picker!Records /\ r \notin Range(ids)
  <2>1. PICK k \in DOMAIN picker.results : r = picker.results[k]
    BY DEF Range
  <2>2. k \in 1..Len(picker.results)
    BY <1>3, LenProperties
  <2>3. r \in Picker!Records
    BY <1>3, <2>1, <2>2, ElementOfSeq
  <2> QED
    BY <2>3 DEF PickerInOrder
<1>5. ids' = ids
  BY <1>1, <1>2 DEF Picker!Edited
<1>6. Picker!Asked(e, picker) = <<m>>
  BY <1>1, <1>2 DEF Picker!Asked, Picker!Searchable, Picker!Range, Range, Picker!Event
<1>7. p = [picker EXCEPT !.results = K]
  BY <1>1, <1>2 DEF Picker!Pushed, Picker!Searchable
<1>8. Range(K) = Range(picker.results) \cap (Picker!Records \ {r})
  BY <1>2, <1>3, PickerKept, KeptFacts
<1>9. picker'.results = K
  <2> HIDE DEF e, K
  <2> QED
    BY <1>1, <1>7 DEF PickerFields
<1> HIDE DEF K
<1>10. PickerDue(m, ids', picker'.results) /\ m.kind # "pick"
  BY <1>2, <1>4, <1>5, <1>8, <1>9 DEF PickerDue
<1>11. Range(picker'.results) \cap Range(ids') = {}
  BY <1>5, <1>8, <1>9 DEF PickerInOrder
<1> QED
  BY <1>5, <1>6, <1>10, <1>11

LEMMA RemovalHandedOn ==
    ASSUME PickerTyped, PickerShape, PickerInOrder, Picker!Handle, mailbox[1].kind = "remove",
           PickerDue(mailbox[1], ids, picker.results)
    PROVE \E m : /\ Picker!Asked(mailbox[1], picker) = <<m>> /\ ids' = ids
                 /\ PickerDue(m, ids', picker'.results) /\ m.kind # "pick"
                 /\ Range(picker'.results) \cap Range(ids') = {}
<1> DEFINE e == mailbox[1]
           p == Picker!Pushed(e, picker)
           m == [kind |-> "take", arg |-> e.arg]
<1>1. /\ e \in PickerMessages /\ ids' = Picker!Edited(e) /\ picker \in PickerFields
      /\ picker' = [p EXCEPT !.ids = ids'] /\ picker.ids = ids
  BY PickerHandled DEF PickerTyped, PickerShape
<1>2. ids' = ids /\ p = picker /\ Picker!Asked(e, picker) = <<m>>
  BY <1>1 DEF Picker!Edited, Picker!Pushed, Picker!Asked, Picker!Event
<1>3. picker'.results = picker.results
  <2> HIDE DEF e
  <2> QED
    BY <1>1, <1>2 DEF PickerFields
<1>4. PickerDue(m, ids', picker'.results) /\ m.kind # "pick"
  BY <1>2, <1>3 DEF PickerDue
<1> QED
  BY <1>2, <1>3, <1>4 DEF PickerInOrder

\* The editor adds it, or takes it out: the list is a record longer or shorter.
LEMMA PickerWorked ==
    ASSUME PickerTyped, PickerShape, PickerInOrder, Picker!Handle, mailbox[1].kind \in {"add", "take"},
           PickerDue(mailbox[1], ids, picker.results)
    PROVE /\ Picker!Asked(mailbox[1], picker) = <<>>
          /\ Len(ids') # Len(ids) /\ Len(ids') <= MaxItems
          /\ Range(picker'.results) \cap Range(ids') = {}
<1> DEFINE e == mailbox[1]
           p == Picker!Pushed(e, picker)
<1>1. /\ e \in PickerMessages /\ ids' = Picker!Edited(e) /\ picker \in PickerFields
      /\ picker' = [p EXCEPT !.ids = ids'] /\ picker.ids = ids
      /\ ids \in Seq(Picker!Records) /\ MaxItems \in Nat
  BY PickerHandled, PickerAssumption DEF PickerTyped, PickerShape
<1>2. p = picker /\ Picker!Asked(e, picker) = <<>>
  BY <1>1 DEF Picker!Pushed, Picker!Asked
<1>3. picker'.results = picker.results
  <2> HIDE DEF e
  <2> QED
    BY <1>1, <1>2 DEF PickerFields
<1>4. Len(ids) \in Nat /\ Len(ids) <= MaxItems /\ Range(picker.results) \cap Range(ids) = {}
  BY <1>1, LenProperties DEF PickerInOrder
<1>5. CASE e.kind = "add"
  <2>1. PICK r \in Picker!Records :
           e.arg = {r} /\ r \notin Range(ids) /\ r \notin Range(picker.results)
    BY <1>5 DEF PickerDue
  <2>2. Len(ids) < MaxItems
    BY <1>5 DEF PickerDue
  <2>3. e.arg \ Range(ids) = {r}
    BY <2>1
  <2> DEFINE new == Ascending({r})
  <2>4. ids' = ids \o new
    BY <1>1, <1>5, <2>3, PickerAscending DEF Picker!Edited, Picker!Range, Range
  <2>5. new \in Seq(Picker!Records) /\ Range(new) = {r} /\ Len(new) = 1
    <3>1. {r} \in SUBSET Picker!Records /\ Cardinality({r}) = 1
      BY FS_Singleton
    <3> HIDE DEF new
    <3> QED
      BY <3>1, RecordPlaces DEF new
  <2> HIDE DEF new
  <2>6. Len(ids') = Len(ids) + 1
    <3>1. Len(ids \o new) = Len(ids) + Len(new)
      <4>1. ids \in Seq(Picker!Records) /\ new \in Seq(Picker!Records)
        BY <1>1, <2>5
      <4> QED
        BY <4>1, ConcatProperties
    <3> QED
      BY <2>4, <2>5, <3>1
  <2>7. Range(ids') = Range(ids) \union {r}
    BY <1>1, <2>4, <2>5, Joined
  <2>8. Range(picker.results) \cap Range(ids') = {}
    BY <1>4, <2>1, <2>7
  <2> QED
    BY <1>1, <1>2, <1>3, <1>4, <2>2, <2>6, <2>8
<1>6. CASE e.kind = "take"
  <2>1. PICK r \in Range(ids) : e.arg = {r}
    BY <1>6 DEF PickerDue
  <2> DEFINE T == Picker!Records \ {r}
  <2>2. ids' = Kept(ids, T)
    BY <1>1, <1>6, <2>1, PickerKept DEF Picker!Edited
  <2>3. ~(Range(ids) \subseteq T)
    BY <2>1
  <2> HIDE DEF T
  <2>4. /\ Kept(ids, T) \in Seq(Picker!Records) /\ Len(Kept(ids, T)) < Len(ids)
        /\ Range(Kept(ids, T)) = Range(ids) \cap T
    BY <1>1, <2>3, KeptFacts
  <2>5. Len(Kept(ids, T)) \in Nat
    BY <2>4, LenProperties
  <2>6. Range(picker.results) \cap Range(ids') = {}
    BY <1>4, <2>2, <2>4
  <2> QED
    BY <1>1, <1>2, <1>3, <1>4, <2>2, <2>4, <2>5, <2>6
<1> QED
  BY <1>5, <1>6

LEMMA PickerHandles ==
    ASSUME PickerTyped, PickerShape, PickerInOrder, Picker!Handle
    PROVE PickerInOrder'
<1>1. /\ UNCHANGED <<dom, hook, focus, raced>> /\ Len(mailbox) \in Nat /\ Len(mailbox) >= 1
      /\ \A k \in 1..Len(patches') :
            \/ k \in 1..Len(patches) /\ patches'[k] = patches[k]
            \/ k = Len(patches') /\ patches'[k].rows = ids'
  BY PickerQueues, PickerHandled
<1>2. 1 \in 1..Len(mailbox)
  BY <1>1
<1>3. ASSUME ids' = ids, \A k \in 1..Len(patches) : patches[k].rows = ids
      PROVE \A k \in 1..Len(patches') : patches'[k].rows = ids'
  BY <1>1, <1>3
<1>4. ASSUME Picker!Asked(mailbox[1], picker) = <<>>
      PROVE /\ Len(mailbox') = Len(mailbox) - 1
            /\ \A k \in 1..Len(mailbox') : k + 1 \in 1..Len(mailbox) /\ mailbox'[k] = mailbox[k + 1]
  BY <1>4, PickerQueues
<1>5. CASE PickerUnderway
  <2>1. PICK k \in 1..Len(mailbox) :
           /\ PickerDue(mailbox[k], ids, picker.results)
           /\ mailbox[k].kind = "pick" => k = 1
           /\ \A l \in 1..Len(mailbox) : l # k => mailbox[l].kind = "close"
    BY <1>5 DEF PickerUnderway
  <2>2. /\ hook.note.kind \in {"pick", "remove"} /\ hook.note.count = Len(ids)
        /\ dom.rows = ids /\ \A j \in 1..Len(patches) : patches[j].rows = ids
    BY <1>5 DEF PickerUnderway
  <2>3. mailbox[k].kind \in {"pick", "add", "remove", "take"}
    BY <2>1 DEF PickerDue
  <2>4. CASE k = 1 /\ mailbox[1].kind \in {"pick", "remove"}
    <3>1. PICK m : /\ Picker!Asked(mailbox[1], picker) = <<m>> /\ ids' = ids
                   /\ PickerDue(m, ids', picker'.results) /\ m.kind # "pick"
                   /\ Range(picker'.results) \cap Range(ids') = {}
      BY <2>1, <2>4, PickHandedOn, RemovalHandedOn
    <3>2. /\ Len(mailbox') = Len(mailbox) /\ mailbox'[Len(mailbox)] = m
          /\ \A l \in 1..Len(mailbox) : l # Len(mailbox) =>
                l + 1 \in 1..Len(mailbox) /\ mailbox'[l] = mailbox[l + 1]
      BY <3>1, PickerQueues
    <3>3. Len(mailbox) \in 1..Len(mailbox')
      BY <1>1, <3>2
    <3>4. \A l \in 1..Len(mailbox') : l # Len(mailbox) => mailbox'[l].kind = "close"
      <4> SUFFICES ASSUME NEW l \in 1..Len(mailbox), l # Len(mailbox)
                   PROVE mailbox'[l].kind = "close"
        BY <3>2
      <4>1. l + 1 \in 1..Len(mailbox) /\ mailbox'[l] = mailbox[l + 1]
        BY <3>2
      <4>2. l + 1 # k
        BY <2>4
      <4> QED
        BY <2>1, <4>1, <4>2
    <3>5. PickerDue(mailbox'[Len(mailbox)], ids', picker'.results)
          /\ mailbox'[Len(mailbox)].kind # "pick"
      BY <3>1, <3>2
    <3>6. \A j \in 1..Len(patches') : patches'[j].rows = ids'
      BY <1>3, <2>2, <3>1
    <3>7. PickerUnderway'
      BY <1>1, <2>2, <3>1, <3>3, <3>4, <3>5, <3>6 DEF PickerUnderway
    <3> QED
      BY <3>1, <3>7 DEF PickerInOrder
  <2>5. CASE k = 1 /\ mailbox[1].kind \in {"add", "take"}
    <3>1. /\ Picker!Asked(mailbox[1], picker) = <<>>
          /\ Len(ids') # Len(ids) /\ Len(ids') <= MaxItems
          /\ Range(picker'.results) \cap Range(ids') = {}
      BY <2>1, <2>5, PickerWorked
    <3>2. \A l \in 1..Len(mailbox') : mailbox'[l].kind = "close"
      <4> SUFFICES ASSUME NEW l \in 1..Len(mailbox') PROVE mailbox'[l].kind = "close"
        OBVIOUS
      <4>1. l + 1 \in 1..Len(mailbox) /\ mailbox'[l] = mailbox[l + 1]
        BY <1>4, <3>1
      <4>2. l + 1 # k
        BY <1>4, <1>1, <2>5, <3>1
      <4> QED
        BY <2>1, <4>1, <4>2
    <3>3. \A j \in 1..Len(patches') : Len(patches'[j].rows) # hook.note.count =>
             \A l \in j..Len(patches') : patches'[l].rows = ids'
      <4> SUFFICES ASSUME NEW j \in 1..Len(patches'), Len(patches'[j].rows) # Len(ids),
                          NEW l \in j..Len(patches')
                   PROVE patches'[l].rows = ids'
        BY <2>2
      <4>1. j = Len(patches') /\ patches'[j].rows = ids'
        BY <1>1, <2>2
      <4>2. l = j
        BY <4>1
      <4> QED
        BY <4>1, <4>2
    <3>4. PickerAnswering'
      BY <1>1, <2>2, <3>1, <3>2, <3>3 DEF PickerAnswering
    <3> QED
      BY <3>1, <3>4 DEF PickerInOrder
  <2>6. CASE k # 1
    <3>1. mailbox[1].kind = "close"
      BY <1>2, <2>1, <2>6
    <3>2. mailbox[1].kind \notin PickerWork
      BY <3>1 DEF PickerWork
    <3>3. /\ ids' = ids /\ Picker!Asked(mailbox[1], picker) = <<>>
          /\ Range(picker'.results) \cap Range(ids') = {} /\ picker'.results = picker.results
      BY <3>1, <3>2, PickerRead
    <3> DEFINE j == k - 1
    <3>4. j \in 1..Len(mailbox') /\ j + 1 = k
      <4>1. Len(mailbox') = Len(mailbox) - 1
        BY <1>4, <3>3
      <4> QED
        BY <1>1, <2>6, <4>1
    <3> HIDE DEF j
    <3>5. mailbox'[j] = mailbox[k]
      BY <1>4, <3>3, <3>4
    <3>6. \A l \in 1..Len(mailbox') : l # j => mailbox'[l].kind = "close"
      <4> SUFFICES ASSUME NEW l \in 1..Len(mailbox'), l # j PROVE mailbox'[l].kind = "close"
        OBVIOUS
      <4>1. l + 1 \in 1..Len(mailbox) /\ mailbox'[l] = mailbox[l + 1]
        BY <1>4, <3>3
      <4>2. l + 1 # k
        <5>1. j \in Int /\ l \in Int
          BY <3>4
        <5> QED
          BY <3>4, <5>1
      <4> QED
        BY <2>1, <4>1, <4>2
    <3>7. PickerDue(mailbox'[j], ids', picker'.results) /\ mailbox'[j].kind # "pick"
      BY <2>1, <2>6, <3>3, <3>5
    <3>8. \A l \in 1..Len(patches') : patches'[l].rows = ids'
      BY <1>3, <2>2, <3>3
    <3>9. PickerUnderway'
      BY <1>1, <2>2, <3>3, <3>4, <3>6, <3>7, <3>8 DEF PickerUnderway
    <3> QED
      BY <3>3, <3>9 DEF PickerInOrder
  <2> QED
    BY <2>3, <2>4, <2>5, <2>6
<1>6. CASE PickerAnswering
  <2>1. /\ hook.note.kind \in {"pick", "remove"} /\ hook.note.count # Len(ids)
        /\ Len(dom.rows) = hook.note.count
        /\ \A k \in 1..Len(patches) : Len(patches[k].rows) # hook.note.count =>
              \A l \in k..Len(patches) : patches[l].rows = ids
        /\ \A k \in 1..Len(mailbox) : mailbox[k].kind = "close"
    BY <1>6 DEF PickerAnswering
  <2>2. mailbox[1].kind = "close" /\ mailbox[1].kind \notin PickerWork
    BY <1>2, <2>1 DEF PickerWork
  <2>3. /\ ids' = ids /\ Picker!Asked(mailbox[1], picker) = <<>>
        /\ Range(picker'.results) \cap Range(ids') = {} /\ picker'.results = picker.results
    BY <2>2, PickerRead
  <2>4. \A l \in 1..Len(mailbox') : mailbox'[l].kind = "close"
    BY <1>4, <2>1, <2>3
  <2>5. \A j \in 1..Len(patches') : Len(patches'[j].rows) # hook.note.count =>
           \A l \in j..Len(patches') : patches'[l].rows = ids'
    <3> SUFFICES ASSUME NEW j \in 1..Len(patches'), Len(patches'[j].rows) # hook.note.count,
                        NEW l \in j..Len(patches')
                 PROVE patches'[l].rows = ids'
      OBVIOUS
    <3>1. l \in 1..Len(patches')
      OBVIOUS
    <3>2. CASE l = Len(patches') /\ patches'[l].rows = ids'
      BY <3>2
    <3>3. CASE l \in 1..Len(patches) /\ patches'[l] = patches[l] /\ l # j
      <4>1. j \in 1..Len(patches) /\ l \in j..Len(patches)
        BY <3>3
      <4>2. j # Len(patches')
        BY <3>3
      <4>3. patches'[j] = patches[j]
        BY <1>1, <4>2
      <4> QED
        BY <2>1, <2>3, <3>3, <4>1, <4>3
    <3>4. CASE l \in 1..Len(patches) /\ patches'[l] = patches[l] /\ l = j
      <4>1. l \in l..Len(patches)
        BY <3>4
      <4> QED
        BY <2>1, <2>3, <3>4, <4>1
    <3> QED
      BY <1>1, <3>1, <3>2, <3>3, <3>4
  <2>6. PickerAnswering'
    BY <1>1, <2>1, <2>3, <2>4, <2>5 DEF PickerAnswering
  <2> QED
    BY <2>3, <2>6 DEF PickerInOrder
<1>7. CASE PickerSettled
  <2>1. /\ hook.note = Picker!NoNote /\ dom.rows = ids
        /\ \A k \in 1..Len(patches) : patches[k].rows = ids
        /\ \A k \in 1..Len(mailbox) : mailbox[k].kind \notin PickerWork
        /\ ids # <<>> => focus # Picker!Body
    BY <1>7 DEF PickerSettled
  <2>2. mailbox[1].kind \notin PickerWork
    BY <1>2, <2>1
  <2>3. /\ ids' = ids /\ Picker!Asked(mailbox[1], picker) = <<>>
        /\ Range(picker'.results) \cap Range(ids') = {}
    BY <2>2, PickerRead
  <2>4. \A l \in 1..Len(mailbox') : mailbox'[l].kind \notin PickerWork
    BY <1>4, <2>1, <2>3
  <2>5. \A l \in 1..Len(patches') : patches'[l].rows = ids'
    BY <1>3, <2>1, <2>3
  <2>6. PickerSettled'
    BY <1>1, <2>1, <2>3, <2>4, <2>5 DEF PickerSettled
  <2> QED
    BY <2>3, <2>6 DEF PickerInOrder
<1> QED
  BY <1>5, <1>6, <1>7 DEF PickerInOrder

LEMMA PickerStep ==
    ASSUME PickerInv, [Picker!PickerNext]_(Picker!pickerVars)
    PROVE PickerInv'
<1>1. PickerTyped /\ PickerShape
  BY DEF PickerInv
<1>2. CASE UNCHANGED Picker!pickerVars
  <2>1. UNCHANGED <<ids, picker, mailbox, patches, dom, hook, focus, raced>>
    BY <1>2 DEF Picker!pickerVars
  <2>2. PickerTyped'
    BY <1>1, <2>1 DEF PickerTyped
  <2>3. PickerShape'
    BY <1>1, <2>1 DEF PickerShape, Picker!Shown, Picker!Searchable, Picker!Exists, NoRepeat
  <2>4. ASSUME PickerInOrder PROVE PickerInOrder'
    BY <2>1, <2>4 DEF PickerInOrder, PickerUnderway, PickerAnswering, PickerSettled, PickerDue
  <2> QED
    BY <2>1, <2>2, <2>3, <2>4 DEF PickerInv
<1>3. CASE Picker!PickerNext
  <2>1. PickerTyped' /\ PickerShape'
    BY <1>1, <1>3, PickerPageTyped, PickerPatched, PickerHandled DEF Picker!PickerNext
  <2>2. raced => raced'
    BY <1>3 DEF Picker!PickerNext, Picker!FocusInput, Picker!Arrow, Picker!Close, Picker!GiveUp,
                Picker!Patch, Picker!Handle, Picker!Type, Picker!Pick, Picker!ClickRemove,
                Picker!Noted
  <2>3. ASSUME ~raced' PROVE PickerInOrder'
    <3>1. PickerInOrder
      BY <2>2, <2>3 DEF PickerInv
    <3> QED
      BY <1>1, <1>3, <2>3, <3>1, PickerSends, PickerMoved, PickerAsked, PickerGivenUp,
         PickerLands, PickerHandles DEF Picker!PickerNext
  <2> QED
    BY <2>1, <2>3 DEF PickerInv
<1> QED
  BY <1>2, <1>3

LEMMA PickerStart == Picker!PickerInit => PickerInv
<1> SUFFICES ASSUME Picker!PickerInit PROVE PickerInv
  OBVIOUS
<1>1. PickerTyped /\ PickerShape
  BY PickerInitTyped
<1>2. /\ ids = <<>> /\ mailbox = <<>> /\ patches = <<>> /\ picker.results = <<>>
      /\ hook.note = Picker!NoNote /\ dom.rows = <<>>
  BY DEF Picker!PickerInit, Picker!Shown
<1>3. PickerSettled
  BY <1>2 DEF PickerSettled
<1>4. Len(ids) <= MaxItems /\ Range(picker.results) \cap Range(ids) = {}
  BY <1>2, PickerAssumption DEF Range
<1> QED
  BY <1>1, <1>3, <1>4 DEF PickerInv, PickerInOrder

LEMMA PickerSafe == ASSUME PickerInv PROVE Picker!PickerHolds
<1>1. PickerTyped /\ PickerShape /\ (~raced => PickerInOrder)
  BY DEF PickerInv
<1>2. \A i, j \in 1..Len(ids) : ids[i] = ids[j] => i = j
  BY <1>1, LenProperties DEF PickerShape, PickerTyped, NoRepeat
<1>3. raced \/ Len(ids) <= MaxItems
  BY <1>1 DEF PickerInOrder
<1>4. Picker!Answered => dom = Picker!Shown(picker) /\ picker.ids = ids
  BY <1>1 DEF PickerShape, Picker!Answered
<1>5. Picker!Answered /\ hook.note = Picker!NoNote /\ ~raced /\ ids # <<>> => focus # Picker!Body
  BY <1>1, PickerQuiet DEF Picker!Answered, PickerSettled
<1> QED
  BY <1>2, <1>3, <1>4, <1>5 DEF Picker!PickerHolds

\* No more options are listed than there are records, and the highlight is on one.
PickerListed ==
    /\ Len(picker.results) <= MaxRecords
    /\ \A k \in 1..Len(patches) : Len(patches[k].options) <= MaxRecords
    /\ Len(dom.options) <= MaxRecords
    /\ hook.active <= MaxRecords
    /\ acts \in 0..MaxActs

LEMMA PickerTypes == PickerTyped /\ PickerListed => Picker!PickerTypeOK
<1> SUFFICES ASSUME PickerTyped, PickerListed PROVE Picker!PickerTypeOK
  OBVIOUS
<1>1. hook \in [active : 0..MaxRecords, note : [kind : {"none", "pick", "remove"}, count : Nat, index : Nat]]
  <2>1. hook \in [active : Nat, note : PickerNotes] /\ hook.active <= MaxRecords
    BY DEF PickerTyped, PickerListed
  <2>2. hook.active \in 0..MaxRecords
    BY <2>1, PickerAssumption
  <2> QED BY <2>1, <2>2 DEF PickerNotes
<1> QED BY <1>1 DEF PickerTyped, PickerListed, Picker!PickerTypeOK, PickerFields, PickerMessages,
                    PickerViews, PickerFocus

LEMMA PickerFewFound ==
    ASSUME NEW q \in SUBSET Picker!Records, NEW s \in Seq(Picker!Records)
    PROVE  Len(Picker!Found(q, s)) <= MaxRecords
<1> DEFINE P == q \ Range(s)
<1>1. Picker!Found(q, s) = Ascending(P)
  BY PickerAscending DEF Picker!Found, Picker!Range, Range
<1>2. P \in SUBSET Picker!Records
  OBVIOUS
<1>3. Len(Ascending(P)) = Cardinality(P)
  BY <1>2, RecordPlaces
<1>4. /\ IsFiniteSet(1..MaxRecords) /\ Cardinality(1..MaxRecords) = MaxRecords
      /\ Picker!Records = 1..MaxRecords
  BY PickerAssumption, FirstNumbers DEF Picker!Records
<1>5. Cardinality(P) <= Cardinality(1..MaxRecords)
  BY <1>2, <1>4, FS_Subset
<1> QED BY <1>1, <1>3, <1>4, <1>5

LEMMA PickerFewPushed ==
    ASSUME NEW e \in PickerMessages, NEW p \in PickerFields, Len(p.results) <= MaxRecords
    PROVE  Len(Picker!Pushed(e, p).results) <= MaxRecords
<1>1. /\ e.arg \in SUBSET Picker!Records /\ p.query \in SUBSET Picker!Records
      /\ p.ids \in Seq(Picker!Records) /\ p.results \in Seq(Picker!Records)
  BY DEF PickerMessages, PickerFields
<1> DEFINE F == Picker!Found(e.arg, p.ids)
           G == Picker!Found(p.query, p.ids)
           K == Picker!Kept(p.results, Picker!Records \ e.arg)
<1>2. Len(F) <= MaxRecords /\ Len(G) <= MaxRecords
  BY <1>1, PickerFewFound
<1>3. Len(K) <= MaxRecords
  <2>1. /\ K \in Seq(Picker!Records) /\ Len(K) <= Len(p.results)
    BY <1>1, PickerKept, KeptFacts
  <2>2. Len(K) \in Nat /\ Len(p.results) \in Nat
    BY <1>1, <2>1, LenProperties
  <2> HIDE DEF K
  <2> QED BY <2>1, <2>2, PickerAssumption
<1>4. \/ Picker!Pushed(e, p) = [p EXCEPT !.query = e.arg, !.open = TRUE, !.results = F]
      \/ Picker!Pushed(e, p) = [p EXCEPT !.open = TRUE, !.results = G]
      \/ Picker!Pushed(e, p) = [p EXCEPT !.open = FALSE]
      \/ Picker!Pushed(e, p) = [p EXCEPT !.results = K]
      \/ Picker!Pushed(e, p) = p
  BY Zenon DEF Picker!Pushed
<1> HIDE DEF F, G, K
<1> QED BY <1>2, <1>3, <1>4 DEF PickerFields

LEMMA PickerFewShown ==
    ASSUME NEW p \in PickerFields, Len(p.results) <= MaxRecords
    PROVE  Len(Picker!Shown(p).options) <= MaxRecords
<1>1. Len(<<>>) <= MaxRecords
  BY PickerAssumption
<1>2. Picker!Shown(p).options = <<>> \/ Picker!Shown(p).options = p.results
  BY ShownType
<1> QED BY <1>1, <1>2

LEMMA PickerListedStart == Picker!PickerInit => PickerListed
<1> SUFFICES ASSUME Picker!PickerInit PROVE PickerListed
  OBVIOUS
<1>1. /\ picker = [ids |-> ids, query |-> Picker!Records, open |-> FALSE, results |-> <<>>]
      /\ patches = <<>> /\ dom = Picker!Shown(picker) /\ hook.active = 0 /\ acts = 0
  BY DEF Picker!PickerInit
<1>2. picker \in PickerFields
  BY PickerInitTyped DEF PickerTyped
<1>3. Len(picker.results) <= MaxRecords
  BY <1>1, PickerAssumption
<1>4. Len(dom.options) <= MaxRecords
  BY <1>1, <1>2, <1>3, PickerFewShown
<1>5. 1..Len(patches) = {} /\ 0 \in 0..MaxActs /\ 0 <= MaxRecords
  BY <1>1, PickerAssumption
<1> QED BY <1>1, <1>3, <1>4, <1>5 DEF PickerListed

LEMMA PickerListedStep ==
    ASSUME PickerTyped, PickerShape, PickerListed, [Picker!PickerNext]_pickerVars
    PROVE  PickerListed'
<1>0. /\ Len(picker.results) <= MaxRecords
      /\ \A k \in 1..Len(patches) : Len(patches[k].options) <= MaxRecords
      /\ Len(dom.options) <= MaxRecords
      /\ hook.active <= MaxRecords /\ acts \in 0..MaxActs
  BY DEF PickerListed
<1>1. /\ Len(dom.options) \in Nat /\ hook.active \in Nat /\ MaxRecords \in Nat /\ MaxActs \in Nat
  BY PickerNotesFit, PickerAssumption
<1>2. Picker!Acts => acts' \in 0..MaxActs
  BY <1>0, <1>1 DEF Picker!Acts
<1>3. ASSUME UNCHANGED <<picker, patches, dom>>, hook'.active <= MaxRecords, acts' \in 0..MaxActs
      PROVE  PickerListed'
  BY <1>0, <1>3 DEF PickerListed
<1>4. hook \in [active : Nat, note : PickerNotes]
  BY DEF PickerTyped
<1>5. CASE Picker!FocusInput
  BY <1>0, <1>2, <1>3, <1>5 DEF Picker!FocusInput
<1>6. ASSUME NEW q, Picker!Type(q) PROVE PickerListed'
  <2>1. hook'.active = 0 /\ 0 <= MaxRecords
    BY <1>1, <1>4, <1>6 DEF Picker!Type
  <2> QED BY <1>2, <1>3, <1>6, <2>1 DEF Picker!Type
<1>7. CASE Picker!Arrow
  <2>1. UNCHANGED <<picker, patches, dom, acts>>
    BY <1>7 DEF Picker!Arrow
  <2>2. \/ hook'.active = IF hook.active < Len(dom.options) THEN hook.active + 1 ELSE 1
        \/ hook'.active = IF hook.active > 1 THEN hook.active - 1 ELSE Len(dom.options)
    BY <1>4, <1>7 DEF Picker!Arrow
  <2>3. Len(dom.options) >= 1
    <3>1. dom.options \in Seq(Picker!Records) /\ dom.options # <<>>
      BY <1>7 DEF Picker!Arrow, PickerTyped, PickerViews
    <3> QED BY <3>1, EmptySeq, LenProperties
  <2>4. hook'.active <= MaxRecords
    <3> DEFINE a == hook.active
               b == hook'.active
               m == Len(dom.options)
    <3>1. /\ a \in Nat /\ m \in Nat /\ m >= 1 /\ m <= MaxRecords /\ a <= MaxRecords /\ MaxRecords \in Nat
          /\ \/ b = IF a < m THEN a + 1 ELSE 1
             \/ b = IF a > 1 THEN a - 1 ELSE m
      BY <1>0, <1>1, <2>2, <2>3
    <3> HIDE DEF a, b, m
    <3>2. b <= MaxRecords
      BY <3>1
    <3> QED BY <3>2 DEF b
  <2> QED BY <1>0, <1>3, <2>1, <2>4
<1>8. ASSUME NEW note, NEW event, Picker!Noted(note, event) PROVE PickerListed'
  <2>1. hook'.active \in {0, hook.active} /\ 0 <= MaxRecords
    BY <1>1, <1>8 DEF Picker!Noted
  <2>2. hook'.active <= MaxRecords
    BY <1>0, <2>1
  <2> QED BY <1>2, <1>3, <1>8, <2>2 DEF Picker!Noted
<1>9. CASE Picker!Close
  <2>1. hook'.active \in {0, hook.active} /\ 0 <= MaxRecords
    BY <1>1, <1>4, <1>9 DEF Picker!Close
  <2>2. hook'.active <= MaxRecords
    BY <1>0, <2>1
  <2> QED BY <1>2, <1>3, <1>9, <2>2 DEF Picker!Close
<1>10. CASE Picker!GiveUp
  <2>1. hook'.active = hook.active
    BY <1>4, <1>10 DEF Picker!GiveUp
  <2> QED BY <1>0, <1>3, <1>10, <2>1 DEF Picker!GiveUp
<1>11. CASE Picker!Patch
  <2>1. patches # <<>> /\ patches \in Seq(PickerViews)
    BY <1>11 DEF Picker!Patch, PickerTyped
  <2> DEFINE d == Head(patches)
  <2>2. /\ d \in PickerViews /\ d = patches[1] /\ Len(patches) \in Nat /\ Len(patches) >= 1
        /\ \A k \in 1..Len(Tail(patches)) :
              k + 1 \in 1..Len(patches) /\ Tail(patches)[k] = patches[k + 1]
    BY <2>1, Taken
  <2>3. /\ patches' = Tail(patches) /\ dom' = d /\ UNCHANGED <<picker, acts>>
        /\ hook'.active = IF hook.active > Len(d.options) THEN Len(d.options) ELSE hook.active
    BY <1>11 DEF Picker!Patch
  <2>4. Len(d.options) <= MaxRecords
    <3>1. 1 \in 1..Len(patches)
      BY <2>2
    <3> QED BY <1>0, <2>2, <3>1
  <2>5. \A k \in 1..Len(patches') : Len(patches'[k].options) <= MaxRecords
    BY <1>0, <2>2, <2>3
  <2> HIDE DEF d
  <2>6. hook'.active <= MaxRecords
    BY <1>0, <2>3, <2>4
  <2> QED BY <1>0, <2>3, <2>4, <2>5, <2>6 DEF PickerListed
<1>12. CASE Picker!Handle
  <2>1. mailbox # <<>> /\ mailbox \in Seq(PickerMessages) /\ picker \in PickerFields
        /\ patches \in Seq(PickerViews) /\ ids \in Seq(Picker!Records)
    BY <1>12 DEF Picker!Handle, PickerTyped
  <2>2. Head(mailbox) \in PickerMessages
    BY <2>1, Taken
  <2> DEFINE p == Picker!Pushed(Head(mailbox), picker)
             q == [p EXCEPT !.ids = ids']
             look == Picker!Shown(q)
  <2>3. /\ ids' = Picker!Edited(Head(mailbox)) /\ picker' = q
        /\ patches' \in {patches, Append(patches, Picker!Shown(picker'))}
        /\ UNCHANGED <<dom, hook, acts>>
    BY <1>12 DEF Picker!Handle
  <2>4. p \in PickerFields /\ Len(p.results) <= MaxRecords
    BY <1>0, <2>1, <2>2, PushedType, PickerFewPushed
  <2>5. ids' \in Seq(Picker!Records)
    BY <2>1, <2>2, <2>3, EditedType
  <2>6. q \in PickerFields /\ q.results = p.results
    <3> HIDE DEF p
    <3> QED BY <2>4, <2>5 DEF PickerFields
  <2> HIDE DEF p, q
  <2>7. look \in PickerViews /\ Len(look.options) <= MaxRecords
    BY <2>4, <2>6, PickerFewShown, ShownType
  <2>8. patches' = patches \/ patches' = Append(patches, look)
    BY <2>3
  <2> HIDE DEF look
  <2>9. \A k \in 1..Len(patches') : Len(patches'[k].options) <= MaxRecords
    <3>1. CASE patches' = patches
      BY <1>0, <3>1
    <3>2. CASE patches' = Append(patches, look)
      <4>1. /\ Len(Append(patches, look)) = Len(patches) + 1 /\ Len(patches) \in Nat
            /\ \A k \in 1..Len(patches) : Append(patches, look)[k] = patches[k]
            /\ Append(patches, look)[Len(patches) + 1] = look
        BY <2>1, <2>7, Added, LenProperties
      <4>2. \A k \in 1..(Len(patches) + 1) : k \in 1..Len(patches) \/ k = Len(patches) + 1
        BY <4>1
      <4> QED BY <1>0, <2>7, <3>2, <4>1, <4>2
    <3> QED BY <2>8, <3>1, <3>2
  <2> QED BY <1>0, <2>3, <2>4, <2>6, <2>9 DEF PickerListed
<1>13. CASE UNCHANGED pickerVars
  BY <1>0, <1>3, <1>13 DEF pickerVars
<1> QED BY <1>5, <1>6, <1>7, <1>8, <1>9, <1>10, <1>11, <1>12, <1>13
        DEF Picker!PickerNext, Picker!Pick, Picker!ClickRemove

-----------------------------------------------------------------------------
(* A list that is dragged: rows that are taken out and put in elsewhere.   *)

LEMMA PartOf ==
    ASSUME NEW S, NEW s \in Seq(S), NEW m \in Nat \ {0}, NEW n \in Nat, n <= Len(s), m <= n + 1
    PROVE /\ SubSeq(s, m, n) \in Seq(S) /\ Len(SubSeq(s, m, n)) = n - m + 1
          /\ \A k \in 1..(n - m + 1) : SubSeq(s, m, n)[k] = s[m + k - 1]
<1>1. Len(s) \in Nat /\ m \in Int /\ n \in Int
  BY LenProperties
<1>2. \A k \in m..n : k \in 1..Len(s)
  BY <1>1
<1>3. \A k \in m..n : s[k] \in S
  BY <1>2, ElementOfSeq
<1>4. /\ SubSeq(s, m, n) \in Seq(S)
      /\ Len(SubSeq(s, m, n)) = IF m <= n THEN n - m + 1 ELSE 0
      /\ \A k \in 1..(n - m + 1) : SubSeq(s, m, n)[k] = s[m + k - 1]
  BY <1>1, <1>3, SubSeqProperties
<1>5. (IF m <= n THEN n - m + 1 ELSE 0) = n - m + 1
  OBVIOUS
<1> QED
  BY <1>4, <1>5

LEMMA RemovedAt ==
    ASSUME NEW S, NEW s \in Seq(S), NEW f \in 1..Len(s), NEW r, r = Order!RemoveAt(s, f)
    PROVE /\ Len(s) \in Nat /\ r \in Seq(S) /\ Len(r) = Len(s) - 1
          /\ \A k \in 1..(Len(s) - 1) : r[k] = s[IF k < f THEN k ELSE k + 1]
<1> DEFINE n == Len(s)
           a == SubSeq(s, 1, f - 1)
           b == SubSeq(s, f + 1, n)
<1>1. n \in Nat /\ f \in Nat /\ 1 <= f /\ f <= n
  BY LenProperties
<1>2. a \in Seq(S) /\ Len(a) = f - 1 /\ \A k \in 1..(f - 1) : a[k] = s[k]
  <2>1. 1 \in Nat \ {0} /\ f - 1 \in Nat /\ f - 1 <= Len(s) /\ 1 <= (f - 1) + 1
        /\ (f - 1) - 1 + 1 = f - 1
    BY <1>1
  <2>2. \A k \in 1..(f - 1) : 1 + k - 1 = k
    BY <1>1
  <2>3. a \in Seq(S) /\ Len(a) = (f - 1) - 1 + 1 /\ \A k \in 1..((f - 1) - 1 + 1) : a[k] = s[1 + k - 1]
    BY <2>1, PartOf
  <2> QED
    BY <2>1, <2>2, <2>3
<1>3. b \in Seq(S) /\ Len(b) = n - f /\ \A k \in 1..(n - f) : b[k] = s[f + k]
  <2>1. f + 1 \in Nat \ {0} /\ n <= Len(s) /\ f + 1 <= n + 1 /\ n - (f + 1) + 1 = n - f
    BY <1>1
  <2>2. \A k \in 1..(n - f) : (f + 1) + k - 1 = f + k
    BY <1>1
  <2>3. /\ b \in Seq(S) /\ Len(b) = n - (f + 1) + 1
        /\ \A k \in 1..(n - (f + 1) + 1) : b[k] = s[(f + 1) + k - 1]
    <3> DEFINE m == f + 1
    <3>1. m \in Nat \ {0} /\ n \in Nat /\ n <= Len(s) /\ m <= n + 1
      BY <1>1, <2>1
    <3> HIDE DEF m, n
    <3>2. /\ SubSeq(s, m, n) \in Seq(S) /\ Len(SubSeq(s, m, n)) = n - m + 1
          /\ \A k \in 1..(n - m + 1) : SubSeq(s, m, n)[k] = s[m + k - 1]
      BY <3>1, PartOf
    <3> QED
      BY <3>2 DEF m
  <2> HIDE DEF b
  <2> QED
    BY <2>1, <2>2, <2>3
<1>4. r = a \o b
  BY DEF Order!RemoveAt
<1> HIDE DEF a, b, n
<1>5. /\ r \in Seq(S) /\ Len(r) = Len(a) + Len(b)
      /\ \A k \in 1..(Len(a) + Len(b)) : r[k] = IF k <= Len(a) THEN a[k] ELSE b[k - Len(a)]
  BY <1>2, <1>3, <1>4, ConcatProperties
<1>6. Len(a) + Len(b) = n - 1
  BY <1>1, <1>2, <1>3
<1>7. ASSUME NEW k \in 1..(n - 1) PROVE r[k] = s[IF k < f THEN k ELSE k + 1]
  <2>1. CASE k < f
    <3>1. k \in 1..(f - 1) /\ k <= Len(a)
      BY <1>1, <1>2, <2>1
    <3> QED
      BY <1>2, <1>5, <1>6, <2>1, <3>1
  <2>2. CASE ~(k < f)
    <3>1. ~(k <= Len(a)) /\ k - Len(a) \in 1..(n - f) /\ f + (k - Len(a)) = k + 1
      BY <1>1, <1>2, <2>2
    <3>2. b[k - Len(a)] = s[f + (k - Len(a))]
      BY <1>3, <3>1
    <3> QED
      BY <1>5, <1>6, <2>2, <3>1, <3>2
  <2> QED
    BY <2>1, <2>2
<1> QED
  BY <1>1, <1>5, <1>6, <1>7 DEF n

LEMMA RowInserted ==
    ASSUME NEW S, NEW s \in Seq(S), NEW i \in 1..(Len(s) + 1), NEW e \in S,
           NEW t, t = Order!InsertAt(s, i, e)
    PROVE /\ Len(s) \in Nat /\ t \in Seq(S) /\ Len(t) = Len(s) + 1
          /\ \A k \in 1..(Len(s) + 1) :
                t[k] = IF k = i THEN e ELSE s[IF k < i THEN k ELSE k - 1]
<1> DEFINE n == Len(s)
           a == SubSeq(s, 1, i - 1)
           b == SubSeq(s, i, n)
           m == <<e>>
           am == a \o m
<1>1. n \in Nat /\ i \in Nat /\ 1 <= i /\ i <= n + 1
  BY LenProperties
<1>2. a \in Seq(S) /\ Len(a) = i - 1 /\ \A k \in 1..(i - 1) : a[k] = s[k]
  <2>1. 1 \in Nat \ {0} /\ i - 1 \in Nat /\ i - 1 <= Len(s) /\ 1 <= (i - 1) + 1
        /\ (i - 1) - 1 + 1 = i - 1
    BY <1>1
  <2>2. \A k \in 1..(i - 1) : 1 + k - 1 = k
    BY <1>1
  <2>3. a \in Seq(S) /\ Len(a) = (i - 1) - 1 + 1 /\ \A k \in 1..((i - 1) - 1 + 1) : a[k] = s[1 + k - 1]
    BY <2>1, PartOf
  <2> QED
    BY <2>1, <2>2, <2>3
<1>3. b \in Seq(S) /\ Len(b) = n - i + 1 /\ \A k \in 1..(n - i + 1) : b[k] = s[i + k - 1]
  <2>1. i \in Nat \ {0} /\ n <= Len(s)
    BY <1>1
  <2> QED
    BY <1>1, <2>1, PartOf
<1>4. m \in Seq(S) /\ Len(m) = 1 /\ m[1] = e
  OBVIOUS
<1>5. t = am \o b
  BY DEF Order!InsertAt
<1> HIDE DEF a, b, n, m
<1>6. /\ am \in Seq(S) /\ Len(am) = Len(a) + Len(m)
      /\ \A k \in 1..(Len(a) + Len(m)) : am[k] = IF k <= Len(a) THEN a[k] ELSE m[k - Len(a)]
  BY <1>2, <1>4, ConcatProperties
<1> HIDE DEF am
<1>7. Len(am) = i /\ Len(a) + Len(m) = i
  BY <1>1, <1>2, <1>4, <1>6
<1>8. /\ t \in Seq(S) /\ Len(t) = Len(am) + Len(b)
      /\ \A k \in 1..(Len(am) + Len(b)) : t[k] = IF k <= Len(am) THEN am[k] ELSE b[k - Len(am)]
  BY <1>3, <1>5, <1>6, ConcatProperties
<1>9. Len(am) + Len(b) = n + 1
  BY <1>1, <1>3, <1>7
<1>10. ASSUME NEW k \in 1..(n + 1)
       PROVE t[k] = IF k = i THEN e ELSE s[IF k < i THEN k ELSE k - 1]
  <2>1. CASE k < i
    <3>1. k \in 1..(i - 1) /\ k <= Len(a) /\ k <= Len(am) /\ k # i /\ k \in 1..i
      BY <1>1, <1>2, <1>7, <2>1
    <3>2. am[k] = a[k]
      BY <1>6, <1>7, <3>1
    <3> QED
      BY <1>2, <1>8, <1>9, <2>1, <3>1, <3>2
  <2>2. CASE k = i
    <3>1. k <= Len(am) /\ ~(k <= Len(a)) /\ k - Len(a) = 1 /\ k \in 1..i
      BY <1>1, <1>2, <1>7, <2>2
    <3>2. am[k] = m[1]
      BY <1>6, <1>7, <3>1
    <3> QED
      BY <1>4, <1>8, <1>9, <2>2, <3>1, <3>2
  <2>3. CASE k > i
    <3>1. ~(k <= Len(am)) /\ k - Len(am) \in 1..(n - i + 1) /\ i + (k - Len(am)) - 1 = k - 1
          /\ k # i /\ ~(k < i)
      BY <1>1, <1>7, <2>3
    <3>2. b[k - Len(am)] = s[i + (k - Len(am)) - 1]
      BY <1>3, <3>1
    <3> QED
      BY <1>8, <1>9, <3>1, <3>2
  <2>4. k < i \/ k = i \/ k > i
    BY <1>1
  <2> QED
    BY <2>1, <2>2, <2>3, <2>4
<1> QED
  BY <1>1, <1>8, <1>9, <1>10 DEF n


LEMMA FromNumbers ==
    ASSUME NEW S, NEW n \in Nat, NEW s \in [1..n -> S]
    PROVE s \in Seq(S) /\ Len(s) = n
<1>1. s \in Seq(S)
  BY SeqDef
<1>2. DOMAIN s = 1..n
  OBVIOUS
<1> QED
  BY <1>1, <1>2, LenProperties

LEMMA PlacesAre ==
    ASSUME NEW S, NEW X \in Seq(Seq(S))
    PROVE /\ Len(X) \in Nat /\ DOMAIN X = 1..Len(X)
          /\ \A c \in 1..Len(X) : X[c] \in Seq(S) /\ Len(X[c]) \in Nat /\ DOMAIN X[c] = 1..Len(X[c])
          /\ \A c \in 1..Len(X) : \A k \in 1..Len(X[c]) : <<c, k>> \in Order!Places(X)
          /\ \A p \in Order!Places(X) :
                /\ p[1] \in 1..Len(X) /\ p[2] \in 1..Len(X[p[1]]) /\ p = <<p[1], p[2]>>
                /\ X[p[1]][p[2]] \in S
<1>1. Len(X) \in Nat /\ DOMAIN X = 1..Len(X)
  BY LenProperties
<1>2. ASSUME NEW c \in 1..Len(X)
      PROVE X[c] \in Seq(S) /\ Len(X[c]) \in Nat /\ DOMAIN X[c] = 1..Len(X[c])
  <2>1. X[c] \in Seq(S)
    BY ElementOfSeq
  <2> QED
    BY <2>1, LenProperties
<1>3. \A c \in 1..Len(X) : \A k \in 1..Len(X[c]) : <<c, k>> \in Order!Places(X)
  BY <1>1, <1>2 DEF Order!Places
<1>4. ASSUME NEW p \in Order!Places(X)
      PROVE /\ p[1] \in 1..Len(X) /\ p[2] \in 1..Len(X[p[1]]) /\ p = <<p[1], p[2]>>
            /\ X[p[1]][p[2]] \in S
  <2>1. PICK c \in 1..Len(X) : p \in {c} \X DOMAIN X[c]
    BY <1>1 DEF Order!Places
  <2>2. p[1] = c /\ p[2] \in 1..Len(X[c]) /\ p = <<p[1], p[2]>>
    BY <1>2, <2>1
  <2>3. X[c][p[2]] \in S
    BY <1>2, <2>2, ElementOfSeq
  <2> QED
    BY <2>2, <2>3
<1> QED
  BY <1>1, <1>2, <1>3, <1>4

\* The place an item had, by the one it has with one taken out, and without one put in.
Out(f, k) == IF k < f THEN k ELSE k + 1
Back(i, k) == IF k < i THEN k ELSE k - 1

LEMMA OutFacts ==
    ASSUME NEW n \in Nat, NEW f \in 1..n
    PROVE /\ \A k \in 1..(n - 1) : Out(f, k) \in 1..n /\ Out(f, k) # f
          /\ \A k, l \in 1..(n - 1) : Out(f, k) = Out(f, l) => k = l
          /\ \A m \in 1..n : m # f => \E k \in 1..(n - 1) : Out(f, k) = m
<1>1. \A k \in 1..(n - 1) : Out(f, k) \in 1..n /\ Out(f, k) # f
  BY DEF Out
<1>2. \A k, l \in 1..(n - 1) : Out(f, k) = Out(f, l) => k = l
  BY DEF Out
<1>3. ASSUME NEW m \in 1..n, m # f PROVE \E k \in 1..(n - 1) : Out(f, k) = m
  <2>1. CASE m < f
    <3>1. m \in 1..(n - 1) /\ Out(f, m) = m
      BY <2>1 DEF Out
    <3> QED
      BY <3>1
  <2>2. CASE ~(m < f)
    <3>1. m - 1 \in 1..(n - 1) /\ Out(f, m - 1) = m
      BY <1>3, <2>2 DEF Out
    <3> QED
      BY <3>1
  <2> QED
    BY <2>1, <2>2
<1> QED
  BY <1>1, <1>2, <1>3

LEMMA BackFacts ==
    ASSUME NEW n \in Nat, NEW i \in 1..(n + 1)
    PROVE /\ \A k \in 1..(n + 1) : k # i => Back(i, k) \in 1..n
          /\ \A k, l \in 1..(n + 1) : k # i /\ l # i /\ Back(i, k) = Back(i, l) => k = l
          /\ \A m \in 1..n : \E k \in 1..(n + 1) : k # i /\ Back(i, k) = m
<1>1. \A k \in 1..(n + 1) : k # i => Back(i, k) \in 1..n
  BY DEF Back
<1>2. \A k, l \in 1..(n + 1) : k # i /\ l # i /\ Back(i, k) = Back(i, l) => k = l
  BY DEF Back
<1>3. ASSUME NEW m \in 1..n PROVE \E k \in 1..(n + 1) : k # i /\ Back(i, k) = m
  <2>1. CASE m < i
    <3>1. m \in 1..(n + 1) /\ m # i /\ Back(i, m) = m
      BY <2>1 DEF Back
    <3> QED
      BY <3>1
  <2>2. CASE ~(m < i)
    <3>1. m + 1 \in 1..(n + 1) /\ m + 1 # i /\ Back(i, m + 1) = m
      BY <2>2 DEF Back
    <3> QED
      BY <3>1
  <2> QED
    BY <2>1, <2>2
<1> QED
  BY <1>1, <1>2, <1>3

\* Y holds what X does, place for place.
Mapped(Y, X, g) ==
    /\ g \in [Order!Places(Y) -> Order!Places(X)]
    /\ \A p, q \in Order!Places(Y) : g[p] = g[q] => p = q
    /\ \A q \in Order!Places(X) : \E p \in Order!Places(Y) : g[p] = q
    /\ \A p \in Order!Places(Y) : Y[p[1]][p[2]] = X[g[p][1]][g[p][2]]

\* A row taken out, and one put in.
Taking(S, X, a, f, rest) ==
    /\ rest \in Seq(Seq(S)) /\ Len(rest) = Len(X)
    /\ \A d \in 1..Len(X) : d # a => rest[d] = X[d]
    /\ Len(rest[a]) = Len(X[a]) - 1
    /\ \A k \in 1..(Len(X[a]) - 1) : rest[a][k] = X[a][Out(f, k)]

Putting(S, R, c, i, e, Y) ==
    /\ Y \in Seq(Seq(S)) /\ Len(Y) = Len(R)
    /\ \A d \in 1..Len(R) : d # c => Y[d] = R[d]
    /\ Len(Y[c]) = Len(R[c]) + 1 /\ Y[c][i] = e
    /\ \A k \in 1..(Len(R[c]) + 1) : k # i => Y[c][k] = R[c][Back(i, k)]

LEMMA WithoutFacts ==
    ASSUME NEW S, NEW X \in Seq(Seq(S)), NEW a \in 1..Len(X), NEW f \in 1..Len(X[a])
    PROVE Taking(S, X, a, f, Order!Without(<<a, f>>, X))
<1>1. /\ Len(X) \in Nat /\ DOMAIN X = 1..Len(X)
      /\ \A c \in 1..Len(X) : X[c] \in Seq(S) /\ Len(X[c]) \in Nat
  BY PlacesAre
<1> DEFINE rest == Order!Without(<<a, f>>, X)
           n == Len(X)
           r == Order!RemoveAt(X[a], f)
<1>2. /\ r \in Seq(S) /\ Len(r) = Len(X[a]) - 1
      /\ \A k \in 1..(Len(X[a]) - 1) : r[k] = X[a][IF k < f THEN k ELSE k + 1]
  BY <1>1, RemovedAt
<1> HIDE DEF r
<1>3. rest = [d \in 1..n |-> IF d = a THEN r ELSE X[d]]
  BY <1>1 DEF Order!Without, r
<1>4. rest \in [1..n -> Seq(S)]
  BY <1>1, <1>2, <1>3
<1> HIDE DEF rest
<1>5. rest \in Seq(Seq(S)) /\ Len(rest) = n
  <2> HIDE DEF n
  <2>1. n \in Nat
    BY <1>1 DEF n
  <2> QED
    BY <1>4, <2>1, FromNumbers
<1>6. rest[a] = r /\ \A d \in 1..n : d # a => rest[d] = X[d]
  BY <1>3
<1>7. \A k \in 1..(Len(X[a]) - 1) : rest[a][k] = X[a][Out(f, k)]
  BY <1>2, <1>6 DEF Out
<1> QED
  BY <1>2, <1>5, <1>6, <1>7 DEF Taking, rest

LEMMA DropFacts ==
    ASSUME NEW S, NEW R \in Seq(Seq(S)), NEW c \in 1..Len(R), NEW i \in 1..(Len(R[c]) + 1),
           NEW e \in S
    PROVE Putting(S, R, c, i, e, [R EXCEPT ![c] = Order!InsertAt(R[c], i, e)])
<1>1. /\ Len(R) \in Nat /\ DOMAIN R = 1..Len(R)
      /\ \A d \in 1..Len(R) : R[d] \in Seq(S) /\ Len(R[d]) \in Nat
  BY PlacesAre
<1> DEFINE Y == [R EXCEPT ![c] = Order!InsertAt(R[c], i, e)]
           n == Len(R)
           t == Order!InsertAt(R[c], i, e)
<1>2. /\ t \in Seq(S) /\ Len(t) = Len(R[c]) + 1
      /\ \A k \in 1..(Len(R[c]) + 1) : t[k] = IF k = i THEN e ELSE R[c][IF k < i THEN k ELSE k - 1]
  BY <1>1, RowInserted
<1> HIDE DEF t
<1>3. Y = [d \in 1..n |-> IF d = c THEN t ELSE R[d]]
  BY <1>1 DEF t
<1>4. Y \in [1..n -> Seq(S)]
  BY <1>1, <1>2, <1>3
<1> HIDE DEF Y
<1>5. Y \in Seq(Seq(S)) /\ Len(Y) = n
  <2> HIDE DEF n
  <2>1. n \in Nat
    BY <1>1 DEF n
  <2> QED
    BY <1>4, <2>1, FromNumbers
<1>6. Y[c] = t /\ \A d \in 1..n : d # c => Y[d] = R[d]
  BY <1>3
<1>7. t[i] = e /\ \A k \in 1..(Len(R[c]) + 1) : k # i => t[k] = R[c][Back(i, k)]
  BY <1>2 DEF Back
<1> QED
  BY <1>2, <1>5, <1>6, <1>7 DEF Putting, Y

\* A drop: every row has a place, none has two.
Moving(S, X, a, f, c, i, rest, Y) ==
    /\ X \in Seq(Seq(S)) /\ a \in 1..Len(X) /\ f \in 1..Len(X[a]) /\ c \in 1..Len(X)
    /\ Taking(S, X, a, f, rest)
    /\ i \in 1..(Len(rest[c]) + 1)
    /\ Putting(S, rest, c, i, X[a][f], Y)
Dragged(S, X, Y) ==
    Y \in Seq(Seq(S)) /\ Len(Y) = Len(X) /\ \E g : Mapped(Y, X, g)

LEMMA DraggedFacts ==
    ASSUME NEW S, NEW X, NEW a, NEW f, NEW c, NEW i, NEW rest, NEW Y,
           Moving(S, X, a, f, c, i, rest, Y)
    PROVE Dragged(S, X, Y)
<1>0. /\ X \in Seq(Seq(S)) /\ a \in 1..Len(X) /\ f \in 1..Len(X[a]) /\ c \in 1..Len(X)
      /\ i \in 1..(Len(rest[c]) + 1)
  BY DEF Moving
<1> USE <1>0
<1>1. /\ Len(X) \in Nat /\ \A d \in 1..Len(X) : Len(X[d]) \in Nat
      /\ \A d \in 1..Len(X) : \A k \in 1..Len(X[d]) : <<d, k>> \in Order!Places(X)
      /\ \A p \in Order!Places(X) : p[1] \in 1..Len(X) /\ p[2] \in 1..Len(X[p[1]]) /\ p = <<p[1], p[2]>>
      /\ X[a][f] \in S
  <2>1. <<a, f>> \in Order!Places(X)
    BY PlacesAre
  <2>2. X[a][f] \in S
    BY <2>1, PlacesAre
  <2> QED
    BY <2>2, PlacesAre
<1>2. /\ rest \in Seq(Seq(S)) /\ Len(rest) = Len(X)
      /\ \A d \in 1..Len(X) : d # a => rest[d] = X[d]
      /\ Len(rest[a]) = Len(X[a]) - 1
      /\ \A k \in 1..(Len(X[a]) - 1) : rest[a][k] = X[a][Out(f, k)]
  BY DEF Taking, Moving
<1>3. /\ Y \in Seq(Seq(S)) /\ Len(Y) = Len(rest)
      /\ \A d \in 1..Len(X) : d # c => Y[d] = rest[d]
      /\ Len(Y[c]) = Len(rest[c]) + 1 /\ Y[c][i] = X[a][f]
      /\ \A k \in 1..(Len(rest[c]) + 1) : k # i => Y[c][k] = rest[c][Back(i, k)]
  BY <1>2 DEF Putting, Moving
<1>4. \A d \in 1..Len(X) : Len(rest[d]) \in Nat
  BY <1>2, PlacesAre
<1>5. /\ \A d \in 1..Len(X) : \A k \in 1..Len(Y[d]) : <<d, k>> \in Order!Places(Y)
      /\ \A p \in Order!Places(Y) : p[1] \in 1..Len(X) /\ p[2] \in 1..Len(Y[p[1]]) /\ p = <<p[1], p[2]>>
  <2>1. Y \in Seq(Seq(S)) /\ Len(Y) = Len(X)
    BY <1>2, <1>3
  <2>2. \A d \in 1..Len(Y) : \A k \in 1..Len(Y[d]) : <<d, k>> \in Order!Places(Y)
    BY <2>1, PlacesAre
  <2>3. \A p \in Order!Places(Y) : p[1] \in 1..Len(Y) /\ p[2] \in 1..Len(Y[p[1]]) /\ p = <<p[1], p[2]>>
    BY <2>1, PlacesAre
  <2> QED
    BY <2>1, <2>2, <2>3
<1> DEFINE O(d, k) == IF d = a THEN Out(f, k) ELSE k
           B(d, k) == IF d = c THEN Back(i, k) ELSE k
           g == [p \in Order!Places(Y) |-> IF p[1] = c /\ p[2] = i THEN <<a, f>>
                                           ELSE <<p[1], O(p[1], B(p[1], p[2]))>>]
\* What was left of a column.
<1>6. ASSUME NEW d \in 1..Len(X)
      PROVE /\ \A k \in 1..Len(rest[d]) : /\ O(d, k) \in 1..Len(X[d]) /\ (d = a => O(d, k) # f)
                                          /\ rest[d][k] = X[d][O(d, k)]
            /\ \A k, l \in 1..Len(rest[d]) : O(d, k) = O(d, l) => k = l
            /\ \A m \in 1..Len(X[d]) : ~(d = a /\ m = f) => \E k \in 1..Len(rest[d]) : O(d, k) = m
  <2>1. CASE d = a
    <3> DEFINE n == Len(X[a])
    <3>1. n \in Nat /\ Len(rest[a]) = n - 1
      BY <1>1, <1>2
    <3>2. \A k \in 1..(n - 1) : rest[a][k] = X[a][Out(f, k)]
      BY <1>2
    <3> HIDE DEF n
    <3>3. f \in 1..n
      BY DEF n
    <3>4. \A k \in 1..(n - 1) : Out(f, k) \in 1..n /\ Out(f, k) # f
      BY <3>1, <3>3, OutFacts
    <3>5. \A k, l \in 1..(n - 1) : Out(f, k) = Out(f, l) => k = l
      BY <3>1, <3>3, OutFacts
    <3>6. \A m \in 1..n : m # f => \E k \in 1..(n - 1) : Out(f, k) = m
      BY <3>1, <3>3, OutFacts
    <3>7. Len(rest[d]) = n - 1 /\ Len(X[d]) = n /\ rest[d] = rest[a] /\ X[d] = X[a]
      BY <2>1, <3>1 DEF n
    <3> QED
      BY <2>1, <3>2, <3>4, <3>5, <3>6, <3>7
  <2>2. CASE d # a
    BY <1>2, <2>2
  <2> QED
    BY <2>1, <2>2
\* What a column became.
<1>7. ASSUME NEW d \in 1..Len(X)
      PROVE /\ \A k \in 1..Len(Y[d]) : ~(d = c /\ k = i) =>
                  B(d, k) \in 1..Len(rest[d]) /\ Y[d][k] = rest[d][B(d, k)]
            /\ \A k, l \in 1..Len(Y[d]) :
                  ~(d = c /\ k = i) /\ ~(d = c /\ l = i) /\ B(d, k) = B(d, l) => k = l
            /\ \A m \in 1..Len(rest[d]) : \E k \in 1..Len(Y[d]) : ~(d = c /\ k = i) /\ B(d, k) = m
  <2>1. CASE d = c
    <3> DEFINE n == Len(rest[c])
    <3>1. n \in Nat /\ Len(Y[c]) = n + 1
      BY <1>3, <1>4
    <3>2. \A k \in 1..(n + 1) : k # i => Y[c][k] = rest[c][Back(i, k)]
      BY <1>3
    <3> HIDE DEF n
    <3>3. i \in 1..(n + 1)
      BY DEF n
    <3>4. \A k \in 1..(n + 1) : k # i => Back(i, k) \in 1..n
      BY <3>1, <3>3, BackFacts
    <3>5. \A k, l \in 1..(n + 1) : k # i /\ l # i /\ Back(i, k) = Back(i, l) => k = l
      BY <3>1, <3>3, BackFacts
    <3>6. \A m \in 1..n : \E k \in 1..(n + 1) : k # i /\ Back(i, k) = m
      BY <3>1, <3>3, BackFacts
    <3>7. Len(Y[d]) = n + 1 /\ Len(rest[d]) = n /\ rest[d] = rest[c] /\ Y[d] = Y[c]
      BY <2>1, <3>1 DEF n
    <3>8. \A k : B(d, k) = Back(i, k)
      BY <2>1
    <3>9. \A k \in 1..(n + 1) : ~(d = c /\ k = i) <=> k # i
      BY <2>1
    <3> HIDE DEF B
    <3>10. \A k \in 1..Len(Y[d]) : ~(d = c /\ k = i) =>
              B(d, k) \in 1..Len(rest[d]) /\ Y[d][k] = rest[d][B(d, k)]
      BY <3>2, <3>4, <3>7, <3>8, <3>9
    <3>11. \A k, l \in 1..Len(Y[d]) :
              ~(d = c /\ k = i) /\ ~(d = c /\ l = i) /\ B(d, k) = B(d, l) => k = l
      <4> SUFFICES ASSUME NEW k \in 1..(n + 1), NEW l \in 1..(n + 1), ~(d = c /\ k = i),
                          ~(d = c /\ l = i), B(d, k) = B(d, l)
                   PROVE k = l
        BY <3>7
      <4>1. k # i /\ l # i /\ Back(i, k) = Back(i, l)
        BY <3>8, <3>9
      <4> QED
        BY <3>5, <4>1
    <3>12. \A m \in 1..Len(rest[d]) : \E k \in 1..Len(Y[d]) : ~(d = c /\ k = i) /\ B(d, k) = m
      <4> SUFFICES ASSUME NEW m \in 1..n
                   PROVE \E k \in 1..(n + 1) : ~(d = c /\ k = i) /\ B(d, k) = m
        BY <3>7
      <4>1. PICK k \in 1..(n + 1) : k # i /\ Back(i, k) = m
        BY <3>6
      <4> QED
        BY <3>8, <3>9, <4>1
    <3> QED
      BY <3>10, <3>11, <3>12
  <2>2. CASE d # c
    BY <1>3, <2>2
  <2> QED
    BY <2>1, <2>2
<1> HIDE DEF O, B
<1>o. \A d \in 1..Len(X) : \A k, l \in 1..Len(rest[d]) : O(d, k) = O(d, l) => k = l
  BY <1>6
<1>8. i \in 1..Len(Y[c])
  BY <1>3, <1>4
<1>9. ASSUME NEW p \in Order!Places(Y)
      PROVE g[p] \in Order!Places(X) /\ Y[p[1]][p[2]] = X[g[p][1]][g[p][2]]
  <2>1. p[1] \in 1..Len(X) /\ p[2] \in 1..Len(Y[p[1]])
    BY <1>5
  <2>2. CASE p[1] = c /\ p[2] = i
    BY <1>1, <1>3, <2>2
  <2>3. CASE ~(p[1] = c /\ p[2] = i)
    <3>1. g[p] = <<p[1], O(p[1], B(p[1], p[2]))>>
      BY <2>3
    <3>2. B(p[1], p[2]) \in 1..Len(rest[p[1]]) /\ Y[p[1]][p[2]] = rest[p[1]][B(p[1], p[2])]
      BY <1>7, <2>1, <2>3
    <3>3. /\ O(p[1], B(p[1], p[2])) \in 1..Len(X[p[1]])
          /\ rest[p[1]][B(p[1], p[2])] = X[p[1]][O(p[1], B(p[1], p[2]))]
      <4> DEFINE d == p[1]
                 k == B(p[1], p[2])
      <4>1. d \in 1..Len(X) /\ k \in 1..Len(rest[d])
        BY <2>1, <3>2
      <4> HIDE DEF d, k
      <4>2. O(d, k) \in 1..Len(X[d]) /\ rest[d][k] = X[d][O(d, k)]
        BY <1>6, <4>1
      <4> QED
        BY <4>2 DEF d, k
    <3> QED
      BY <1>1, <2>1, <3>1, <3>2, <3>3
  <2> QED
    BY <2>2, <2>3
<1>10. ASSUME NEW p \in Order!Places(Y), NEW q \in Order!Places(Y), g[p] = g[q]
       PROVE p = q
  <2>1. /\ p[1] \in 1..Len(X) /\ p[2] \in 1..Len(Y[p[1]]) /\ p = <<p[1], p[2]>>
        /\ q[1] \in 1..Len(X) /\ q[2] \in 1..Len(Y[q[1]]) /\ q = <<q[1], q[2]>>
    BY <1>5
  <2>2. ASSUME NEW u \in Order!Places(Y), ~(u[1] = c /\ u[2] = i)
        PROVE /\ g[u][1] = u[1] /\ g[u][2] = O(u[1], B(u[1], u[2])) /\ g[u] # <<a, f>>
              /\ B(u[1], u[2]) \in 1..Len(rest[u[1]])
    <3>1. g[u] = <<u[1], O(u[1], B(u[1], u[2]))>>
      BY <2>2
    <3>2. u[1] \in 1..Len(X) /\ u[2] \in 1..Len(Y[u[1]])
      BY <1>5
    <3>3. B(u[1], u[2]) \in 1..Len(rest[u[1]])
      BY <1>7, <2>2, <3>2
    <3>4. u[1] = a => O(u[1], B(u[1], u[2])) # f
      BY <1>6, <3>2, <3>3
    <3> QED
      BY <3>1, <3>3, <3>4
  <2>3. \A u \in Order!Places(Y) : u[1] = c /\ u[2] = i => g[u] = <<a, f>>
    OBVIOUS
  <2> HIDE DEF g
  <2>4. CASE (p[1] = c /\ p[2] = i) \/ (q[1] = c /\ q[2] = i)
    <3>1. (p[1] = c /\ p[2] = i) /\ (q[1] = c /\ q[2] = i)
      BY <1>10, <2>2, <2>3, <2>4
    <3> QED
      BY <2>1, <3>1
  <2>5. CASE ~(p[1] = c /\ p[2] = i) /\ ~(q[1] = c /\ q[2] = i)
    <3>1. /\ p[1] = q[1] /\ O(p[1], B(p[1], p[2])) = O(p[1], B(p[1], q[2]))
          /\ B(p[1], p[2]) \in 1..Len(rest[p[1]]) /\ B(p[1], q[2]) \in 1..Len(rest[p[1]])
      <4>1. g[p][1] = g[q][1] /\ g[p][2] = g[q][2]
        BY <1>10
      <4> QED
        BY <2>2, <2>5, <4>1
    <3>2. B(p[1], p[2]) = B(p[1], q[2])
      <4> DEFINE d == p[1]
                 k == B(p[1], p[2])
                 l == B(p[1], q[2])
      <4>1. d \in 1..Len(X) /\ k \in 1..Len(rest[d]) /\ l \in 1..Len(rest[d]) /\ O(d, k) = O(d, l)
        BY <2>1, <3>1
      <4> HIDE DEF d, k, l
      <4>2. k = l
        BY <1>o, <4>1
      <4> QED
        BY <4>2 DEF k, l
    <3>3. p[2] = q[2]
      <4> DEFINE d == p[1]
                 k == p[2]
                 l == q[2]
      <4>1. d \in 1..Len(X) /\ k \in 1..Len(Y[d]) /\ l \in 1..Len(Y[d]) /\ B(d, k) = B(d, l)
            /\ ~(d = c /\ k = i) /\ ~(d = c /\ l = i)
        BY <2>1, <2>5, <3>1, <3>2
      <4> HIDE DEF d, k, l
      <4>2. k = l
        BY <1>7, <4>1
      <4> QED
        BY <4>2 DEF k, l
    <3> QED
      BY <2>1, <3>1, <3>3
  <2> QED
    BY <2>4, <2>5
<1>11. ASSUME NEW q \in Order!Places(X) PROVE \E p \in Order!Places(Y) : g[p] = q
  <2>1. q[1] \in 1..Len(X) /\ q[2] \in 1..Len(X[q[1]]) /\ q = <<q[1], q[2]>>
    BY <1>1
  <2>2. CASE q[1] = a /\ q[2] = f
    <3>1. <<c, i>> \in Order!Places(Y)
      BY <1>5, <1>8
    <3>2. g[<<c, i>>] = <<a, f>>
      BY <3>1
    <3> QED
      BY <2>1, <2>2, <3>1, <3>2
  <2>3. CASE ~(q[1] = a /\ q[2] = f)
    <3>1. PICK k \in 1..Len(rest[q[1]]) : O(q[1], k) = q[2]
      BY <1>6, <2>1, <2>3
    <3>2. PICK m \in 1..Len(Y[q[1]]) : ~(q[1] = c /\ m = i) /\ B(q[1], m) = k
      BY <1>7, <2>1
    <3>3. <<q[1], m>> \in Order!Places(Y)
      BY <1>5, <2>1
    <3>4. g[<<q[1], m>>] = <<q[1], O(q[1], B(q[1], m))>>
      BY <3>2, <3>3
    <3> QED
      BY <2>1, <3>1, <3>2, <3>3, <3>4
  <2> QED
    BY <2>2, <2>3
<1>12. g \in [Order!Places(Y) -> Order!Places(X)]
  BY <1>9
<1> HIDE DEF g
<1>13. Mapped(Y, X, g)
  BY <1>9, <1>10, <1>11, <1>12 DEF Mapped
<1> QED
  BY <1>2, <1>3, <1>13 DEF Dragged


LEMMA InIs ==
    ASSUME NEW S, NEW X \in Seq(Seq(S))
    PROVE /\ \A x : x \in Order!In(X) <=> \E p \in Order!Places(X) : x = X[p[1]][p[2]]
          /\ Order!In(X) \subseteq S
<1>1. /\ DOMAIN X = 1..Len(X)
      /\ \A c \in 1..Len(X) : DOMAIN X[c] = 1..Len(X[c])
  BY PlacesAre
<1>2. \A c \in 1..Len(X) : \A k \in 1..Len(X[c]) : <<c, k>> \in Order!Places(X)
  BY PlacesAre
<1>3. \A p \in Order!Places(X) : p[1] \in 1..Len(X) /\ p[2] \in 1..Len(X[p[1]]) /\ X[p[1]][p[2]] \in S
  BY PlacesAre
<1>4. ASSUME NEW x \in Order!In(X) PROVE \E p \in Order!Places(X) : x = X[p[1]][p[2]]
  <2>1. PICK c \in 1..Len(X) : x \in Order!ToSet(X[c])
    BY <1>1 DEF Order!In
  <2>2. PICK k \in 1..Len(X[c]) : x = X[c][k]
    BY <1>1, <2>1 DEF Order!ToSet
  <2>3. <<c, k>> \in Order!Places(X) /\ <<c, k>>[1] = c /\ <<c, k>>[2] = k
    BY <1>2
  <2> QED
    BY <2>2, <2>3
<1>5. ASSUME NEW p \in Order!Places(X) PROVE X[p[1]][p[2]] \in Order!In(X)
  <2>1. p[1] \in 1..Len(X) /\ p[2] \in 1..Len(X[p[1]])
    BY <1>3
  <2>2. X[p[1]][p[2]] \in Order!ToSet(X[p[1]])
    BY <1>1, <2>1 DEF Order!ToSet
  <2> QED
    BY <1>1, <2>1, <2>2 DEF Order!In
<1> QED
  BY <1>3, <1>4, <1>5

\* No item is in a list twice.
OneEach(X) ==
    \A p, q \in Order!Places(X) : X[p[1]][p[2]] = X[q[1]][q[2]] => p = q
At(X, x) == {p \in Order!Places(X) : X[p[1]][p[2]] = x}

LEMMA ContentsAre ==
    ASSUME NEW X
    PROVE Order!Contents(X) = [x \in Order!In(X) |-> Cardinality(At(X, x))]
<1>1. \A T : Order!Cardinality(T) = Cardinality(T)
  BY Zenon DEF Order!Cardinality, Cardinality
<1> QED
  BY <1>1 DEF Order!Contents, At

LEMMA AsOften ==
    ASSUME NEW X, NEW Y, NEW g, Mapped(Y, X, g), IsFiniteSet(Order!Places(X)), NEW x
    PROVE Cardinality(At(Y, x)) = Cardinality(At(X, x))
<1> DEFINE h == [p \in At(Y, x) |-> g[p]]
           A == At(X, x)
           B == At(Y, x)
<1>1. \A p \in B : p \in Order!Places(Y) /\ g[p] \in A
  BY DEF Mapped, At
<1>2. h \in [B -> A]
  BY <1>1
<1>3. \A p, q \in B : h[p] = h[q] => p = q
  BY <1>1 DEF Mapped
<1>4. ASSUME NEW q \in A PROVE \E p \in B : h[p] = q
  <2>1. q \in Order!Places(X) /\ X[q[1]][q[2]] = x
    BY DEF At
  <2>2. PICK p \in Order!Places(Y) : g[p] = q
    BY <2>1 DEF Mapped
  <2>3. Y[p[1]][p[2]] = x
    BY <2>1, <2>2 DEF Mapped
  <2>4. p \in B
    BY <2>2, <2>3 DEF At
  <2> QED
    BY <2>2, <2>4
<1>5. IsFiniteSet(A)
  <2>1. A \subseteq Order!Places(X)
    BY DEF At
  <2> QED
    BY <2>1, FS_Subset
<1> HIDE DEF h, A, B
<1>6. h \in Injection(B, A) /\ h \in Surjection(B, A)
  BY <1>2, <1>3, <1>4 DEF Injection, Surjection, IsInjective
<1>7. Cardinality(B) = Cardinality(A)
  BY <1>5, <1>6, FS_Injection
<1> QED
  BY <1>7 DEF A, B

LEMMA MappedSame ==
    ASSUME NEW S, NEW X \in Seq(Seq(S)), NEW Y \in Seq(Seq(S)), NEW g, Mapped(Y, X, g)
    PROVE /\ Order!In(Y) = Order!In(X)
          /\ OneEach(X) => OneEach(Y)
          /\ IsFiniteSet(Order!Places(X)) => Order!Contents(Y) = Order!Contents(X)
<1>1. Order!In(Y) = Order!In(X)
  <2>1. ASSUME NEW x \in Order!In(Y) PROVE x \in Order!In(X)
    <3>1. PICK p \in Order!Places(Y) : x = Y[p[1]][p[2]]
      BY InIs
    <3>2. g[p] \in Order!Places(X) /\ x = X[g[p][1]][g[p][2]]
      BY <3>1 DEF Mapped
    <3> QED
      BY <3>2, InIs
  <2>2. ASSUME NEW x \in Order!In(X) PROVE x \in Order!In(Y)
    <3>1. PICK q \in Order!Places(X) : x = X[q[1]][q[2]]
      BY InIs
    <3>2. PICK p \in Order!Places(Y) : g[p] = q
      BY DEF Mapped
    <3>3. x = Y[p[1]][p[2]]
      BY <3>1, <3>2 DEF Mapped
    <3> QED
      BY <3>3, InIs
  <2> QED
    BY <2>1, <2>2
<1>2. ASSUME OneEach(X) PROVE OneEach(Y)
  <2> SUFFICES ASSUME NEW p \in Order!Places(Y), NEW q \in Order!Places(Y),
                      Y[p[1]][p[2]] = Y[q[1]][q[2]]
               PROVE p = q
    BY DEF OneEach
  <2>1. /\ g[p] \in Order!Places(X) /\ g[q] \in Order!Places(X)
        /\ X[g[p][1]][g[p][2]] = X[g[q][1]][g[q][2]]
    BY DEF Mapped
  <2>2. g[p] = g[q]
    BY <1>2, <2>1 DEF OneEach
  <2> QED
    BY <2>2 DEF Mapped
<1>3. ASSUME IsFiniteSet(Order!Places(X)) PROVE Order!Contents(Y) = Order!Contents(X)
  <2>1. \A x : Cardinality(At(Y, x)) = Cardinality(At(X, x))
    BY <1>3, AsOften
  <2> QED
    BY <1>1, <2>1, ContentsAre
<1> QED
  BY <1>1, <1>2, <1>3

LEMMA OnceIsOnce ==
    ASSUME NEW S, NEW X \in Seq(Seq(S)), OneEach(X)
    PROVE Order!Contents(X) = [x \in Order!In(X) |-> 1]
<1>1. ASSUME NEW x \in Order!In(X) PROVE Cardinality(At(X, x)) = 1
  <2>1. PICK p \in Order!Places(X) : x = X[p[1]][p[2]]
    BY InIs
  <2>2. At(X, x) = {p}
    BY <2>1 DEF At, OneEach
  <2> QED
    BY <2>2, FS_Singleton
<1> QED
  BY <1>1, ContentsAre

LEMMA OneColumn ==
    ASSUME NEW S, NEW X \in Seq(Seq(S)), Len(X) = 1
    PROVE /\ X = <<X[1]>> /\ X[1] \in Seq(S) /\ Len(X[1]) \in Nat /\ DOMAIN X[1] = 1..Len(X[1])
          /\ Order!Places(X) = {1} \X (1..Len(X[1]))
          /\ IsFiniteSet(Order!Places(X))
<1>1. /\ DOMAIN X = 1..1 /\ 1 \in 1..1 /\ 1..1 = {1}
      /\ X[1] \in Seq(S) /\ Len(X[1]) \in Nat /\ DOMAIN X[1] = 1..Len(X[1])
  <2>1. 1 \in 1..Len(X) /\ 1..1 = {1}
    OBVIOUS
  <2>2. DOMAIN X = 1..Len(X) /\ \A c \in 1..Len(X) : X[c] \in Seq(S) /\ Len(X[c]) \in Nat
                                                     /\ DOMAIN X[c] = 1..Len(X[c])
    BY PlacesAre
  <2> QED
    BY <2>1, <2>2
<1>2. Order!Places(X) = {1} \X (1..Len(X[1]))
  BY <1>1 DEF Order!Places
<1>3. IsFiniteSet(Order!Places(X))
  <2>1. IsFiniteSet({1}) /\ IsFiniteSet(1..Len(X[1]))
    BY <1>1, FS_Singleton, FirstNumbers
  <2> QED
    BY <1>2, <2>1, FS_Product
<1>4. X = <<X[1]>>
  <2> DEFINE u == X[1]
             v == <<u>>
  <2>1. v \in Seq(Seq(S)) /\ Len(v) = 1 /\ v[1] = u
    BY <1>1
  <2> HIDE DEF v
  <2>2. \A k \in 1..1 : X[k] = v[k]
    BY <1>1, <2>1
  <2>3. X = v
    BY <2>1, <2>2, SeqEqual
  <2> QED
    BY <2>3 DEF v
<1> QED
  BY <1>1, <1>2, <1>3, <1>4

\* An order of the positions up to n.
IsOrder(o, n) ==
    /\ o \in Seq(1..n) /\ Len(o) = n
    /\ \A k, l \in 1..n : o[k] = o[l] => k = l
    /\ \A m \in 1..n : \E k \in 1..n : o[k] = m
HoldsTheSame(t, s) ==
    t \in Seq(Nat) /\ Len(t) = Len(s) /\ Order!Contents(<<t>>) = Order!Contents(<<s>>)

\* A column read in another order holds the same.
LEMMA Permuted ==
    ASSUME NEW s \in Seq(Nat), NEW o, IsOrder(o, Len(s)),
           NEW t, t = [k \in DOMAIN o |-> s[o[k]]]
    PROVE HoldsTheSame(t, s)
<1> DEFINE n == Len(s)
           X == <<s>>
           Y == <<t>>
           g == [p \in Order!Places(Y) |-> <<1, o[p[2]]>>]
<1>0. /\ o \in Seq(1..n) /\ Len(o) = n
      /\ \A k, l \in 1..n : o[k] = o[l] => k = l
      /\ \A m \in 1..n : \E k \in 1..n : o[k] = m
  BY DEF IsOrder
<1>1. n \in Nat /\ DOMAIN o = 1..n /\ \A k \in 1..n : o[k] \in 1..n
  BY <1>0, LenProperties, ElementOfSeq
<1>2. t \in [1..n -> Nat]
  <2>1. \A k \in 1..n : s[o[k]] \in Nat
    BY <1>1, ElementOfSeq
  <2> QED
    BY <1>1, <2>1
<1>3. t \in Seq(Nat) /\ Len(t) = n
  <2> HIDE DEF n
  <2> QED
    BY <1>1, <1>2, FromNumbers
<1>4. X \in Seq(Seq(Nat)) /\ Len(X) = 1 /\ X[1] = s /\ Y \in Seq(Seq(Nat)) /\ Len(Y) = 1 /\ Y[1] = t
  BY <1>3
<1> HIDE DEF X, Y
<1>5. Order!Places(X) = {1} \X (1..n) /\ IsFiniteSet(Order!Places(X))
  BY <1>4, OneColumn
<1>6. Order!Places(Y) = {1} \X (1..n)
  BY <1>3, <1>4, OneColumn
<1>7. \A k \in 1..n : t[k] = s[o[k]]
  BY <1>1
<1>8. Mapped(Y, X, g)
  <2> HIDE DEF n
  <2>1. g \in [Order!Places(Y) -> Order!Places(X)]
    BY <1>1, <1>5, <1>6
  <2>2. ASSUME NEW p \in Order!Places(Y), NEW q \in Order!Places(Y), g[p] = g[q] PROVE p = q
    <3>1. o[p[2]] = o[q[2]] /\ p[2] \in 1..n /\ q[2] \in 1..n /\ p[1] = 1 /\ q[1] = 1
          /\ p = <<p[1], p[2]>> /\ q = <<q[1], q[2]>>
      BY <1>6, <2>2
    <3>2. p[2] = q[2]
      BY <1>0, <3>1
    <3> QED
      BY <3>1, <3>2
  <2>3. ASSUME NEW q \in Order!Places(X) PROVE \E p \in Order!Places(Y) : g[p] = q
    <3>1. q[2] \in 1..n /\ q = <<1, q[2]>>
      BY <1>5
    <3>2. PICK k \in 1..n : o[k] = q[2]
      BY <1>0, <3>1
    <3>3. <<1, k>> \in Order!Places(Y)
      BY <1>6
    <3>4. g[<<1, k>>] = <<1, o[k]>>
      BY <3>3
    <3> QED
      BY <3>1, <3>2, <3>3, <3>4
  <2>4. ASSUME NEW p \in Order!Places(Y) PROVE Y[p[1]][p[2]] = X[g[p][1]][g[p][2]]
    <3>1. p[1] = 1 /\ p[2] \in 1..n /\ g[p] = <<1, o[p[2]]>>
      BY <1>6
    <3>2. g[p][1] = 1 /\ g[p][2] = o[p[2]]
      BY <3>1
    <3>3. Y[p[1]][p[2]] = t[p[2]]
      BY <1>4, <3>1
    <3>4. X[g[p][1]][g[p][2]] = s[o[p[2]]]
      BY <1>4, <3>2
    <3> QED
      BY <1>7, <3>1, <3>3, <3>4
  <2> HIDE DEF g
  <2> QED
    BY <2>1, <2>2, <2>3, <2>4 DEF Mapped
<1>9. Order!Contents(Y) = Order!Contents(X)
  <2> HIDE DEF g
  <2>1. X \in Seq(Seq(Nat)) /\ Y \in Seq(Seq(Nat))
    BY <1>4
  <2>2. Mapped(Y, X, g)
    BY <1>8
  <2>3. IsFiniteSet(Order!Places(X)) => Order!Contents(Y) = Order!Contents(X)
    BY <2>1, <2>2, MappedSame
  <2> QED
    BY <1>5, <2>3
<1> QED
  BY <1>3, <1>9 DEF X, Y, HoldsTheSame


LEMMA OrderPicked ==
    /\ \A s, P : Order!PickedAt(s, P) = PickedAt(s, P)
    /\ \A P : Order!Ascending(P) = Ascending(P)
    /\ \A s, P : Order!Kept(s, P) = Kept(s, P)
    /\ \A s : Order!ToSet(s) = Range(s)
<1>1. \A P, k : Order!Nth(P, k) = Nth(P, k)
  BY Zenon DEF Order!Nth, Nth, Order!Cardinality, Cardinality
<1>2. \A T : Order!Cardinality(T) = Cardinality(T)
  BY Zenon DEF Order!Cardinality, Cardinality
<1>3. \A s, P : Order!PickedAt(s, P) = PickedAt(s, P)
  BY <1>1, <1>2 DEF Order!PickedAt, PickedAt
<1>4. \A P : Order!Ascending(P) = Ascending(P)
  BY <1>1, <1>2 DEF Order!Ascending, Ascending
<1>5. \A s, P : Order!Kept(s, P) = Kept(s, P)
  BY <1>3 DEF Order!Kept, Kept
<1>6. \A s : Order!ToSet(s) = Range(s)
  BY DEF Order!ToSet, Range
<1> QED
  BY <1>3, <1>4, <1>5, <1>6

\* A sequence without repeats of a finite set's members, all of them, has its size.
LEMMA OrderOfAll ==
    ASSUME NEW n \in Nat, NEW o \in Seq(1..n), NoRepeat(o), Range(o) = 1..n
    PROVE IsOrder(o, n)
<1>1. Len(o) \in Nat /\ DOMAIN o = 1..Len(o)
  BY LenProperties
<1>2. o \in [1..Len(o) -> 1..n]
  BY <1>1, ElementOfSeq
<1>3. \A k, l \in 1..Len(o) : o[k] = o[l] => k = l
  BY <1>1 DEF NoRepeat
<1>4. \A m \in 1..n : \E k \in 1..Len(o) : o[k] = m
  BY <1>1 DEF Range
<1>5. o \in Injection(1..Len(o), 1..n) /\ o \in Surjection(1..Len(o), 1..n)
  BY <1>2, <1>3, <1>4 DEF Injection, Surjection, IsInjective
<1>6. /\ IsFiniteSet(1..n) /\ Cardinality(1..n) = n /\ Cardinality(1..Len(o)) = Len(o)
  BY <1>1, FirstNumbers
<1>7. Cardinality(1..Len(o)) = Cardinality(1..n)
  BY <1>5, <1>6, FS_Injection
<1> QED
  BY <1>3, <1>4, <1>6, <1>7 DEF IsOrder

Firsts(s, order) ==
    {k \in DOMAIN order : /\ order[k] \in DOMAIN s
                          /\ \A j \in 1..(k - 1) : order[j] # order[k]}
Indices(s, order) == PickedAt(order, Firsts(s, order))
Whole(s, order) == Indices(s, order) \o Ascending(DOMAIN s \ Range(Indices(s, order)))

LEMMA GalleryIs ==
    ASSUME NEW s, NEW order
    PROVE Order!GalleryOrder(s, order) = [k \in DOMAIN Whole(s, order) |-> s[Whole(s, order)[k]]]
BY OrderPicked DEF Order!GalleryOrder, Whole, Indices, Firsts

\* Whatever the page reports, every position is read once.
LEMMA WholeOrder ==
    ASSUME NEW s \in Seq(Nat), NEW order \in Seq(Nat)
    PROVE /\ Whole(s, order) \in Seq(1..Len(s)) /\ NoRepeat(Whole(s, order))
          /\ Range(Whole(s, order)) = 1..Len(s)
<1> DEFINE n == Len(s)
           P == Firsts(s, order)
           a == Indices(s, order)
           Q == (1..n) \ Range(a)
           b == Ascending(Q)
<1>1. n \in Nat /\ DOMAIN s = 1..n /\ DOMAIN order = 1..Len(order) /\ Len(order) \in Nat
  BY LenProperties
<1>2. P \subseteq DOMAIN order
  BY DEF Firsts
<1>3. /\ Places(P) /\ Len(a) = Cardinality(P) /\ DOMAIN a = 1..Cardinality(P)
      /\ a \in Seq(Nat)
  BY <1>2, PickedType DEF Indices
<1>4. \A k \in 1..Cardinality(P) : a[k] = order[Nth(P, k)] /\ Nth(P, k) \in P
  BY <1>2, PickedItem DEF Indices
<1>5. \A k \in P : k \in Nat /\ order[k] \in 1..n /\ \A j \in 1..(k - 1) : order[j] # order[k]
  BY <1>1 DEF Firsts
<1>6. \A k \in 1..Cardinality(P) : a[k] \in 1..n
  BY <1>4, <1>5
<1>7. Cardinality(P) \in Nat
  BY <1>3, FS_CardinalityType DEF Places
<1> HIDE DEF P, a
<1>8. a \in Seq(1..n)
  <2>1. a \in [1..Cardinality(P) -> 1..n]
    <3>1. a = [k \in 1..Len(a) |-> a[k]]
      BY <1>3, LenProperties
    <3> QED
      BY <1>3, <1>6, <3>1
  <2> QED
    BY <1>7, <2>1, FromNumbers
<1>9. NoRepeat(a)
  <2>1. ASSUME NEW k \in 1..Cardinality(P), NEW l \in 1..Cardinality(P), k < l PROVE a[k] # a[l]
    <3> DEFINE u == Nth(P, k)
               v == Nth(P, l)
    <3>1. u < v
      BY <1>3, <2>1, NthGrows
    <3>2. u \in Nat /\ v \in Nat /\ a[k] = order[u] /\ a[l] = order[v] /\ u \in P /\ v \in P
      BY <1>4, <1>5
    <3>3. u # 0
      <4>1. P \subseteq 1..Len(order)
        BY <1>1, <1>2 DEF P
      <4> QED
        BY <3>2, <4>1
    <3> HIDE DEF u, v
    <3>4. u \in 1..(v - 1)
      BY <3>1, <3>2, <3>3
    <3> QED
      BY <1>5, <3>2, <3>4
  <2> SUFFICES ASSUME NEW k \in 1..Cardinality(P), NEW l \in 1..Cardinality(P), a[k] = a[l]
               PROVE k = l
    BY <1>3 DEF NoRepeat
  <2>2. ~(k < l) /\ ~(l < k)
    BY <2>1
  <2> QED
    BY <1>7, <2>2
<1>10. Places(Q)
  <2>1. IsFiniteSet(1..n) /\ Q \subseteq 1..n
    BY <1>1, FirstNumbers
  <2>2. IsFiniteSet(Q)
    BY <2>1, FS_Subset
  <2>3. Q \subseteq Nat
    OBVIOUS
  <2> QED
    BY <2>2, <2>3 DEF Places
<1>11. b \in Seq(Q) /\ Range(b) = Q /\ NoRepeat(b)
  BY <1>10, AscendingFacts
<1>12. Q \subseteq 1..n
  OBVIOUS
<1>13. b \in Seq(1..n)
  BY <1>11, <1>12, SeqMonotonic
<1>14. Range(a) \subseteq 1..n
  BY <1>3, <1>6 DEF Range
<1>15. Range(a) \cap Range(b) = {} /\ Range(a) \union Range(b) = 1..n
  BY <1>11, <1>14
<1> HIDE DEF Q, b
<1>16. Range(a \o b) = 1..n /\ NoRepeat(a \o b) /\ a \o b \in Seq(1..n)
  <2> DEFINE S == 1..n
  <2>1. a \in Seq(S) /\ b \in Seq(S) /\ NoRepeat(b)
    BY <1>8, <1>11, <1>13
  <2>2. Range(a) \union Range(b) = S
    BY <1>15
  <2> HIDE DEF S
  <2>3. Range(a \o b) = Range(a) \union Range(b)
    BY <2>1, Joined
  <2>4. NoRepeat(a) /\ NoRepeat(b) /\ Range(a) \cap Range(b) = {} => NoRepeat(a \o b)
    BY <2>1, Joined
  <2>5. a \o b \in Seq(S)
    BY <2>1, ConcatProperties
  <2> QED
    BY <1>9, <1>15, <2>1, <2>2, <2>3, <2>4, <2>5 DEF S
<1>17. Whole(s, order) = a \o b
  BY <1>1 DEF Whole, a, b, Q
<1> QED
  BY <1>16, <1>17

LEMMA GalleryKeeps ==
    ASSUME NEW s \in Seq(Nat), NEW order \in Seq(Nat)
    PROVE HoldsTheSame(Order!GalleryOrder(s, order), s)
<1> DEFINE t == Order!GalleryOrder(s, order)
           o == Whole(s, order)
<1>1. Len(s) \in Nat /\ o \in Seq(1..Len(s)) /\ NoRepeat(o) /\ Range(o) = 1..Len(s)
  BY WholeOrder, LenProperties
<1>2. t = [k \in DOMAIN o |-> s[o[k]]]
  BY GalleryIs
<1> HIDE DEF t, o
<1>3. IsOrder(o, Len(s))
  BY <1>1, OrderOfAll
<1>4. HoldsTheSame(t, s)
  BY <1>2, <1>3, Permuted
<1> QED
  BY <1>4 DEF t

\* An order of all the positions is taken as it is.
LEMMA NthOfFirst ==
    ASSUME NEW n \in Nat, NEW k \in 1..n
    PROVE Nth(1..n, k) = k
<1>1. IsFiniteSet(1..n) /\ 1..n \subseteq Nat
  BY FirstNumbers
<1>2. Places(1..n)
  BY <1>1 DEF Places
<1>3. {j \in 1..n : j <= k} = 1..k
  OBVIOUS
<1>4. Rank(1..n, k) = k
  <2>1. Cardinality(1..k) = k
    BY FirstNumbers
  <2> QED
    BY <1>3, <2>1 DEF Rank
<1>5. Nth(1..n, Rank(1..n, k)) = k
  BY <1>2, NthOfRank
<1> QED
  BY <1>4, <1>5

LEMMA GalleryTakes ==
    ASSUME NEW s \in Seq(Nat), NEW o, IsOrder(o, Len(s))
    PROVE Order!GalleryOrder(s, o) = [k \in DOMAIN o |-> s[o[k]]]
<1> DEFINE n == Len(s)
<1>0. /\ o \in Seq(1..n) /\ Len(o) = n
      /\ \A k, l \in 1..n : o[k] = o[l] => k = l
      /\ \A m \in 1..n : \E k \in 1..n : o[k] = m
  BY DEF IsOrder
<1>1. n \in Nat /\ DOMAIN s = 1..n /\ DOMAIN o = 1..n /\ \A k \in 1..n : o[k] \in 1..n
  BY <1>0, LenProperties, ElementOfSeq
<1> HIDE DEF n
<1>2. Firsts(s, o) = 1..n
  <2>1. \A k \in 1..n : \A j \in 1..(k - 1) : o[j] # o[k]
    <3> SUFFICES ASSUME NEW k \in 1..n, NEW j \in 1..(k - 1) PROVE o[j] # o[k]
      OBVIOUS
    <3>1. j \in 1..n /\ j # k
      BY <1>1
    <3> QED
      BY <1>0, <3>1
  <2> QED
    BY <1>1, <2>1 DEF Firsts
<1>3. Indices(s, o) = o
  <2> DEFINE a == PickedAt(o, 1..n)
             P == 1..n
             S == 1..n
  <2>1. P \subseteq DOMAIN o /\ Cardinality(P) = n /\ o \in Seq(S)
    BY <1>0, <1>1, FirstNumbers
  <2>n. \A k \in 1..n : Nth(P, k) = k
    BY <1>1, NthOfFirst
  <2> HIDE DEF P, S
  <2>p. PickedAt(o, P) \in Seq(S) /\ Len(PickedAt(o, P)) = Cardinality(P)
    BY <2>1, PickedType
  <2>q. \A k \in 1..Cardinality(P) : PickedAt(o, P)[k] = o[Nth(P, k)]
    BY <2>1, PickedItem
  <2>2. a \in Seq(S) /\ Len(a) = n
    BY <2>1, <2>p DEF P
  <2>3. \A k \in 1..n : a[k] = o[k]
    BY <2>1, <2>q, <2>n DEF P
  <2> HIDE DEF a
  <2>4. a = o
    BY <1>0, <2>1, <2>2, <2>3, SeqEqual
  <2> QED
    BY <1>2, <2>4 DEF Indices, a
<1>4. DOMAIN s \ Range(o) = {}
  BY <1>0, <1>1 DEF Range
<1>5. Ascending({}) = <<>>
  <2>1. Places({}) /\ Cardinality({}) = 0
    BY FS_EmptySet DEF Places
  <2>2. Ascending({}) \in Seq({}) /\ Len(Ascending({})) = 0
    BY <2>1, AscendingFacts
  <2> QED
    BY <2>2, EmptySeq
<1>6. Whole(s, o) = o
  <2>1. Whole(s, o) = o \o <<>>
    BY <1>3, <1>4, <1>5 DEF Whole
  <2> QED
    BY <2>1, ConcatEmptySeq
<1> QED
  BY <1>6, GalleryIs

LEMMA PhraseKeeps ==
    ASSUME NEW s \in Seq(Nat), NEW order \in Seq(Nat)
    PROVE HoldsTheSame(Order!PhraseOrder(s, order), s)
<1> DEFINE t == Order!PhraseOrder(s, order)
           n == Len(s)
<1>1. /\ n \in Nat /\ DOMAIN s = 1..n /\ DOMAIN order = 1..Len(order) /\ Len(order) \in Nat
  BY LenProperties
<1>2. CASE Order!ToSet(order) = DOMAIN s /\ Len(order) = Len(s)
  <2>1. t = [k \in DOMAIN order |-> s[order[k]]]
    BY <1>2 DEF Order!PhraseOrder
  <2>2. \A k \in 1..n : order[k] \in 1..n
    BY <1>1, <1>2 DEF Order!ToSet
  <2>3. \A m \in 1..n : \E k \in 1..n : order[k] = m
    BY <1>1, <1>2 DEF Order!ToSet
  <2>4. order \in [1..n -> 1..n]
    <3>1. order = [k \in 1..Len(order) |-> order[k]]
      BY <1>1
    <3> QED
      BY <1>2, <2>2, <3>1
  <2>5. order \in Seq(1..n)
    <3> HIDE DEF n
    <3> QED
      BY <1>1, <2>4, FromNumbers
  <2>6. order \in Surjection(1..n, 1..n)
    BY <2>3, <2>4 DEF Surjection
  <2>7. order \in Injection(1..n, 1..n)
    BY <1>1, <2>6, FirstNumbers, FS_SurjSameCardinalityImpliesInj
  <2>8. \A k, l \in 1..n : order[k] = order[l] => k = l
    BY <2>7 DEF Injection, IsInjective
  <2> HIDE DEF t
  <2>9. IsOrder(order, Len(s))
    BY <1>2, <2>3, <2>5, <2>8 DEF IsOrder
  <2>10. HoldsTheSame(t, s)
    BY <2>1, <2>9, Permuted
  <2> QED
    BY <2>10 DEF t
<1>3. CASE ~(Order!ToSet(order) = DOMAIN s /\ Len(order) = Len(s))
  BY <1>3 DEF Order!PhraseOrder, HoldsTheSame
<1> QED
  BY <1>2, <1>3

LEMMA PhraseTakes ==
    ASSUME NEW s \in Seq(Nat), NEW o, IsOrder(o, Len(s))
    PROVE Order!PhraseOrder(s, o) = [k \in DOMAIN o |-> s[o[k]]]
<1>0. /\ o \in Seq(1..Len(s)) /\ Len(o) = Len(s)
      /\ \A m \in 1..Len(s) : \E k \in 1..Len(s) : o[k] = m
  BY DEF IsOrder
<1>1. DOMAIN s = 1..Len(s) /\ DOMAIN o = 1..Len(s) /\ \A k \in 1..Len(s) : o[k] \in 1..Len(s)
  BY <1>0, LenProperties, ElementOfSeq
<1>2. Order!ToSet(o) = DOMAIN s
  BY <1>0, <1>1 DEF Order!ToSet
<1> QED
  BY <1>0, <1>2 DEF Order!PhraseOrder

-----------------------------------------------------------------------------
(* What a push does to the server's list.                                  *)

OrderKinds == {"gallery", "phrases", "columns"}
RowOps == {"drag", "add", "remove", "backspace"}
Pushed ==
    [op : {"drag"}, order : Seq(Seq(Nat))]
      \union [op : {"add"}, column : Nat, item : Nat]
      \union [op : {"remove", "backspace"}, which : Nat]
Replied == [op : RowOps, list : Seq(Seq(Nat))]
RowFits(n, m) ==
    /\ m.op = "drag" => Len(m.order) = n
    /\ m.op = "add" => m.column \in 1..n

LEMMA PushFields ==
    ASSUME NEW m \in Pushed
    PROVE /\ m.op \in RowOps
          /\ m.op = "drag" => m.order \in Seq(Seq(Nat))
          /\ m.op = "add" => m.item \in Nat /\ m.column \in Nat
          /\ m.op \in {"remove", "backspace"} => m.which \in Nat
BY DEF Pushed, RowOps

\* What is left of every column.
KeptOf(X, T) == [c \in DOMAIN X |-> Kept(X[c], T)]

LEMMA KeptOfFacts ==
    ASSUME NEW S, NEW X \in Seq(Seq(S)), NEW T
    PROVE /\ KeptOf(X, T) \in Seq(Seq(S)) /\ Len(KeptOf(X, T)) = Len(X)
          /\ Order!In(KeptOf(X, T)) = Order!In(X) \cap T
          /\ OneEach(X) => OneEach(KeptOf(X, T))
<1> DEFINE Y == KeptOf(X, T)
           n == Len(X)
           P(c) == {i \in DOMAIN X[c] : X[c][i] \in T}
<1>1. /\ n \in Nat /\ DOMAIN X = 1..n
      /\ \A c \in 1..n : X[c] \in Seq(S) /\ Len(X[c]) \in Nat /\ DOMAIN X[c] = 1..Len(X[c])
  BY PlacesAre
<1>2. \A c \in 1..n : Y[c] = Kept(X[c], T)
  BY <1>1 DEF KeptOf
<1>3. \A c \in 1..n : Kept(X[c], T) \in Seq(S)
  BY <1>1, KeptFacts
<1>4. Y \in [1..n -> Seq(S)]
  BY <1>1, <1>3 DEF KeptOf
<1> HIDE DEF Y
<1>5. Y \in Seq(Seq(S)) /\ Len(Y) = n
  <2> HIDE DEF n
  <2> QED
    BY <1>1, <1>4, FromNumbers
<1>6. \A c \in 1..n : Y[c] \in Seq(S) /\ Range(Y[c]) = Range(X[c]) \cap T
  BY <1>1, <1>2, <1>3, KeptFacts
<1>7. \A Z : Order!In(Z) = UNION {Range(Z[c]) : c \in DOMAIN Z}
  BY OrderPicked DEF Order!In
<1>8. DOMAIN Y = 1..n
  BY <1>5, <1>1, PlacesAre
<1>9. Order!In(Y) = Order!In(X) \cap T
  <2>1. \A x : x \in Order!In(Y) <=> \E c \in 1..n : x \in Range(Y[c])
    BY <1>7, <1>8
  <2>2. \A x : x \in Order!In(X) <=> \E c \in 1..n : x \in Range(X[c])
    BY <1>7, <1>1
  <2>3. \A c \in 1..n : Range(Y[c]) = Range(X[c]) \cap T
    BY <1>6
  <2> HIDE DEF n
  <2> QED
    BY <2>1, <2>2, <2>3
<1>10. ASSUME OneEach(X) PROVE OneEach(Y)
  <2> SUFFICES ASSUME NEW p \in Order!Places(Y), NEW q \in Order!Places(Y),
                      Y[p[1]][p[2]] = Y[q[1]][q[2]]
               PROVE p = q
    BY DEF OneEach
  <2>1. /\ p[1] \in 1..n /\ p[2] \in 1..Len(Y[p[1]]) /\ p = <<p[1], p[2]>>
        /\ q[1] \in 1..n /\ q[2] \in 1..Len(Y[q[1]]) /\ q = <<q[1], q[2]>>
    BY <1>5, PlacesAre
  <2>2. ASSUME NEW c \in 1..n, NEW k \in 1..Len(Y[c])
        PROVE /\ Places(P(c)) /\ Len(Y[c]) = Cardinality(P(c)) /\ P(c) \subseteq DOMAIN X[c]
              /\ Nth(P(c), k) \in P(c) /\ Y[c][k] = X[c][Nth(P(c), k)]
              /\ <<c, Nth(P(c), k)>> \in Order!Places(X)
    <3> DEFINE Q == P(c)
               s == X[c]
    <3>1. X[c] \in Seq(S) /\ P(c) \subseteq DOMAIN X[c] /\ Y[c] = PickedAt(X[c], P(c))
      BY <1>1, <1>2 DEF Kept
    <3>0. s \in Seq(S) /\ Q \subseteq DOMAIN s /\ Y[c] = PickedAt(s, Q)
      BY <3>1
    <3> HIDE DEF P, Q, s
    <3>q. Places(Q) /\ Len(Y[c]) = Cardinality(Q)
      BY <3>0, PickedType
    <3>p. k \in 1..Cardinality(Q)
      BY <3>q
    <3>r. PickedAt(s, Q)[k] = s[Nth(Q, k)] /\ Nth(Q, k) \in Q
      BY <3>0, <3>p, PickedItem
    <3>2. Places(P(c)) /\ Len(Y[c]) = Cardinality(P(c))
      BY <3>q DEF Q
    <3>3. Y[c][k] = X[c][Nth(P(c), k)] /\ Nth(P(c), k) \in P(c)
      BY <3>r, <3>0 DEF Q, s
    <3>4. Nth(P(c), k) \in 1..Len(X[c])
      BY <3>1, <3>3, <1>1
    <3>5. <<c, Nth(P(c), k)>> \in Order!Places(X)
      BY <3>4, <1>1, PlacesAre
    <3> QED
      BY <3>1, <3>2, <3>3, <3>5
  <2> HIDE DEF P
  <2> DEFINE u == Nth(P(p[1]), p[2])
             v == Nth(P(q[1]), q[2])
  <2>3. /\ Y[p[1]][p[2]] = X[p[1]][u] /\ <<p[1], u>> \in Order!Places(X)
        /\ Y[q[1]][q[2]] = X[q[1]][v] /\ <<q[1], v>> \in Order!Places(X)
    BY <2>1, <2>2
  <2>4. <<p[1], u>> = <<q[1], v>>
    <3> HIDE DEF u, v
    <3> QED
      BY <2>3, <1>10 DEF OneEach
  <2>5. p[1] = q[1] /\ u = v
    BY <2>4
  <2>6. p[2] = q[2]
    <3> DEFINE Q == P(p[1])
               k == p[2]
               l == q[2]
    <3>1. Places(Q) /\ k \in 1..Cardinality(Q) /\ l \in 1..Cardinality(Q) /\ Nth(Q, k) = Nth(Q, l)
      BY <2>1, <2>2, <2>5
    <3> HIDE DEF Q, k, l
    <3>2. Rank(Q, Nth(Q, k)) = k /\ Rank(Q, Nth(Q, l)) = l
      BY <3>1, NthFacts
    <3>3. k = l
      BY <3>1, <3>2
    <3> QED
      BY <3>3 DEF k, l
  <2> QED
    BY <2>1, <2>5, <2>6
<1> QED
  BY <1>5, <1>9, <1>10 DEF Y

\* An item put at the end of a column.
AppendedTo(X, c, e) == [X EXCEPT ![c] = Append(@, e)]

LEMMA AppendedToFacts ==
    ASSUME NEW S, NEW X \in Seq(Seq(S)), NEW c \in 1..Len(X), NEW e \in S
    PROVE /\ AppendedTo(X, c, e) \in Seq(Seq(S)) /\ Len(AppendedTo(X, c, e)) = Len(X)
          /\ Order!In(AppendedTo(X, c, e)) = Order!In(X) \union {e}
          /\ OneEach(X) /\ e \notin Order!In(X) => OneEach(AppendedTo(X, c, e))
<1> DEFINE Y == AppendedTo(X, c, e)
           n == Len(X)
           r == Append(X[c], e)
<1>1. /\ n \in Nat /\ DOMAIN X = 1..n
      /\ \A d \in 1..n : X[d] \in Seq(S) /\ Len(X[d]) \in Nat /\ DOMAIN X[d] = 1..Len(X[d])
  BY PlacesAre
<1>2. /\ r \in Seq(S) /\ Len(r) = Len(X[c]) + 1 /\ r[Len(X[c]) + 1] = e
      /\ \A k \in 1..Len(X[c]) : r[k] = X[c][k]
  BY <1>1, Added
<1> HIDE DEF r
<1>3. Y[c] = r /\ \A d \in 1..n : d # c => Y[d] = X[d]
  BY <1>1 DEF AppendedTo, r
<1>4. DOMAIN Y = 1..n
  BY <1>1 DEF AppendedTo
<1>5. Y \in [1..n -> Seq(S)]
  <2>1. \A d \in 1..n : Y[d] \in Seq(S)
    BY <1>1, <1>2, <1>3
  <2>2. Y = [d \in 1..n |-> Y[d]]
    BY <1>4 DEF AppendedTo
  <2> HIDE DEF Y
  <2> QED
    BY <2>1, <2>2
<1> HIDE DEF Y
<1>6. Y \in Seq(Seq(S)) /\ Len(Y) = n
  <2> HIDE DEF n
  <2> QED
    BY <1>1, <1>5, FromNumbers
<1>7. /\ \A p \in Order!Places(Y) : /\ p[1] \in 1..n /\ p[2] \in 1..Len(Y[p[1]])
                                    /\ p = <<p[1], p[2]>>
      /\ \A d \in 1..n : \A k \in 1..Len(Y[d]) : <<d, k>> \in Order!Places(Y)
  BY <1>6, PlacesAre
<1>8. /\ \A p \in Order!Places(X) : /\ p[1] \in 1..n /\ p[2] \in 1..Len(X[p[1]])
                                    /\ p = <<p[1], p[2]>>
      /\ \A d \in 1..n : \A k \in 1..Len(X[d]) : <<d, k>> \in Order!Places(X)
  BY PlacesAre
<1> DEFINE z == <<c, Len(X[c]) + 1>>
<1>9. z \in Order!Places(Y) /\ Y[z[1]][z[2]] = e
  <2>1. Len(X[c]) + 1 \in 1..Len(Y[c])
    BY <1>1, <1>2, <1>3
  <2>2. z[1] = c /\ z[2] = Len(X[c]) + 1
    OBVIOUS
  <2> QED
    BY <2>1, <2>2, <1>7, <1>2, <1>3
<1>10. ASSUME NEW p \in Order!Places(X) PROVE p \in Order!Places(Y) /\ Y[p[1]][p[2]] = X[p[1]][p[2]]
  <2>1. p[1] \in 1..n /\ p[2] \in 1..Len(X[p[1]]) /\ p = <<p[1], p[2]>> /\ Len(X[p[1]]) \in Nat
    BY <1>8, <1>1
  <2>2. p[2] \in 1..Len(Y[p[1]]) /\ Y[p[1]][p[2]] = X[p[1]][p[2]]
    <3>1. CASE p[1] = c
      BY <2>1, <3>1, <1>2, <1>3
    <3>2. CASE p[1] # c
      BY <2>1, <3>2, <1>3
    <3> QED
      BY <3>1, <3>2
  <2> QED
    BY <2>1, <2>2, <1>7
<1>11. ASSUME NEW p \in Order!Places(Y), p # z PROVE p \in Order!Places(X)
  <2>1. p[1] \in 1..n /\ p[2] \in 1..Len(Y[p[1]]) /\ p = <<p[1], p[2]>> /\ Len(X[p[1]]) \in Nat
    BY <1>7, <1>1
  <2>2. p[2] \in 1..Len(X[p[1]])
    <3>1. CASE p[1] = c
      <4>1. p[2] # Len(X[c]) + 1
        BY <2>1, <3>1, <1>11
      <4>2. Len(Y[p[1]]) = Len(X[p[1]]) + 1
        BY <3>1, <1>2, <1>3
      <4> QED
        BY <2>1, <3>1, <4>1, <4>2
    <3>2. CASE p[1] # c
      BY <2>1, <3>2, <1>3
    <3> QED
      BY <3>1, <3>2
  <2> QED
    BY <2>1, <2>2, <1>8
<1> HIDE DEF z
<1>12. Order!In(Y) = Order!In(X) \union {e}
  <2>1. \A x : x \in Order!In(Y) <=> \E p \in Order!Places(Y) : x = Y[p[1]][p[2]]
    BY <1>6, InIs
  <2>2. \A x : x \in Order!In(X) <=> \E p \in Order!Places(X) : x = X[p[1]][p[2]]
    BY InIs
  <2>3. ASSUME NEW x \in Order!In(Y) PROVE x \in Order!In(X) \union {e}
    <3>1. PICK p \in Order!Places(Y) : x = Y[p[1]][p[2]]
      BY <2>1, <2>3
    <3>2. CASE p = z
      BY <3>1, <3>2, <1>9
    <3>3. CASE p # z
      BY <3>1, <3>3, <1>10, <1>11, <2>2
    <3> QED
      BY <3>2, <3>3
  <2>4. ASSUME NEW x \in Order!In(X) \union {e} PROVE x \in Order!In(Y)
    BY <2>1, <2>2, <1>9, <1>10, <2>4
  <2> QED
    BY <2>3, <2>4
<1>13. ASSUME OneEach(X), e \notin Order!In(X) PROVE OneEach(Y)
  <2>1. \A p \in Order!Places(X) : X[p[1]][p[2]] # e
    BY InIs, <1>13
  <2> SUFFICES ASSUME NEW p \in Order!Places(Y), NEW q \in Order!Places(Y),
                      Y[p[1]][p[2]] = Y[q[1]][q[2]]
               PROVE p = q
    BY DEF OneEach
  <2>2. CASE p = z /\ q = z
    BY <2>2
  <2>3. CASE p = z /\ q # z
    BY <2>1, <2>3, <1>9, <1>10, <1>11
  <2>4. CASE p # z /\ q = z
    BY <2>1, <2>4, <1>9, <1>10, <1>11
  <2>5. CASE p # z /\ q # z
    BY <2>5, <1>10, <1>11, <1>13 DEF OneEach
  <2> QED
    BY <2>2, <2>3, <2>4, <2>5
<1> QED
  BY <1>6, <1>12, <1>13 DEF Y

-----------------------------------------------------------------------------
AddedTo(kd, X, c, e) ==
    IF kd = "phrases" /\ (e \in Range(X[c]) \/ Len(X[c]) >= MaxRows) THEN X
    ELSE AppendedTo(X, c, e)
Taken1(s, i) == IF i \in DOMAIN s THEN Order!RemoveAt(s, i) ELSE s
Obeyed(kd, X, m) ==
    CASE m.op = "drag" ->
           (CASE kd = "gallery" -> <<Order!GalleryOrder(X[1], m.order[1])>>
              [] kd = "phrases" -> <<Order!PhraseOrder(X[1], m.order[1])>>
              [] OTHER -> KeptOf(m.order, Order!In(X)))
      [] m.op = "add" -> AddedTo(kd, X, m.column, m.item)
      [] m.op \in {"remove", "backspace"} ->
           IF kd = "columns" THEN KeptOf(X, Order!In(X) \ {m.which})
           ELSE <<Taken1(X[1], m.which)>>

LEMMA AddedIs ==
    ASSUME NEW X, NEW c, NEW e
    PROVE Order!Added(X, c, e) = AddedTo(kind, X, c, e)
BY OrderPicked DEF Order!Added, AddedTo, AppendedTo

LEMMA HandledIs ==
    ASSUME NEW X, NEW m
    PROVE Order!Handled(X, m) = Obeyed(kind, X, m)
<1>1. Order!Added(X, m.column, m.item) = AddedTo(kind, X, m.column, m.item)
  BY AddedIs
<1>2. Order!RebuildColumns(X, m.order) = KeptOf(m.order, Order!In(X))
  BY OrderPicked DEF Order!RebuildColumns, KeptOf
<1>3. [c \in DOMAIN X |-> Order!Kept(X[c], Order!In(X) \ {m.which})]
        = KeptOf(X, Order!In(X) \ {m.which})
  BY OrderPicked DEF KeptOf
<1>4. Order!DeletedAt(X[1], m.which) = Taken1(X[1], m.which)
  BY DEF Order!DeletedAt, Taken1
<1> QED
  BY <1>1, <1>2, <1>3, <1>4, Zenon DEF Order!Handled, Obeyed, Order!Reordered

LEMMA OneInside ==
    ASSUME NEW S, NEW s \in Seq(S)
    PROVE <<s>> \in Seq(Seq(S)) /\ Len(<<s>>) = 1 /\ <<s>>[1] = s
OBVIOUS

LEMMA Taken1Type ==
    ASSUME NEW s \in Seq(Nat), NEW i
    PROVE Taken1(s, i) \in Seq(Nat)
<1>1. CASE i \in DOMAIN s
  <2>1. i \in 1..Len(s)
    BY <1>1, LenProperties
  <2> QED
    BY <1>1, <2>1, RemovedAt DEF Taken1
<1>2. CASE i \notin DOMAIN s
  BY <1>2 DEF Taken1
<1> QED
  BY <1>1, <1>2

LEMMA AddedToType ==
    ASSUME NEW kd, NEW X \in Seq(Seq(Nat)), NEW c \in 1..Len(X), NEW e \in Nat
    PROVE AddedTo(kd, X, c, e) \in Seq(Seq(Nat)) /\ Len(AddedTo(kd, X, c, e)) = Len(X)
BY AppendedToFacts DEF AddedTo

\* A list of n columns.
Listed(n, X) == X \in Seq(Seq(Nat)) /\ Len(X) = n /\ n \in Nat

LEMMA DoneType ==
    ASSUME NEW kd \in OrderKinds, NEW n \in Nat, kd # "columns" => n = 1,
           NEW X, Listed(n, X), NEW m \in Pushed, RowFits(n, m)
    PROVE Listed(n, Obeyed(kd, X, m))
<1>0. X \in Seq(Seq(Nat)) /\ Len(X) = n
  BY DEF Listed
<1>1. CASE m.op = "drag"
  <2>1. m.order \in Seq(Seq(Nat)) /\ Len(m.order) = n
    BY <1>1, PushFields DEF RowFits
  <2>2. CASE kd = "columns"
    <3>1. Obeyed(kd, X, m) = KeptOf(m.order, Order!In(X))
      BY <1>1, <2>2 DEF Obeyed
    <3> QED
      BY <2>1, <3>1, KeptOfFacts DEF Listed
  <2>3. CASE kd # "columns"
    <3>1. n = 1 /\ X[1] \in Seq(Nat) /\ m.order[1] \in Seq(Nat)
      BY <1>0, <2>1, <2>3, OneColumn
    <3>2. CASE kd = "gallery"
      <4> DEFINE g == Order!GalleryOrder(X[1], m.order[1])
      <4>1. g \in Seq(Nat)
        BY <3>1, GalleryKeeps DEF HoldsTheSame
      <4>2. Obeyed(kd, X, m) = <<g>>
        BY <1>1, <3>2 DEF Obeyed
      <4> HIDE DEF g
      <4> QED
        BY <3>1, <4>1, <4>2, OneInside DEF Listed
    <3>3. CASE kd = "phrases"
      <4> DEFINE g == Order!PhraseOrder(X[1], m.order[1])
      <4>1. g \in Seq(Nat)
        BY <3>1, PhraseKeeps DEF HoldsTheSame
      <4>2. Obeyed(kd, X, m) = <<g>>
        BY <1>1, <3>3 DEF Obeyed
      <4> HIDE DEF g
      <4> QED
        BY <3>1, <4>1, <4>2, OneInside DEF Listed
    <3> QED
      BY <2>3, <3>2, <3>3 DEF OrderKinds
  <2> QED
    BY <2>2, <2>3
<1>2. CASE m.op = "add"
  <2>1. m.item \in Nat /\ m.column \in 1..n
    BY <1>2, PushFields DEF RowFits
  <2>2. Obeyed(kd, X, m) = AddedTo(kd, X, m.column, m.item)
    BY <1>2 DEF Obeyed
  <2> DEFINE c == m.column
             e == m.item
  <2> HIDE DEF c, e
  <2>3. c \in 1..Len(X) /\ e \in Nat /\ Obeyed(kd, X, m) = AddedTo(kd, X, c, e)
    BY <2>1, <2>2, <1>0 DEF c, e
  <2>4. AddedTo(kd, X, c, e) \in Seq(Seq(Nat)) /\ Len(AddedTo(kd, X, c, e)) = Len(X)
    BY <2>3, <1>0, AddedToType
  <2> QED
    BY <2>3, <2>4, <1>0 DEF Listed
<1>3. CASE m.op \in {"remove", "backspace"}
  <2>1. CASE kd = "columns"
    <3>1. Obeyed(kd, X, m) = KeptOf(X, Order!In(X) \ {m.which})
      BY <1>3, <2>1 DEF Obeyed
    <3> QED
      BY <1>0, <3>1, KeptOfFacts DEF Listed
  <2>2. CASE kd # "columns"
    <3>1. n = 1 /\ X[1] \in Seq(Nat)
      BY <1>0, <2>2, OneColumn
    <3> DEFINE g == Taken1(X[1], m.which)
    <3>2. g \in Seq(Nat)
      BY <3>1, Taken1Type
    <3>3. Obeyed(kd, X, m) = <<g>>
      BY <1>3, <2>2 DEF Obeyed
    <3> HIDE DEF g
    <3> QED
      BY <3>1, <3>2, <3>3, OneInside DEF Listed
  <2> QED
    BY <2>1, <2>2
<1> QED
  BY <1>1, <1>2, <1>3, PushFields DEF RowOps

-----------------------------------------------------------------------------
(* Rows, and what a page reports of them.                                  *)

OrderRow == [item : Nat, at : Nat]
Table(n, R) == R \in Seq(Seq(OrderRow)) /\ Len(R) = n /\ n \in Nat

\* A table read cell by cell.
Read(R, G, T) ==
    /\ G = [c \in DOMAIN R |-> [k \in DOMAIN R[c] |-> G[c][k]]]
    /\ \A c \in 1..Len(R) : \A k \in 1..Len(R[c]) : G[c][k] \in T

LEMMA CellByCell ==
    ASSUME NEW S, NEW T, NEW R \in Seq(Seq(S)), NEW G, Read(R, G, T)
    PROVE /\ G \in Seq(Seq(T)) /\ Len(G) = Len(R)
          /\ \A c \in 1..Len(R) : Len(G[c]) = Len(R[c])
          /\ Order!Places(G) = Order!Places(R)
<1> DEFINE n == Len(R)
<1>0. /\ G = [c \in DOMAIN R |-> [k \in DOMAIN R[c] |-> G[c][k]]]
      /\ \A c \in 1..n : \A k \in 1..Len(R[c]) : G[c][k] \in T
  BY DEF Read
<1>1. /\ n \in Nat /\ DOMAIN R = 1..n
      /\ \A c \in 1..n : R[c] \in Seq(S) /\ Len(R[c]) \in Nat /\ DOMAIN R[c] = 1..Len(R[c])
  BY PlacesAre
<1>2. DOMAIN G = 1..n /\ \A c \in 1..n : G[c] = [k \in 1..Len(R[c]) |-> G[c][k]]
  <2> DEFINE H == [c \in DOMAIN R |-> [k \in DOMAIN R[c] |-> G[c][k]]]
  <2>1. DOMAIN H = 1..n /\ \A c \in 1..n : H[c] = [k \in 1..Len(R[c]) |-> G[c][k]]
    BY <1>1
  <2>2. G = H
    BY <1>0
  <2> HIDE DEF H
  <2> QED
    BY <2>1, <2>2
<1>3. ASSUME NEW c \in 1..n PROVE G[c] \in Seq(T) /\ Len(G[c]) = Len(R[c]) /\ DOMAIN G[c] = 1..Len(R[c])
  <2> DEFINE l == Len(R[c])
             r == G[c]
  <2>1. l \in Nat /\ r \in [1..l -> T]
    BY <1>0, <1>1, <1>2
  <2> HIDE DEF l, r
  <2>2. r \in Seq(T) /\ Len(r) = l /\ DOMAIN r = 1..l
    BY <2>1, FromNumbers
  <2> QED
    BY <2>2 DEF l, r
<1>4. G \in [1..n -> Seq(T)]
  <2>1. G = [c \in 1..n |-> G[c]]
    <3> DEFINE H == [c \in DOMAIN R |-> [k \in DOMAIN R[c] |-> G[c][k]]]
    <3>1. H = [c \in DOMAIN H |-> H[c]]
      BY Zenon
    <3>2. G = H
      BY <1>0
    <3> HIDE DEF H
    <3> QED
      BY <3>1, <3>2, <1>2
  <2> QED
    BY <2>1, <1>3, Zenon
<1>5. G \in Seq(Seq(T)) /\ Len(G) = n
  <2> HIDE DEF n
  <2> QED
    BY <1>1, <1>4, FromNumbers
<1>6. Order!Places(G) = Order!Places(R)
  <2>1. Order!Places(G) = UNION {{c} \X (1..Len(R[c])) : c \in 1..n}
    BY <1>2, <1>3 DEF Order!Places
  <2>2. Order!Places(R) = UNION {{c} \X (1..Len(R[c])) : c \in 1..n}
    BY <1>1 DEF Order!Places
  <2> QED
    BY <2>1, <2>2
<1> QED
  BY <1>3, <1>5, <1>6

LEMMA RowFields ==
    ASSUME NEW r \in OrderRow
    PROVE r.item \in Nat /\ r.at \in Nat
BY DEF OrderRow

LEMMA ItemsFacts ==
    ASSUME NEW R \in Seq(Seq(OrderRow))
    PROVE /\ Listed(Len(R), Order!Items(R))
          /\ \A c \in 1..Len(R) : Len(Order!Items(R)[c]) = Len(R[c])
          /\ Order!Places(Order!Items(R)) = Order!Places(R)
          /\ \A c \in 1..Len(R) : \A k \in 1..Len(R[c]) : Order!Items(R)[c][k] = R[c][k].item
<1> DEFINE G == Order!Items(R)
<1>1. /\ Len(R) \in Nat /\ DOMAIN R = 1..Len(R)
      /\ \A c \in 1..Len(R) : Len(R[c]) \in Nat /\ DOMAIN R[c] = 1..Len(R[c])
  BY PlacesAre
<1>2. \A c \in 1..Len(R) : \A k \in 1..Len(R[c]) : G[c][k] = R[c][k].item
  BY <1>1 DEF Order!Items
<1>3. \A c \in 1..Len(R) : \A k \in 1..Len(R[c]) : G[c][k] \in Nat
  <2>1. \A c \in 1..Len(R) : \A k \in 1..Len(R[c]) : R[c][k] \in OrderRow
    BY <1>1, PlacesAre, ElementOfSeq
  <2> QED
    BY <2>1, <1>2, RowFields
<1>4. G = [c \in DOMAIN R |-> [k \in DOMAIN R[c] |-> G[c][k]]]
  BY <1>1, <1>2 DEF Order!Items
<1>r. Read(R, G, Nat)
  BY <1>3, <1>4, Zenon DEF Read
<1> HIDE DEF G
<1>5. /\ G \in Seq(Seq(Nat)) /\ Len(G) = Len(R)
      /\ \A c \in 1..Len(R) : Len(G[c]) = Len(R[c])
      /\ Order!Places(G) = Order!Places(R)
  BY <1>r, CellByCell
<1> QED
  BY <1>1, <1>2, <1>5 DEF G, Listed

LEMMA RowsFacts ==
    ASSUME NEW X \in Seq(Seq(Nat))
    PROVE /\ Table(Len(X), Order!Rows(X))
          /\ Order!Places(Order!Rows(X)) = Order!Places(X)
          /\ \A c \in 1..Len(X) : Len(Order!Rows(X)[c]) = Len(X[c])
          /\ \A c \in 1..Len(X) : \A k \in 1..Len(X[c]) :
                Order!Rows(X)[c][k].item = X[c][k] /\ Order!Rows(X)[c][k].at = k
<1> DEFINE G == Order!Rows(X)
<1>1. /\ Len(X) \in Nat /\ DOMAIN X = 1..Len(X)
      /\ \A c \in 1..Len(X) : Len(X[c]) \in Nat /\ DOMAIN X[c] = 1..Len(X[c])
  BY PlacesAre
<1>2. ASSUME NEW c \in 1..Len(X), NEW k \in 1..Len(X[c])
      PROVE G[c][k] = [item |-> X[c][k], at |-> k] /\ G[c][k] \in OrderRow
            /\ G[c][k].item = X[c][k] /\ G[c][k].at = k
  <2>1. G[c][k] = [item |-> X[c][k], at |-> k]
    BY <1>1 DEF Order!Rows
  <2>2. X[c][k] \in Nat /\ k \in Nat
    BY <1>1, ElementOfSeq
  <2>3. [item |-> X[c][k], at |-> k] \in OrderRow
    BY <2>2 DEF OrderRow
  <2> QED
    BY <2>1, <2>3
<1>3. \A c \in 1..Len(X) : \A k \in 1..Len(X[c]) : G[c][k] \in OrderRow
  BY <1>2
<1>4. G = [c \in DOMAIN X |-> [k \in DOMAIN X[c] |-> G[c][k]]]
  BY <1>1, <1>2 DEF Order!Rows
<1>r. Read(X, G, OrderRow)
  BY <1>3, <1>4, Zenon DEF Read
<1>6. \A c \in 1..Len(X) : \A k \in 1..Len(X[c]) : G[c][k].item = X[c][k] /\ G[c][k].at = k
  BY <1>2
<1> HIDE DEF G
<1>5. /\ G \in Seq(Seq(OrderRow)) /\ Len(G) = Len(X)
      /\ \A c \in 1..Len(X) : Len(G[c]) = Len(X[c])
      /\ Order!Places(G) = Order!Places(X)
  BY <1>r, CellByCell
<1> QED
  BY <1>1, <1>6, <1>5 DEF G, Table

\* Two lists of the same shape with the same cells.
LEMMA SameCells ==
    ASSUME NEW X \in Seq(Seq(Nat)), NEW Y \in Seq(Seq(Nat)), Len(X) = Len(Y),
           \A c \in 1..Len(X) : Len(X[c]) = Len(Y[c]),
           \A c \in 1..Len(X) : \A k \in 1..Len(X[c]) : X[c][k] = Y[c][k]
    PROVE X = Y
<1>1. \A c \in 1..Len(X) : X[c] \in Seq(Nat) /\ Y[c] \in Seq(Nat)
  BY ElementOfSeq
<1>2. \A c \in 1..Len(X) : X[c] = Y[c]
  BY <1>1, SeqEqual
<1> QED
  BY <1>2, SeqEqual

LEMMA ItemsOfRows ==
    ASSUME NEW X \in Seq(Seq(Nat))
    PROVE Order!Items(Order!Rows(X)) = X
<1> DEFINE R == Order!Rows(X)
           Y == Order!Items(R)
<1>1. /\ R \in Seq(Seq(OrderRow)) /\ Len(R) = Len(X)
      /\ \A c \in 1..Len(X) : Len(R[c]) = Len(X[c])
      /\ \A c \in 1..Len(X) : \A k \in 1..Len(X[c]) : R[c][k].item = X[c][k]
  BY RowsFacts DEF Table
<1> HIDE DEF R
<1>2. /\ Y \in Seq(Seq(Nat)) /\ Len(Y) = Len(R)
      /\ \A c \in 1..Len(R) : Len(Y[c]) = Len(R[c])
      /\ \A c \in 1..Len(R) : \A k \in 1..Len(R[c]) : Y[c][k] = R[c][k].item
  BY <1>1, ItemsFacts DEF Listed
<1> HIDE DEF Y
<1>3. Y = X
  <2>1. Len(Y) = Len(X) /\ \A c \in 1..Len(Y) : Len(Y[c]) = Len(X[c])
    BY <1>1, <1>2
  <2>2. \A c \in 1..Len(Y) : \A k \in 1..Len(Y[c]) : Y[c][k] = X[c][k]
    BY <1>1, <1>2
  <2>3. Y \in Seq(Seq(Nat))
    BY <1>2
  <2> QED
    BY <2>1, <2>2, <2>3, SameCells
<1> QED
  BY <1>3 DEF Y, R

\* What a page of rows reports, by their rendered positions.
PositionsOf(R) == [c \in DOMAIN R |-> [k \in DOMAIN R[c] |-> R[c][k].at]]

LEMMA PositionsFacts ==
    ASSUME NEW R \in Seq(Seq(OrderRow))
    PROVE /\ Listed(Len(R), PositionsOf(R))
          /\ \A c \in 1..Len(R) : Len(PositionsOf(R)[c]) = Len(R[c])
          /\ \A c \in 1..Len(R) : \A k \in 1..Len(R[c]) : PositionsOf(R)[c][k] = R[c][k].at
<1> DEFINE G == PositionsOf(R)
<1>1. /\ Len(R) \in Nat /\ DOMAIN R = 1..Len(R)
      /\ \A c \in 1..Len(R) : Len(R[c]) \in Nat /\ DOMAIN R[c] = 1..Len(R[c])
  BY PlacesAre
<1>2. \A c \in 1..Len(R) : \A k \in 1..Len(R[c]) : G[c][k] = R[c][k].at
  BY <1>1 DEF PositionsOf
<1>3. \A c \in 1..Len(R) : \A k \in 1..Len(R[c]) : G[c][k] \in Nat
  <2>1. \A c \in 1..Len(R) : \A k \in 1..Len(R[c]) : R[c][k] \in OrderRow
    BY <1>1, PlacesAre, ElementOfSeq
  <2> QED
    BY <2>1, <1>2, RowFields
<1>4. G = [c \in DOMAIN R |-> [k \in DOMAIN R[c] |-> G[c][k]]]
  BY <1>1, <1>2 DEF PositionsOf
<1>r. Read(R, G, Nat)
  BY <1>3, <1>4, Zenon DEF Read
<1> HIDE DEF G
<1>5. /\ G \in Seq(Seq(Nat)) /\ Len(G) = Len(R)
      /\ \A c \in 1..Len(R) : Len(G[c]) = Len(R[c])
      /\ Order!Places(G) = Order!Places(R)
  BY <1>r, CellByCell
<1> QED
  BY <1>1, <1>2, <1>5 DEF G, Listed

LEMMA ReportIs ==
    ASSUME NEW R
    PROVE Order!Report(R) = IF kind = "columns" THEN Order!Items(R) ELSE PositionsOf(R)
BY DEF Order!Report, PositionsOf

-----------------------------------------------------------------------------
(* What is on its way.                                                     *)

GoingUp(n, u) == u \in Seq(Pushed) /\ \A k \in 1..Len(u) : RowFits(n, u[k])
ComingDown(n, d) == d \in Seq(Replied) /\ \A k \in 1..Len(d) : Listed(n, d[k].list)
OrderTyped(kd, n, h, w, s, c, a, u, d) ==
    /\ kd \in OrderKinds /\ n \in Nat \ {0} /\ (kd # "columns" => n = 1)
    /\ Listed(n, h) /\ Listed(n, w) /\ Table(n, s) /\ c \in Nat /\ a \in Nat
    /\ GoingUp(n, u) /\ ComingDown(n, d)

LEMMA UpAdded ==
    ASSUME NEW n, NEW u, GoingUp(n, u), NEW m \in Pushed, RowFits(n, m)
    PROVE /\ GoingUp(n, Append(u, m)) /\ Len(u) \in Nat
          /\ Len(Append(u, m)) = Len(u) + 1 /\ Append(u, m)[Len(u) + 1] = m
          /\ \A k \in 1..Len(u) : Append(u, m)[k] = u[k]
<1> DEFINE v == Append(u, m)
<1>1. u \in Seq(Pushed) /\ Len(u) \in Nat /\ \A k \in 1..Len(u) : RowFits(n, u[k])
  BY LenProperties DEF GoingUp
<1>2. /\ v \in Seq(Pushed) /\ Len(v) = Len(u) + 1 /\ v[Len(u) + 1] = m
      /\ \A k \in 1..Len(u) : v[k] = u[k]
  BY <1>1, Added
<1> HIDE DEF v
<1>3. ASSUME NEW k \in 1..Len(v) PROVE RowFits(n, v[k])
  <2>1. CASE k \in 1..Len(u)
    BY <2>1, <1>1, <1>2
  <2>2. CASE k = Len(u) + 1
    BY <2>2, <1>2
  <2> QED
    BY <2>1, <2>2, <1>1, <1>2
<1> QED
  BY <1>1, <1>2, <1>3 DEF GoingUp, v

LEMMA UpTaken ==
    ASSUME NEW n, NEW u, GoingUp(n, u), u # <<>>
    PROVE /\ Head(u) \in Pushed /\ RowFits(n, Head(u)) /\ Head(u) = u[1] /\ GoingUp(n, Tail(u))
          /\ Len(u) \in Nat /\ Len(u) >= 1 /\ Len(Tail(u)) = Len(u) - 1
          /\ \A k \in 1..Len(Tail(u)) : k + 1 \in 1..Len(u) /\ Tail(u)[k] = u[k + 1]
<1> DEFINE v == Tail(u)
<1>1. u \in Seq(Pushed) /\ \A k \in 1..Len(u) : RowFits(n, u[k])
  BY DEF GoingUp
<1>2. /\ Head(u) \in Pushed /\ Head(u) = u[1] /\ v \in Seq(Pushed)
      /\ Len(u) \in Nat /\ Len(u) >= 1 /\ Len(v) = Len(u) - 1
      /\ \A k \in 1..Len(v) : k + 1 \in 1..Len(u) /\ v[k] = u[k + 1]
  BY <1>1, Taken
<1>3. RowFits(n, u[1])
  BY <1>1, <1>2
<1> HIDE DEF v
<1>4. GoingUp(n, v)
  BY <1>1, <1>2 DEF GoingUp
<1> QED
  BY <1>2, <1>3, <1>4 DEF v

LEMMA DownAdded ==
    ASSUME NEW n, NEW d, ComingDown(n, d), NEW m \in Replied, Listed(n, m.list)
    PROVE /\ ComingDown(n, Append(d, m)) /\ Len(d) \in Nat /\ Append(d, m) # <<>>
          /\ Len(Append(d, m)) = Len(d) + 1 /\ Append(d, m)[Len(d) + 1] = m
          /\ \A k \in 1..Len(d) : Append(d, m)[k] = d[k]
<1> DEFINE v == Append(d, m)
<1>1. d \in Seq(Replied) /\ Len(d) \in Nat /\ \A k \in 1..Len(d) : Listed(n, d[k].list)
  BY LenProperties DEF ComingDown
<1>2. /\ v \in Seq(Replied) /\ Len(v) = Len(d) + 1 /\ v[Len(d) + 1] = m /\ v # <<>>
      /\ \A k \in 1..Len(d) : v[k] = d[k]
  BY <1>1, Added
<1> HIDE DEF v
<1>3. ASSUME NEW k \in 1..Len(v) PROVE Listed(n, v[k].list)
  <2>1. CASE k \in 1..Len(d)
    BY <2>1, <1>1, <1>2
  <2>2. CASE k = Len(d) + 1
    BY <2>2, <1>2
  <2> QED
    BY <2>1, <2>2, <1>1, <1>2
<1> QED
  BY <1>1, <1>2, <1>3 DEF ComingDown, v

LEMMA DownTaken ==
    ASSUME NEW n, NEW d, ComingDown(n, d), d # <<>>
    PROVE /\ Head(d) \in Replied /\ Listed(n, Head(d).list) /\ Head(d) = d[1]
          /\ ComingDown(n, Tail(d))
          /\ Len(d) \in Nat /\ Len(d) >= 1 /\ Len(Tail(d)) = Len(d) - 1
          /\ \A k \in 1..Len(Tail(d)) : k + 1 \in 1..Len(d) /\ Tail(d)[k] = d[k + 1]
<1> DEFINE v == Tail(d)
<1>1. d \in Seq(Replied) /\ \A k \in 1..Len(d) : Listed(n, d[k].list)
  BY DEF ComingDown
<1>2. /\ Head(d) \in Replied /\ Head(d) = d[1] /\ v \in Seq(Replied)
      /\ Len(d) \in Nat /\ Len(d) >= 1 /\ Len(v) = Len(d) - 1
      /\ \A k \in 1..Len(v) : k + 1 \in 1..Len(d) /\ v[k] = d[k + 1]
  BY <1>1, Taken
<1>3. Listed(n, d[1].list)
  BY <1>1, <1>2
<1> HIDE DEF v
<1>4. ComingDown(n, v)
  BY <1>1, <1>2 DEF ComingDown
<1> QED
  BY <1>2, <1>3, <1>4 DEF v

-----------------------------------------------------------------------------
(* What each of the editor's acts is.                                      *)

PushOf(m) ==
    /\ orderUp' = Append(orderUp, m) /\ orderActs' = orderActs + 1
    /\ orderRaced' = (orderRaced \/ orderUp # <<>> \/ orderDown # <<>>)
    /\ kind' = kind /\ held' = held /\ orderDown' = orderDown

LEMMA PushIs ==
    ASSUME NEW m, Order!Push(m)
    PROVE PushOf(m)
BY DEF Order!Push, PushOf

Dragging(X, a, f, c, i, Y) ==
    /\ a \in 1..Len(X) /\ f \in 1..Len(X[a]) /\ c \in 1..Len(X)
    /\ i \in 1..(Len(Order!Without(<<a, f>>, X)[c]) + 1)
    /\ Y = [Order!Without(<<a, f>>, X) EXCEPT
               ![c] = Order!InsertAt(Order!Without(<<a, f>>, X)[c], i, X[a][f])]
LEMMA DragMade ==
    ASSUME NEW S, NEW X \in Seq(Seq(S)), NEW a, NEW f, NEW c, NEW i, NEW Y,
           Dragging(X, a, f, c, i, Y)
    PROVE Dragged(S, X, Y)
<1> DEFINE rest == Order!Without(<<a, f>>, X)
<1>1. /\ a \in 1..Len(X) /\ f \in 1..Len(X[a]) /\ c \in 1..Len(X)
      /\ i \in 1..(Len(rest[c]) + 1)
      /\ Y = [rest EXCEPT ![c] = Order!InsertAt(rest[c], i, X[a][f])]
  BY DEF Dragging
<1>2. rest = Order!Without(<<a, f>>, X)
  OBVIOUS
<1>3. Taking(S, X, a, f, rest)
  BY <1>1, WithoutFacts
<1> HIDE DEF rest
<1>4. /\ rest \in Seq(Seq(S)) /\ Len(rest) = Len(X) /\ X[a][f] \in S
  <2>1. <<a, f>> \in Order!Places(X)
    BY <1>1, PlacesAre
  <2>2. X[a][f] \in S
    BY <2>1, PlacesAre
  <2> QED
    BY <2>2, <1>3 DEF Taking
<1>5. Putting(S, rest, c, i, X[a][f], Y)
  <2> DEFINE e == X[a][f]
             t == [rest EXCEPT ![c] = Order!InsertAt(rest[c], i, e)]
  <2>1. c \in 1..Len(rest) /\ e \in S /\ Y = t
    BY <1>1, <1>4
  <2> HIDE DEF e
  <2>2. Putting(S, rest, c, i, e, t)
    BY <1>1, <1>4, <2>1, DropFacts
  <2> QED
    BY <2>1, <2>2 DEF e
<1>6. Moving(S, X, a, f, c, i, rest, Y)
  BY <1>1, <1>3, <1>5 DEF Moving
<1> QED
  BY <1>6, DraggedFacts

\* A drop of the rows as R.
DropOf(R, m) ==
    /\ m \in Pushed /\ RowFits(Len(held), m) /\ m.op = "drag"
    /\ Table(Len(held), R) /\ \E g : Mapped(R, rowsShown, g)
    /\ rowsShown' = R /\ PushOf(m) /\ count' = count
    /\ kind = "columns" => /\ m.order = Order!Items(R)
                           /\ wish' = KeptOf(Order!Items(R), Order!In(wish))
    /\ kind # "columns" => m.order = PositionsOf(R) /\ wish' = Order!Items(R)
    /\ behind' = (behind \/ Order!Unanswered("add"))

LEMMA DragIs ==
    ASSUME OrderTyped(kind, Len(held), held, wish, rowsShown, count, orderActs, orderUp, orderDown),
           Order!Drag
    PROVE \E R, m : DropOf(R, m)
<1> DEFINE n == Len(held)
           X == rowsShown
<1>1. X \in Seq(Seq(OrderRow)) /\ Len(X) = n /\ n \in Nat
  BY DEF OrderTyped, Table
<1>2. PICK from \in Order!Places(rowsShown) : \E c \in DOMAIN rowsShown :
        LET row  == rowsShown[from[1]][from[2]]
            rest == Order!Without(from, rowsShown)
        IN \E i \in 1..(Len(rest[c]) + 1) :
          LET dropped_ == [rest EXCEPT ![c] = Order!InsertAt(rest[c], i, row)]
          IN /\ dropped_ # rowsShown
             /\ rowsShown' = dropped_
             /\ Order!Push([op |-> "drag", order |-> Order!Report(dropped_)])
             /\ wish' = IF kind = "columns"
                        THEN [d \in DOMAIN dropped_ |->
                                Order!Kept(Order!Items(dropped_)[d], Order!In(wish))]
                        ELSE Order!Items(dropped_)
             /\ behind' = (behind \/ Order!Unanswered("add"))
             /\ UNCHANGED count
  BY DEF Order!Drag
<1> DEFINE rest == Order!Without(from, X)
<1>3. PICK c \in DOMAIN X : \E i \in 1..(Len(rest[c]) + 1) :
          LET dropped_ == [rest EXCEPT ![c] = Order!InsertAt(rest[c], i, X[from[1]][from[2]])]
          IN /\ rowsShown' = dropped_
             /\ Order!Push([op |-> "drag", order |-> Order!Report(dropped_)])
             /\ wish' = IF kind = "columns"
                        THEN [d \in DOMAIN dropped_ |->
                                Order!Kept(Order!Items(dropped_)[d], Order!In(wish))]
                        ELSE Order!Items(dropped_)
             /\ behind' = (behind \/ Order!Unanswered("add"))
             /\ UNCHANGED count
  BY <1>2
<1>4. PICK i \in 1..(Len(rest[c]) + 1) :
          LET dropped_ == [rest EXCEPT ![c] = Order!InsertAt(rest[c], i, X[from[1]][from[2]])]
          IN /\ rowsShown' = dropped_
             /\ Order!Push([op |-> "drag", order |-> Order!Report(dropped_)])
             /\ wish' = IF kind = "columns"
                        THEN [d \in DOMAIN dropped_ |->
                                Order!Kept(Order!Items(dropped_)[d], Order!In(wish))]
                        ELSE Order!Items(dropped_)
             /\ behind' = (behind \/ Order!Unanswered("add"))
             /\ UNCHANGED count
  BY <1>3
<1> DEFINE R == [rest EXCEPT ![c] = Order!InsertAt(rest[c], i, X[from[1]][from[2]])]
           m == [op |-> "drag", order |-> Order!Report(R)]
<1>5. /\ rowsShown' = R /\ Order!Push(m)
      /\ wish' = IF kind = "columns"
                 THEN [d \in DOMAIN R |-> Order!Kept(Order!Items(R)[d], Order!In(wish))]
                 ELSE Order!Items(R)
      /\ behind' = (behind \/ Order!Unanswered("add"))
      /\ count' = count
  BY <1>4
<1>6. /\ from[1] \in 1..n /\ from[2] \in 1..Len(X[from[1]]) /\ from = <<from[1], from[2]>>
      /\ c \in 1..n
  BY <1>1, PlacesAre
<1>7. R \in Seq(Seq(OrderRow)) /\ Len(R) = n /\ \E g : Mapped(R, X, g)
  <2>1. from[1] \in 1..Len(X) /\ from[2] \in 1..Len(X[from[1]]) /\ c \in 1..Len(X)
        /\ rest = Order!Without(<<from[1], from[2]>>, X)
    BY <1>1, <1>6
  <2>2. i \in 1..(Len(rest[c]) + 1)
    OBVIOUS
  <2>3. Dragging(X, from[1], from[2], c, i, R)
    BY <2>1, <2>2 DEF Dragging
  <2> HIDE DEF R, rest, X
  <2>4. Dragged(OrderRow, X, R)
    BY <1>1, <2>3, DragMade
  <2> QED
    BY <1>1, <2>4 DEF Dragged
<1> HIDE DEF R
<1>8. Table(n, R)
  BY <1>1, <1>7 DEF Table
<1>9. /\ kind = "columns" => m.order = Order!Items(R)
      /\ kind # "columns" => m.order = PositionsOf(R)
      /\ m.op = "drag"
  BY ReportIs
<1>10. m \in Pushed /\ RowFits(n, m)
  <2>1. m.order \in Seq(Seq(Nat)) /\ Len(m.order) = n
    BY <1>7, <1>9, ItemsFacts, PositionsFacts DEF Listed
  <2>2. m \in [op : {"drag"}, order : Seq(Seq(Nat))]
    BY <2>1
  <2> QED
    BY <2>1, <2>2, <1>9 DEF Pushed, RowFits
<1>11. DOMAIN R = DOMAIN Order!Items(R)
  BY DEF Order!Items
<1>12. kind = "columns" => wish' = KeptOf(Order!Items(R), Order!In(wish))
  BY <1>5, <1>11, OrderPicked DEF KeptOf
<1>13. PushOf(m)
  BY <1>5, PushIs
<1> HIDE DEF m
<1> QED
  BY <1>5, <1>7, <1>8, <1>9, <1>10, <1>12, <1>13 DEF DropOf

\* A row that is added.
AddOf(c, e, m) ==
    /\ m \in Pushed /\ RowFits(Len(held), m) /\ m.op = "add" /\ m.column = c /\ m.item = e
    /\ c \in 1..Len(held) /\ e \in Nat /\ (kind = "columns" => e = 3 + orderActs + 1)
    /\ PushOf(m) /\ wish' = AddedTo(kind, wish, c, e)
    /\ rowsShown' = rowsShown /\ count' = count /\ behind' = behind

LEMMA AddIs ==
    ASSUME OrderTyped(kind, Len(held), held, wish, rowsShown, count, orderActs, orderUp, orderDown),
           Order!AddRow
    PROVE \E c, e, m : AddOf(c, e, m)
<1>1. /\ Len(rowsShown) = Len(held) /\ DOMAIN rowsShown = 1..Len(rowsShown)
  BY LenProperties DEF OrderTyped, Table
<1>2. PICK c \in DOMAIN rowsShown, e \in 1..4 :
        /\ kind = "columns" => e = 3 + orderActs + 1
        /\ Order!Push([op |-> "add", column |-> c, item |-> e])
        /\ wish' = Order!Added(wish, c, e)
        /\ UNCHANGED <<rowsShown, count, behind>>
  BY DEF Order!AddRow
<1> DEFINE m == [op |-> "add", column |-> c, item |-> e]
<1>3. c \in 1..Len(held) /\ c \in Nat /\ e \in Nat
  BY <1>1
<1>4. m \in Pushed /\ m.op = "add" /\ m.column = c /\ m.item = e
  <2>1. m \in [op : {"add"}, column : Nat, item : Nat]
    BY <1>3
  <2> QED
    BY <2>1 DEF Pushed
<1>5. RowFits(Len(held), m)
  BY <1>3, <1>4 DEF RowFits
<1>6. PushOf(m) /\ wish' = AddedTo(kind, wish, c, e)
  BY <1>2, PushIs, AddedIs
<1> HIDE DEF m
<1> QED
  BY <1>2, <1>3, <1>4, <1>5, <1>6 DEF AddOf

\* A row that is taken out.
RemoveOf(p, m) ==
    /\ m \in Pushed /\ RowFits(Len(held), m) /\ m.op = "remove" /\ p \in Order!Places(rowsShown)
    /\ kind = "columns" => /\ wish' = KeptOf(wish, Order!In(wish) \ {m.which})
    /\ kind # "columns" => /\ m.which = rowsShown[p[1]][p[2]].at
                           /\ wish' = Order!Without(p, Order!Items(rowsShown))
    /\ PushOf(m) /\ rowsShown' = rowsShown /\ count' = count /\ behind' = behind

LEMMA RemoveIs ==
    ASSUME OrderTyped(kind, Len(held), held, wish, rowsShown, count, orderActs, orderUp, orderDown),
           Order!RemoveRow
    PROVE \E p, m : RemoveOf(p, m)
<1>1. PICK p \in Order!Places(rowsShown) :
        LET row == rowsShown[p[1]][p[2]]
        IN /\ Order!Push([op |-> "remove",
                          which |-> IF kind = "columns" THEN row.item ELSE row.at])
           /\ wish' = IF kind = "columns"
                      THEN [c \in DOMAIN wish |->
                              Order!Kept(wish[c], Order!In(wish) \ {row.item})]
                      ELSE Order!Without(p, Order!Items(rowsShown))
           /\ UNCHANGED <<rowsShown, count, behind>>
  BY DEF Order!RemoveRow
<1> DEFINE row == rowsShown[p[1]][p[2]]
           m == [op |-> "remove", which |-> IF kind = "columns" THEN row.item ELSE row.at]
<1>2. row.item \in Nat /\ row.at \in Nat
  BY PlacesAre, RowFields DEF OrderTyped, Table
<1>3. /\ Order!Push(m)
      /\ wish' = IF kind = "columns"
                 THEN [c \in DOMAIN wish |-> Order!Kept(wish[c], Order!In(wish) \ {row.item})]
                 ELSE Order!Without(p, Order!Items(rowsShown))
      /\ UNCHANGED <<rowsShown, count, behind>>
  BY <1>1
<1>4. m.op = "remove" /\ m.which = IF kind = "columns" THEN row.item ELSE row.at
  OBVIOUS
<1>5. m \in Pushed
  <2>1. m \in [op : {"remove", "backspace"}, which : Nat]
    BY <1>2
  <2> QED
    BY <2>1 DEF Pushed
<1>6. RowFits(Len(held), m)
  BY <1>4 DEF RowFits
<1>7. PushOf(m)
  BY <1>3, PushIs
<1> HIDE DEF m
<1>8. kind = "columns" => wish' = KeptOf(wish, Order!In(wish) \ {m.which})
  BY <1>3, <1>4, OrderPicked DEF KeptOf
<1> QED
  BY <1>3, <1>4, <1>5, <1>6, <1>7, <1>8 DEF RemoveOf

\* The last one, by the key.
LastOf(m) ==
    /\ m \in Pushed /\ RowFits(Len(held), m) /\ m.op = "backspace" /\ m.which = count /\ count > 0
    /\ kind = "phrases" /\ wish' = IF wish[1] = <<>> THEN wish ELSE <<Order!Front(wish[1])>>
    /\ PushOf(m) /\ rowsShown' = rowsShown /\ count' = count /\ behind' = behind

LEMMA BackspaceIs ==
    ASSUME OrderTyped(kind, Len(held), held, wish, rowsShown, count, orderActs, orderUp, orderDown),
           Order!Backspace
    PROVE \E m : LastOf(m)
<1> DEFINE m == [op |-> "backspace", which |-> count]
<1>1. /\ kind = "phrases" /\ count > 0 /\ Order!Push(m)
      /\ wish' = IF wish[1] = <<>> THEN wish ELSE <<Order!Front(wish[1])>>
      /\ UNCHANGED <<rowsShown, count, behind>>
  BY DEF Order!Backspace
<1>2. m.op = "backspace" /\ m.which = count
  OBVIOUS
<1>3. m \in Pushed
  <2>1. m \in [op : {"remove", "backspace"}, which : Nat]
    BY DEF OrderTyped
  <2> QED
    BY <2>1 DEF Pushed
<1>4. RowFits(Len(held), m) /\ PushOf(m)
  BY <1>1, <1>2, PushIs DEF RowFits
<1> HIDE DEF m
<1> QED
  BY <1>1, <1>2, <1>3, <1>4 DEF LastOf

\* A push the server handles.
HandleOf(m, X) ==
    /\ orderUp # <<>> /\ m = Head(orderUp) /\ X = Obeyed(kind, held, m) /\ held' = X
    /\ orderDown' = Append(orderDown, [op |-> m.op, list |-> X]) /\ orderUp' = Tail(orderUp)
    /\ kind' = kind /\ rowsShown' = rowsShown /\ count' = count /\ wish' = wish
    /\ orderRaced' = orderRaced /\ behind' = behind /\ orderActs' = orderActs

LEMMA HandleIs ==
    ASSUME Order!HandlePush
    PROVE \E m, X : HandleOf(m, X)
<1> DEFINE m == Head(orderUp)
           X == Obeyed(kind, held, m)
<1>1. Order!Handled(held, m) = X
  BY HandledIs
<1>2. HandleOf(m, X)
  BY <1>1 DEF Order!HandlePush, HandleOf
<1> QED
  BY <1>2

\* An answer, which draws the rows again unless a later drag holds them.
Later(u, d, op) == \/ \E k \in DOMAIN u : u[k].op = op
                   \/ \E k \in 2..Len(d) : d[k].op = op
AnswerOf(a) ==
    /\ orderDown # <<>> /\ a = Head(orderDown)
    /\ rowsShown' = IF Later(orderUp, orderDown, "drag") THEN rowsShown ELSE Order!Rows(a.list)
    /\ count' = IF Later(orderUp, orderDown, "add") \/ Later(orderUp, orderDown, "backspace")
                THEN count ELSE Len(a.list[1])
    /\ orderDown' = Tail(orderDown)
    /\ (orderUp = <<>> /\ Len(orderDown) = 1) =>
          orderRaced' = FALSE /\ behind' = FALSE /\ wish' = a.list
    /\ ~(orderUp = <<>> /\ Len(orderDown) = 1) =>
          orderRaced' = orderRaced /\ behind' = behind /\ wish' = wish
    /\ kind' = kind /\ held' = held /\ orderUp' = orderUp /\ orderActs' = orderActs

LEMMA AnswerIs ==
    ASSUME Order!Answer
    PROVE \E a : AnswerOf(a)
<1>1. AnswerOf(Head(orderDown))
  <2>1. /\ orderDown # <<>>
        /\ rowsShown' = IF Later(orderUp, orderDown, "drag") THEN rowsShown
                        ELSE Order!Rows(Head(orderDown).list)
        /\ count' = IF Later(orderUp, orderDown, "add") \/ Later(orderUp, orderDown, "backspace")
                    THEN count ELSE Len(Head(orderDown).list[1])
        /\ orderDown' = Tail(orderDown)
        /\ IF orderUp = <<>> /\ Len(orderDown) = 1
           THEN orderRaced' = FALSE /\ behind' = FALSE /\ wish' = Head(orderDown).list
           ELSE UNCHANGED <<orderRaced, behind, wish>>
        /\ UNCHANGED <<kind, held, orderUp, orderActs>>
    BY Zenon DEF Order!Answer, Later
  <2> QED
    BY <2>1 DEF AnswerOf
<1> QED
  BY <1>1

OrderTypedNow ==
    OrderTyped(kind, Len(held), held, wish, rowsShown, count, orderActs, orderUp, orderDown)

LEMMA TableRows ==
    ASSUME NEW n, NEW X, Listed(n, X)
    PROVE Table(n, Order!Rows(X))
BY RowsFacts DEF Listed, Table

LEMMA TableItems ==
    ASSUME NEW n, NEW R, Table(n, R)
    PROVE Listed(n, Order!Items(R))
BY ItemsFacts DEF Listed, Table

LEMMA KeptListed ==
    ASSUME NEW n, NEW X, Listed(n, X), NEW T
    PROVE Listed(n, KeptOf(X, T))
BY KeptOfFacts DEF Listed

LEMMA AddedListed ==
    ASSUME NEW n, NEW kd, NEW X, Listed(n, X), NEW c \in 1..n, NEW e \in Nat
    PROVE Listed(n, AddedTo(kd, X, c, e))
BY AddedToType DEF Listed

LEMMA WithoutListed ==
    ASSUME NEW n, NEW X, Listed(n, X), NEW p \in Order!Places(X)
    PROVE Listed(n, Order!Without(p, X))
<1> DEFINE a == p[1]
           f == p[2]
           R == Order!Without(<<a, f>>, X)
<1>1. X \in Seq(Seq(Nat)) /\ Len(X) = n /\ n \in Nat
  BY DEF Listed
<1>2. a \in 1..Len(X) /\ f \in 1..Len(X[a]) /\ p = <<a, f>>
  BY <1>1, PlacesAre
<1> HIDE DEF a, f
<1>3. Taking(Nat, X, a, f, R)
  BY <1>1, <1>2, WithoutFacts
<1> QED
  BY <1>1, <1>2, <1>3 DEF Taking, Listed

LEMMA FrontListed ==
    ASSUME NEW X, Listed(1, X), NEW Y, Y = IF X[1] = <<>> THEN X ELSE <<Order!Front(X[1])>>
    PROVE Listed(1, Y)
<1>1. X \in Seq(Seq(Nat)) /\ Len(X) = 1
  BY DEF Listed
<1>2. CASE X[1] = <<>>
  BY <1>2
<1>3. CASE X[1] # <<>>
  <2> DEFINE s == X[1]
             t == SubSeq(s, 1, Len(s) - 1)
  <2>1. s \in Seq(Nat)
    BY <1>1, OneColumn
  <2> HIDE DEF s
  <2>2. s # <<>>
    BY <1>3 DEF s
  <2>3. Len(s) \in Nat /\ Len(s) >= 1
    BY <2>1, <2>2, LenProperties, EmptySeq
  <2>4. t \in Seq(Nat)
    BY <2>1, <2>3, PartOf
  <2>5. Y = <<t>>
    BY <1>3 DEF s, Order!Front
  <2> HIDE DEF t
  <2>6. Y \in Seq(Seq(Nat)) /\ Len(Y) = 1
    BY <2>4, <2>5, OneInside
  <2> QED
    BY <2>6 DEF Listed
<1> QED
  BY <1>2, <1>3

LEMMA OrderTypedStep ==
    ASSUME OrderTypedNow, [Order!ListNext]_(Order!listVars)
    PROVE OrderTypedNow' /\ Len(held') = Len(held) /\ kind' = kind
<1> DEFINE n == Len(held)
<1>1. /\ kind \in OrderKinds /\ n \in Nat \ {0} /\ (kind # "columns" => n = 1)
      /\ Listed(n, held) /\ Listed(n, wish) /\ Table(n, rowsShown) /\ count \in Nat
      /\ orderActs \in Nat /\ GoingUp(n, orderUp) /\ ComingDown(n, orderDown)
  BY DEF OrderTypedNow, OrderTyped
<1>o. OrderTyped(kind, Len(held), held, wish, rowsShown, count, orderActs, orderUp, orderDown)
  BY DEF OrderTypedNow
<1>2. ASSUME NEW m \in Pushed, RowFits(n, m), PushOf(m), Listed(n, wish'), Table(n, rowsShown'),
             count' = count
      PROVE OrderTypedNow' /\ Len(held') = Len(held) /\ kind' = kind
  <2>1. /\ orderUp' = Append(orderUp, m) /\ orderActs' = orderActs + 1 /\ kind' = kind
        /\ held' = held /\ orderDown' = orderDown
    BY <1>2 DEF PushOf
  <2>2. GoingUp(n, orderUp')
    BY <1>1, <1>2, <2>1, UpAdded
  <2>3. orderActs' \in Nat
    BY <1>1, <2>1
  <2> QED
    BY <1>1, <1>2, <2>1, <2>2, <2>3, Zenon DEF OrderTypedNow, OrderTyped
<1>3. CASE Order!Drag
  <2>1. PICK R, m : DropOf(R, m)
    BY <1>3, <1>o, DragIs
  <2>2. m \in Pushed /\ RowFits(n, m) /\ PushOf(m) /\ Table(n, rowsShown') /\ count' = count
    BY <2>1 DEF DropOf
  <2>3. Listed(n, wish')
    <3>1. Listed(n, Order!Items(R))
      BY <2>1, TableItems DEF DropOf
    <3>2. Listed(n, KeptOf(Order!Items(R), Order!In(wish)))
      BY <3>1, KeptListed
    <3> QED
      BY <2>1, <3>1, <3>2, Zenon DEF DropOf
  <2> QED
    BY <1>2, <2>2, <2>3
<1>4. CASE Order!AddRow
  <2>1. PICK c, e, m : AddOf(c, e, m)
    BY <1>4, <1>o, AddIs
  <2>2. m \in Pushed /\ RowFits(n, m) /\ PushOf(m) /\ rowsShown' = rowsShown /\ count' = count
    BY <2>1 DEF AddOf
  <2>3. Listed(n, wish')
    BY <1>1, <2>1, AddedListed DEF AddOf
  <2>4. Table(n, rowsShown')
    BY <1>1, <2>2, Zenon
  <2> QED
    BY <1>2, <2>2, <2>3, <2>4
<1>5. CASE Order!RemoveRow
  <2>1. PICK p, m : RemoveOf(p, m)
    BY <1>5, <1>o, RemoveIs
  <2>2. m \in Pushed /\ RowFits(n, m) /\ PushOf(m) /\ rowsShown' = rowsShown /\ count' = count
        /\ p \in Order!Places(rowsShown)
    BY <2>1 DEF RemoveOf
  <2>3. Listed(n, wish')
    <3>1. Listed(n, Order!Items(rowsShown))
      BY <1>1, TableItems
    <3>2. p \in Order!Places(Order!Items(rowsShown))
      BY <1>1, <2>2, ItemsFacts DEF Table
    <3> DEFINE I == Order!Items(rowsShown)
    <3> HIDE DEF I
    <3>3. Listed(n, Order!Without(p, I))
      BY <3>1, <3>2, WithoutListed DEF I
    <3>4. Listed(n, KeptOf(wish, Order!In(wish) \ {m.which}))
      BY <1>1, KeptListed
    <3> QED
      BY <2>1, <3>3, <3>4, Zenon DEF RemoveOf, I
  <2>4. Table(n, rowsShown')
    BY <1>1, <2>2, Zenon
  <2> QED
    BY <1>2, <2>2, <2>3, <2>4
<1>6. CASE Order!Backspace
  <2>1. PICK m : LastOf(m)
    BY <1>6, <1>o, BackspaceIs
  <2>2. m \in Pushed /\ RowFits(n, m) /\ PushOf(m) /\ rowsShown' = rowsShown /\ count' = count
        /\ kind = "phrases" /\ wish' = IF wish[1] = <<>> THEN wish ELSE <<Order!Front(wish[1])>>
    BY <2>1 DEF LastOf
  <2>3. Listed(n, wish')
    <3>1. n = 1 /\ Listed(1, wish)
      BY <1>1, <2>2
    <3> DEFINE w == wish'
    <3>2. w = IF wish[1] = <<>> THEN wish ELSE <<Order!Front(wish[1])>>
      BY <2>2
    <3> HIDE DEF w
    <3>3. Listed(1, w)
      BY <3>1, <3>2, FrontListed
    <3> QED
      BY <3>1, <3>3 DEF w
  <2>4. Table(n, rowsShown')
    BY <1>1, <2>2, Zenon
  <2> QED
    BY <1>2, <2>2, <2>3, <2>4
<1>7. CASE Order!HandlePush
  <2>1. PICK m, X : HandleOf(m, X)
    BY <1>7, HandleIs
  <2>2. /\ orderUp # <<>> /\ m = Head(orderUp) /\ X = Obeyed(kind, held, m) /\ held' = X
        /\ orderDown' = Append(orderDown, [op |-> m.op, list |-> X]) /\ orderUp' = Tail(orderUp)
        /\ kind' = kind /\ rowsShown' = rowsShown /\ count' = count /\ wish' = wish
        /\ orderActs' = orderActs
    BY <2>1 DEF HandleOf
  <2>3. m \in Pushed /\ RowFits(n, m) /\ GoingUp(n, orderUp')
    BY <1>1, <2>2, UpTaken
  <2>4. Listed(n, X)
    BY <1>1, <2>2, <2>3, DoneType
  <2>5. Len(X) = n
    BY <2>4 DEF Listed
  <2> DEFINE a == [op |-> m.op, list |-> X]
  <2>6. a \in Replied /\ Listed(n, a.list)
    BY <2>3, <2>4, PushFields DEF Replied, Listed
  <2> HIDE DEF a
  <2>7. ComingDown(n, orderDown')
    <3>1. orderDown' = Append(orderDown, a)
      BY <2>2 DEF a
    <3> QED
      BY <1>1, <2>6, <3>1, DownAdded
  <2> QED
    BY <1>1, <2>2, <2>3, <2>4, <2>5, <2>7, Zenon DEF OrderTypedNow, OrderTyped
<1>8. CASE Order!Answer
  <2>1. PICK a : AnswerOf(a)
    BY <1>8, AnswerIs
  <2>2. /\ orderDown # <<>> /\ a = Head(orderDown) /\ orderDown' = Tail(orderDown)
        /\ kind' = kind /\ held' = held /\ orderUp' = orderUp /\ orderActs' = orderActs
    BY <2>1 DEF AnswerOf
  <2>3. Listed(n, a.list) /\ ComingDown(n, orderDown')
    BY <1>1, <2>2, DownTaken
  <2>4. Table(n, rowsShown')
    BY <1>1, <2>1, <2>3, TableRows, Zenon DEF AnswerOf
  <2>5. Listed(n, wish')
    BY <1>1, <2>1, <2>3, Zenon DEF AnswerOf
  <2>6. count' \in Nat
    <3>1. Len(a.list[1]) \in Nat
      <4>1. a.list \in Seq(Seq(Nat)) /\ Len(a.list) = n /\ 1 \in 1..n
        BY <1>1, <2>3 DEF Listed
      <4> QED
        BY <4>1, PlacesAre
    <3> QED
      BY <1>1, <2>1, <3>1, Zenon DEF AnswerOf
  <2> QED
    BY <1>1, <2>2, <2>3, <2>4, <2>5, <2>6, Zenon DEF OrderTypedNow, OrderTyped
<1>9. CASE UNCHANGED Order!listVars
  BY <1>9, <1>o, Zenon DEF Order!listVars, OrderTypedNow, OrderTyped
<1> QED
  BY <1>3, <1>4, <1>5, <1>6, <1>7, <1>8, <1>9 DEF Order!ListNext

-----------------------------------------------------------------------------
(* What the editor left on the page, and what the server makes of it.      *)

LastHeld(h, d) == d # <<>> => d[Len(d)].list = h

\* A columns block: the pushes on their way lead from the server's list to the wish.
Traced(h, w, u) ==
    \E t : /\ t[0] = h /\ t[Len(u)] = w
           /\ \A k \in 1..Len(u) : t[k] = Obeyed("columns", t[k - 1], u[k])

\* A gallery or a list field, edited one thing at a time.
OneRound(kd, h, w, s, c, u, d) ==
    \/ u = <<>> /\ d = <<>> /\ s = Order!Rows(h) /\ w = h /\ c = Len(h[1])
    \/ Len(u) = 1 /\ d = <<>> /\ w = Obeyed(kd, h, u[1])
    \/ u = <<>> /\ Len(d) = 1 /\ w = h

LEMMA TracedPush ==
    ASSUME NEW n, NEW h, NEW w, NEW u, GoingUp(n, u), Traced(h, w, u), NEW m \in Pushed, RowFits(n, m)
    PROVE Traced(h, Obeyed("columns", w, m), Append(u, m))
<1> DEFINE v == Append(u, m)
           z == Obeyed("columns", w, m)
           l == Len(u)
<1>1. /\ l \in Nat /\ Len(v) = l + 1 /\ v[l + 1] = m
      /\ \A k \in 1..l : v[k] = u[k]
  BY UpAdded
<1>2. PICK t : /\ t[0] = h /\ t[l] = w
               /\ \A k \in 1..l : t[k] = Obeyed("columns", t[k - 1], u[k])
  BY DEF Traced
<1> HIDE DEF v, z, l
<1> DEFINE r == [k \in 0..(l + 1) |-> IF k = l + 1 THEN z ELSE t[k]]
<1>3. r[l + 1] = z /\ \A k \in 0..l : r[k] = t[k]
  BY <1>1
<1> HIDE DEF r
<1>4. r[0] = h /\ r[Len(v)] = z
  BY <1>1, <1>2, <1>3
<1>5. ASSUME NEW k \in 1..Len(v) PROVE r[k] = Obeyed("columns", r[k - 1], v[k])
  <2>1. CASE k = l + 1
    <3>1. r[k] = z /\ r[k - 1] = w /\ v[k] = m
      BY <1>1, <1>2, <1>3, <2>1
    <3> QED
      BY <3>1 DEF z
  <2>2. CASE k \in 1..l
    <3>1. k - 1 \in 0..l /\ k \in 0..l
      BY <1>1, <2>2
    <3>2. r[k] = t[k] /\ r[k - 1] = t[k - 1] /\ v[k] = u[k]
      BY <1>1, <1>3, <2>2, <3>1
    <3>3. t[k] = Obeyed("columns", t[k - 1], u[k])
      BY <1>2, <2>2
    <3> QED
      BY <3>2, <3>3
  <2> QED
    BY <1>1, <2>1, <2>2
<1> QED
  BY <1>4, <1>5 DEF Traced, v, z

LEMMA TracedHandle ==
    ASSUME NEW n, NEW h, NEW w, NEW u, GoingUp(n, u), u # <<>>, Traced(h, w, u)
    PROVE Traced(Obeyed("columns", h, Head(u)), w, Tail(u))
<1> DEFINE v == Tail(u)
           l == Len(v)
           g == Obeyed("columns", h, Head(u))
<1>1. /\ Len(u) \in Nat /\ Len(u) >= 1 /\ l = Len(u) - 1 /\ Head(u) = u[1]
      /\ \A k \in 1..l : k + 1 \in 1..Len(u) /\ v[k] = u[k + 1]
  BY UpTaken
<1>2. PICK t : /\ t[0] = h /\ t[Len(u)] = w
               /\ \A k \in 1..Len(u) : t[k] = Obeyed("columns", t[k - 1], u[k])
  BY DEF Traced
<1>3. t[1] = g
  <2>1. 1 \in 1..Len(u) /\ 1 - 1 = 0
    BY <1>1
  <2> QED
    BY <1>1, <1>2, <2>1
<1> HIDE DEF v, l, g
<1> DEFINE r == [k \in 0..l |-> t[k + 1]]
<1>4. \A k \in 0..l : r[k] = t[k + 1]
  OBVIOUS
<1> HIDE DEF r
<1>5. r[0] = g /\ r[l] = w
  <2>1. 0 \in 0..l /\ l \in 0..l /\ l + 1 = Len(u) /\ 0 + 1 = 1
    BY <1>1
  <2> QED
    BY <1>2, <1>3, <1>4, <2>1
<1>6. ASSUME NEW k \in 1..l PROVE r[k] = Obeyed("columns", r[k - 1], v[k])
  <2>1. k - 1 \in 0..l /\ k \in 0..l /\ (k - 1) + 1 = k /\ (k + 1) - 1 = k /\ k + 1 \in 1..Len(u)
    BY <1>1
  <2>2. r[k] = t[k + 1] /\ r[k - 1] = t[k] /\ v[k] = u[k + 1]
    BY <1>1, <1>4, <2>1
  <2>3. t[k + 1] = Obeyed("columns", t[(k + 1) - 1], u[k + 1])
    BY <1>2, <2>1
  <2> QED
    BY <2>1, <2>2, <2>3
<1> QED
  BY <1>5, <1>6 DEF Traced, v, l, g

LEMMA TracedEmpty ==
    ASSUME NEW h, NEW w
    PROVE Traced(h, w, <<>>) <=> h = w
<1>1. Len(<<>>) = 0 /\ 1..0 = {}
  OBVIOUS
<1>2. ASSUME Traced(h, w, <<>>) PROVE h = w
  BY <1>1, <1>2 DEF Traced
<1>3. ASSUME h = w PROVE Traced(h, w, <<>>)
  <2> DEFINE t == [k \in {0} |-> h]
  <2>1. t[0] = h
    OBVIOUS
  <2> HIDE DEF t
  <2>2. t[0] = h /\ t[Len(<<>>)] = w
    BY <2>1, <1>1, <1>3
  <2>3. \A k \in 1..Len(<<>>) : t[k] = Obeyed("columns", t[k - 1], (<<>>)[k])
    BY <1>1
  <2> QED
    BY <2>2, <2>3 DEF Traced
<1> QED
  BY <1>2, <1>3

LEMMA LastHeldHandle ==
    ASSUME NEW n, NEW d, ComingDown(n, d), NEW m \in Replied, Listed(n, m.list)
    PROVE LastHeld(m.list, Append(d, m))
BY DownAdded DEF LastHeld

LEMMA LastHeldTail ==
    ASSUME NEW n, NEW d, ComingDown(n, d), d # <<>>, NEW h, LastHeld(h, d)
    PROVE LastHeld(h, Tail(d))
<1> DEFINE v == Tail(d)
<1>1. /\ Len(d) \in Nat /\ Len(d) >= 1 /\ Len(v) = Len(d) - 1
      /\ \A k \in 1..Len(v) : k + 1 \in 1..Len(d) /\ v[k] = d[k + 1]
      /\ v \in Seq(Replied)
  BY DownTaken DEF ComingDown
<1> HIDE DEF v
<1> SUFFICES ASSUME v # <<>> PROVE v[Len(v)].list = h
  BY DEF LastHeld, v
<1>2. Len(v) \in Nat /\ Len(v) >= 1
  BY <1>1, LenProperties, EmptySeq
<1>3. Len(v) \in 1..Len(v) /\ Len(v) + 1 = Len(d)
  BY <1>1, <1>2
<1>4. v[Len(v)] = d[Len(d)]
  BY <1>1, <1>3
<1> QED
  BY <1>4 DEF LastHeld

-----------------------------------------------------------------------------
(* A drag of rows that are drawn as the server holds them.                 *)

LEMMA DragOrders ==
    ASSUME NEW X, Listed(1, X), NEW R, Table(1, R), NEW g, Mapped(R, Order!Rows(X), g)
    PROVE IsOrder(PositionsOf(R)[1], Len(X[1]))
<1> DEFINE n == Len(X[1])
           o == PositionsOf(R)[1]
           D == Order!Rows(X)
<1>1. X \in Seq(Seq(Nat)) /\ Len(X) = 1 /\ R \in Seq(Seq(OrderRow)) /\ Len(R) = 1
  BY DEF Listed, Table
<1>2. n \in Nat /\ Order!Places(X) = {1} \X (1..n)
  BY <1>1, OneColumn
<1>3. /\ Order!Places(D) = {1} \X (1..n)
      /\ \A k \in 1..n : D[1][k].at = k
  <2>1. 1 \in 1..Len(X)
    BY <1>1
  <2> QED
    BY <1>1, <1>2, <2>1, RowsFacts
<1> DEFINE l == Len(R[1])
<1>4. l \in Nat /\ Order!Places(R) = {1} \X (1..l)
  BY <1>1, OneColumn
<1>5. Len(o) = l /\ o \in Seq(Nat) /\ \A k \in 1..l : o[k] = R[1][k].at
  <2>1. 1 \in 1..Len(R) /\ PositionsOf(R) \in Seq(Seq(Nat)) /\ Len(PositionsOf(R)) = 1
    BY <1>1, PositionsFacts DEF Listed
  <2>2. o \in Seq(Nat)
    BY <2>1, OneColumn
  <2> QED
    BY <1>1, <2>1, <2>2, PositionsFacts
<1> HIDE DEF n, o, D, l
<1>6. /\ g \in [Order!Places(R) -> Order!Places(D)]
      /\ \A p, q \in Order!Places(R) : g[p] = g[q] => p = q
      /\ \A q \in Order!Places(D) : \E p \in Order!Places(R) : g[p] = q
      /\ \A p \in Order!Places(R) : R[p[1]][p[2]] = D[g[p][1]][g[p][2]]
  BY DEF Mapped, D
<1>7. ASSUME NEW k \in 1..l
      PROVE g[<<1, k>>] = <<1, o[k]>> /\ o[k] \in 1..n /\ <<1, k>> \in Order!Places(R)
  <2>1. <<1, k>> \in Order!Places(R) /\ <<1, k>>[1] = 1 /\ <<1, k>>[2] = k
    BY <1>4
  <2> DEFINE q == g[<<1, k>>]
  <2>2. q \in {1} \X (1..n) /\ R[1][k] = D[q[1]][q[2]]
    BY <1>3, <1>6, <2>1
  <2> HIDE DEF q
  <2>3. q[1] = 1 /\ q[2] \in 1..n /\ q = <<1, q[2]>>
    BY <2>2
  <2>4. R[1][k].at = q[2]
    BY <1>3, <2>2, <2>3
  <2>5. o[k] = q[2]
    BY <1>5, <2>4
  <2> QED
    BY <2>1, <2>3, <2>5 DEF q
<1>8. \A k, j \in 1..l : o[k] = o[j] => k = j
  <2> SUFFICES ASSUME NEW k \in 1..l, NEW j \in 1..l, o[k] = o[j] PROVE k = j
    OBVIOUS
  <2>1. g[<<1, k>>] = g[<<1, j>>] /\ <<1, k>> \in Order!Places(R) /\ <<1, j>> \in Order!Places(R)
    BY <1>7
  <2>2. <<1, k>> = <<1, j>>
    BY <1>6, <2>1
  <2> QED
    BY <2>2
<1>9. ASSUME NEW m \in 1..n PROVE \E k \in 1..l : o[k] = m
  <2>1. <<1, m>> \in Order!Places(D)
    BY <1>3
  <2>2. PICK p \in Order!Places(R) : g[p] = <<1, m>>
    BY <1>6, <2>1
  <2>3. PICK k \in 1..l : p = <<1, k>>
    BY <1>4
  <2>4. <<1, o[k]>> = <<1, m>>
    BY <1>7, <2>2, <2>3
  <2> QED
    BY <2>4
<1>10. o \in Seq(1..n) /\ NoRepeat(o) /\ Range(o) = 1..n
  <2>1. DOMAIN o = 1..l
    BY <1>5, LenProperties
  <2>2. Range(o) = 1..n
    BY <1>7, <1>9, <2>1 DEF Range
  <2>3. NoRepeat(o)
    BY <1>5, <1>8 DEF NoRepeat
  <2>4. o \in [1..l -> 1..n]
    <3>1. o = [k \in 1..l |-> o[k]]
      BY <1>5, <2>1, LenProperties
    <3> QED
      BY <3>1, <1>7
  <2>5. o \in Seq(1..n)
    BY <1>4, <2>4, FromNumbers
  <2> QED
    BY <2>2, <2>3, <2>5
<1>11. IsOrder(o, n)
  BY <1>2, <1>10, OrderOfAll
<1> QED
  BY <1>11 DEF o, n

LEMMA DragItems ==
    ASSUME NEW X, Listed(1, X), NEW R, Table(1, R), NEW g, Mapped(R, Order!Rows(X), g),
           NEW o, o = PositionsOf(R)[1]
    PROVE Order!Items(R) = <<[k \in DOMAIN o |-> X[1][o[k]]]>>
<1> DEFINE n == Len(X[1])
           D == Order!Rows(X)
           I == Order!Items(R)
           l == Len(R[1])
           t == [k \in DOMAIN o |-> X[1][o[k]]]
<1>1. X \in Seq(Seq(Nat)) /\ Len(X) = 1 /\ R \in Seq(Seq(OrderRow)) /\ Len(R) = 1
  BY DEF Listed, Table
<1>2. IsOrder(o, n)
  BY DragOrders
<1>3. n \in Nat /\ Order!Places(X) = {1} \X (1..n) /\ 1 \in 1..1 /\ X[1] \in Seq(Nat)
  BY <1>1, OneColumn
<1>4. l \in Nat /\ Order!Places(R) = {1} \X (1..l)
  BY <1>1, OneColumn
<1>5. Len(o) = l /\ \A k \in 1..l : o[k] = R[1][k].at
  BY <1>1, <1>3, PositionsFacts
<1>6. DOMAIN o = 1..l /\ l = n /\ \A k \in 1..l : o[k] \in 1..n
  <2> DEFINE T == 1..n
  <2> HIDE DEF n, l
  <2>1. o \in Seq(T) /\ Len(o) = n
    BY <1>2 DEF IsOrder
  <2>2. l = n
    BY <1>5, <2>1
  <2> HIDE DEF T
  <2>3. DOMAIN o = 1..Len(o) /\ \A k \in 1..Len(o) : o[k] \in T
    BY <2>1, LenProperties, ElementOfSeq
  <2> QED
    BY <2>1, <2>2, <2>3 DEF T
<1>7. I \in Seq(Seq(Nat)) /\ Len(I) = 1 /\ I = <<I[1]>> /\ I[1] \in Seq(Nat) /\ Len(I[1]) = l
      /\ \A k \in 1..l : I[1][k] = R[1][k].item
  <2>1. I \in Seq(Seq(Nat)) /\ Len(I) = 1
    BY <1>1, ItemsFacts DEF Listed
  <2>2. Len(I[1]) = l /\ \A k \in 1..l : I[1][k] = R[1][k].item
    BY <1>1, <1>3, ItemsFacts
  <2> HIDE DEF I
  <2> QED
    BY <2>1, <2>2, OneColumn
<1>8. \A k \in 1..n : D[1][k].item = X[1][k] /\ D[1][k].at = k
  <2> HIDE DEF D, I, l, t
  <2>1. \A c \in 1..Len(X) : \A k \in 1..Len(X[c]) : D[c][k].item = X[c][k] /\ D[c][k].at = k
    BY <1>1, RowsFacts DEF D
  <2>2. 1 \in 1..Len(X)
    BY <1>1
  <2> QED
    BY <2>1, <2>2
<1>9. Order!Places(D) = {1} \X (1..n)
  BY <1>1, <1>3, RowsFacts
<1> HIDE DEF n, D, I, l
<1>10. ASSUME NEW k \in 1..l PROVE I[1][k] = X[1][o[k]]
  <2>1. <<1, k>> \in Order!Places(R) /\ <<1, k>>[1] = 1 /\ <<1, k>>[2] = k
    BY <1>4
  <2> DEFINE q == g[<<1, k>>]
  <2>2. q \in Order!Places(D) /\ R[1][k] = D[q[1]][q[2]]
    BY <2>1 DEF Mapped, D
  <2> HIDE DEF q
  <2>3. q[1] = 1 /\ q[2] \in 1..n
    BY <1>9, <2>2
  <2>4. R[1][k].at = q[2] /\ R[1][k].item = X[1][q[2]]
    BY <1>8, <2>2, <2>3
  <2> QED
    BY <1>5, <1>7, <2>4
<1>11. t \in Seq(Nat) /\ Len(t) = l /\ \A k \in 1..l : t[k] = X[1][o[k]]
  <2>1. \A k \in 1..l : X[1][o[k]] \in Nat
    BY <1>3, <1>6, ElementOfSeq DEF n
  <2>2. t \in [1..l -> Nat]
    BY <1>6, <2>1
  <2>3. \A k \in 1..l : t[k] = X[1][o[k]]
    BY <1>6
  <2> HIDE DEF t
  <2> QED
    BY <1>4, <2>2, <2>3, FromNumbers
<1> HIDE DEF t
<1>12. I[1] = t
  <2> DEFINE i == I[1]
  <2>1. i \in Seq(Nat) /\ Len(i) = Len(t)
    BY <1>7, <1>11
  <2>2. \A k \in 1..Len(i) : i[k] = t[k]
    BY <1>7, <1>10, <1>11
  <2> HIDE DEF i
  <2>3. i = t
    BY <2>1, <2>2, <1>11, SeqEqual
  <2> QED
    BY <2>3 DEF i
<1> QED
  BY <1>7, <1>12 DEF t, I

-----------------------------------------------------------------------------
(* What the editor wishes is what the server will have made of it.         *)

OrderMeantNow ==
    /\ LastHeld(held, orderDown)
    /\ kind = "columns" => Traced(held, wish, orderUp)
    /\ (kind # "columns" /\ ~orderRaced) =>
          OneRound(kind, held, wish, rowsShown, count, orderUp, orderDown)

LEMMA ColumnsDrag ==
    ASSUME NEW R, NEW m, DropOf(R, m), kind = "columns"
    PROVE wish' = Obeyed("columns", wish, m)
<1>1. m.op = "drag" /\ m.order = Order!Items(R) /\ wish' = KeptOf(Order!Items(R), Order!In(wish))
  BY DEF DropOf
<1> QED
  BY <1>1 DEF Obeyed

LEMMA ColumnsAdd ==
    ASSUME NEW c, NEW e, NEW m, AddOf(c, e, m)
    PROVE wish' = Obeyed(kind, wish, m)
<1>1. m.op = "add" /\ m.column = c /\ m.item = e /\ wish' = AddedTo(kind, wish, c, e)
  BY DEF AddOf
<1> QED
  BY <1>1 DEF Obeyed

LEMMA ColumnsRemove ==
    ASSUME NEW p, NEW m, RemoveOf(p, m), kind = "columns"
    PROVE wish' = Obeyed("columns", wish, m)
<1>1. m.op = "remove" /\ wish' = KeptOf(wish, Order!In(wish) \ {m.which})
  BY DEF RemoveOf
<1> QED
  BY <1>1 DEF Obeyed

\* Nothing is on its way, and the rows are drawn as the server holds them.
Still == /\ kind # "columns" /\ rowsShown = Order!Rows(held) /\ wish = held
         /\ count = Len(held[1]) /\ Listed(1, held) /\ Table(1, rowsShown) /\ Len(held) = 1
         /\ kind \in OrderKinds

LEMMA QuietDrag ==
    ASSUME Still, NEW R, NEW m, DropOf(R, m)
    PROVE wish' = Obeyed(kind, held, m)
<1> DEFINE o == PositionsOf(R)[1]
           t == [k \in DOMAIN o |-> held[1][o[k]]]
<1>1. /\ m.op = "drag" /\ m.order = PositionsOf(R) /\ wish' = Order!Items(R)
      /\ Table(1, R) /\ rowsShown = Order!Rows(held) /\ Listed(1, held) /\ kind # "columns"
      /\ kind \in OrderKinds
  BY DEF DropOf, Still
<1>2. PICK g : Mapped(R, Order!Rows(held), g)
  BY <1>1 DEF DropOf
<1>3. IsOrder(o, Len(held[1]))
  BY <1>1, <1>2, DragOrders
<1>4. Order!Items(R) = <<t>>
  <2> DEFINE o2 == PositionsOf(R)[1]
  <2>1. o2 = PositionsOf(R)[1]
    OBVIOUS
  <2> HIDE DEF o2
  <2>2. Order!Items(R) = <<[k \in DOMAIN o2 |-> held[1][o2[k]]]>>
    BY <1>1, <1>2, <2>1, DragItems
  <2> QED
    BY <2>1, <2>2, Zenon
<1>5. held[1] \in Seq(Nat)
  BY <1>1, OneColumn DEF Listed
<1> HIDE DEF o
<1>6. Order!GalleryOrder(held[1], o) = t /\ Order!PhraseOrder(held[1], o) = t
  <2>1. Order!GalleryOrder(held[1], o) = t
    BY <1>3, <1>5, GalleryTakes
  <2>2. Order!PhraseOrder(held[1], o) = t
    BY <1>3, <1>5, PhraseTakes
  <2> QED
    BY <2>1, <2>2
<1>7. m.order[1] = o
  BY <1>1 DEF o
<1> HIDE DEF t
<1>8. Obeyed(kind, held, m) = <<t>>
  BY <1>1, <1>6, <1>7 DEF Obeyed, OrderKinds
<1> QED
  BY <1>1, <1>4, <1>8

LEMMA QuietAdd ==
    ASSUME Still, NEW c, NEW e, NEW m, AddOf(c, e, m)
    PROVE wish' = Obeyed(kind, held, m)
BY ColumnsAdd DEF Still

LEMMA QuietRemove ==
    ASSUME Still, NEW p, NEW m, RemoveOf(p, m)
    PROVE wish' = Obeyed(kind, held, m)
<1> DEFINE i == p[2]
           s == held[1]
           Y == Order!Without(p, held)
<1>1. /\ m.op = "remove" /\ kind # "columns" /\ m.which = rowsShown[p[1]][p[2]].at
      /\ wish' = Order!Without(p, Order!Items(rowsShown)) /\ p \in Order!Places(rowsShown)
      /\ rowsShown = Order!Rows(held) /\ held \in Seq(Seq(Nat)) /\ Len(held) = 1
  BY DEF RemoveOf, Still, Listed
<1>2. wish' = Y /\ p \in Order!Places(held)
  BY <1>1, ItemsOfRows, RowsFacts
<1>3. p[1] = 1 /\ i \in 1..Len(s) /\ DOMAIN s = 1..Len(s) /\ s \in Seq(Nat)
  BY <1>1, <1>2, OneColumn
<1>4. m.which = i
  <2>1. 1 \in 1..Len(held)
    BY <1>1
  <2>2. \A k \in 1..Len(s) : Order!Rows(held)[1][k].at = k
    BY <1>1, <2>1, RowsFacts
  <2> QED
    BY <1>1, <1>3, <2>2
<1>5. Y = <<Order!RemoveAt(s, i)>>
  <2>1. Listed(1, Y)
    BY <1>1, <1>2, WithoutListed DEF Listed
  <2>2. Y = <<Y[1]>>
    <3> HIDE DEF Y
    <3> QED
      BY <2>1, OneColumn DEF Listed
  <2>3. DOMAIN held = 1..1
    BY <1>1, LenProperties
  <2>4. Y[1] = Order!RemoveAt(s, i)
    BY <1>3, <2>3 DEF Order!Without
  <2> QED
    BY <2>2, <2>4
<1>6. Taken1(s, m.which) = Order!RemoveAt(s, i)
  BY <1>3, <1>4 DEF Taken1
<1> HIDE DEF Y, i, s
<1>7. Obeyed(kind, held, m) = <<Taken1(s, m.which)>>
  BY <1>1 DEF Obeyed, s
<1> QED
  BY <1>2, <1>5, <1>6, <1>7

LEMMA LastTakenOut ==
    ASSUME NEW s \in Seq(Nat), s # <<>>
    PROVE /\ Len(s) \in DOMAIN s /\ Order!RemoveAt(s, Len(s)) = Order!Front(s)
<1> DEFINE n == Len(s)
           a == Order!RemoveAt(s, n)
           b == SubSeq(s, 1, n - 1)
<1>1. n \in Nat /\ n >= 1 /\ DOMAIN s = 1..n
  BY LenProperties, EmptySeq
<1>2. n \in 1..Len(s)
  BY <1>1
<1>3. /\ a \in Seq(Nat) /\ Len(a) = n - 1
      /\ \A k \in 1..(n - 1) : a[k] = s[IF k < n THEN k ELSE k + 1]
  <2> DEFINE f == n
             r == Order!RemoveAt(s, f)
  <2>1. f \in 1..Len(s)
    BY <1>2
  <2> HIDE DEF f
  <2>2. /\ r \in Seq(Nat) /\ Len(r) = Len(s) - 1
        /\ \A k \in 1..(Len(s) - 1) : r[k] = s[IF k < f THEN k ELSE k + 1]
    BY <2>1, RemovedAt
  <2> QED
    BY <2>2 DEF f
<1>4. /\ b \in Seq(Nat) /\ Len(b) = (n - 1) - 1 + 1
      /\ \A k \in 1..((n - 1) - 1 + 1) : b[k] = s[1 + k - 1]
  <2>1. 1 \in Nat \ {0} /\ n - 1 \in Nat /\ n - 1 <= Len(s) /\ 1 <= (n - 1) + 1
    BY <1>1
  <2> DEFINE l == n - 1
             h == 1
  <2>2. h \in Nat \ {0} /\ l \in Nat /\ l <= Len(s) /\ h <= l + 1 /\ b = SubSeq(s, h, l)
    BY <2>1
  <2> HIDE DEF b, n, l, h
  <2>3. /\ b \in Seq(Nat) /\ Len(b) = l - h + 1
        /\ \A k \in 1..(l - h + 1) : b[k] = s[h + k - 1]
    BY <2>2, PartOf
  <2> QED
    BY <2>3 DEF l, h
<1>5. Order!Front(s) = b
  BY DEF Order!Front
<1> HIDE DEF a, b, n
<1>6. \A k \in 1..(n - 1) : a[k] = s[k] /\ b[k] = s[k]
  <2>1. ASSUME NEW k \in 1..(n - 1) PROVE k < n /\ 1 + k - 1 = k /\ k \in 1..((n - 1) - 1 + 1)
    BY <1>1
  <2> QED
    BY <1>3, <1>4, <2>1
<1>7. Len(a) = Len(b)
  BY <1>1, <1>3, <1>4
<1>8. a = b
  <2>1. \A k \in 1..Len(a) : a[k] = b[k]
    BY <1>3, <1>6
  <2> QED
    BY <1>3, <1>4, <1>7, <2>1, SeqEqual
<1> QED
  BY <1>1, <1>2, <1>5, <1>8 DEF a, n

LEMMA QuietLast ==
    ASSUME Still, NEW m, LastOf(m)
    PROVE wish' = Obeyed(kind, held, m)
<1> DEFINE s == held[1]
<1>1. /\ m.op = "backspace" /\ kind = "phrases" /\ m.which = Len(s) /\ Len(s) > 0
      /\ wish' = IF s = <<>> THEN held ELSE <<Order!Front(s)>>
      /\ held \in Seq(Seq(Nat)) /\ Len(held) = 1
  BY DEF LastOf, Still, Listed
<1>2. s \in Seq(Nat)
  BY <1>1, OneColumn
<1> HIDE DEF s
<1>3. s # <<>>
  BY <1>1, <1>2, EmptySeq
<1>4. Len(s) \in DOMAIN s /\ Order!RemoveAt(s, Len(s)) = Order!Front(s)
  BY <1>2, <1>3, LastTakenOut
<1>5. Taken1(s, m.which) = Order!Front(s)
  BY <1>1, <1>4 DEF Taken1
<1>6. Obeyed(kind, held, m) = <<Taken1(s, m.which)>>
  BY <1>1 DEF Obeyed, s
<1> QED
  BY <1>1, <1>3, <1>5, <1>6

LEMMA PushMeant ==
    ASSUME OrderTypedNow, OrderMeantNow, NEW m \in Pushed, RowFits(Len(held), m), PushOf(m),
           kind = "columns" => wish' = Obeyed("columns", wish, m),
           Still => wish' = Obeyed(kind, held, m)
    PROVE OrderMeantNow'
<1> DEFINE n == Len(held)
<1>1. /\ kind \in OrderKinds /\ n \in Nat \ {0} /\ (kind # "columns" => n = 1)
      /\ Listed(n, held) /\ Listed(n, wish) /\ Table(n, rowsShown) /\ count \in Nat
      /\ orderActs \in Nat /\ GoingUp(n, orderUp) /\ ComingDown(n, orderDown)
  BY DEF OrderTypedNow, OrderTyped
<1>2. /\ orderUp' = Append(orderUp, m) /\ kind' = kind /\ held' = held /\ orderDown' = orderDown
      /\ orderRaced' = (orderRaced \/ orderUp # <<>> \/ orderDown # <<>>)
  BY DEF PushOf
<1>3. LastHeld(held', orderDown')
  BY <1>2, Zenon DEF OrderMeantNow
<1>4. ASSUME kind' = "columns" PROVE Traced(held', wish', orderUp')
  <2>1. Traced(held, wish, orderUp)
    BY <1>2, <1>4 DEF OrderMeantNow
  <2>2. Traced(held, Obeyed("columns", wish, m), Append(orderUp, m))
    BY <1>1, <2>1, TracedPush
  <2> QED
    BY <1>2, <1>4, <2>2, Zenon
<1>5. ASSUME kind' # "columns", ~orderRaced'
      PROVE OneRound(kind', held', wish', rowsShown', count', orderUp', orderDown')
  <2>1. kind # "columns" /\ ~orderRaced /\ orderUp = <<>> /\ orderDown = <<>>
    BY <1>2, <1>5
  <2>2. OneRound(kind, held, wish, rowsShown, count, orderUp, orderDown)
    BY <2>1 DEF OrderMeantNow
  <2>3. rowsShown = Order!Rows(held) /\ wish = held /\ count = Len(held[1])
    <3>1. Len(orderUp) = 0 /\ Len(orderDown) = 0
      BY <2>1
    <3> QED
      BY <2>2, <3>1 DEF OneRound
  <2>4. Still
    BY <1>1, <2>1, <2>3 DEF Still
  <2>5. Len(orderUp') = 1 /\ orderUp'[1] = m
    BY <1>2, <2>1
  <2>6. wish' = Obeyed(kind', held', orderUp'[1]) /\ orderDown' = <<>>
    BY <1>2, <2>1, <2>4, <2>5
  <2> QED
    BY <2>5, <2>6, Zenon DEF OneRound
<1> QED
  BY <1>3, <1>4, <1>5, Zenon DEF OrderMeantNow

LEMMA HandleMeant ==
    ASSUME OrderTypedNow, OrderMeantNow, NEW m, NEW X, HandleOf(m, X)
    PROVE OrderMeantNow'
<1> DEFINE n == Len(held)
<1>1. /\ kind \in OrderKinds /\ n \in Nat \ {0} /\ (kind # "columns" => n = 1)
      /\ Listed(n, held) /\ Listed(n, wish) /\ GoingUp(n, orderUp) /\ ComingDown(n, orderDown)
  BY DEF OrderTypedNow, OrderTyped
<1>2. /\ orderUp # <<>> /\ m = Head(orderUp) /\ X = Obeyed(kind, held, m) /\ held' = X
      /\ orderDown' = Append(orderDown, [op |-> m.op, list |-> X]) /\ orderUp' = Tail(orderUp)
      /\ kind' = kind /\ rowsShown' = rowsShown /\ count' = count /\ wish' = wish
      /\ orderRaced' = orderRaced
  BY DEF HandleOf
<1>3. /\ m \in Pushed /\ RowFits(n, m) /\ m = orderUp[1] /\ Len(orderUp) \in Nat
      /\ Len(Tail(orderUp)) = Len(orderUp) - 1
  BY <1>1, <1>2, UpTaken
<1>4. Listed(n, X)
  BY <1>1, <1>2, <1>3, DoneType
<1> DEFINE a == [op |-> m.op, list |-> X]
<1>5. a \in Replied /\ a.list = X
  BY <1>3, <1>4, PushFields DEF Replied, Listed
<1>6. orderDown' = Append(orderDown, a)
  BY <1>2
<1> HIDE DEF a
<1>7. LastHeld(held', orderDown')
  <2>1. LastHeld(a.list, Append(orderDown, a))
    BY <1>1, <1>4, <1>5, LastHeldHandle
  <2> QED
    BY <1>2, <1>5, <1>6, <2>1, Zenon
<1>8. ASSUME kind' = "columns" PROVE Traced(held', wish', orderUp')
  <2>1. Traced(held, wish, orderUp)
    BY <1>2, <1>8 DEF OrderMeantNow
  <2>2. Traced(Obeyed("columns", held, Head(orderUp)), wish, Tail(orderUp))
    BY <1>1, <1>2, <2>1, TracedHandle
  <2> QED
    BY <1>2, <1>8, <2>2, Zenon
<1>9. ASSUME kind' # "columns", ~orderRaced'
      PROVE OneRound(kind', held', wish', rowsShown', count', orderUp', orderDown')
  <2>1. kind # "columns" /\ ~orderRaced
    BY <1>2, <1>9
  <2>2. Len(orderUp) = 1 /\ orderDown = <<>> /\ wish = Obeyed(kind, held, orderUp[1])
    BY <1>2, <2>1 DEF OrderMeantNow, OneRound
  <2>3. orderUp' = <<>>
    <3>1. Len(Tail(orderUp)) = 0 /\ Tail(orderUp) \in Seq(Pushed)
      BY <1>1, <1>2, <1>3, <2>2, UpTaken DEF GoingUp
    <3> QED
      BY <1>2, <3>1, EmptySeq
  <2>4. Len(orderDown') = 1
    BY <1>6, <2>2
  <2>5. wish' = held'
    BY <1>2, <1>3, <2>2
  <2> QED
    BY <2>3, <2>4, <2>5 DEF OneRound
<1> QED
  BY <1>7, <1>8, <1>9, Zenon DEF OrderMeantNow

LEMMA AnswerMeant ==
    ASSUME OrderTypedNow, OrderMeantNow, NEW a, AnswerOf(a)
    PROVE OrderMeantNow'
<1> DEFINE n == Len(held)
<1>1. /\ n \in Nat \ {0} /\ Listed(n, held) /\ GoingUp(n, orderUp) /\ ComingDown(n, orderDown)
  BY DEF OrderTypedNow, OrderTyped
<1>2. /\ orderDown # <<>> /\ a = Head(orderDown) /\ orderDown' = Tail(orderDown)
      /\ kind' = kind /\ held' = held /\ orderUp' = orderUp
  BY DEF AnswerOf
<1>3. /\ Head(orderDown) = orderDown[1] /\ Len(Tail(orderDown)) = Len(orderDown) - 1
      /\ Tail(orderDown) \in Seq(Replied)
  BY <1>1, <1>2, DownTaken DEF ComingDown
<1>4. LastHeld(held', orderDown')
  <2>1. LastHeld(held, orderDown)
    BY DEF OrderMeantNow
  <2>2. LastHeld(held, Tail(orderDown))
    BY <1>1, <1>2, <2>1, LastHeldTail
  <2> QED
    BY <1>2, <2>2, Zenon
<1>5. CASE orderUp = <<>> /\ Len(orderDown) = 1
  <2>1. orderRaced' = FALSE /\ wish' = a.list
    BY <1>5 DEF AnswerOf
  <2>2. a.list = held
    <3>1. LastHeld(held, orderDown)
      BY DEF OrderMeantNow
    <3> QED
      BY <1>2, <1>3, <1>5, <3>1 DEF LastHeld
  <2>3. ASSUME kind' = "columns" PROVE Traced(held', wish', orderUp')
    <3>1. Traced(held, held, <<>>)
      BY TracedEmpty
    <3> QED
      BY <1>2, <1>5, <2>1, <2>2, <3>1, Zenon
  <2>4. rowsShown' = Order!Rows(held') /\ count' = Len(held'[1])
    <3>1. ASSUME NEW op PROVE ~Later(orderUp, orderDown, op)
      <4>1. DOMAIN orderUp = {} /\ 2..Len(orderDown) = {}
        BY <1>5
      <4> QED
        BY <4>1 DEF Later
    <3>2. rowsShown' = Order!Rows(a.list) /\ count' = Len(a.list[1])
      BY <3>1, Zenon DEF AnswerOf
    <3> QED
      BY <1>2, <2>2, <3>2, Zenon
  <2>5. orderDown' = <<>>
    BY <1>2, <1>3, <1>5, EmptySeq
  <2>6. OneRound(kind', held', wish', rowsShown', count', orderUp', orderDown')
    BY <1>2, <1>5, <2>1, <2>2, <2>4, <2>5, Zenon DEF OneRound
  <2> QED
    BY <1>4, <2>3, <2>6, Zenon DEF OrderMeantNow
<1>6. CASE ~(orderUp = <<>> /\ Len(orderDown) = 1)
  <2>1. orderRaced' = orderRaced /\ wish' = wish
    BY <1>6 DEF AnswerOf
  <2>2. ASSUME kind' = "columns" PROVE Traced(held', wish', orderUp')
    BY <1>2, <2>1, <2>2, Zenon DEF OrderMeantNow
  <2>3. kind # "columns" => orderRaced
    <3> SUFFICES ASSUME kind # "columns", ~orderRaced PROVE FALSE
      BY Zenon
    <3>1. OneRound(kind, held, wish, rowsShown, count, orderUp, orderDown)
      BY DEF OrderMeantNow
    <3> QED
      BY <1>2, <1>6, <3>1 DEF OneRound
  <2> QED
    BY <1>2, <1>4, <2>1, <2>2, <2>3, Zenon DEF OrderMeantNow
<1> QED
  BY <1>5, <1>6

LEMMA OrderMeantStep ==
    ASSUME OrderTypedNow, OrderMeantNow, [Order!ListNext]_(Order!listVars)
    PROVE OrderMeantNow'
<1>o. OrderTyped(kind, Len(held), held, wish, rowsShown, count, orderActs, orderUp, orderDown)
  BY DEF OrderTypedNow
<1>q. ASSUME Still PROVE kind # "columns"
  BY <1>q DEF Still
<1>1. CASE Order!Drag
  <2>1. PICK R, m : DropOf(R, m)
    BY <1>1, <1>o, DragIs
  <2>2. m \in Pushed /\ RowFits(Len(held), m) /\ PushOf(m)
    BY <2>1 DEF DropOf
  <2>3. kind = "columns" => wish' = Obeyed("columns", wish, m)
    BY <2>1, ColumnsDrag
  <2>4. Still => wish' = Obeyed(kind, held, m)
    BY <2>1, QuietDrag
  <2> QED
    BY <2>2, <2>3, <2>4, PushMeant
<1>2. CASE Order!AddRow
  <2>1. PICK c, e, m : AddOf(c, e, m)
    BY <1>2, <1>o, AddIs
  <2>2. m \in Pushed /\ RowFits(Len(held), m) /\ PushOf(m)
    BY <2>1 DEF AddOf
  <2>3. kind = "columns" => wish' = Obeyed("columns", wish, m)
    BY <2>1, ColumnsAdd, Zenon
  <2>4. Still => wish' = Obeyed(kind, held, m)
    BY <2>1, QuietAdd
  <2> QED
    BY <2>2, <2>3, <2>4, PushMeant
<1>3. CASE Order!RemoveRow
  <2>1. PICK p, m : RemoveOf(p, m)
    BY <1>3, <1>o, RemoveIs
  <2>2. m \in Pushed /\ RowFits(Len(held), m) /\ PushOf(m)
    BY <2>1 DEF RemoveOf
  <2>3. kind = "columns" => wish' = Obeyed("columns", wish, m)
    BY <2>1, ColumnsRemove
  <2>4. Still => wish' = Obeyed(kind, held, m)
    BY <2>1, QuietRemove
  <2> QED
    BY <2>2, <2>3, <2>4, PushMeant
<1>4. CASE Order!Backspace
  <2>1. PICK m : LastOf(m)
    BY <1>4, <1>o, BackspaceIs
  <2>2. m \in Pushed /\ RowFits(Len(held), m) /\ PushOf(m) /\ kind # "columns"
    BY <2>1 DEF LastOf
  <2>4. Still => wish' = Obeyed(kind, held, m)
    BY <2>1, QuietLast
  <2> QED
    BY <2>2, <2>4, PushMeant
<1>5. CASE Order!HandlePush
  BY <1>5, HandleIs, HandleMeant
<1>6. CASE Order!Answer
  BY <1>6, AnswerIs, AnswerMeant
<1>7. CASE UNCHANGED Order!listVars
  BY <1>7, Zenon DEF Order!listVars, OrderMeantNow
<1> QED
  BY <1>1, <1>2, <1>3, <1>4, <1>5, <1>6, <1>7 DEF Order!ListNext

LEMMA OrderMeantSafe ==
    ASSUME OrderTypedNow, OrderMeantNow
    PROVE Order!AsTheEditorLeftIt
<1> SUFFICES ASSUME orderUp = <<>>, orderDown # <<>>, Len(orderDown) = 1
             PROVE \/ held = wish
                   \/ kind # "columns" /\ orderRaced
  BY DEF Order!AsTheEditorLeftIt
<1>1. CASE kind = "columns"
  <2>1. Traced(held, wish, <<>>)
    BY <1>1 DEF OrderMeantNow
  <2> QED
    BY <2>1, TracedEmpty
<1>2. CASE kind # "columns" /\ ~orderRaced
  <2>1. OneRound(kind, held, wish, rowsShown, count, orderUp, orderDown)
    BY <1>2 DEF OrderMeantNow
  <2>2. Len(orderUp) = 0
    OBVIOUS
  <2> QED
    BY <2>1, <2>2 DEF OneRound
<1> QED
  BY <1>1, <1>2

LEMMA OrderStarts ==
    ASSUME Order!ListInit
    PROVE OrderTypedNow /\ OrderMeantNow
<1>1. /\ kind \in OrderKinds /\ rowsShown = Order!Rows(held) /\ wish = held /\ count = Len(held[1])
      /\ orderUp = <<>> /\ orderDown = <<>> /\ orderRaced = FALSE /\ orderActs = 0
  BY DEF Order!ListInit, OrderKinds
<1> DEFINE s == <<1, 2, 3>>
           r == <<1, 2, 1>>
           a == <<1, 2>>
           b == <<3>>
<1>2. held \in {<<s>>, <<r>>} \/ (kind = "columns" /\ held = <<a, b>>)
  BY DEF Order!ListInit
<1>3. s \in Seq(Nat) /\ r \in Seq(Nat) /\ a \in Seq(Nat) /\ b \in Seq(Nat)
  OBVIOUS
<1> HIDE DEF s, r, a, b
<1>4. /\ <<s>> \in Seq(Seq(Nat)) /\ Len(<<s>>) = 1 /\ <<r>> \in Seq(Seq(Nat)) /\ Len(<<r>>) = 1
      /\ <<a, b>> \in Seq(Seq(Nat)) /\ Len(<<a, b>>) = 2
  BY <1>3
<1>5. held \in Seq(Seq(Nat)) /\ Len(held) \in {1, 2} /\ (kind # "columns" => Len(held) = 1)
  BY <1>2, <1>4
<1>6. Listed(Len(held), held) /\ Table(Len(held), rowsShown)
  BY <1>1, <1>5, TableRows DEF Listed
<1>7. count \in Nat
  <2> DEFINE n == Len(held)
  <2>1. n = 1 \/ n = 2
    BY <1>5
  <2> HIDE DEF n
  <2>2. 1 \in 1..n
    BY <2>1
  <2>3. 1 \in 1..Len(held) /\ held \in Seq(Seq(Nat))
    BY <1>5, <2>2 DEF n
  <2>4. Len(held[1]) \in Nat
    BY <2>3, PlacesAre
  <2> QED
    BY <1>1, <2>4
<1>8. GoingUp(Len(held), orderUp) /\ ComingDown(Len(held), orderDown)
  BY <1>1 DEF GoingUp, ComingDown
<1>9. OrderTypedNow
  BY <1>1, <1>5, <1>6, <1>7, <1>8 DEF OrderTypedNow, OrderTyped
<1>10. LastHeld(held, orderDown)
  BY <1>1 DEF LastHeld
<1>11. Traced(held, wish, orderUp)
  BY <1>1, TracedEmpty
<1>12. OneRound(kind, held, wish, rowsShown, count, orderUp, orderDown)
  BY <1>1 DEF OneRound
<1> QED
  BY <1>9, <1>10, <1>11, <1>12 DEF OrderMeantNow

-----------------------------------------------------------------------------
(* A columns block holds no child twice, and a drag names every child that *)
(* the server holds, unless one had not been drawn.                        *)

UpOnce(N, h, u) ==
    /\ \A k \in 1..Len(u) : u[k].op = "drag" => OneEach(u[k].order)
    /\ \A k \in 1..Len(u) : u[k].op = "add" => u[k].item \in 1..N /\ u[k].item \notin Order!In(h)
    /\ \A k, l \in 1..Len(u) :
          k # l /\ u[k].op = "add" /\ u[l].op = "add" => u[k].item # u[l].item
DownOnce(d) == \A k \in 1..Len(d) : OneEach(d[k].list)
Ordered(u, d) ==
    /\ \A k, l \in 1..Len(u) : k < l => ~(u[k].op = "add" /\ u[l].op = "drag")
    /\ \A k \in 1..Len(d), l \in 1..Len(u) : ~(d[k].op = "add" /\ u[l].op = "drag")
    /\ \A k, l \in 1..Len(d) : k < l => ~(d[k].op = "add" /\ d[l].op = "drag")
NoAdd(q) == \A k \in 1..Len(q) : q[k].op # "add"
Named(h, u) == \A k \in 1..Len(u) : u[k].op = "drag" => Order!In(h) \subseteq Order!In(u[k].order)
Seen(h, s, d) == NoAdd(d) => Order!In(h) \subseteq Order!In(Order!Items(s))
Recent(h, d) ==
    \A k \in 1..Len(d) :
        (\A l \in 1..Len(d) : k < l => d[l].op # "add") => Order!In(h) \subseteq Order!In(d[k].list)

LEMMA DoneOnce ==
    ASSUME NEW n \in Nat, NEW h, Listed(n, h), NEW m \in Pushed, RowFits(n, m), OneEach(h),
           m.op = "drag" => OneEach(m.order),
           m.op = "add" => m.item \notin Order!In(h),
           NEW X, X = Obeyed("columns", h, m)
    PROVE /\ OneEach(X)
          /\ m.op = "drag" => Order!In(X) = Order!In(m.order) \cap Order!In(h)
          /\ m.op # "add" => Order!In(X) \subseteq Order!In(h)
          /\ m.op = "add" => Order!In(X) = Order!In(h) \union {m.item}
<1>0. h \in Seq(Seq(Nat)) /\ Len(h) = n
  BY DEF Listed
<1>1. CASE m.op = "drag"
  <2>1. m.order \in Seq(Seq(Nat)) /\ X = KeptOf(m.order, Order!In(h))
    BY <1>1, PushFields DEF Obeyed
  <2>2. OneEach(X) /\ Order!In(X) = Order!In(m.order) \cap Order!In(h)
    BY <1>1, <2>1, KeptOfFacts
  <2> QED
    BY <1>1, <2>2
<1>2. CASE m.op = "add"
  <2> DEFINE c == m.column
             e == m.item
             Y == AppendedTo(h, c, e)
  <2>1. c \in 1..Len(h) /\ e \in Nat /\ X = Y
    BY <1>0, <1>2, PushFields DEF RowFits, Obeyed, AddedTo
  <2>2. e \notin Order!In(h)
    BY <1>2
  <2> HIDE DEF c, e
  <2>3. OneEach(Y)
    BY <1>0, <2>1, <2>2, AppendedToFacts
  <2>4. Order!In(Y) = Order!In(h) \union {e}
    <3> DEFINE T == Nat
    <3>1. h \in Seq(Seq(T)) /\ e \in T /\ c \in 1..Len(h)
      BY <1>0, <2>1
    <3> HIDE DEF T
    <3>2. /\ Order!In(AppendedTo(h, c, e)) = Order!In(h) \union {e}
          /\ Len(AppendedTo(h, c, e)) = Len(h)
      BY <3>1, AppendedToFacts
    <3> QED
      BY <3>2
  <2> QED
    BY <1>2, <2>1, <2>3, <2>4 DEF e
<1>3. CASE m.op \in {"remove", "backspace"}
  <2>1. X = KeptOf(h, Order!In(h) \ {m.which})
    BY <1>3 DEF Obeyed
  <2>2. OneEach(X) /\ Order!In(X) = Order!In(h) \cap (Order!In(h) \ {m.which})
    BY <1>0, <2>1, KeptOfFacts
  <2>3. Order!In(X) \subseteq Order!In(h)
    BY <2>2
  <2> QED
    BY <1>3, <2>2, <2>3
<1> QED
  BY <1>1, <1>2, <1>3, PushFields DEF RowOps

LEMMA UpOncePush ==
    ASSUME NEW n, NEW N \in Nat, NEW h, NEW u, GoingUp(n, u), UpOnce(N, h, u),
           NEW m \in Pushed, RowFits(n, m), Order!In(h) \subseteq 1..N,
           m.op = "drag" => OneEach(m.order), m.op = "add" => m.item = N + 1
    PROVE UpOnce(N + 1, h, Append(u, m))
<1> DEFINE v == Append(u, m)
           l == Len(u)
<1>1. /\ l \in Nat /\ Len(v) = l + 1 /\ v[l + 1] = m
      /\ \A k \in 1..l : v[k] = u[k]
  BY UpAdded
<1> HIDE DEF v, l
<1>2. \A k \in 1..Len(v) : k \in 1..l \/ k = l + 1
  BY <1>1
<1>3. ASSUME NEW k \in 1..Len(v), v[k].op = "drag" PROVE OneEach(v[k].order)
  BY <1>1, <1>2, <1>3 DEF UpOnce, l
<1>4. ASSUME NEW k \in 1..Len(v), v[k].op = "add"
      PROVE v[k].item \in 1..(N + 1) /\ v[k].item \notin Order!In(h)
  <2>1. CASE k \in 1..l
    <3>1. v[k].item \in 1..N /\ v[k].item \notin Order!In(h)
      BY <1>1, <1>4, <2>1 DEF UpOnce, l
    <3> QED
      BY <3>1
  <2>2. CASE k = l + 1
    <3>1. v[k].item = N + 1
      BY <1>1, <1>4, <2>2
    <3>2. N + 1 \in 1..(N + 1) /\ N + 1 \notin 1..N
      OBVIOUS
    <3> QED
      BY <3>1, <3>2
  <2> QED
    BY <1>2, <2>1, <2>2
<1>5. \A k \in 1..l : v[k].op = "add" => v[k].item \in 1..N
  BY <1>1 DEF UpOnce, l
<1>6. ASSUME NEW k \in 1..Len(v), NEW j \in 1..Len(v), k # j, v[k].op = "add", v[j].op = "add"
      PROVE v[k].item # v[j].item
  <2>0. N + 1 \notin 1..N
    OBVIOUS
  <2>1. CASE k \in 1..l /\ j \in 1..l
    BY <1>1, <1>6, <2>1 DEF UpOnce, l
  <2>2. CASE k \in 1..l /\ j = l + 1
    BY <1>1, <1>5, <1>6, <2>0, <2>2
  <2>3. CASE k = l + 1 /\ j \in 1..l
    BY <1>1, <1>5, <1>6, <2>0, <2>3
  <2> QED
    BY <1>2, <1>6, <2>1, <2>2, <2>3
<1>7. UpOnce(N + 1, h, v)
  BY <1>3, <1>4, <1>6, Zenon DEF UpOnce
<1> QED
  BY <1>7 DEF v

LEMMA UpOnceHandle ==
    ASSUME NEW n, NEW N \in Nat, NEW h, NEW u, GoingUp(n, u), u # <<>>, UpOnce(N, h, u), NEW X,
           Head(u).op # "add" => Order!In(X) \subseteq Order!In(h),
           Head(u).op = "add" => Order!In(X) = Order!In(h) \union {Head(u).item}
    PROVE UpOnce(N, X, Tail(u))
<1> DEFINE v == Tail(u)
<1>1. /\ Len(u) \in Nat /\ Len(u) >= 1 /\ Len(v) = Len(u) - 1 /\ Head(u) = u[1]
      /\ \A k \in 1..Len(v) : k + 1 \in 1..Len(u) /\ v[k] = u[k + 1]
  BY UpTaken
<1> HIDE DEF v
<1>2. 1 \in 1..Len(u) /\ \A k \in 1..Len(v) : k + 1 # 1
  BY <1>1
<1>3. \A k, j \in 1..Len(v) : k # j => k + 1 # j + 1
  BY <1>1
<1>4. ASSUME NEW k \in 1..Len(v), v[k].op = "drag" PROVE OneEach(v[k].order)
  BY <1>1, <1>4 DEF UpOnce
<1>5. ASSUME NEW k \in 1..Len(v), v[k].op = "add"
      PROVE v[k].item \in 1..N /\ v[k].item \notin Order!In(X)
  <2> DEFINE j == k + 1
  <2>1. j \in 1..Len(u) /\ v[k] = u[j] /\ j # 1 /\ u[j].op = "add"
    BY <1>1, <1>2, <1>5
  <2> HIDE DEF j
  <2>2. u[j].item \in 1..N /\ u[j].item \notin Order!In(h)
    BY <2>1 DEF UpOnce
  <2>3. u[1].op = "add" => u[j].item # u[1].item
    BY <1>2, <2>1 DEF UpOnce
  <2> QED
    BY <1>1, <2>1, <2>2, <2>3
<1>6. ASSUME NEW k \in 1..Len(v), NEW j \in 1..Len(v), k # j, v[k].op = "add", v[j].op = "add"
      PROVE v[k].item # v[j].item
  <2>1. k + 1 \in 1..Len(u) /\ j + 1 \in 1..Len(u) /\ k + 1 # j + 1
        /\ v[k] = u[k + 1] /\ v[j] = u[j + 1]
    BY <1>1, <1>3, <1>6
  <2> QED
    BY <1>6, <2>1 DEF UpOnce
<1>7. UpOnce(N, X, v)
  BY <1>4, <1>5, <1>6, Zenon DEF UpOnce
<1> QED
  BY <1>7 DEF v

LEMMA OrderedPush ==
    ASSUME NEW n, NEW u, GoingUp(n, u), NEW d, Ordered(u, d), NEW m \in Pushed, RowFits(n, m),
           m.op = "drag" => NoAdd(u) /\ NoAdd(d)
    PROVE Ordered(Append(u, m), d)
<1> DEFINE v == Append(u, m)
           l == Len(u)
<1>1. /\ l \in Nat /\ Len(v) = l + 1 /\ v[l + 1] = m
      /\ \A k \in 1..l : v[k] = u[k]
  BY UpAdded
<1> HIDE DEF v, l
<1>2. \A k \in 1..Len(v) : k \in 1..l \/ k = l + 1
  BY <1>1
<1>3. ASSUME NEW k \in 1..Len(v), NEW j \in 1..Len(v), k < j, v[k].op = "add", v[j].op = "drag"
      PROVE FALSE
  <2>1. k \in 1..l
    BY <1>1, <1>3
  <2>2. CASE j \in 1..l
    <3>1. u[k].op = "add" /\ u[j].op = "drag"
      BY <1>1, <1>3, <2>1, <2>2
    <3> QED
      BY <1>3, <2>1, <2>2, <3>1 DEF Ordered, l
  <2>3. CASE j = l + 1
    <3>1. m.op = "drag" /\ u[k].op = "add"
      BY <1>1, <1>3, <2>1, <2>3
    <3> QED
      BY <2>1, <3>1 DEF NoAdd, l
  <2> QED
    BY <1>2, <2>2, <2>3
<1>4. ASSUME NEW k \in 1..Len(d), NEW j \in 1..Len(v), d[k].op = "add", v[j].op = "drag"
      PROVE FALSE
  <2>1. CASE j \in 1..l
    <3>1. u[j].op = "drag"
      BY <1>1, <1>4, <2>1
    <3> QED
      BY <1>4, <2>1, <3>1 DEF Ordered, l
  <2>2. CASE j = l + 1
    <3>1. m.op = "drag"
      BY <1>1, <1>4, <2>2
    <3> QED
      BY <1>4, <3>1 DEF NoAdd
  <2> QED
    BY <1>2, <2>1, <2>2
<1>5. \A k, j \in 1..Len(d) : k < j => ~(d[k].op = "add" /\ d[j].op = "drag")
  BY DEF Ordered
<1> QED
  BY <1>3, <1>4, <1>5 DEF Ordered, v

LEMMA OrderedHandle ==
    ASSUME NEW n, NEW u, GoingUp(n, u), u # <<>>, NEW d, ComingDown(n, d), Ordered(u, d),
           NEW a \in Replied, Listed(n, a.list), a.op = Head(u).op
    PROVE Ordered(Tail(u), Append(d, a))
<1> DEFINE v == Tail(u)
           e == Append(d, a)
           l == Len(d)
<1>1. /\ Len(u) \in Nat /\ Len(u) >= 1 /\ Len(v) = Len(u) - 1 /\ Head(u) = u[1]
      /\ \A k \in 1..Len(v) : k + 1 \in 1..Len(u) /\ v[k] = u[k + 1]
  BY UpTaken
<1>2. /\ l \in Nat /\ Len(e) = l + 1 /\ e[l + 1] = a
      /\ \A k \in 1..l : e[k] = d[k]
  BY DownAdded
<1> HIDE DEF v, e, l
<1>3. 1 \in 1..Len(u) /\ \A k \in 1..Len(e) : k \in 1..l \/ k = l + 1
  BY <1>1, <1>2
<1>4. /\ \A k, j \in 1..Len(u) : k < j => ~(u[k].op = "add" /\ u[j].op = "drag")
      /\ \A k \in 1..l, j \in 1..Len(u) : ~(d[k].op = "add" /\ u[j].op = "drag")
      /\ \A k, j \in 1..l : k < j => ~(d[k].op = "add" /\ d[j].op = "drag")
  BY DEF Ordered, l
<1>5. ASSUME NEW k \in 1..Len(v), NEW j \in 1..Len(v), k < j, v[k].op = "add", v[j].op = "drag"
      PROVE FALSE
  <2>1. k + 1 \in 1..Len(u) /\ j + 1 \in 1..Len(u) /\ k + 1 < j + 1
    BY <1>1, <1>5
  <2>2. u[k + 1].op = "add" /\ u[j + 1].op = "drag"
    BY <1>1, <1>5
  <2> QED
    BY <1>4, <2>1, <2>2
<1>6. ASSUME NEW k \in 1..Len(e), NEW j \in 1..Len(v), e[k].op = "add", v[j].op = "drag"
      PROVE FALSE
  <2>1. j + 1 \in 1..Len(u) /\ 1 < j + 1 /\ u[j + 1].op = "drag"
    BY <1>1, <1>6
  <2>2. CASE k \in 1..l
    <3>1. d[k].op = "add"
      BY <1>2, <1>6, <2>2
    <3> QED
      BY <1>4, <2>1, <2>2, <3>1
  <2>3. CASE k = l + 1
    <3>1. u[1].op = "add"
      BY <1>1, <1>2, <1>6, <2>3
    <3> QED
      BY <1>3, <1>4, <2>1, <3>1
  <2> QED
    BY <1>3, <2>2, <2>3
<1>7. ASSUME NEW k \in 1..Len(e), NEW j \in 1..Len(e), k < j, e[k].op = "add", e[j].op = "drag"
      PROVE FALSE
  <2>1. k \in 1..l
    BY <1>2, <1>7
  <2>2. d[k].op = "add"
    BY <1>2, <1>7, <2>1
  <2>3. CASE j \in 1..l
    <3>1. d[j].op = "drag"
      BY <1>2, <1>7, <2>3
    <3> QED
      BY <1>4, <1>7, <2>1, <2>2, <2>3, <3>1
  <2>4. CASE j = l + 1
    <3>1. u[1].op = "drag"
      BY <1>1, <1>2, <1>7, <2>4
    <3> QED
      BY <1>3, <1>4, <2>1, <2>2, <3>1
  <2> QED
    BY <1>3, <2>3, <2>4
<1> QED
  BY <1>5, <1>6, <1>7 DEF Ordered, v, e

LEMMA OrderedAnswer ==
    ASSUME NEW n, NEW u, NEW d, ComingDown(n, d), d # <<>>, Ordered(u, d)
    PROVE Ordered(u, Tail(d))
<1> DEFINE v == Tail(d)
<1>1. /\ Len(d) \in Nat /\ Len(v) = Len(d) - 1
      /\ \A k \in 1..Len(v) : k + 1 \in 1..Len(d) /\ v[k] = d[k + 1]
  BY DownTaken
<1> HIDE DEF v
<1>2. \A k, j \in 1..Len(v) : k < j => k + 1 < j + 1
  BY <1>1
<1>3. /\ \A k, j \in 1..Len(u) : k < j => ~(u[k].op = "add" /\ u[j].op = "drag")
      /\ \A k \in 1..Len(d), j \in 1..Len(u) : ~(d[k].op = "add" /\ u[j].op = "drag")
      /\ \A k, j \in 1..Len(d) : k < j => ~(d[k].op = "add" /\ d[j].op = "drag")
  BY DEF Ordered
<1>4. \A k \in 1..Len(v), j \in 1..Len(u) : ~(v[k].op = "add" /\ u[j].op = "drag")
  BY <1>1, <1>3
<1>5. \A k, j \in 1..Len(v) : k < j => ~(v[k].op = "add" /\ v[j].op = "drag")
  BY <1>1, <1>2, <1>3
<1> QED
  BY <1>3, <1>4, <1>5 DEF Ordered, v

LEMMA NamedPush ==
    ASSUME NEW n, NEW h, NEW u, GoingUp(n, u), Named(h, u), NEW m \in Pushed, RowFits(n, m),
           m.op = "drag" => Order!In(h) \subseteq Order!In(m.order)
    PROVE Named(h, Append(u, m))
<1> DEFINE v == Append(u, m)
           l == Len(u)
<1>1. /\ l \in Nat /\ Len(v) = l + 1 /\ v[l + 1] = m
      /\ \A k \in 1..l : v[k] = u[k]
  BY UpAdded
<1> HIDE DEF v, l
<1>2. ASSUME NEW k \in 1..Len(v), v[k].op = "drag" PROVE Order!In(h) \subseteq Order!In(v[k].order)
  <2>1. CASE k \in 1..l
    <3>1. v[k] = u[k] /\ u[k].op = "drag"
      BY <1>1, <1>2, <2>1
    <3> QED
      BY <2>1, <3>1 DEF Named, l
  <2>2. CASE k = l + 1
    BY <1>1, <1>2, <2>2
  <2> QED
    BY <1>1, <2>1, <2>2
<1>3. Named(h, v)
  BY <1>2, Zenon DEF Named
<1> QED
  BY <1>3 DEF v

LEMMA NamedHandle ==
    ASSUME NEW n, NEW h, NEW u, GoingUp(n, u), u # <<>>, Named(h, u), NEW d, Ordered(u, d), NEW X,
           Head(u).op # "add" => Order!In(X) \subseteq Order!In(h)
    PROVE Named(X, Tail(u))
<1> DEFINE v == Tail(u)
<1>1. /\ Len(u) \in Nat /\ Len(u) >= 1 /\ Len(v) = Len(u) - 1 /\ Head(u) = u[1]
      /\ \A k \in 1..Len(v) : k + 1 \in 1..Len(u) /\ v[k] = u[k + 1]
  BY UpTaken
<1> HIDE DEF v
<1>2. ASSUME NEW k \in 1..Len(v), v[k].op = "drag" PROVE Order!In(X) \subseteq Order!In(v[k].order)
  <2>1. k + 1 \in 1..Len(u) /\ v[k] = u[k + 1] /\ 1 \in 1..Len(u) /\ 1 < k + 1
    BY <1>1
  <2>2. u[1].op # "add"
    BY <1>2, <2>1 DEF Ordered
  <2>3. Order!In(h) \subseteq Order!In(u[k + 1].order)
    BY <1>2, <2>1 DEF Named
  <2> QED
    BY <1>1, <2>1, <2>2, <2>3
<1>3. Named(X, v)
  BY <1>2, Zenon DEF Named
<1> QED
  BY <1>3 DEF v

LEMMA RecentHandle ==
    ASSUME NEW n, NEW h, NEW d, ComingDown(n, d), Recent(h, d),
           NEW a \in Replied, Listed(n, a.list),
           a.op # "add" => Order!In(a.list) \subseteq Order!In(h)
    PROVE Recent(a.list, Append(d, a))
<1> DEFINE e == Append(d, a)
           l == Len(d)
<1>1. /\ l \in Nat /\ Len(e) = l + 1 /\ e[l + 1] = a
      /\ \A k \in 1..l : e[k] = d[k]
  BY DownAdded
<1> HIDE DEF e, l
<1>2. ASSUME NEW k \in 1..Len(e), \A j \in 1..Len(e) : k < j => e[j].op # "add"
      PROVE Order!In(a.list) \subseteq Order!In(e[k].list)
  <2>1. CASE k = l + 1
    BY <1>1, <2>1
  <2>2. CASE k \in 1..l
    <3>1. l + 1 \in 1..Len(e) /\ k < l + 1
      BY <1>1, <2>2
    <3>2. a.op # "add"
      BY <1>1, <1>2, <3>1
    <3>3. \A j \in 1..l : k < j => d[j].op # "add"
      <4>1. \A j \in 1..l : j \in 1..Len(e)
        BY <1>1
      <4> QED
        BY <1>1, <1>2, <4>1
    <3>4. Order!In(h) \subseteq Order!In(d[k].list)
      BY <2>2, <3>3 DEF Recent, l
    <3> QED
      BY <1>1, <2>2, <3>2, <3>4
  <2> QED
    BY <1>1, <2>1, <2>2
<1>3. Recent(a.list, e)
  BY <1>2, Zenon DEF Recent
<1> QED
  BY <1>3 DEF e

LEMMA RecentAnswer ==
    ASSUME NEW n, NEW h, NEW d, ComingDown(n, d), d # <<>>, Recent(h, d)
    PROVE /\ Recent(h, Tail(d))
          /\ NoAdd(Tail(d)) => Order!In(h) \subseteq Order!In(Head(d).list)
<1> DEFINE v == Tail(d)
<1>1. /\ Len(d) \in Nat /\ Len(d) >= 1 /\ Len(v) = Len(d) - 1 /\ Head(d) = d[1]
      /\ \A k \in 1..Len(v) : k + 1 \in 1..Len(d) /\ v[k] = d[k + 1]
  BY DownTaken
<1> HIDE DEF v
<1>2. ASSUME NEW k \in 1..Len(d), k > 1 PROVE k - 1 \in 1..Len(v) /\ d[k] = v[k - 1]
  <2>1. k - 1 \in 1..Len(v) /\ (k - 1) + 1 = k
    BY <1>1, <1>2
  <2> QED
    BY <1>1, <2>1
<1>3. ASSUME NEW k \in 1..Len(v), \A j \in 1..Len(v) : k < j => v[j].op # "add"
      PROVE Order!In(h) \subseteq Order!In(v[k].list)
  <2>1. k + 1 \in 1..Len(d) /\ v[k] = d[k + 1]
    BY <1>1
  <2>2. ASSUME NEW j \in 1..Len(d), k + 1 < j PROVE d[j].op # "add"
    <3>1. j > 1 /\ k < j - 1
      BY <2>2, <1>1
    <3> QED
      BY <1>2, <1>3, <3>1
  <2> QED
    BY <2>1, <2>2 DEF Recent
<1>4. ASSUME NoAdd(v) PROVE Order!In(h) \subseteq Order!In(d[1].list)
  <2>1. 1 \in 1..Len(d)
    BY <1>1
  <2>2. ASSUME NEW j \in 1..Len(d), 1 < j PROVE d[j].op # "add"
    <3>1. j > 1
      BY <2>2
    <3> QED
      BY <1>2, <1>4, <3>1 DEF NoAdd
  <2> QED
    BY <2>1, <2>2 DEF Recent
<1>5. Recent(h, v)
  BY <1>3, Zenon DEF Recent
<1> QED
  BY <1>1, <1>4, <1>5 DEF v

LEMMA MappedItems ==
    ASSUME NEW n, NEW X, Table(n, X), NEW R, Table(n, R), NEW g, Mapped(R, X, g)
    PROVE /\ Order!In(Order!Items(R)) = Order!In(Order!Items(X))
          /\ OneEach(Order!Items(X)) => OneEach(Order!Items(R))
<1> DEFINE I == Order!Items(R)
           J == Order!Items(X)
<1>1. X \in Seq(Seq(OrderRow)) /\ Len(X) = n /\ R \in Seq(Seq(OrderRow)) /\ Len(R) = n
  BY DEF Table
<1>2. /\ I \in Seq(Seq(Nat)) /\ Order!Places(I) = Order!Places(R)
      /\ \A p \in Order!Places(R) : I[p[1]][p[2]] = R[p[1]][p[2]].item
  <2>1. /\ I \in Seq(Seq(Nat)) /\ Order!Places(I) = Order!Places(R)
        /\ \A c \in 1..Len(R) : \A k \in 1..Len(R[c]) : I[c][k] = R[c][k].item
    BY <1>1, ItemsFacts DEF Listed
  <2>2. \A p \in Order!Places(R) : p[1] \in 1..Len(R) /\ p[2] \in 1..Len(R[p[1]])
    BY <1>1, PlacesAre
  <2> QED
    BY <2>1, <2>2
<1>3. /\ J \in Seq(Seq(Nat)) /\ Order!Places(J) = Order!Places(X)
      /\ \A p \in Order!Places(X) : J[p[1]][p[2]] = X[p[1]][p[2]].item
  <2>1. /\ J \in Seq(Seq(Nat)) /\ Order!Places(J) = Order!Places(X)
        /\ \A c \in 1..Len(X) : \A k \in 1..Len(X[c]) : J[c][k] = X[c][k].item
    BY <1>1, ItemsFacts DEF Listed
  <2>2. \A p \in Order!Places(X) : p[1] \in 1..Len(X) /\ p[2] \in 1..Len(X[p[1]])
    BY <1>1, PlacesAre
  <2> QED
    BY <2>1, <2>2
<1> HIDE DEF I, J
<1>4. Mapped(I, J, g)
  <2>1. /\ g \in [Order!Places(R) -> Order!Places(X)]
        /\ \A p, q \in Order!Places(R) : g[p] = g[q] => p = q
        /\ \A q \in Order!Places(X) : \E p \in Order!Places(R) : g[p] = q
        /\ \A p \in Order!Places(R) : R[p[1]][p[2]] = X[g[p][1]][g[p][2]]
    BY DEF Mapped
  <2>2. \A p \in Order!Places(I) : I[p[1]][p[2]] = J[g[p][1]][g[p][2]]
    <3> SUFFICES ASSUME NEW p \in Order!Places(R) PROVE I[p[1]][p[2]] = J[g[p][1]][g[p][2]]
      BY <1>2
    <3>1. g[p] \in Order!Places(X) /\ R[p[1]][p[2]] = X[g[p][1]][g[p][2]]
      BY <2>1
    <3>2. J[g[p][1]][g[p][2]] = X[g[p][1]][g[p][2]].item
      BY <1>3, <3>1
    <3> QED
      BY <1>2, <3>1, <3>2
  <2> QED
    BY <1>2, <1>3, <2>1, <2>2, Zenon DEF Mapped
<1>5. Order!In(I) = Order!In(J)
  BY <1>2, <1>3, <1>4, MappedSame
<1>6. OneEach(J) => OneEach(I)
  BY <1>2, <1>3, <1>4, MappedSame
<1> QED
  BY <1>5, <1>6 DEF I, J

ColumnsInv(h, s, u, d, a, b) ==
    /\ OneEach(h) /\ Order!In(h) \subseteq 1..(3 + a) /\ OneEach(Order!Items(s))
    /\ UpOnce(3 + a, h, u) /\ DownOnce(d) /\ Recent(h, d)
    /\ ~b => Ordered(u, d) /\ Named(h, u) /\ Seen(h, s, d)
ColumnsNow == kind = "columns" => ColumnsInv(held, rowsShown, orderUp, orderDown, orderActs, behind)

LEMMA ColumnsPush ==
    ASSUME NEW n, NEW h, NEW s, NEW u, NEW d, NEW a \in Nat, NEW b \in BOOLEAN,
           GoingUp(n, u), ColumnsInv(h, s, u, d, a, b), NEW m \in Pushed, RowFits(n, m),
           NEW t, NEW c \in BOOLEAN, OneEach(Order!Items(t)),
           m.op = "drag" => OneEach(m.order), m.op = "add" => m.item = 3 + a + 1,
           ~c => ~b /\ Seen(h, t, d),
           (~c /\ m.op = "drag") => NoAdd(u) /\ NoAdd(d) /\ Order!In(h) \subseteq Order!In(m.order)
    PROVE ColumnsInv(h, t, Append(u, m), d, a + 1, c)
<1> DEFINE N == 3 + a
           v == Append(u, m)
<1>1. N \in Nat /\ 3 + (a + 1) = N + 1 /\ 3 + a = N
  OBVIOUS
<1>2. /\ OneEach(h) /\ Order!In(h) \subseteq 1..N /\ UpOnce(N, h, u) /\ DownOnce(d) /\ Recent(h, d)
      /\ ~b => Ordered(u, d) /\ Named(h, u) /\ Seen(h, s, d)
  BY DEF ColumnsInv
<1> HIDE DEF v
<1>3. m.op = "add" => m.item = N + 1
  OBVIOUS
<1> HIDE DEF N
<1>4. UpOnce(N + 1, h, v)
  BY <1>1, <1>2, <1>3, UpOncePush DEF v
<1>5. Order!In(h) \subseteq 1..(N + 1)
  BY <1>1, <1>2
<1>6. ASSUME ~c PROVE Ordered(v, d) /\ Named(h, v) /\ Seen(h, t, d)
  <2>1. Ordered(u, d) /\ Named(h, u)
    BY <1>2, <1>6
  <2>2. m.op = "drag" => NoAdd(u) /\ NoAdd(d)
    BY <1>6
  <2>3. Ordered(v, d)
    BY <2>1, <2>2, OrderedPush DEF v
  <2>4. m.op = "drag" => Order!In(h) \subseteq Order!In(m.order)
    BY <1>6
  <2>5. Named(h, v)
    BY <2>1, <2>4, NamedPush DEF v
  <2> QED
    BY <1>6, <2>3, <2>5
<1>7. ColumnsInv(h, t, v, d, a + 1, c)
  <2>1. UpOnce(3 + (a + 1), h, v) /\ Order!In(h) \subseteq 1..(3 + (a + 1))
    BY <1>1, <1>4, <1>5
  <2> QED
    BY <1>2, <1>6, <2>1, Zenon DEF ColumnsInv
<1> QED
  BY <1>7 DEF v

LEMMA ColumnsHandle ==
    ASSUME NEW n \in Nat, NEW h, Listed(n, h), NEW s, NEW u, NEW d, NEW a \in Nat, NEW b \in BOOLEAN,
           GoingUp(n, u), u # <<>>, ComingDown(n, d), ColumnsInv(h, s, u, d, a, b),
           NEW X, X = Obeyed("columns", h, Head(u)), Listed(n, X),
           NEW z \in Replied, z.op = Head(u).op, z.list = X
    PROVE ColumnsInv(X, s, Tail(u), Append(d, z), a, b)
<1> DEFINE N == 3 + a
           m == Head(u)
           v == Tail(u)
           e == Append(d, z)
<1>1. N \in Nat /\ 3 + a = N
  OBVIOUS
<1>2. /\ OneEach(h) /\ Order!In(h) \subseteq 1..N /\ UpOnce(N, h, u) /\ DownOnce(d) /\ Recent(h, d)
      /\ OneEach(Order!Items(s))
      /\ ~b => Ordered(u, d) /\ Named(h, u) /\ Seen(h, s, d)
  BY DEF ColumnsInv
<1>3. m \in Pushed /\ RowFits(n, m) /\ m = u[1] /\ 1 \in 1..Len(u)
  <2>1. m \in Pushed /\ RowFits(n, m) /\ m = u[1] /\ Len(u) \in Nat /\ Len(u) >= 1
    BY UpTaken
  <2> QED
    BY <2>1
<1>4. /\ m.op = "drag" => OneEach(m.order)
      /\ m.op = "add" => m.item \in 1..N /\ m.item \notin Order!In(h)
  BY <1>2, <1>3 DEF UpOnce
<1>x. X = Obeyed("columns", h, m)
  OBVIOUS
<1> HIDE DEF v, e, N, m
<1>5. /\ OneEach(X)
      /\ m.op # "add" => Order!In(X) \subseteq Order!In(h)
      /\ m.op = "add" => Order!In(X) = Order!In(h) \union {m.item}
  <2>1. m.op = "add" => m.item \notin Order!In(h)
    BY <1>4
  <2>2. m.op = "drag" => OneEach(m.order)
    BY <1>4
  <2>3. OneEach(X)
    BY <1>2, <1>3, <1>x, <2>1, <2>2, DoneOnce
  <2>4. m.op # "add" => Order!In(X) \subseteq Order!In(h)
    BY <1>2, <1>3, <1>x, <2>1, <2>2, DoneOnce
  <2>5. m.op = "add" => Order!In(X) = Order!In(h) \union {m.item}
    BY <1>2, <1>3, <1>x, <2>1, <2>2, DoneOnce
  <2> QED
    BY <2>3, <2>4, <2>5
<1>6. Order!In(X) \subseteq 1..N
  BY <1>2, <1>4, <1>5
<1>7. UpOnce(N, X, v)
  <2>1. Head(u).op # "add" => Order!In(X) \subseteq Order!In(h)
    BY <1>5 DEF m
  <2>2. Head(u).op = "add" => Order!In(X) = Order!In(h) \union {Head(u).item}
    BY <1>5 DEF m
  <2> QED
    BY <1>1, <1>2, <2>1, <2>2, UpOnceHandle DEF v
<1>8. DownOnce(e)
  <2>1. /\ Len(d) \in Nat /\ Len(e) = Len(d) + 1 /\ e[Len(d) + 1] = z
        /\ \A k \in 1..Len(d) : e[k] = d[k]
    BY DownAdded DEF e
  <2>2. ASSUME NEW k \in 1..Len(e) PROVE OneEach(e[k].list)
    <3>1. CASE k \in 1..Len(d)
      BY <1>2, <2>1, <3>1 DEF DownOnce
    <3>2. CASE k = Len(d) + 1
      BY <1>5, <2>1, <3>2
    <3> QED
      BY <2>1, <3>1, <3>2
  <2> QED
    BY <2>2 DEF DownOnce
<1>z. Listed(n, z.list) /\ z.op = m.op
  BY DEF m
<1>9. Recent(X, e)
  <2>1. z.op # "add" => Order!In(z.list) \subseteq Order!In(h)
    BY <1>5, <1>z
  <2>2. Recent(z.list, e)
    BY <1>2, <1>z, <2>1, RecentHandle DEF e
  <2> QED
    BY <2>2
<1>10. ASSUME ~b PROVE Ordered(v, e) /\ Named(X, v) /\ Seen(X, s, e)
  <2>1. Ordered(u, d) /\ Named(h, u) /\ Seen(h, s, d)
    BY <1>2, <1>10
  <2>2. Ordered(v, e)
    BY <1>z, <2>1, OrderedHandle DEF v, e
  <2>3. Named(X, v)
    <3>1. Head(u).op # "add" => Order!In(X) \subseteq Order!In(h)
      BY <1>5 DEF m
    <3> QED
      BY <2>1, <3>1, NamedHandle DEF v
  <2>4. Seen(X, s, e)
    <3> SUFFICES ASSUME NoAdd(e) PROVE Order!In(X) \subseteq Order!In(Order!Items(s))
      BY DEF Seen
    <3>1. /\ Len(d) \in Nat /\ Len(e) = Len(d) + 1 /\ e[Len(d) + 1] = z
          /\ \A k \in 1..Len(d) : e[k] = d[k]
      BY DownAdded DEF e
    <3>2. Len(d) + 1 \in 1..Len(e) /\ \A k \in 1..Len(d) : k \in 1..Len(e)
      BY <3>1
    <3>3. NoAdd(d) /\ z.op # "add"
      BY <3>1, <3>2 DEF NoAdd
    <3> QED
      BY <1>5, <1>z, <2>1, <3>3 DEF Seen
  <2> QED
    BY <2>2, <2>3, <2>4
<1>11. ColumnsInv(X, s, v, e, a, b)
  <2>1. UpOnce(3 + a, X, v) /\ Order!In(X) \subseteq 1..(3 + a)
    BY <1>1, <1>6, <1>7
  <2> QED
    BY <1>2, <1>5, <1>8, <1>9, <1>10, <2>1, Zenon DEF ColumnsInv
<1> QED
  BY <1>11 DEF v, e

LEMMA ColumnsAnswer ==
    ASSUME NEW n, NEW h, NEW s, NEW u, NEW d, NEW a \in Nat, NEW b \in BOOLEAN,
           ComingDown(n, d), d # <<>>, ColumnsInv(h, s, u, d, a, b),
           NEW t, t = IF Later(u, d, "drag") THEN s ELSE Order!Rows(Head(d).list),
           NEW c \in BOOLEAN, (u = <<>> /\ Len(d) = 1) \/ c = b,
           u \in Seq(Pushed)
    PROVE ColumnsInv(h, t, u, Tail(d), a, c)
<1> DEFINE v == Tail(d)
           L == Head(d).list
<1>1. /\ OneEach(h) /\ Order!In(h) \subseteq 1..(3 + a) /\ UpOnce(3 + a, h, u) /\ DownOnce(d)
      /\ Recent(h, d) /\ OneEach(Order!Items(s))
      /\ ~b => Ordered(u, d) /\ Named(h, u) /\ Seen(h, s, d)
  BY DEF ColumnsInv
<1>2. /\ Len(d) \in Nat /\ Len(d) >= 1 /\ Len(v) = Len(d) - 1 /\ Head(d) = d[1]
      /\ \A k \in 1..Len(v) : k + 1 \in 1..Len(d) /\ v[k] = d[k + 1]
      /\ Listed(n, Head(d).list)
  BY DownTaken
<1>3. 1 \in 1..Len(d)
  BY <1>2
<1>4. OneEach(L) /\ L \in Seq(Seq(Nat))
  BY <1>1, <1>2, <1>3 DEF DownOnce, Listed
<1>5. Order!Items(Order!Rows(L)) = L
  BY <1>4, ItemsOfRows
<1>6. Recent(h, v) /\ (NoAdd(v) => Order!In(h) \subseteq Order!In(L))
  BY <1>1, RecentAnswer
<1> HIDE DEF v, L
<1>7. (t = s /\ Later(u, d, "drag")) \/ t = Order!Rows(L)
  BY Zenon DEF L
<1>8. OneEach(Order!Items(t))
  BY <1>1, <1>4, <1>5, <1>7
<1>9. DownOnce(v)
  BY <1>1, <1>2 DEF DownOnce
<1>10. CASE u = <<>> /\ Len(d) = 1
  <2>1. Len(u) = 0 /\ Len(v) = 0 /\ DOMAIN u = {}
    BY <1>2, <1>10
  <2>2. 1..Len(u) = {} /\ 1..Len(v) = {} /\ 2..Len(d) = {}
    BY <2>1, <1>10
  <2>3. Ordered(u, v) /\ Named(h, u)
    BY <2>2, Zenon DEF Ordered, Named
  <2>4. ~Later(u, d, "drag")
    BY <2>1, <2>2, Zenon DEF Later
  <2>5. Seen(h, t, v)
    BY <1>5, <1>6, <1>7, <2>4 DEF Seen
  <2> QED
    BY <1>1, <1>6, <1>8, <1>9, <2>3, <2>5, Zenon DEF ColumnsInv, v
<1>11. CASE ~(u = <<>> /\ Len(d) = 1)
  <2>1. c = b
    BY <1>11
  <2>2. ASSUME ~c PROVE Ordered(u, v) /\ Named(h, u) /\ Seen(h, t, v)
    <3>1. Ordered(u, d) /\ Named(h, u) /\ Seen(h, s, d)
      BY <1>1, <2>1, <2>2
    <3>2. Ordered(u, v)
      BY <3>1, OrderedAnswer DEF v
    <3>3. CASE t = Order!Rows(L)
      BY <1>5, <1>6, <3>1, <3>2, <3>3 DEF Seen
    <3>4. CASE t = s /\ Later(u, d, "drag")
      <4>1. d[1].op # "add"
        <5>1. CASE \E k \in DOMAIN u : u[k].op = "drag"
          <6>1. DOMAIN u = 1..Len(u)
            BY LenProperties
          <6> QED
            BY <1>3, <3>1, <5>1, <6>1 DEF Ordered
        <5>2. CASE \E k \in 2..Len(d) : d[k].op = "drag"
          <6>1. PICK k \in 2..Len(d) : d[k].op = "drag"
            BY <5>2
          <6>2. k \in 1..Len(d) /\ 1 < k
            BY <1>2
          <6> QED
            BY <1>3, <3>1, <6>1, <6>2 DEF Ordered
        <5> QED
          BY <3>4, <5>1, <5>2 DEF Later
      <4>2. ASSUME NoAdd(v) PROVE NoAdd(d)
        <5>1. ASSUME NEW k \in 1..Len(d) PROVE d[k].op # "add"
          <6>1. CASE k = 1
            BY <4>1, <6>1
          <6>2. CASE k # 1
            <7>1. k - 1 \in 1..Len(v) /\ (k - 1) + 1 = k
              BY <1>2, <6>2
            <7>2. v[k - 1] = d[k]
              BY <1>2, <7>1
            <7> QED
              BY <4>2, <7>1, <7>2 DEF NoAdd
          <6> QED
            BY <6>1, <6>2
        <5> QED
          BY <5>1 DEF NoAdd
      <4>3. Seen(h, t, v)
        BY <3>1, <3>4, <4>2 DEF Seen
      <4> QED
        BY <3>1, <3>2, <4>3
    <3> QED
      BY <1>7, <3>3, <3>4
  <2> QED
    BY <1>1, <1>6, <1>8, <1>9, <2>2, Zenon DEF ColumnsInv, v
<1> QED
  BY <1>10, <1>11

LEMMA NothingAsked ==
    ASSUME NEW n, GoingUp(n, orderUp), ComingDown(n, orderDown), ~Order!Unanswered("add")
    PROVE NoAdd(orderUp) /\ NoAdd(orderDown)
<1>1. DOMAIN orderUp = 1..Len(orderUp) /\ DOMAIN orderDown = 1..Len(orderDown)
  BY LenProperties DEF GoingUp, ComingDown
<1> QED
  BY <1>1 DEF NoAdd, Order!Unanswered

BehindIs == behind \in BOOLEAN

LEMMA ColumnsStep ==
    ASSUME OrderTypedNow, ColumnsNow, BehindIs, [Order!ListNext]_(Order!listVars)
    PROVE ColumnsNow' /\ BehindIs'
<1> DEFINE n == Len(held)
<1>1. /\ kind \in OrderKinds /\ n \in Nat \ {0} /\ (kind # "columns" => n = 1)
      /\ Listed(n, held) /\ Listed(n, wish) /\ Table(n, rowsShown) /\ count \in Nat
      /\ orderActs \in Nat /\ GoingUp(n, orderUp) /\ ComingDown(n, orderDown)
  BY DEF OrderTypedNow, OrderTyped
<1>o. OrderTyped(kind, Len(held), held, wish, rowsShown, count, orderActs, orderUp, orderDown)
  BY DEF OrderTypedNow
<1>b. behind \in BOOLEAN
  BY DEF BehindIs
<1>2. ASSUME kind = "columns"
      PROVE ColumnsInv(held, rowsShown, orderUp, orderDown, orderActs, behind)
  BY <1>2 DEF ColumnsNow
<1>3. CASE Order!Drag
  <2>1. PICK R, m : DropOf(R, m)
    BY <1>3, <1>o, DragIs
  <2>2. /\ m \in Pushed /\ RowFits(n, m) /\ m.op = "drag" /\ Table(n, R) /\ rowsShown' = R
        /\ behind' = (behind \/ Order!Unanswered("add")) /\ PushOf(m)
        /\ kind = "columns" => m.order = Order!Items(R)
    BY <2>1 DEF DropOf
  <2>3. /\ orderUp' = Append(orderUp, m) /\ orderActs' = orderActs + 1 /\ kind' = kind
        /\ held' = held /\ orderDown' = orderDown
    BY <2>2 DEF PushOf
  <2>4. behind' \in BOOLEAN /\ (~behind' => ~behind /\ ~Order!Unanswered("add"))
    BY <2>2
  <2>5. ASSUME kind = "columns"
        PROVE ColumnsInv(held, R, Append(orderUp, m), orderDown, orderActs + 1, behind')
    <3> DEFINE c == behind'
    <3>1. OneEach(Order!Items(rowsShown)) /\ (~behind => Seen(held, rowsShown, orderDown))
      BY <1>2, <2>5 DEF ColumnsInv
    <3>2. PICK g : Mapped(R, rowsShown, g)
      BY <2>1 DEF DropOf
    <3>3. /\ Order!In(Order!Items(R)) = Order!In(Order!Items(rowsShown))
          /\ OneEach(Order!Items(R))
      BY <1>1, <2>2, <3>1, <3>2, MappedItems
    <3>4. OneEach(m.order) /\ m.op # "add"
      BY <2>2, <2>5, <3>3
    <3>5. c \in BOOLEAN /\ (~c => ~behind /\ NoAdd(orderUp) /\ NoAdd(orderDown))
      BY <1>1, <2>4, NothingAsked
    <3> HIDE DEF c
    <3>6. ~c => Order!In(held) \subseteq Order!In(m.order) /\ Seen(held, R, orderDown)
      BY <2>2, <2>5, <3>1, <3>3, <3>5 DEF Seen
    <3>7. ColumnsInv(held, R, Append(orderUp, m), orderDown, orderActs + 1, c)
      BY <1>1, <1>2, <1>b, <2>2, <2>5, <3>3, <3>4, <3>5, <3>6, ColumnsPush
    <3> QED
      BY <3>7 DEF c
  <2> QED
    BY <2>2, <2>3, <2>4, <2>5, Zenon DEF ColumnsNow, BehindIs
<1>4. ASSUME NEW m \in Pushed, RowFits(n, m), PushOf(m), rowsShown' = rowsShown, behind' = behind,
             m.op # "drag", (kind = "columns" /\ m.op = "add") => m.item = 3 + orderActs + 1
      PROVE ColumnsNow' /\ BehindIs'
  <2>1. /\ orderUp' = Append(orderUp, m) /\ orderActs' = orderActs + 1 /\ kind' = kind
        /\ held' = held /\ orderDown' = orderDown
    BY <1>4 DEF PushOf
  <2>2. ASSUME kind = "columns"
        PROVE ColumnsInv(held, rowsShown, Append(orderUp, m), orderDown, orderActs + 1, behind)
    <3>1. OneEach(Order!Items(rowsShown)) /\ (~behind => Seen(held, rowsShown, orderDown))
      BY <1>2, <2>2 DEF ColumnsInv
    <3> QED
      BY <1>1, <1>2, <1>4, <1>b, <2>2, <3>1, ColumnsPush
  <2> QED
    BY <1>4, <1>b, <2>1, <2>2, Zenon DEF ColumnsNow, BehindIs
<1>5. CASE Order!AddRow
  <2>1. PICK c, e, m : AddOf(c, e, m)
    BY <1>5, <1>o, AddIs
  <2>2. /\ m \in Pushed /\ RowFits(n, m) /\ PushOf(m) /\ rowsShown' = rowsShown /\ behind' = behind
        /\ m.op # "drag" /\ (kind = "columns" /\ m.op = "add" => m.item = 3 + orderActs + 1)
    BY <2>1 DEF AddOf
  <2> QED
    BY <1>4, <2>2
<1>6. CASE Order!RemoveRow
  <2>1. PICK p, m : RemoveOf(p, m)
    BY <1>6, <1>o, RemoveIs
  <2>2. /\ m \in Pushed /\ RowFits(n, m) /\ PushOf(m) /\ rowsShown' = rowsShown /\ behind' = behind
        /\ m.op # "drag" /\ m.op # "add"
    BY <2>1 DEF RemoveOf
  <2> QED
    BY <1>4, <2>2
<1>7. CASE Order!Backspace
  <2>1. PICK m : LastOf(m)
    BY <1>7, <1>o, BackspaceIs
  <2>2. /\ m \in Pushed /\ RowFits(n, m) /\ PushOf(m) /\ rowsShown' = rowsShown /\ behind' = behind
        /\ m.op # "drag" /\ m.op # "add"
    BY <2>1 DEF LastOf
  <2> QED
    BY <1>4, <2>2
<1>8. CASE Order!HandlePush
  <2>1. PICK m, X : HandleOf(m, X)
    BY <1>8, HandleIs
  <2> DEFINE z == [op |-> m.op, list |-> X]
  <2>2. /\ orderUp # <<>> /\ m = Head(orderUp) /\ X = Obeyed(kind, held, m) /\ held' = X
        /\ orderDown' = Append(orderDown, z) /\ orderUp' = Tail(orderUp)
        /\ kind' = kind /\ rowsShown' = rowsShown /\ behind' = behind /\ orderActs' = orderActs
    BY <2>1 DEF HandleOf
  <2>3. m \in Pushed /\ RowFits(n, m)
    BY <1>1, <2>2, UpTaken
  <2>4. Listed(n, X)
    BY <1>1, <2>2, <2>3, DoneType
  <2>5. z \in Replied /\ z.op = m.op /\ z.list = X
    BY <2>3, <2>4, PushFields DEF Replied, Listed
  <2> HIDE DEF z
  <2>6. ASSUME kind = "columns"
        PROVE ColumnsInv(X, rowsShown, Tail(orderUp), Append(orderDown, z), orderActs, behind)
    <3>1. X = Obeyed("columns", held, Head(orderUp)) /\ z.op = Head(orderUp).op
      BY <2>2, <2>5, <2>6
    <3> QED
      BY <1>1, <1>2, <1>b, <2>2, <2>4, <2>5, <2>6, <3>1, ColumnsHandle
  <2> QED
    BY <1>b, <2>2, <2>6, Zenon DEF ColumnsNow, BehindIs
<1>9. CASE Order!Answer
  <2>1. PICK a : AnswerOf(a)
    BY <1>9, AnswerIs
  <2>2. /\ orderDown # <<>> /\ a = Head(orderDown) /\ orderDown' = Tail(orderDown)
        /\ rowsShown' = IF Later(orderUp, orderDown, "drag") THEN rowsShown
                        ELSE Order!Rows(Head(orderDown).list)
        /\ kind' = kind /\ held' = held /\ orderUp' = orderUp /\ orderActs' = orderActs
    BY <2>1, Zenon DEF AnswerOf
  <2>3. behind' \in BOOLEAN /\ ((orderUp = <<>> /\ Len(orderDown) = 1) \/ behind' = behind)
    BY <2>1, <1>b DEF AnswerOf
  <2>4. ASSUME kind = "columns"
        PROVE ColumnsInv(held, rowsShown', orderUp, Tail(orderDown), orderActs, behind')
    <3> DEFINE t == rowsShown'
               c == behind'
    <3>1. t = IF Later(orderUp, orderDown, "drag") THEN rowsShown ELSE Order!Rows(Head(orderDown).list)
      BY <2>2, Zenon
    <3>2. c \in BOOLEAN /\ ((orderUp = <<>> /\ Len(orderDown) = 1) \/ c = behind)
      BY <2>3
    <3>3. orderUp \in Seq(Pushed)
      BY <1>1 DEF GoingUp
    <3> HIDE DEF t, c
    <3>4. ColumnsInv(held, t, orderUp, Tail(orderDown), orderActs, c)
      BY <1>1, <1>2, <1>b, <2>2, <2>4, <3>1, <3>2, <3>3, ColumnsAnswer
    <3> QED
      BY <3>4 DEF t, c
  <2> QED
    BY <2>2, <2>3, <2>4, Zenon DEF ColumnsNow, BehindIs
<1>10. CASE UNCHANGED Order!listVars
  BY <1>10, <1>b, Zenon DEF Order!listVars, ColumnsNow, BehindIs
<1> QED
  BY <1>3, <1>5, <1>6, <1>7, <1>8, <1>9, <1>10 DEF Order!ListNext

LEMMA ColumnsStart ==
    ASSUME Order!ListInit
    PROVE ColumnsNow /\ BehindIs
<1>1. /\ rowsShown = Order!Rows(held) /\ orderUp = <<>> /\ orderDown = <<>> /\ behind = FALSE
      /\ orderActs = 0
      /\ kind = "columns" => held = << <<1, 2>>, <<3>> >>
  BY DEF Order!ListInit
<1>2. ASSUME kind = "columns"
      PROVE ColumnsInv(held, rowsShown, orderUp, orderDown, orderActs, behind)
  <2> DEFINE a == <<1, 2>>
             b == <<3>>
  <2>1. a \in Seq(Nat) /\ b \in Seq(Nat) /\ Len(a) = 2 /\ Len(b) = 1
        /\ a[1] = 1 /\ a[2] = 2 /\ b[1] = 3
    OBVIOUS
  <2>2. held = <<a, b>>
    BY <1>1, <1>2
  <2> HIDE DEF a, b
  <2>3. held \in Seq(Seq(Nat)) /\ Len(held) = 2 /\ held[1] = a /\ held[2] = b
    BY <2>1, <2>2
  <2>4. \A p \in Order!Places(held) : p \in {<<1, 1>>, <<1, 2>>, <<2, 1>>}
    <3> SUFFICES ASSUME NEW p \in Order!Places(held)
                 PROVE p \in {<<1, 1>>, <<1, 2>>, <<2, 1>>}
      OBVIOUS
    <3>1. p[1] \in 1..2 /\ p[2] \in 1..Len(held[p[1]]) /\ p = <<p[1], p[2]>>
      BY <2>3, PlacesAre
    <3>2. CASE p[1] = 1
      <4>1. p[2] \in 1..2
        BY <2>1, <2>3, <3>1, <3>2
      <4> QED
        BY <3>1, <3>2, <4>1
    <3>3. CASE p[1] = 2
      <4>1. p[2] \in 1..1
        BY <2>1, <2>3, <3>1, <3>3
      <4> QED
        BY <3>1, <3>3, <4>1
    <3> QED
      BY <3>1, <3>2, <3>3
  <2>5. \A p \in Order!Places(held) :
           \/ p = <<1, 1>> /\ held[p[1]][p[2]] = 1
           \/ p = <<1, 2>> /\ held[p[1]][p[2]] = 2
           \/ p = <<2, 1>> /\ held[p[1]][p[2]] = 3
    <3> SUFFICES ASSUME NEW p \in Order!Places(held)
                 PROVE \/ p = <<1, 1>> /\ held[p[1]][p[2]] = 1
                       \/ p = <<1, 2>> /\ held[p[1]][p[2]] = 2
                       \/ p = <<2, 1>> /\ held[p[1]][p[2]] = 3
      OBVIOUS
    <3>1. CASE p = <<1, 1>>
      BY <3>1, <2>1, <2>3
    <3>2. CASE p = <<1, 2>>
      BY <3>2, <2>1, <2>3
    <3>3. CASE p = <<2, 1>>
      BY <3>3, <2>1, <2>3
    <3> QED
      BY <2>4, <3>1, <3>2, <3>3
  <2>6. OneEach(held)
    <3> SUFFICES ASSUME NEW p \in Order!Places(held), NEW q \in Order!Places(held),
                        held[p[1]][p[2]] = held[q[1]][q[2]]
                 PROVE p = q
      BY DEF OneEach
    <3> DEFINE x == held[p[1]][p[2]]
               y == held[q[1]][q[2]]
    <3>1. /\ (p = <<1, 1>> /\ x = 1) \/ (p = <<1, 2>> /\ x = 2) \/ (p = <<2, 1>> /\ x = 3)
          /\ (q = <<1, 1>> /\ y = 1) \/ (q = <<1, 2>> /\ y = 2) \/ (q = <<2, 1>> /\ y = 3)
          /\ x = y
      BY <2>5
    <3> HIDE DEF x, y
    <3> QED
      BY <3>1
  <2>7. Order!In(held) \subseteq 1..3
    <3>1. \A x \in Order!In(held) : \E p \in Order!Places(held) : x = held[p[1]][p[2]]
      BY <2>3, InIs
    <3>2. \A x \in Order!In(held) : x = 1 \/ x = 2 \/ x = 3
      BY <2>5, <3>1
    <3> QED
      BY <3>2
  <2>8. OneEach(Order!Items(rowsShown))
    BY <1>1, <2>3, <2>6, ItemsOfRows
  <2>9. UpOnce(3 + orderActs, held, orderUp) /\ DownOnce(orderDown) /\ Recent(held, orderDown)
        /\ Ordered(orderUp, orderDown) /\ Named(held, orderUp)
    BY <1>1 DEF UpOnce, DownOnce, Recent, Ordered, Named
  <2>10. Seen(held, rowsShown, orderDown)
    BY <1>1, <2>3, ItemsOfRows DEF Seen
  <2> QED
    BY <1>1, <2>6, <2>7, <2>8, <2>9, <2>10 DEF ColumnsInv
<1> QED
  BY <1>1, <1>2 DEF ColumnsNow, BehindIs

OrderInv == OrderTypedNow /\ OrderMeantNow /\ ColumnsNow /\ BehindIs

LEMMA OrderStart ==
    ASSUME Order!ListInit
    PROVE OrderInv
BY OrderStarts, ColumnsStart DEF OrderInv

LEMMA OrderStep ==
    ASSUME OrderInv, [Order!ListNext]_(Order!listVars)
    PROVE OrderInv'
<1>1. OrderTypedNow /\ OrderMeantNow /\ ColumnsNow /\ BehindIs
  BY DEF OrderInv
<1>2. OrderTypedNow'
  BY <1>1, OrderTypedStep
<1>3. OrderMeantNow'
  BY <1>1, OrderMeantStep
<1>4. ColumnsNow' /\ BehindIs'
  BY <1>1, ColumnsStep
<1> QED
  BY <1>2, <1>3, <1>4 DEF OrderInv

LEMMA OrderSafe ==
    ASSUME OrderInv
    PROVE Order!AsTheEditorLeftIt
BY OrderMeantSafe DEF OrderInv

\* A drag the server handles.
LEMMA DragKeepsAll ==
    ASSUME OrderInv, NEW m, NEW X, HandleOf(m, X), m.op = "drag"
    PROVE Order!Contents(X) = Order!Contents(held) \/ (kind = "columns" /\ behind)
<1> DEFINE n == Len(held)
<1>1. /\ kind \in OrderKinds /\ n \in Nat \ {0} /\ (kind # "columns" => n = 1)
      /\ Listed(n, held) /\ GoingUp(n, orderUp)
  BY DEF OrderInv, OrderTypedNow, OrderTyped
<1>2. orderUp # <<>> /\ m = Head(orderUp) /\ X = Obeyed(kind, held, m)
  BY DEF HandleOf
<1>3. /\ m \in Pushed /\ RowFits(n, m) /\ m = orderUp[1] /\ 1 \in 1..Len(orderUp)
      /\ m.order \in Seq(Seq(Nat)) /\ Len(m.order) = n
  <2>1. m \in Pushed /\ RowFits(n, m) /\ m = orderUp[1] /\ Len(orderUp) \in Nat /\ Len(orderUp) >= 1
    BY <1>1, <1>2, UpTaken
  <2> QED
    BY <2>1, PushFields DEF RowFits
<1>4. held \in Seq(Seq(Nat))
  BY <1>1 DEF Listed
<1>5. CASE kind = "columns"
  <2> SUFFICES ASSUME ~behind PROVE Order!Contents(X) = Order!Contents(held)
    BY <1>5
  <2>1. /\ OneEach(held) /\ UpOnce(3 + orderActs, held, orderUp) /\ Named(held, orderUp)
    BY <1>5 DEF OrderInv, ColumnsNow, ColumnsInv
  <2>2. OneEach(m.order) /\ Order!In(held) \subseteq Order!In(m.order)
    BY <1>3, <2>1 DEF UpOnce, Named
  <2>3. X = KeptOf(m.order, Order!In(held))
    BY <1>2, <1>5 DEF Obeyed
  <2>4. X \in Seq(Seq(Nat)) /\ OneEach(X) /\ Order!In(X) = Order!In(m.order) \cap Order!In(held)
    BY <1>3, <2>2, <2>3, KeptOfFacts
  <2>5. Order!In(X) = Order!In(held)
    BY <2>2, <2>4
  <2>6. Order!Contents(X) = [x \in Order!In(X) |-> 1]
    BY <2>4, OnceIsOnce
  <2>7. Order!Contents(held) = [x \in Order!In(held) |-> 1]
    BY <1>4, <2>1, OnceIsOnce
  <2> QED
    BY <2>5, <2>6, <2>7
<1>6. CASE kind # "columns"
  <2> DEFINE s == held[1]
             o == m.order[1]
  <2>1. s \in Seq(Nat) /\ held = <<s>>
    BY <1>1, <1>4, <1>6, OneColumn
  <2>2. o \in Seq(Nat)
    BY <1>1, <1>3, <1>6, OneColumn
  <2>3. X = <<Order!GalleryOrder(s, o)>> \/ X = <<Order!PhraseOrder(s, o)>>
    BY <1>1, <1>2, <1>6 DEF Obeyed, OrderKinds
  <2> HIDE DEF s, o
  <2>4. /\ HoldsTheSame(Order!GalleryOrder(s, o), s)
        /\ HoldsTheSame(Order!PhraseOrder(s, o), s)
    BY <2>1, <2>2, GalleryKeeps, PhraseKeeps
  <2> QED
    BY <2>1, <2>3, <2>4 DEF HoldsTheSame
<1> QED
  BY <1>5, <1>6

LEMMA TakenIsShorter ==
    ASSUME NEW n, NEW u, GoingUp(n, u), u # <<>>
    PROVE Tail(u) # u /\ \A m \in Pushed : Append(u, m) # Tail(u)
<1>1. u \in Seq(Pushed) /\ Len(u) \in Nat /\ Len(Tail(u)) = Len(u) - 1
  BY UpTaken DEF GoingUp
<1>2. \A m \in Pushed : Len(Append(u, m)) = Len(u) + 1
  BY <1>1, Added
<1> DEFINE l == Len(u)
<1>3. l \in Nat
  BY <1>1
<1> HIDE DEF l
<1>4. l - 1 # l /\ l - 1 # l + 1
  BY <1>3
<1>5. Len(Tail(u)) = l - 1 /\ Len(u) = l /\ \A m \in Pushed : Len(Append(u, m)) = l + 1
  BY <1>1, <1>2 DEF l
<1> QED
  BY <1>4, <1>5

LEMMA OrderSlips ==
    ASSUME OrderInv, [Order!ListNext]_(Order!listVars)
    PROVE (orderUp # <<>> /\ orderUp' = Tail(orderUp) /\ Head(orderUp).op = "drag")
            => \/ Order!Contents(held') = Order!Contents(held)
               \/ kind = "columns" /\ behind
<1> SUFFICES ASSUME orderUp # <<>>, orderUp' = Tail(orderUp), Head(orderUp).op = "drag"
             PROVE \/ Order!Contents(held') = Order!Contents(held)
                   \/ kind = "columns" /\ behind
  OBVIOUS
<1>1. GoingUp(Len(held), orderUp)
  BY DEF OrderInv, OrderTypedNow, OrderTyped
<1>2. Tail(orderUp) # orderUp /\ \A m \in Pushed : Append(orderUp, m) # Tail(orderUp)
  BY <1>1, TakenIsShorter
<1>o. OrderTyped(kind, Len(held), held, wish, rowsShown, count, orderActs, orderUp, orderDown)
  BY DEF OrderInv, OrderTypedNow
<1>3. \A m \in Pushed : ~PushOf(m)
  BY <1>2 DEF PushOf
<1>4. ~Order!Drag
  <2>1. ASSUME Order!Drag PROVE FALSE
    <3>1. PICK R, m : DropOf(R, m)
      BY <1>o, <2>1, DragIs
    <3> QED
      BY <1>3, <3>1 DEF DropOf
  <2> QED
    BY <2>1
<1>5. ~Order!AddRow
  <2>1. ASSUME Order!AddRow PROVE FALSE
    <3>1. PICK c, e, m : AddOf(c, e, m)
      BY <1>o, <2>1, AddIs
    <3> QED
      BY <1>3, <3>1 DEF AddOf
  <2> QED
    BY <2>1
<1>6. ~Order!RemoveRow
  <2>1. ASSUME Order!RemoveRow PROVE FALSE
    <3>1. PICK p, m : RemoveOf(p, m)
      BY <1>o, <2>1, RemoveIs
    <3> QED
      BY <1>3, <3>1 DEF RemoveOf
  <2> QED
    BY <2>1
<1>7. ~Order!Backspace
  <2>1. ASSUME Order!Backspace PROVE FALSE
    <3>1. PICK m : LastOf(m)
      BY <1>o, <2>1, BackspaceIs
    <3> QED
      BY <1>3, <3>1 DEF LastOf
  <2> QED
    BY <2>1
<1>8. ~Order!Answer
  BY <1>2, AnswerIs DEF AnswerOf
<1>9. ~UNCHANGED Order!listVars
  BY <1>2 DEF Order!listVars
<1>10. Order!HandlePush
  BY <1>4, <1>5, <1>6, <1>7, <1>8, <1>9 DEF Order!ListNext
<1>11. PICK m, X : HandleOf(m, X)
  BY <1>10, HandleIs
<1>12. m = Head(orderUp) /\ held' = X
  BY <1>11 DEF HandleOf
<1>13. Order!Contents(X) = Order!Contents(held) \/ (kind = "columns" /\ behind)
  BY <1>11, <1>12, DragKeepsAll
<1> QED
  BY <1>12, <1>13, Zenon


RacedIs == orderRaced \in BOOLEAN

LEMMA RacedStart == Order!ListInit => RacedIs
BY DEF Order!ListInit, RacedIs

LEMMA RacedStep == RacedIs /\ [Order!ListNext]_(Order!listVars) => RacedIs'
<1> SUFFICES ASSUME RacedIs, [Order!ListNext]_(Order!listVars) PROVE RacedIs'
  OBVIOUS
<1>1. ASSUME NEW m, Order!Push(m) PROVE orderRaced' \in BOOLEAN
  BY <1>1 DEF RacedIs, Order!Push
<1>2. CASE Order!Drag
  <2>1. \E m : Order!Push(m)
    BY <1>2, Zenon DEF Order!Drag
  <2> QED
    BY <1>1, <2>1 DEF RacedIs
<1>3. CASE Order!AddRow
  <2>1. \E m : Order!Push(m)
    BY <1>3, Zenon DEF Order!AddRow
  <2> QED
    BY <1>1, <2>1 DEF RacedIs
<1>4. CASE Order!RemoveRow
  <2>1. \E m : Order!Push(m)
    BY <1>4, Zenon DEF Order!RemoveRow
  <2> QED
    BY <1>1, <2>1 DEF RacedIs
<1>5. CASE Order!Backspace
  <2>1. \E m : Order!Push(m)
    BY <1>5, Zenon DEF Order!Backspace
  <2> QED
    BY <1>1, <2>1 DEF RacedIs
<1>6. CASE Order!HandlePush
  BY <1>6 DEF Order!HandlePush, RacedIs
<1>7. CASE Order!Answer
  <2>1. orderRaced' = FALSE \/ orderRaced' = orderRaced
    BY <1>7, Zenon DEF Order!Answer
  <2> QED
    BY <2>1 DEF RacedIs
<1>8. CASE UNCHANGED Order!listVars
  BY <1>8 DEF Order!listVars, RacedIs
<1> QED
  BY <1>2, <1>3, <1>4, <1>5, <1>6, <1>7, <1>8 DEF Order!ListNext

LEMMA OrderTypes == OrderInv /\ RacedIs => Order!ListTypeOK
<1> SUFFICES ASSUME OrderInv, RacedIs PROVE Order!ListTypeOK
  OBVIOUS
<1>1. /\ kind \in OrderKinds /\ Listed(Len(held), wish) /\ Table(Len(held), rowsShown) /\ count \in Nat
      /\ behind \in BOOLEAN /\ orderRaced \in BOOLEAN
  BY DEF OrderInv, OrderTypedNow, OrderTyped, BehindIs, RacedIs
<1>2. kind \in {"gallery", "phrases", "columns"}
  BY <1>1 DEF OrderKinds
<1>3. Len(wish) = Len(held) /\ Len(rowsShown) = Len(held)
  BY <1>1 DEF Listed, Table
<1> QED
  BY <1>1, <1>2, <1>3 DEF Order!ListTypeOK
===============================================================================
