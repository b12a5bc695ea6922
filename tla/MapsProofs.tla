------------------------------ MODULE MapsProofs ------------------------------
(***************************************************************************)
(* What a loop of inserts into a BTreeMap leaves (Maps), and facts about   *)
(* sequences.                                                              *)
(***************************************************************************)
EXTENDS Maps, SequencesExt, SequenceTheorems, WellFoundedInduction, TLAPS

\* A set of positions that is not empty has a last one.
LEMMA LastExists ==
  ASSUME NEW n \in Nat, NEW S, S \subseteq 1 .. n, S # {}
  PROVE  \E i \in S : \A j \in S : j <= i
<1> DEFINE T == {n - i : i \in S}
<1>1. T \subseteq Nat /\ T # {}
  <2>1. ASSUME NEW i \in S
        PROVE  n - i \in Nat
    OBVIOUS
  <2> QED
    BY <2>1
<1>2. PICK x \in T : \A y \in T : ~(<<y, x>> \in OpToRel(<, Nat))
  BY <1>1, NatLessThanWellFounded, WFMin
<1>3. \A y \in T : ~(y < x)
  BY <1>1, <1>2 DEF OpToRel
<1>4. PICK i \in S : x = n - i
  OBVIOUS
<1>5. ASSUME NEW j \in S
      PROVE  j <= i
  <2>1. n - j \in T
    OBVIOUS
  <2>2. ~(n - j < n - i)
    BY <1>3, <1>4, <2>1
  <2> QED
    BY <2>2
<1> QED
  BY <1>4, <1>5

\* The same length, mapped element by element, is a sequence.
LEMMA Mapped ==
  ASSUME NEW S, NEW s \in Seq(S), NEW T, NEW f,
         f = [i \in DOMAIN s |-> f[i]], \A i \in DOMAIN s : f[i] \in T
  PROVE  f \in Seq(T)
<1>1. f \in [1 .. Len(s) -> T] /\ Len(s) \in Nat
  OBVIOUS
<1> QED
  BY <1>1, SeqDef

LEMMA Element ==
  ASSUME NEW S, NEW s \in Seq(S), NEW i \in DOMAIN s
  PROVE  s[i] \in S
  BY LenProperties

\* Of a key with an entry that has an item, the map has the last one's item.
LEMMA LastEntriesItem ==
  ASSUME NEW S, NEW entries \in Seq(S),
         NEW n \in DOMAIN LastEntries(entries)
  PROVE  \E i \in DOMAIN entries :
           /\ entries[i].key = n
           /\ entries[i].item # None
           /\ LastEntries(entries)[n] = entries[i].item
           /\ \A j \in DOMAIN entries :
                entries[j].key = n /\ entries[j].item # None => j <= i
<1> DEFINE given == {i \in DOMAIN entries : entries[i].item # None}
           same == {i \in given : entries[i].key = n}
           Latest(m, i) == /\ entries[i].key = m
                         /\ \A j \in given : entries[j].key = m => j <= i
<1>1. LastEntries(entries) =
        [m \in {entries[i].key : i \in given} |->
           entries[CHOOSE i \in given : Latest(m, i)].item]
  BY Zenon DEF LastEntries
<1>2. n \in {entries[i].key : i \in given}
  BY <1>1, Zenon
<1>3. Len(entries) \in Nat /\ same \subseteq 1 .. Len(entries) /\ same # {}
  BY <1>2
<1>4. PICK i \in same : \A j \in same : j <= i
  BY <1>3, LastExists
<1>5. \E k \in given : Latest(n, k)
  BY <1>4
<1>6. PICK k \in given : Latest(n, k) /\ k = CHOOSE l \in given : Latest(n, l)
  BY <1>5
<1> HIDE DEF Latest, given
<1>7. LastEntries(entries)[n] = entries[k].item
  BY <1>1, <1>2, <1>6, Zenon
<1> QED
  BY <1>6, <1>7 DEF Latest, given

\* Every key that has an entry with an item is in the map.
LEMMA LastEntriesKeys ==
  ASSUME NEW entries
  PROVE  DOMAIN LastEntries(entries) =
           {entries[i].key : i \in {j \in DOMAIN entries : entries[j].item # None}}
  BY Zenon DEF LastEntries

-----------------------------------------------------------------------------
(* Induction, of sets: what a predicate would be is a set of numbers.      *)

\* A set of numbers with 0 and with the next of each has them all.
LEMMA Induction ==
  ASSUME NEW S, 0 \in S, \A n \in Nat : n \in S => n + 1 \in S
  PROVE  \A n \in Nat : n \in S
<1> SUFFICES ASSUME NEW n \in Nat, n \notin S
             PROVE  FALSE
  OBVIOUS
<1> DEFINE T == {i \in Nat : i \notin S}
<1>1. T \subseteq Nat /\ T # {}
  OBVIOUS
<1>2. PICK x \in T : \A y \in T : ~(<<y, x>> \in OpToRel(<, Nat))
  BY <1>1, NatLessThanWellFounded, WFMin
<1>3. \A y \in T : ~(y < x)
  BY <1>1, <1>2 DEF OpToRel
<1>4. x \in Nat /\ x # 0 /\ x - 1 \in Nat /\ x - 1 < x
  OBVIOUS
<1>5. x - 1 \in S
  BY <1>3, <1>4
<1>6. (x - 1) + 1 \in S
  BY <1>4, <1>5
<1> QED
  BY <1>4, <1>6

-----------------------------------------------------------------------------
(* FlattenSeq, which the library defines by recursion.                     *)

\* f has, at each i, the first i of the sequences s one after the other.
Flattens(f, s, n) ==
  f = [i \in 1 .. n |-> IF i = 1 THEN s[i] ELSE f[i - 1] \o s[i]]

LEMMA FlattensExists ==
  ASSUME NEW s, NEW n \in Nat
  PROVE  \E f : Flattens(f, s, n)
<1> DEFINE S == {k \in Nat : \E f : Flattens(f, s, k)}
<1>1. 0 \in S
  <2>1. <<>> = [i \in 1 .. 0 |-> IF i = 1 THEN s[i] ELSE <<>>[i - 1] \o s[i]]
    OBVIOUS
  <2> QED
    BY <2>1 DEF Flattens
<1>2. ASSUME NEW k \in Nat, k \in S
      PROVE  k + 1 \in S
  <2>1. PICK f : Flattens(f, s, k)
    BY <1>2
  <2> DEFINE last == IF k = 0 THEN s[1] ELSE f[k] \o s[k + 1]
             g == [i \in 1 .. k + 1 |-> IF i = k + 1 THEN last ELSE f[i]]
  <2>2. ASSUME NEW i \in 1 .. k + 1
        PROVE  g[i] = IF i = 1 THEN s[i] ELSE g[i - 1] \o s[i]
    <3>1. CASE i = k + 1
      <4>1. g[i] = last
        BY <3>1
      <4>2. k # 0 => g[k] = f[k]
        OBVIOUS
      <4> QED
        BY <3>1, <4>1, <4>2
    <3>2. CASE i # k + 1
      <4>1. i \in 1 .. k /\ g[i] = f[i]
        BY <3>2
      <4>2. i # 1 => g[i - 1] = f[i - 1]
        BY <4>1
      <4>3. f[i] = IF i = 1 THEN s[i] ELSE f[i - 1] \o s[i]
        BY <2>1, <4>1, Zenon DEF Flattens
      <4> QED
        BY <4>1, <4>2, <4>3
    <3> QED
      BY <3>1, <3>2
  <2>3. DOMAIN g = 1 .. k + 1 /\ g = [i \in 1 .. k + 1 |-> g[i]]
    OBVIOUS
  <2> HIDE DEF g
  <2>4. Flattens(g, s, k + 1)
    BY <2>2, <2>3 DEF Flattens
  <2> QED
    BY <2>4
<1> HIDE DEF S
<1>3. \A k \in Nat : k \in S
  BY <1>1, <1>2, Induction
<1> QED
  BY <1>3 DEF S

\* The sums of s up to each position.
Sums(s, n) == CHOOSE f : Flattens(f, s, n)

LEMMA SumsFlatten ==
  ASSUME NEW s, NEW n \in Nat
  PROVE  Flattens(Sums(s, n), s, n)
BY FlattensExists DEF Sums

LEMMA SumsNext ==
  ASSUME NEW s, NEW n \in Nat, NEW i \in 1 .. n
  PROVE  Sums(s, n)[i] = IF i = 1 THEN s[i] ELSE Sums(s, n)[i - 1] \o s[i]
<1> DEFINE f == Sums(s, n)
<1>1. f = [j \in 1 .. n |-> IF j = 1 THEN s[j] ELSE f[j - 1] \o s[j]]
  BY SumsFlatten DEF Flattens
<1> HIDE DEF f
<1>2. f[i] = IF i = 1 THEN s[i] ELSE f[i - 1] \o s[i]
  BY <1>1
<1> QED
  BY <1>2 DEF f

\* They depend on what is up to that position only.
LEMMA SumsSame ==
  ASSUME NEW s, NEW t, NEW m \in Nat,
         \A j \in 1 .. m : s[j] = t[j]
  PROVE  \A j \in 1 .. m : Sums(s, m + 1)[j] = Sums(t, m)[j]
<1> DEFINE S == {k \in Nat : k \in 1 .. m => Sums(s, m + 1)[k] = Sums(t, m)[k]}
<1>1. 0 \in S
  OBVIOUS
<1>2. ASSUME NEW k \in Nat, k \in S
      PROVE  k + 1 \in S
  <2>1. SUFFICES ASSUME k + 1 \in 1 .. m
                 PROVE  Sums(s, m + 1)[k + 1] = Sums(t, m)[k + 1]
    OBVIOUS
  <2>2. m + 1 \in Nat /\ k + 1 \in 1 .. m + 1 /\ (k + 1) - 1 = k /\ s[k + 1] = t[k + 1]
    BY <2>1
  <2>3. Sums(s, m + 1)[k + 1] =
          IF k + 1 = 1 THEN s[k + 1] ELSE Sums(s, m + 1)[(k + 1) - 1] \o s[k + 1]
    BY <2>2, SumsNext, Zenon
  <2>4. Sums(t, m)[k + 1] =
          IF k + 1 = 1 THEN t[k + 1] ELSE Sums(t, m)[(k + 1) - 1] \o t[k + 1]
    BY <2>1, SumsNext, Zenon
  <2>5. k # 0 => Sums(s, m + 1)[k] = Sums(t, m)[k]
    BY <1>2, <2>1
  <2>6. CASE k = 0
    BY <2>2, <2>3, <2>4, <2>6
  <2>7. CASE k # 0
    <3>1. k + 1 # 1
      BY <2>7
    <3> QED
      BY <2>2, <2>3, <2>4, <2>5, <2>7, <3>1, Zenon
  <2> QED
    BY <2>6, <2>7
<1> HIDE DEF S
<1>3. \A k \in Nat : k \in S
  BY <1>1, <1>2, Induction
<1> QED
  BY <1>3 DEF S

LEMMA SumsTyped ==
  ASSUME NEW S, NEW n \in Nat, NEW s, \A j \in 1 .. n : s[j] \in Seq(S)
  PROVE  \A j \in 1 .. n : Sums(s, n)[j] \in Seq(S)
<1> DEFINE T == {k \in Nat : k \in 1 .. n => Sums(s, n)[k] \in Seq(S)}
<1>1. 0 \in T
  OBVIOUS
<1>2. ASSUME NEW k \in Nat, k \in T
      PROVE  k + 1 \in T
  <2>1. SUFFICES ASSUME k + 1 \in 1 .. n
                 PROVE  Sums(s, n)[k + 1] \in Seq(S)
    OBVIOUS
  <2>2. Sums(s, n)[k + 1] =
          IF k + 1 = 1 THEN s[k + 1] ELSE Sums(s, n)[(k + 1) - 1] \o s[k + 1]
    BY <2>1, SumsNext, Zenon
  <2>3. s[k + 1] \in Seq(S) /\ (k + 1) - 1 = k
    BY <2>1
  <2>4. CASE k = 0
    BY <2>2, <2>3, <2>4
  <2>5. CASE k # 0
    <3>1. Sums(s, n)[k] \in Seq(S) /\ k + 1 # 1
      BY <1>2, <2>1, <2>5
    <3>2. Sums(s, n)[k] \o s[k + 1] \in Seq(S)
      BY <2>3, <3>1, ConcatProperties
    <3> QED
      BY <2>2, <2>3, <3>1, <3>2, Zenon
  <2> QED
    BY <2>4, <2>5
<1> HIDE DEF T
<1>3. \A k \in Nat : k \in T
  BY <1>1, <1>2, Induction
<1> QED
  BY <1>3 DEF T

\* The whole, of a sequence that is not empty.
LEMMA FlattenIsSum ==
  ASSUME NEW s, Len(s) \in Nat \ {0}
  PROVE  FlattenSeq(s) = Sums(s, Len(s))[Len(s)]
BY Zenon DEF FlattenSeq, Sums, Flattens

\* FlattenSeq of no sequences.
LEMMA FlattenEmpty ==
  FlattenSeq(<<>>) = <<>>
BY DEF FlattenSeq

\* FlattenSeq of one more sequence.
LEMMA FlattenMore ==
  ASSUME NEW S, NEW n \in Nat, NEW f \in [1 .. n -> Seq(S)],
         NEW g \in [1 .. n + 1 -> Seq(S)], \A i \in 1 .. n : f[i] = g[i]
  PROVE  /\ FlattenSeq(f) \in Seq(S)
         /\ FlattenSeq(g) \in Seq(S)
         /\ FlattenSeq(g) = FlattenSeq(f) \o g[n + 1]
<1>1. Len(f) = n /\ Len(g) = n + 1 /\ n + 1 \in Nat \ {0}
  OBVIOUS
<1>2. FlattenSeq(g) = Sums(g, n + 1)[n + 1]
  BY <1>1, FlattenIsSum
<1>3. n + 1 \in 1 .. n + 1 /\ (n + 1) - 1 = n /\ g[n + 1] \in Seq(S)
  OBVIOUS
<1>4. Sums(g, n + 1)[n + 1] =
        IF n + 1 = 1 THEN g[n + 1] ELSE Sums(g, n + 1)[(n + 1) - 1] \o g[n + 1]
  BY <1>1, <1>3, SumsNext, SMTT(30)
<1>5. CASE n = 0
  <2>1. f = <<>>
    BY <1>5
  <2>2. FlattenSeq(f) = <<>>
    BY <2>1, FlattenEmpty
  <2>3. FlattenSeq(g) = g[n + 1]
    BY <1>2, <1>4, <1>5
  <2> QED
    BY <1>3, <2>2, <2>3, ConcatEmptySeq
<1>6. CASE n # 0
  <2>1. FlattenSeq(f) = Sums(f, n)[n]
    BY <1>1, <1>6, FlattenIsSum
  <2>0. n \in 1 .. n /\ n <= n + 1 /\ n + 1 \in Nat
    BY <1>6
  <2>1b. \A j \in 1 .. n : Sums(g, n + 1)[j] = Sums(f, n)[j]
    <3>1. \A j \in 1 .. n : g[j] = f[j]
      OBVIOUS
    <3> QED
      BY <3>1, SumsSame, ZenonT(40)
  <2>2. Sums(g, n + 1)[n] = Sums(f, n)[n]
    BY <2>0, <2>1b, Zenon
  <2>3. Sums(f, n)[n] \in Seq(S)
    <3>1. \A j \in 1 .. n : f[j] \in Seq(S)
      OBVIOUS
    <3>2. \A j \in 1 .. n : Sums(f, n)[j] \in Seq(S)
      BY <3>1, SumsTyped, Zenon
    <3> QED
      BY <2>0, <3>2, Zenon
  <2>4. n + 1 # 1
    BY <1>6
  <2>5. FlattenSeq(g) = Sums(g, n + 1)[n] \o g[n + 1]
    BY <1>2, <1>3, <1>4, <2>4, Zenon
  <2>6. FlattenSeq(g) = FlattenSeq(f) \o g[n + 1]
    BY <2>1, <2>2, <2>5, Zenon
  <2> QED
    BY <1>3, <2>1, <2>3, <2>6, ConcatProperties
<1> QED
  BY <1>5, <1>6
=============================================================================
