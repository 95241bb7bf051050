------------------------ MODULE RdcWatchTableProofs -------------------------
(***************************************************************************)
(* Proofs about the sample cache (RdcSampleCache), the watch table over it *)
(* (RdcWatchTable), for every set of GPUs and fields, every number of      *)
(* groups and every setting a client may pass, and a client that reads the *)
(* history of a field (RdcHistoryReader).                                  *)
(***************************************************************************)
EXTENDS RdcWatchTable, RdcHistoryReader, SequenceTheorems, WellFoundedInduction, TLAPS

-----------------------------------------------------------------------------
(* What the operations of the sample cache return, for every vector of samples
   and every setting *)

\* A non-empty set of naturals has a least element.
LEMMA LeastNatural ==
  ASSUME NEW S \in SUBSET Nat, S # {}
  PROVE  \E x \in S : \A y \in S : x <= y
<1>1. \E x \in S : \A y \in S : ~ (<<y, x>> \in OpToRel(<, Nat))
  BY NatLessThanWellFounded, WFMin, Zenon
<1>2. PICK x \in S : \A y \in S : ~ (<<y, x>> \in OpToRel(<, Nat))
  BY <1>1, Zenon
<1>3. ASSUME NEW y \in S PROVE x <= y
  <2>1. <<y, x>> \notin OpToRel(<, Nat)
    BY <1>2, Zenon
  <2>2. ~ (y < x)
    BY <2>1, Zenon DEF OpToRel
  <2> QED BY <2>2
<1> QED BY <1>2, <1>3, Zenon

\* FirstKept is well defined: the erasing loop of evict_cache stops at the
\* first sample that is young enough, or at the end.
LEMMA FirstKeptExists ==
  ASSUME NEW s \in Seq(Nat), NEW age \in Nat, NEW now \in Nat
  PROVE  /\ FirstKept(s, age, now) \in 1 .. Len(s) + 1
         /\ \A j \in 1 .. FirstKept(s, age, now) - 1 : Expired(s[j], age, now)
         /\ FirstKept(s, age, now) <= Len(s) =>
              ~Expired(s[FirstKept(s, age, now)], age, now)
<1> DEFINE S == {i \in 1 .. Len(s) + 1 : i <= Len(s) => ~Expired(s[i], age, now)}
<1>1. S \in SUBSET Nat /\ Len(s) + 1 \in S
  BY LenProperties
<1>2. PICK i \in S : \A y \in S : i <= y
  BY <1>1, LeastNatural, Zenon
<1>3. ASSUME NEW j \in 1 .. i - 1 PROVE Expired(s[j], age, now)
  <2>1. j \in 1 .. Len(s) /\ ~(i <= j)
    BY <1>1, <1>2, LenProperties
  <2> QED BY <1>2, <2>1
<1>4. \E x \in 1 .. Len(s) + 1 :
        /\ \A j \in 1 .. x - 1 : Expired(s[j], age, now)
        /\ x <= Len(s) => ~Expired(s[x], age, now)
  BY <1>2, <1>3, Zenon
<1> QED BY <1>4, Zenon DEF FirstKept

\* item_remove is an int.
LEMMA ItemRemoveInt ==
  ASSUME NEW size \in Nat, NEW keep \in Nat
  PROVE  ItemRemove(size, keep) \in Int
<1>1. size - keep + INT_MAX + 1 \in Int /\ 2 * INT_MAX + 2 \in Nat \ {0}
  BY CacheConstants
<1> DEFINE r == (size - keep + INT_MAX + 1) % (2 * INT_MAX + 2)
<1>2. r \in Int
  <2> DEFINE a == size - keep + INT_MAX + 1
             b == 2 * INT_MAX + 2
  <2>1. a \in Int /\ b \in Nat \ {0}
    BY <1>1, Zenon
  <2> HIDE DEF a, b
  <2>2. a % b \in Int
    BY <2>1
  <2> QED BY <2>2, Zenon DEF a, b
<1> HIDE DEF r
<1>3. r - INT_MAX - 1 \in Int
  BY <1>2, CacheConstants
<1> QED BY <1>3, Zenon DEF ItemRemove, ToInt, r

\* t is what is left of s when its first samples are erased.
IsTail(t, s) ==
  \E n \in 0 .. Len(s) :
    /\ Len(t) = Len(s) - n
    /\ \A j \in 1 .. Len(t) : t[j] = s[n + j]

\* Erasing the samples before position m leaves a tail.
LEMMA TailOfSamples ==
  ASSUME NEW s \in Seq(Nat), NEW m \in Int, m >= 1
  PROVE  SubSeq(s, m, Len(s)) \in Seq(Nat) /\ IsTail(SubSeq(s, m, Len(s)), s)
<1> DEFINE t == SubSeq(s, m, Len(s))
<1>1. Len(s) \in Nat /\ \A i \in m .. Len(s) : s[i] \in Nat
  BY LenProperties, ElementOfSeq
<1>2. /\ t \in Seq(Nat)
      /\ Len(t) = IF m <= Len(s) THEN Len(s) - m + 1 ELSE 0
      /\ \A i \in 1 .. Len(s) - m + 1 : t[i] = s[m + i - 1]
  BY <1>1, SubSeqProperties, SMTT(30)
<1> HIDE DEF t
<1>3. CASE m <= Len(s)
  <2>1. m - 1 \in 0 .. Len(s) /\ Len(t) = Len(s) - (m - 1)
    BY <1>1, <1>2, <1>3
  <2>2. \A j \in 1 .. Len(t) : t[j] = s[(m - 1) + j]
    BY <1>1, <1>2, <1>3
  <2>3. IsTail(t, s)
    BY <2>1, <2>2, Zenon DEF IsTail
  <2> QED BY <1>2, <2>3, Zenon DEF t
<1>4. CASE ~(m <= Len(s))
  <2>1. Len(s) \in 0 .. Len(s) /\ Len(t) = Len(s) - Len(s)
    BY <1>1, <1>2, <1>4
  <2>2. \A j \in 1 .. Len(t) : t[j] = s[Len(s) + j]
    BY <1>1, <1>2, <1>4
  <2>3. IsTail(t, s)
    BY <2>1, <2>2, Zenon DEF IsTail
  <2> QED BY <1>2, <2>3, Zenon DEF t
<1> QED BY <1>3, <1>4, Zenon

\* A tail of a tail is a tail.
LEMMA TailOfTail ==
  ASSUME NEW s \in Seq(Nat), NEW t \in Seq(Nat), NEW u \in Seq(Nat),
         IsTail(t, s), IsTail(u, t)
  PROVE  IsTail(u, s)
<1>1. Len(s) \in Nat /\ Len(t) \in Nat /\ Len(u) \in Nat
  BY LenProperties, Zenon
<1>2. PICK n \in 0 .. Len(s) : Len(t) = Len(s) - n /\ \A j \in 1 .. Len(t) : t[j] = s[n + j]
  BY Zenon DEF IsTail
<1>3. PICK p \in 0 .. Len(t) : Len(u) = Len(t) - p /\ \A j \in 1 .. Len(u) : u[j] = t[p + j]
  BY Zenon DEF IsTail
<1>4. n + p \in 0 .. Len(s) /\ Len(u) = Len(s) - (n + p)
  BY <1>1, <1>2, <1>3
<1>5. ASSUME NEW j \in 1 .. Len(u) PROVE u[j] = s[(n + p) + j]
  <2>1. p + j \in 1 .. Len(t) /\ n + (p + j) = (n + p) + j
    BY <1>1, <1>2, <1>3
  <2>2. u[j] = t[p + j] /\ t[p + j] = s[n + (p + j)]
    BY <1>2, <1>3, <2>1, Zenon
  <2> QED BY <2>1, <2>2, Zenon
<1> QED BY <1>4, <1>5, Zenon DEF IsTail

\* Evicting surplus samples leaves a tail.
LEMMA EvictCountSamples ==
  ASSUME NEW s \in Seq(Nat), NEW keep \in Nat
  PROVE  EvictCount(s, keep) \in Seq(Nat) /\ IsTail(EvictCount(s, keep), s)
<1>1. Len(s) \in Nat /\ ItemRemove(Len(s), keep) \in Int
  BY LenProperties, ItemRemoveInt, Zenon
<1>2. CASE ItemRemove(Len(s), keep) > 0
  <2>1. ItemRemove(Len(s), keep) + 1 \in Int /\ ItemRemove(Len(s), keep) + 1 >= 1
    BY <1>1, <1>2
  <2> QED BY <1>2, <2>1, TailOfSamples, Zenon DEF EvictCount
<1>3. CASE ~(ItemRemove(Len(s), keep) > 0)
  <2>1. 0 \in 0 .. Len(s) /\ Len(s) = Len(s) - 0 /\ \A j \in 1 .. Len(s) : s[j] = s[0 + j]
    BY <1>1
  <2>2. IsTail(s, s)
    BY <2>1, Zenon DEF IsTail
  <2> QED BY <1>3, <2>2, Zenon DEF EvictCount
<1> QED BY <1>2, <1>3, Zenon

\* A tail has only samples of the vector.
LEMMA TailElements ==
  ASSUME NEW s \in Seq(Nat), NEW t \in Seq(Nat), IsTail(t, s)
  PROVE  \A j \in 1 .. Len(t) : \E i \in 1 .. Len(s) : t[j] = s[i]
<1>1. Len(s) \in Nat /\ Len(t) \in Nat
  BY LenProperties, Zenon
<1>2. PICK n \in 0 .. Len(s) : Len(t) = Len(s) - n /\ \A j \in 1 .. Len(t) : t[j] = s[n + j]
  BY Zenon DEF IsTail
<1>3. \A j \in 1 .. Len(t) : n + j \in 1 .. Len(s)
  BY <1>1, <1>2
<1> QED BY <1>2, <1>3, Zenon

\* evict_cache leaves a tail: it keeps the newest samples, in their order.
LEMMA EvictTail ==
  ASSUME NEW s \in Seq(Nat), NEW keep \in Nat, NEW age \in Nat, NEW now \in Nat
  PROVE  /\ evict_cache(s, keep, age, now) \in Seq(Nat)
         /\ IsTail(evict_cache(s, keep, age, now), s)
<1> DEFINE c == EvictCount(s, keep)
           m == FirstKept(c, age, now)
<1>1. c \in Seq(Nat) /\ IsTail(c, s)
  BY EvictCountSamples, Zenon
<1>2. m \in Int /\ m >= 1
  <2> HIDE DEF c
  <2>1. m \in 1 .. Len(c) + 1
    BY <1>1, FirstKeptExists, Zenon
  <2> QED BY <2>1, <1>1, LenProperties
<1>3. evict_cache(s, keep, age, now) = SubSeq(c, m, Len(c))
  BY Zenon DEF evict_cache, EvictAge
<1> HIDE DEF c, m
<1>4. SubSeq(c, m, Len(c)) \in Seq(Nat) /\ IsTail(SubSeq(c, m, Len(c)), c)
  BY <1>1, <1>2, TailOfSamples, Zenon
<1> QED BY <1>1, <1>3, <1>4, TailOfTail, Zenon

\* evict_cache invents no sample.
LEMMA EvictSamples ==
  ASSUME NEW s \in Seq(Nat), NEW keep \in Nat, NEW age \in Nat, NEW now \in Nat
  PROVE  /\ evict_cache(s, keep, age, now) \in Seq(Nat)
         /\ \A j \in 1 .. Len(evict_cache(s, keep, age, now)) :
              \E i \in 1 .. Len(s) : evict_cache(s, keep, age, now)[j] = s[i]
<1> DEFINE t == evict_cache(s, keep, age, now)
<1>1. t \in Seq(Nat) /\ IsTail(t, s)
  BY EvictTail, Zenon
<1> HIDE DEF t
<1>2. \A j \in 1 .. Len(t) : \E i \in 1 .. Len(s) : t[j] = s[i]
  BY <1>1, TailElements, Zenon
<1> QED BY <1>1, <1>2, Zenon DEF t

InventsNone(e, s) ==
  e \in Seq(Nat) /\ \A j \in 1 .. Len(e) : \E i \in 1 .. Len(s) : e[j] = s[i]

\* The same, by its name.
LEMMA EvictInventsNone ==
  ASSUME NEW s \in Seq(Nat), NEW keep \in Nat, NEW age \in Nat, NEW now \in Nat
  PROVE  InventsNone(evict_cache(s, keep, age, now), s)
BY EvictSamples, ZenonT(30) DEF InventsNone

\* When every sample is too old, evict_cache leaves none.
LEMMA EvictExpired ==
  ASSUME NEW s \in Seq(Nat), NEW keep \in Nat, NEW age \in Nat, NEW now \in Nat,
         \A i \in 1 .. Len(s) : Expired(s[i], age, now)
  PROVE  evict_cache(s, keep, age, now) = <<>>
<1> DEFINE c == EvictCount(s, keep)
           m == FirstKept(c, age, now)
<1>1. c \in Seq(Nat) /\ \A j \in 1 .. Len(c) : Expired(c[j], age, now)
  <2>1. c \in Seq(Nat) /\ IsTail(c, s)
    BY EvictCountSamples, Zenon
  <2> HIDE DEF c
  <2>2. \A j \in 1 .. Len(c) : \E i \in 1 .. Len(s) : c[j] = s[i]
    BY <2>1, TailElements, Zenon
  <2> QED BY <2>1, <2>2, Zenon
<1>2. evict_cache(s, keep, age, now) = SubSeq(c, m, Len(c))
  BY Zenon DEF evict_cache, EvictAge
<1> HIDE DEF c
<1>3. m \in 1 .. Len(c) + 1 /\ (m <= Len(c) => ~Expired(c[m], age, now))
  BY <1>1, FirstKeptExists, Zenon
<1>4. Len(c) \in Nat /\ m \in Int /\ Len(c) < m
  BY <1>1, <1>3, LenProperties, SMTT(30)
<1> HIDE DEF m
<1> QED BY <1>2, <1>4, SubSeqEmpty

\* The conversion to int does nothing to a difference that an int can hold.
LEMMA ItemRemoveExact ==
  ASSUME NEW size \in 0 .. INT_MAX, NEW keep \in 0 .. INT_MAX
  PROVE  ItemRemove(size, keep) = size - keep
<1> DEFINE a == size - keep + INT_MAX + 1
           b == 2 * INT_MAX + 2
<1>1. INT_MAX \in Nat \ {0}
  BY CacheConstants, Zenon
<1>2. a \in Nat /\ b \in Nat \ {0} /\ a < b
  BY <1>1
<1>3. a - INT_MAX - 1 = size - keep
  BY <1>1
<1> HIDE DEF a, b
<1>4. a % b = a
  BY <1>2
<1>5. ItemRemove(size, keep) = (a % b) - INT_MAX - 1
  BY Zenon DEF ItemRemove, ToInt, a, b
<1> QED BY <1>3, <1>4, <1>5, Zenon

\* The sample at i is among the newest `keep` and young enough.
Wanted(s, i, keep, age, now) ==
  i \in 1 .. Len(s) /\ Len(s) - i + 1 <= keep /\ ~Expired(s[i], age, now)

Has(s, ts) == \E j \in 1 .. Len(s) : s[j] = ts

\* evict_cache keeps every such sample, as long as the two counts fit in an
\* int.
LEMMA EvictKeeps ==
  ASSUME NEW s \in Seq(Nat), NEW keep \in Nat, NEW age \in Nat, NEW now \in Nat,
         Len(s) <= INT_MAX, keep <= INT_MAX, NEW i, Wanted(s, i, keep, age, now)
  PROVE  Has(evict_cache(s, keep, age, now), s[i])
<1> USE DEF Wanted
<1> DEFINE c == EvictCount(s, keep)
           m == FirstKept(c, age, now)
           t == evict_cache(s, keep, age, now)
           n == IF Len(s) > keep THEN Len(s) - keep ELSE 0
<1>1. Len(s) \in Nat /\ INT_MAX \in Nat
  BY LenProperties, CacheConstants, Zenon
<1>2. ItemRemove(Len(s), keep) = Len(s) - keep
  BY <1>1, ItemRemoveExact
<1>3. n \in 0 .. Len(s) /\ i - n \in 1 .. Len(s) - n
  BY <1>1, SMTT(30)
<1>4. c \in Seq(Nat) /\ Len(c) = Len(s) - n /\ c[i - n] = s[i]
  <2>1. c \in Seq(Nat)
    BY EvictCountSamples, Zenon
  <2>2. CASE Len(s) > keep
    <3>1. c = SubSeq(s, n + 1, Len(s)) /\ n \in 1 .. Len(s)
      <4>1. n = Len(s) - keep /\ n \in 1 .. Len(s) /\ ItemRemove(Len(s), keep) = n
        BY <1>1, <1>2, <2>2, SMTT(30)
      <4> HIDE DEF n
      <4>2. n > 0
        BY <4>1
      <4>3. c = IF ItemRemove(Len(s), keep) > 0
                THEN SubSeq(s, ItemRemove(Len(s), keep) + 1, Len(s)) ELSE s
        BY Zenon DEF EvictCount
      <4> HIDE DEF c
      <4> QED BY <4>1, <4>2, <4>3, Zenon
    <3> HIDE DEF n, c
    <3>2. \A x \in n + 1 .. Len(s) : s[x] \in Nat
      <4> TAKE x \in n + 1 .. Len(s)
      <4>1. x \in 1 .. Len(s)
        BY <1>1, <3>1
      <4> QED BY <4>1, ElementOfSeq, Zenon
    <3>3. /\ Len(c) = IF n + 1 <= Len(s) THEN Len(s) - (n + 1) + 1 ELSE 0
          /\ \A x \in 1 .. Len(s) - (n + 1) + 1 : c[x] = s[(n + 1) + x - 1]
      BY <1>1, <3>1, <3>2, SubSeqProperties
    <3>4. (n + 1) + (i - n) - 1 = i
      BY <1>1, <3>1
    <3>5. Len(c) = Len(s) - n
      BY <1>1, <1>3, <3>1, <3>3
    <3>6. i - n \in 1 .. Len(s) - (n + 1) + 1
      BY <1>1, <1>3, <3>1
    <3>7. c[i - n] = s[(n + 1) + (i - n) - 1]
      BY <3>3, <3>6, Zenon
    <3> QED BY <2>1, <3>4, <3>5, <3>7, Zenon
  <2>3. CASE ~(Len(s) > keep)
    <3>1. c = s
      BY <1>1, <1>2, <2>3 DEF EvictCount
    <3>2. n = 0 /\ i - n = i /\ Len(s) - n = Len(s)
      BY <1>1, <2>3
    <3> QED BY <2>1, <3>1, <3>2, Zenon
  <2> QED BY <2>2, <2>3, Zenon
<1>5. t = SubSeq(c, m, Len(c))
  BY Zenon DEF evict_cache, EvictAge
<1> HIDE DEF c, n
<1>6. /\ m \in 1 .. Len(c) + 1
      /\ \A j \in 1 .. m - 1 : Expired(c[j], age, now)
  BY <1>4, FirstKeptExists, Zenon
<1> HIDE DEF m, t
<1>7. m <= i - n
  BY <1>1, <1>3, <1>4, <1>6
<1>8. Len(t) = Len(c) - m + 1 /\ \A x \in 1 .. Len(c) - m + 1 : t[x] = c[m + x - 1]
  <2>1. Len(c) \in Nat
    BY <1>4, LenProperties, Zenon
  <2>3. \A x \in m .. Len(c) : c[x] \in Nat
    <3> TAKE x \in m .. Len(c)
    <3>1. x \in 1 .. Len(c)
      BY <1>6, <2>1
    <3> QED BY <1>4, <3>1, ElementOfSeq, Zenon
  <2>2. m \in Int /\ m <= Len(c)
    BY <1>1, <1>3, <1>4, <1>6, <1>7, SMTT(30)
  <2>4. /\ Len(t) = IF m <= Len(c) THEN Len(c) - m + 1 ELSE 0
        /\ \A x \in 1 .. Len(c) - m + 1 : t[x] = c[m + x - 1]
    BY ONLY <1>5, <2>1, <2>2, <2>3, SubSeqProperties, SMTT(30)
  <2> QED BY <2>2, <2>4, Zenon
<1> DEFINE j == i - n - m + 1
<1>9. j \in 1 .. Len(t) /\ j \in 1 .. Len(c) - m + 1 /\ m + j - 1 = i - n
  BY <1>1, <1>3, <1>4, <1>6, <1>7, <1>8, SMTT(30)
<1>10. t[j] = s[i]
  BY <1>4, <1>8, <1>9, Zenon
<1>11. \E x \in 1 .. Len(t) : t[x] = s[i]
  BY <1>9, <1>10, Zenon
<1> QED BY <1>11, Zenon DEF t, Has

\* A longer retention expires nothing that a shorter one keeps.
LEMMA LongerKeeps ==
  ASSUME NEW ts \in Nat, NEW a \in Nat, NEW b \in Nat, a <= b, NEW now \in Nat,
         Expired(ts, b, now)
  PROVE  Expired(ts, a, now)
<1>1. TicksPerSecond \in Nat
  BY CacheConstants, Zenon
<1>2. PICK d \in Nat : b = a + d
  <2>1. b - a \in Nat /\ b = a + (b - a)
    OBVIOUS
  <2> QED BY <2>1, Zenon
<1>3. b * TicksPerSecond = a * TicksPerSecond + d * TicksPerSecond
  BY <1>1, <1>2
<1>4. d * TicksPerSecond \in Nat /\ a * TicksPerSecond \in Nat
  BY <1>1
<1> QED BY <1>3, <1>4 DEF Expired

\* A sample that is not evicted is still there after an append.
LEMMA AppendKeeps ==
  ASSUME NEW s \in Seq(Nat), NEW ts \in Nat
  PROVE  /\ Append(s, ts) \in Seq(Nat) /\ Len(Append(s, ts)) = Len(s) + 1
         /\ \A i \in 1 .. Len(s) : i \in 1 .. Len(Append(s, ts)) /\ Append(s, ts)[i] = s[i]
<1>1. Len(s) \in Nat
  BY LenProperties, Zenon
<1> QED BY <1>1, AppendProperties

\* The eviction of clean_up never makes a sequence longer.
LEMMA EvictShorter ==
  ASSUME NEW s \in Seq(Nat), NEW keep \in Nat, NEW age \in Nat, NEW now \in Nat
  PROVE  Len(evict_cache(s, keep, age, now)) <= Len(s)
<1> DEFINE t == evict_cache(s, keep, age, now)
<1>1. t \in Seq(Nat) /\ IsTail(t, s)
  BY EvictTail, Zenon
<1> HIDE DEF t
<1>2. Len(t) \in Nat /\ Len(s) \in Nat
  BY <1>1, LenProperties, Zenon
<1>3. Len(t) <= Len(s)
  BY <1>1, <1>2 DEF IsTail
<1> QED BY <1>3, Zenon DEF t

\* What is wanted of the samples s with the settings of a watch is wanted,
\* with settings that are no narrower, of those with one sample more.
LEMMA WiderWanted ==
  ASSUME NEW s \in Seq(Nat), NEW c \in Seq(Nat), Len(c) <= Len(s) + 1,
         NEW keep \in Nat, NEW age \in Nat, NEW wkeep \in Nat, NEW wage \in Nat,
         keep >= wkeep, age >= wage, NEW now \in Nat,
         NEW i \in 1 .. Len(s), i \in 1 .. Len(c), c[i] = s[i],
         Len(s) - i + 1 < wkeep, ~Expired(s[i], wage, now)
  PROVE  Wanted(c, i, keep, age, now)
<1>1. Len(s) \in Nat /\ Len(c) \in Nat
  BY LenProperties, Zenon
<1>2. c[i] \in Nat
  BY ElementOfSeq, Zenon
<1>3. Len(c) - i + 1 <= keep
  <2> DEFINE x == Len(s)
             y == Len(c)
  <2>1. x \in Nat /\ y \in Nat /\ y <= x + 1 /\ i \in Int /\ x - i + 1 < wkeep /\ keep >= wkeep
    BY <1>1
  <2> HIDE DEF x, y
  <2>2. y - i + 1 <= keep
    BY ONLY <2>1, wkeep \in Nat, keep \in Nat
  <2> QED BY <2>2, Zenon DEF y
<1>4. ~Expired(c[i], age, now)
  <2>1. wage <= age
    BY Zenon
  <2> QED BY <1>2, <2>1, LongerKeeps, Zenon
<1> QED BY <1>3, <1>4, Zenon DEF Wanted

-----------------------------------------------------------------------------
Request == [freq : Nat, age : Nat, keep : Nat]

-----------------------------------------------------------------------------
(* Lemmas about the operators *)

\* A telemetry key is a key of the cache, and no event is cached under one.
LEMMA Keys ==
  /\ TelemetryKey \subseteq RdcFieldKey
  /\ \A g \in GPUs, f \in NotifFields :
       <<Bdf[g], f>> \in RdcFieldKey /\ <<Bdf[g], f>> \notin TelemetryKey
<1>1. /\ GPUs \subseteq Nat /\ NotifFields \subseteq Fields
      /\ \A g \in GPUs : Bdf[g] \in Nat /\ Bdf[g] \notin GPUs
  BY CommonConstants, Zenon
<1>2. Supported \subseteq Fields
  BY WatchConstants, Zenon
<1> QED BY <1>1, <1>2, Zenon DEF TelemetryKey, RdcFieldKey

\* The settings a watch gives a new field.
LEMMA NewSettingsType ==
  ASSUME NEW q \in Request
  PROVE  NewSettings(q) \in FieldSettings
BY Zenon DEF Request, NewSettings, FieldSettings

\* The settings after a merge: at least what each side asked for.
LEMMA MergeSettingsType ==
  ASSUME NEW old \in FieldSettings, NEW q \in Request
  PROVE  /\ MergeSettings(old, q) \in FieldSettings
         /\ MergeSettings(old, q).is_watching
         /\ MergeSettings(old, q).last_update_time = old.last_update_time
         /\ MergeSettings(old, q).update_freq <= q.freq
         /\ old.is_watching => MergeSettings(old, q).update_freq <= old.update_freq
         /\ MergeSettings(old, q).max_keep_age >= q.age
         /\ MergeSettings(old, q).max_keep_age >= old.max_keep_age
         /\ MergeSettings(old, q).max_keep_samples >= q.keep
         /\ MergeSettings(old, q).max_keep_samples >= old.max_keep_samples
BY DEF Request, MergeSettings, FieldSettings, MaxOf, MinOf

\* std::map::erase keeps a map well typed.
LEMMA MapEraseType ==
  ASSUME NEW m, NEW S, m \in [DOMAIN m -> S], NEW K
  PROVE  /\ DOMAIN MapErase(m, K) = DOMAIN m \ K
         /\ MapErase(m, K) \in [DOMAIN m \ K -> S]
         /\ \A k \in DOMAIN m \ K : MapErase(m, K)[k] = m[k]
BY Zenon DEF MapErase

\* The period left after an unwatch is one that a running watch asked for,
\* and the shortest of them.
LEMMA LeastFreq ==
  ASSUME NEW wt, wt \in [DOMAIN wt -> FieldSettings], NEW k, FreqsOf(wt, k) # {}
  PROVE  /\ LeastOf(FreqsOf(wt, k)) \in Nat
         /\ \A x \in FreqsOf(wt, k) : LeastOf(FreqsOf(wt, k)) <= x
<1>1. FreqsOf(wt, k) \in SUBSET Nat
  BY Zenon DEF FreqsOf, Watching, FieldSettings
<1>2. \E x \in FreqsOf(wt, k) : \A y \in FreqsOf(wt, k) : x <= y
  BY <1>1, LeastNatural, Zenon
<1> QED BY <1>1, <1>2, Zenon DEF LeastOf

-----------------------------------------------------------------------------
(* The inductive invariant *)

\* last_update_time of a field is not in the future, and no sample of the
\* field is newer: this is why clean_up, which erases a field by the age of
\* last_update_time, finds the samples of that field expired too.
Stamps ==
  \A k \in DOMAIN fields_to_watch_ :
    /\ fields_to_watch_[k].last_update_time <= clock
    /\ \A i \in 1 .. Len(cache_samples_[k]) :
         cache_samples_[k][i] <= fields_to_watch_[k].last_update_time

\* An entry belongs to groups that were created, and what a running watch was
\* granted is in its groups as long as these exist: this is why an unwatch,
\* which looks the groups up again, finds every field that is still needed.
Granted ==
  /\ \A e \in DOMAIN watch_table_ : e[1] < cur_group_id_ /\ e[2] < cur_field_group_id_
  /\ \A e \in Watching(watch_table_) :
       HasFields(e[1], e[2]) => watched_keys[e] \subseteq FieldsOf(e[1], e[2])

IInv ==
  /\ TypeOK /\ NoOrphanSamples /\ Stamps
  /\ HandlesWatched /\ Granted /\ WatchHonoured

\* Everything is empty at the start.
LEMMA InitIInv == Init => IInv
<1> SUFFICES ASSUME Init PROVE IInv
  BY Zenon
<1> USE DEF Init, GroupInit, NotifInit, EmptyMap
<1>1. GroupTypeOK
  BY GroupConstants DEF GroupTypeOK, MapPut, JOB_FIELD_ID
<1>2. NotifTypeOK
  BY Zenon DEF NotifTypeOK
<1>3. cache_samples_ \in [RdcFieldKey -> Seq(Nat)]
  BY EmptySeq, Zenon
<1>4. TypeOK
  BY <1>1, <1>2, <1>3, WatchConstants, Zenon DEF TypeOK
<1>5. NoOrphanSamples
  BY Keys, Zenon DEF NoOrphanSamples
<1>6. Stamps /\ HandlesWatched /\ Granted /\ WatchHonoured
  BY Zenon DEF Stamps, HandlesWatched, Granted, WatchHonoured, Watching
<1> QED BY <1>4, <1>5, <1>6, Zenon DEF IInv

\* What a step does to the groups that exist or existed: ids are not reused,
\* GPU groups only grow or go, field groups stay as they are or go.
GroupsKept ==
  /\ cur_group_id_ <= cur_group_id_' /\ cur_field_group_id_ <= cur_field_group_id_'
  /\ \A g \in DOMAIN gpu_group_' : g < cur_group_id_ =>
       g \in DOMAIN gpu_group_ /\ gpu_group_[g] \subseteq gpu_group_'[g]
  /\ \A f \in DOMAIN field_group_' : f < cur_field_group_id_ =>
       f \in DOMAIN field_group_ /\ field_group_[f] = field_group_'[f]

\* Creating, filling and destroying groups keeps them so.
LEMMA GroupStepKept ==
  ASSUME GroupTypeOK, GroupStep
  PROVE  GroupTypeOK' /\ GroupsKept
<1> USE DEF GroupTypeOK
<1>1. \/ GroupGpuCreate
      \/ \E g \in DOMAIN gpu_group_ : GroupGpuDestroy(g)
      \/ \E g \in DOMAIN gpu_group_, gpu \in GPUs : GroupGpuAdd(g, gpu)
      \/ \E fields \in FieldSets : GroupFieldCreate(fields)
      \/ \E f \in DOMAIN field_group_ : GroupFieldDestroy(f)
  BY Zenon DEF GroupStep
<1> USE DEF GroupsKept
<1>2. CASE GroupGpuCreate
  <2>1. gpu_group_' \in [DOMAIN gpu_group_ \cup {cur_group_id_} -> SUBSET GPUs]
    BY <1>2, Zenon DEF GroupGpuCreate, MapPut
  <2> QED BY <1>2, <2>1 DEF GroupGpuCreate, MapPut
<1>3. CASE \E g \in DOMAIN gpu_group_ : GroupGpuDestroy(g)
  BY <1>3 DEF GroupGpuDestroy, MapErase
<1>4. CASE \E g \in DOMAIN gpu_group_, gpu \in GPUs : GroupGpuAdd(g, gpu)
  BY <1>4 DEF GroupGpuAdd, MapPut
<1>5. CASE \E fields \in FieldSets : GroupFieldCreate(fields)
  <2>1. field_group_' \in [DOMAIN field_group_ \cup {cur_field_group_id_} -> SUBSET Fields]
    BY <1>5, GroupConstants DEF GroupFieldCreate, MapPut
  <2> QED BY <1>5, <2>1 DEF GroupFieldCreate, MapPut
<1>6. CASE \E f \in DOMAIN field_group_ : GroupFieldDestroy(f)
  BY <1>6 DEF GroupFieldDestroy, MapErase
<1> QED BY <1>1, <1>2, <1>3, <1>4, <1>5, <1>6, Zenon

\* So does the invariant hold.
LEMMA GroupIInv ==
  ASSUME IInv, GroupStep
  PROVE  IInv'
<1> USE DEF IInv, TypeOK
<1>1. UNCHANGED <<nvars, cache_samples_, tvars, smi_data_, last_cleanup_time_, clock>>
  BY Zenon DEF GroupStep
<1>2. GroupTypeOK' /\ GroupsKept
  BY GroupStepKept, Zenon
<1>3. TypeOK'
  BY <1>1, <1>2, Zenon DEF nvars, tvars, NotifTypeOK
<1>4. Granted'
  <2>1. UNCHANGED <<watch_table_, watched_keys>>
    BY <1>1, Zenon DEF tvars
  <2>2. ASSUME NEW e \in DOMAIN watch_table_
        PROVE  e[1] < cur_group_id_' /\ e[2] < cur_field_group_id_'
    BY <1>2, <2>2 DEF Granted, GroupsKept, EntryKey, GroupTypeOK
  <2>3. ASSUME NEW e \in Watching(watch_table_), HasFields(e[1], e[2])'
        PROVE  watched_keys[e] \subseteq FieldsOf(e[1], e[2])'
    <3>1. e[1] < cur_group_id_ /\ e[2] < cur_field_group_id_
      BY Zenon DEF Granted, Watching
    <3>2. HasFields(e[1], e[2])
      BY <1>2, <2>3, <3>1, Zenon DEF GroupsKept, HasFields
    <3>3. watched_keys[e] \subseteq FieldsOf(e[1], e[2])
      BY <3>2, Zenon DEF Granted
    <3> QED BY <1>2, <2>3, <3>1, <3>3, Zenon DEF GroupsKept, HasFields, FieldsOf
  <2> QED BY <2>1, <2>2, <2>3, Zenon DEF Granted, Watching
<1>5. (NoOrphanSamples /\ Stamps /\ HandlesWatched /\ WatchHonoured)'
  BY <1>1, Zenon DEF tvars, NoOrphanSamples, Stamps, HandlesWatched, WatchHonoured, Watching
<1> QED BY <1>3, <1>4, <1>5, Zenon

\* The clock goes on.
LEMMA TickIInv ==
  ASSUME IInv, Tick
  PROVE  IInv'
<1> USE DEF IInv, Tick
<1>1. TypeOK'
  BY DEF TypeOK, GroupTypeOK, NotifTypeOK, gvars, nvars, tvars
<1>2. Stamps'
  BY DEF Stamps, TypeOK, FieldSettings, tvars
<1>3. (NoOrphanSamples /\ HandlesWatched /\ Granted /\ WatchHonoured)'
  BY Zenon DEF NoOrphanSamples, HandlesWatched, Granted, WatchHonoured, Watching,
         HasFields, FieldsOf, gvars, tvars
<1> QED BY <1>1, <1>2, <1>3, Zenon

\* listen() returns events.
LEMMA ListenIInv ==
  ASSUME IInv, ListenNotif
  PROVE  IInv'
<1> USE DEF IInv, ListenNotif
<1>1. NotifTypeOK'
  BY DEF Listen, NotifTypeOK, TypeOK
<1>2. TypeOK'
  BY <1>1, Zenon DEF TypeOK, GroupTypeOK, gvars, tvars
<1>3. (NoOrphanSamples /\ Stamps /\ HandlesWatched /\ Granted /\ WatchHonoured)'
  BY Zenon DEF NoOrphanSamples, Stamps, HandlesWatched, Granted, WatchHonoured, Watching,
         HasFields, FieldsOf, gvars, tvars
<1> QED BY <1>2, <1>3, Zenon

\* Caching the events touches no telemetry key.
LEMMA NotifIInv ==
  ASSUME IInv, rdc_notif_update_cache
  PROVE  IInv'
<1> USE DEF IInv
<1> DEFINE keys == {e.key : e \in listened}
           stampOf(k) == CHOOSE t \in {e.ts : e \in listened} : [key |-> k, ts |-> t] \in listened
<1>1. /\ fields_to_watch_' = [k \in DOMAIN fields_to_watch_ |->
           IF k \in keys
           THEN [fields_to_watch_[k] EXCEPT !.last_update_time = stampOf(k)]
           ELSE fields_to_watch_[k]]
      /\ cache_samples_' = [k \in RdcFieldKey |->
           IF k \in keys THEN Append(cache_samples_[k], stampOf(k))
           ELSE cache_samples_[k]]
      /\ listened' = {}
      /\ UNCHANGED <<gvars, gpu_evnt_notif_masks_, device_mask, watch_table_,
                     watched_keys, smi_data_, last_cleanup_time_, clock>>
  BY Zenon DEF rdc_notif_update_cache, rdc_update_cache
<1>2. \A e \in listened : e.key \in RdcFieldKey \ TelemetryKey /\ e.ts \in Nat
                          /\ e = [key |-> e.key, ts |-> e.ts]
  BY Keys DEF TypeOK, NotifTypeOK
<1>3. ASSUME NEW k \in keys PROVE stampOf(k) \in Nat
  <2>1. PICK e \in listened : e.key = k
    BY Zenon
  <2>2. [key |-> k, ts |-> e.ts] \in listened
    BY <1>2, <2>1, Zenon
  <2>3. stampOf(k) \in {x.ts : x \in listened}
    BY <2>2, Zenon
  <2> QED BY <1>2, <2>3, Zenon
<1>4. keys \cap TelemetryKey = {}
  BY <1>2, Zenon
<1> HIDE DEF keys, stampOf
<1>5. UNCHANGED fields_to_watch_
  BY <1>1, <1>4, Zenon DEF TypeOK
<1>6. \A k \in TelemetryKey : cache_samples_'[k] = cache_samples_[k]
  BY <1>1, <1>4, Keys, Zenon
<1>7. cache_samples_' \in [RdcFieldKey -> Seq(Nat)]
  <2>1. ASSUME NEW k \in RdcFieldKey
        PROVE  (IF k \in keys THEN Append(cache_samples_[k], stampOf(k))
                ELSE cache_samples_[k]) \in Seq(Nat)
    BY <1>3, AppendProperties, Zenon DEF TypeOK
  <2> QED BY <1>1, <2>1, Zenon
<1>8. TypeOK'
  BY <1>1, <1>5, <1>7, Zenon DEF TypeOK, GroupTypeOK, NotifTypeOK, gvars
<1>9. (NoOrphanSamples /\ Stamps)'
  <2>1. DOMAIN fields_to_watch_ \subseteq TelemetryKey
    BY Zenon DEF TypeOK
  <2> QED BY <1>1, <1>5, <1>6, <2>1, Zenon DEF NoOrphanSamples, Stamps
<1>10. (HandlesWatched /\ Granted /\ WatchHonoured)'
  BY <1>1, <1>5, Zenon DEF HandlesWatched, Granted, WatchHonoured, Watching,
                    HasFields, FieldsOf, gvars
<1> QED BY <1>8, <1>9, <1>10, Zenon

\* The masks stay well typed.
LEMMA SetListenType ==
  ASSUME NotifTypeOK, NEW keys, SetListenEvents(keys)
  PROVE  NotifTypeOK'
BY ZenonT(30) DEF NotifTypeOK, SetListenEvents, NewMask

\* So they do when listening stops.
LEMMA StopListenType ==
  ASSUME NotifTypeOK, NEW gpus, StopListening(gpus)
  PROVE  NotifTypeOK'
BY Zenon DEF NotifTypeOK, StopListening

\* A step that changes nothing.
LEMMA StutterIInv ==
  ASSUME IInv, UNCHANGED vars
  PROVE  IInv'
BY Zenon DEF IInv, vars, gvars, nvars, tvars, TypeOK, GroupTypeOK, NotifTypeOK,
       NoOrphanSamples, Stamps, HandlesWatched, Granted, WatchHonoured,
       Watching, HasFields, FieldsOf

\* A watch that finds no groups erases at most an ended entry.
LEMMA WatchNotFoundIInv ==
  ASSUME IInv, NEW g, NEW f, FieldWatchNotFound(g, f),
         UNCHANGED <<gvars, cache_samples_, last_cleanup_time_, clock>>
  PROVE  IInv'
<1> USE DEF IInv
<1> DEFINE e == <<g, f>>
<1>1. /\ e \notin Watching(watch_table_)
      /\ watch_table_' = MapErase(watch_table_, {e})
      /\ watched_keys' = MapErase(watched_keys, {e})
      /\ UNCHANGED <<nvars, fields_to_watch_, smi_data_>>
  BY Zenon DEF FieldWatchNotFound
<1> HIDE DEF e
<1>2. /\ DOMAIN watch_table_' = DOMAIN watch_table_ \ {e}
      /\ watch_table_' \in [DOMAIN watch_table_ \ {e} -> FieldSettings]
      /\ \A x \in DOMAIN watch_table_ \ {e} : watch_table_'[x] = watch_table_[x]
  BY <1>1, MapEraseType, ZenonT(30) DEF TypeOK
<1>3. /\ watched_keys' \in [DOMAIN watch_table_ \ {e} -> SUBSET TelemetryKey]
      /\ \A x \in DOMAIN watch_table_ \ {e} : watched_keys'[x] = watched_keys[x]
  BY <1>1, Zenon DEF TypeOK, MapErase
<1>4. TypeOK'
  BY <1>1, <1>2, <1>3, Zenon DEF TypeOK, GroupTypeOK, NotifTypeOK, gvars, nvars
<1>5. (NoOrphanSamples /\ Stamps /\ HandlesWatched)'
  BY <1>1, Zenon DEF NoOrphanSamples, Stamps, HandlesWatched
<1>6. Granted'
  BY <1>2, <1>3, Zenon DEF Granted, Watching, HasFields, FieldsOf, gvars
<1>7. WatchHonoured'
  BY <1>1, <1>2, <1>3, ZenonT(60) DEF WatchHonoured, Watching
<1> QED BY <1>4, <1>5, <1>6, <1>7, Zenon

\* A watch that is granted.
LEMMA WatchOkIInv ==
  ASSUME IInv, NEW g, NEW f, NEW q \in Request, FieldWatchOk(g, f, q),
         UNCHANGED <<gvars, cache_samples_, last_cleanup_time_, clock>>
  PROVE  IInv'
<1> USE DEF IInv
<1> DEFINE e    == <<g, f>>
           keys == {k \in FieldsOf(g, f) : k[2] \in Supported}
           ftw  == AddFields(fields_to_watch_, keys, q)
<1>1. /\ HasFields(g, f)
      /\ SetListenEvents(FieldsOf(g, f))
      /\ fields_to_watch_' = ftw
      /\ watch_table_' = MapPut(watch_table_, e, NewSettings(q))
      /\ watched_keys' = MapPut(watched_keys, e, keys)
      /\ AcquireHandles(ftw)
  BY Zenon DEF FieldWatchOk
<1>2. /\ e \in EntryKey /\ e[1] < cur_group_id_ /\ e[2] < cur_field_group_id_
      /\ keys \subseteq TelemetryKey /\ keys \subseteq FieldsOf(e[1], e[2])
  BY <1>1 DEF HasFields, FieldsOf, TypeOK, GroupTypeOK, EntryKey, TelemetryKey
<1> HIDE DEF e, keys
<1>3. /\ DOMAIN ftw = DOMAIN fields_to_watch_ \cup keys
      /\ ftw \in [DOMAIN fields_to_watch_ \cup keys -> FieldSettings]
      /\ \A k \in DOMAIN fields_to_watch_ \ keys : ftw[k] = fields_to_watch_[k]
      /\ \A k \in DOMAIN fields_to_watch_ \cap keys :
           ftw[k] = MergeSettings(fields_to_watch_[k], q)
      /\ \A k \in keys \ DOMAIN fields_to_watch_ : ftw[k] = NewSettings(q)
  <2>1. fields_to_watch_ \in [DOMAIN fields_to_watch_ -> FieldSettings]
    BY Zenon DEF TypeOK
  <2>2. ASSUME NEW k \in DOMAIN fields_to_watch_ \cup keys
        PROVE  (IF k \notin keys THEN fields_to_watch_[k]
                ELSE IF k \in DOMAIN fields_to_watch_
                THEN MergeSettings(fields_to_watch_[k], q)
                ELSE NewSettings(q)) \in FieldSettings
    BY <2>1, NewSettingsType, MergeSettingsType, Zenon
  <2> QED BY <2>2, Zenon DEF AddFields
<1> HIDE DEF ftw
<1>4. /\ DOMAIN watch_table_' = DOMAIN watch_table_ \cup {e}
      /\ watch_table_' \in [DOMAIN watch_table_ \cup {e} -> FieldSettings]
      /\ watch_table_'[e] = NewSettings(q)
      /\ \A x \in DOMAIN watch_table_ \ {e} : watch_table_'[x] = watch_table_[x]
  <2>1. watch_table_ \in [DOMAIN watch_table_ -> FieldSettings]
    BY Zenon DEF TypeOK
  <2>2. NewSettings(q) \in FieldSettings
    BY NewSettingsType, Zenon
  <2> QED BY <1>1, <2>1, <2>2, Zenon DEF MapPut
<1>5. /\ watched_keys' \in [DOMAIN watch_table_ \cup {e} -> SUBSET TelemetryKey]
      /\ watched_keys'[e] = keys
      /\ \A x \in DOMAIN watch_table_ \ {e} : watched_keys'[x] = watched_keys[x]
  BY <1>1, <1>2, Zenon DEF TypeOK, MapPut
<1>6. \A k \in DOMAIN fields_to_watch_ : fields_to_watch_[k] \in FieldSettings
  BY Zenon DEF TypeOK
<1>7. HandlesWatched' /\ smi_data_' \subseteq DOMAIN ftw
  <2>1. ASSUME NEW k \in smi_data_' PROVE k \in DOMAIN ftw /\ ftw[k].is_watching
    <3>1. CASE k \in smi_data_
      <4>1. k \in DOMAIN fields_to_watch_ /\ fields_to_watch_[k].is_watching
        BY <3>1, Zenon DEF HandlesWatched
      <4> QED BY <1>3, <1>6, <4>1, MergeSettingsType, Zenon
    <3>2. CASE k \notin smi_data_
      BY <1>1, <2>1, <3>2, Zenon DEF AcquireHandles
    <3> QED BY <3>1, <3>2, Zenon
  <2> QED BY <1>1, <2>1, Zenon DEF HandlesWatched
<1>8. TypeOK'
  <2>1. NotifTypeOK'
    BY <1>1, SetListenType, Zenon DEF TypeOK
  <2>2. DOMAIN ftw \subseteq TelemetryKey
    BY <1>2, <1>3, Zenon DEF TypeOK
  <2> QED BY <1>1, <1>2, <1>3, <1>4, <1>5, <1>7, <2>1, <2>2, ZenonT(30) DEF TypeOK, GroupTypeOK, gvars
<1>9. NoOrphanSamples'
  BY <1>1, <1>3, Zenon DEF NoOrphanSamples
<1>10. Stamps'
  <2>1. ASSUME NEW k \in DOMAIN ftw
        PROVE  /\ ftw[k].last_update_time <= clock
               /\ \A i \in 1 .. Len(cache_samples_[k]) :
                    cache_samples_[k][i] <= ftw[k].last_update_time
    <3>1. CASE k \in DOMAIN fields_to_watch_
      <4>1. ftw[k].last_update_time = fields_to_watch_[k].last_update_time
        BY <1>3, <1>6, <3>1, MergeSettingsType, SMTT(30)
      <4> QED BY <3>1, <4>1, Zenon DEF Stamps
    <3>2. CASE k \notin DOMAIN fields_to_watch_
      <4>1. k \in keys /\ ftw[k].last_update_time = 0
        BY <1>3, <2>1, <3>2 DEF NewSettings
      <4>2. cache_samples_[k] = <<>>
        BY <1>2, <3>2, <4>1, Zenon DEF NoOrphanSamples
      <4>3. clock \in Nat
        BY DEF TypeOK
      <4> QED BY <4>1, <4>2, <4>3, EmptySeq, SMTT(30)
    <3> QED BY <3>1, <3>2, Zenon
  <2> QED BY <1>1, <2>1, Zenon DEF Stamps
<1>11. Granted'
  <2>1. \A x \in DOMAIN watch_table_' : x[1] < cur_group_id_ /\ x[2] < cur_field_group_id_
    BY <1>2, <1>4, Zenon DEF Granted
  <2>2. ASSUME NEW x \in Watching(watch_table_'), HasFields(x[1], x[2])
        PROVE  watched_keys'[x] \subseteq FieldsOf(x[1], x[2])
    <3>1. CASE x = e
      BY <1>2, <1>5, <3>1, Zenon
    <3>2. CASE x # e
      BY <1>4, <1>5, <2>2, <3>2, Zenon DEF Granted, Watching
    <3> QED BY <3>1, <3>2, Zenon
  <2> QED BY <2>1, <2>2, Zenon DEF Granted, HasFields, FieldsOf, gvars, Watching
<1>12. WatchHonoured'
  <2>1. ASSUME NEW x \in Watching(watch_table_'), NEW k \in watched_keys'[x]
        PROVE  /\ k \in DOMAIN ftw /\ ftw[k].is_watching
               /\ ftw[k].update_freq <= watch_table_'[x].update_freq
               /\ ftw[k].max_keep_age >= watch_table_'[x].max_keep_age
               /\ ftw[k].max_keep_samples >= watch_table_'[x].max_keep_samples
    <3>1. CASE x = e
      <4>1. k \in keys /\ watch_table_'[x] = NewSettings(q)
        BY <1>4, <1>5, <2>1, <3>1, ZenonT(30)
      <4>2. CASE k \in DOMAIN fields_to_watch_
        BY <1>3, <1>6, <4>1, <4>2, MergeSettingsType, SMTT(30) DEF NewSettings
      <4>3. CASE k \notin DOMAIN fields_to_watch_
        BY <1>3, <4>1, <4>3 DEF NewSettings, Request
      <4> QED BY <4>2, <4>3, Zenon
    <3>2. CASE x # e
      <4>1. /\ x \in Watching(watch_table_) /\ k \in watched_keys[x]
            /\ watch_table_'[x] = watch_table_[x] /\ watch_table_[x] \in FieldSettings
        BY <1>4, <1>5, <2>1, <3>2, Zenon DEF Watching, TypeOK
      <4>2. /\ k \in DOMAIN fields_to_watch_ /\ fields_to_watch_[k].is_watching
            /\ fields_to_watch_[k].update_freq <= watch_table_[x].update_freq
            /\ fields_to_watch_[k].max_keep_age >= watch_table_[x].max_keep_age
            /\ fields_to_watch_[k].max_keep_samples >= watch_table_[x].max_keep_samples
        BY <4>1, ZenonT(30) DEF WatchHonoured
      <4>3. CASE k \in keys
        <5>1. ftw[k] = MergeSettings(fields_to_watch_[k], q)
          BY <1>3, <4>2, <4>3, Zenon
        <5>2. /\ ftw[k] \in FieldSettings /\ ftw[k].is_watching
              /\ ftw[k].update_freq <= fields_to_watch_[k].update_freq
              /\ ftw[k].max_keep_age >= fields_to_watch_[k].max_keep_age
              /\ ftw[k].max_keep_samples >= fields_to_watch_[k].max_keep_samples
          BY <1>6, <4>2, <5>1, MergeSettingsType, Zenon
        <5> HIDE DEF IInv
        <5> QED BY <1>3, <1>6, <4>1, <4>2, <5>2, SMTT(30) DEF FieldSettings
      <4>4. CASE k \notin keys
        BY <1>3, <4>1, <4>2, <4>4, Zenon
      <4> QED BY <4>3, <4>4, Zenon
    <3> QED BY <3>1, <3>2, Zenon
  <2> QED BY <1>1, <2>1, Zenon DEF WatchHonoured, Watching
<1> QED BY <1>7, <1>8, <1>9, <1>10, <1>11, <1>12, Zenon

\* rdc_field_watch.
LEMMA WatchIInv ==
  ASSUME IInv, NEW g, NEW f, NEW q \in Request, NEW r, rdc_field_watch(g, f, q, r)
  PROVE  IInv'
<1>1. /\ FieldWatchConflict(g, f) \/ FieldWatchNotFound(g, f) \/ FieldWatchOk(g, f, q)
      /\ UNCHANGED <<gvars, cache_samples_, last_cleanup_time_, clock>>
  BY Zenon DEF rdc_field_watch
<1>2. CASE FieldWatchConflict(g, f)
  BY <1>1, <1>2, StutterIInv, Zenon DEF FieldWatchConflict, vars
<1> QED BY <1>1, <1>2, WatchNotFoundIInv, WatchOkIInv, Zenon

\* rdc_field_unwatch: the fields another watch needs stay watched, because
\* the periods are taken from the groups of every watch that still runs.
LEMMA UnwatchIInv ==
  ASSUME IInv, NEW g, NEW f, NEW now \in Nat, NEW r, rdc_field_unwatch(g, f, now, r)
  PROVE  IInv'
<1> DEFINE e == <<g, f>>
           wt == [watch_table_ EXCEPT ![e].is_watching = FALSE,
                                      ![e].last_update_time = now]
<1>1. /\ e \in DOMAIN watch_table_
      /\ watch_table_' = wt
      /\ UnwatchNotFound(e, wt) \/ UnwatchOk(e, wt)
      /\ UNCHANGED <<gvars, watched_keys, cache_samples_, last_cleanup_time_, clock>>
  BY Zenon DEF rdc_field_unwatch
<1> HIDE DEF e
<1>2. /\ watch_table_ \in [DOMAIN watch_table_ -> FieldSettings]
      /\ watched_keys \in [DOMAIN watch_table_ -> SUBSET TelemetryKey]
      /\ fields_to_watch_ \in [DOMAIN fields_to_watch_ -> FieldSettings]
  BY Zenon DEF IInv, TypeOK
<1>3. /\ DOMAIN wt = DOMAIN watch_table_
      /\ wt \in [DOMAIN watch_table_ -> FieldSettings]
      /\ \A x \in DOMAIN watch_table_ \ {e} : wt[x] = watch_table_[x]
      /\ wt[e].is_watching = FALSE
  BY <1>1, <1>2, ZenonT(60) DEF FieldSettings
<1> HIDE DEF wt
<1>4. Watching(wt) = Watching(watch_table_) \ {e}
  BY <1>3, Zenon DEF Watching
<1>5. Granted'
  BY <1>1, <1>3, <1>4, Zenon DEF IInv, Granted, HasFields, FieldsOf, gvars
<1>6. CASE UnwatchNotFound(e, wt)
  <2>1. UNCHANGED <<nvars, fields_to_watch_, smi_data_>>
    BY <1>6, Zenon DEF UnwatchNotFound
  <2>2. TypeOK'
    BY <1>1, <1>3, <2>1, Zenon DEF IInv, TypeOK, GroupTypeOK, NotifTypeOK, gvars, nvars
  <2>3. (NoOrphanSamples /\ Stamps /\ HandlesWatched)'
    BY <1>1, <2>1, Zenon DEF IInv, NoOrphanSamples, Stamps, HandlesWatched
  <2>4. WatchHonoured'
    <3>1. \A x \in Watching(wt) : x \in Watching(watch_table_) /\ wt[x] = watch_table_[x]
      BY <1>3, <1>4, Zenon DEF Watching
    <3> QED BY <1>1, <2>1, <3>1, Zenon DEF IInv, WatchHonoured
  <2> QED BY <1>5, <2>2, <2>3, <2>4, Zenon DEF IInv
<1>7. CASE UnwatchOk(e, wt)
  <2> DEFINE keys == FieldsOf(e[1], e[2])
             telemetry == {k \in keys : ~is_notification_event(k[2])}
             idle == {k \in telemetry : FreqsOf(wt, k) = {}}
  <2>1. /\ \A w \in Watching(wt) \cup {e} : HasFields(w[1], w[2])
        /\ StopListening({k[1] : k \in keys \ telemetry})
        /\ fields_to_watch_' = [k \in DOMAIN fields_to_watch_ |->
             IF k \in idle THEN [fields_to_watch_[k] EXCEPT !.is_watching = FALSE]
             ELSE IF k \in telemetry
             THEN [fields_to_watch_[k] EXCEPT !.update_freq = LeastOf(FreqsOf(wt, k))]
             ELSE fields_to_watch_[k]]
        /\ smi_data_' = smi_data_ \ (idle \cup (telemetry \ DOMAIN fields_to_watch_))
    BY <1>7, Zenon DEF UnwatchOk
  <2>2. \A k \in telemetry \ idle :
          /\ LeastOf(FreqsOf(wt, k)) \in Nat
          /\ \A x \in FreqsOf(wt, k) : LeastOf(FreqsOf(wt, k)) <= x
    BY <1>3, LeastFreq, Zenon
  <2>3. ASSUME NEW x \in Watching(wt), NEW k \in watched_keys[x]
        PROVE  k \notin idle /\ wt[x].update_freq \in FreqsOf(wt, k)
    <3>1. k \in FieldsOf(x[1], x[2])
      BY <1>4, <2>1, <2>3, Zenon DEF IInv, Granted
    <3> QED BY <2>3, <3>1, Zenon DEF FreqsOf
  <2> HIDE DEF keys, telemetry, idle
  <2>4. /\ DOMAIN fields_to_watch_' = DOMAIN fields_to_watch_
        /\ \A k \in DOMAIN fields_to_watch_ :
             /\ fields_to_watch_'[k] \in FieldSettings
             /\ fields_to_watch_'[k].last_update_time = fields_to_watch_[k].last_update_time
             /\ fields_to_watch_'[k].max_keep_age = fields_to_watch_[k].max_keep_age
             /\ fields_to_watch_'[k].max_keep_samples = fields_to_watch_[k].max_keep_samples
             /\ k \notin idle =>
                  fields_to_watch_'[k].is_watching = fields_to_watch_[k].is_watching
             /\ k \in telemetry \ idle =>
                  fields_to_watch_'[k].update_freq = LeastOf(FreqsOf(wt, k))
             /\ k \notin telemetry \cup idle => fields_to_watch_'[k] = fields_to_watch_[k]
    BY <1>2, <2>1, <2>2, Zenon DEF FieldSettings
  <2>5. TypeOK'
    <3>1. NotifTypeOK'
      BY <2>1, StopListenType, Zenon DEF IInv, TypeOK
    <3>2. fields_to_watch_' \in [DOMAIN fields_to_watch_' -> FieldSettings]
      BY <2>1, <2>4, Zenon
    <3> QED BY <1>1, <1>3, <2>1, <2>4, <3>1, <3>2, ZenonT(30) DEF IInv, TypeOK, GroupTypeOK, gvars
  <2>6. (NoOrphanSamples /\ Stamps)'
    BY <1>1, <2>4, Zenon DEF IInv, NoOrphanSamples, Stamps
  <2>7. HandlesWatched'
    BY <2>1, <2>4, ZenonT(30) DEF IInv, HandlesWatched
  <2>8. WatchHonoured'
    <3>1. ASSUME NEW x \in Watching(wt), NEW k \in watched_keys[x]
          PROVE  /\ k \in DOMAIN fields_to_watch_'
                 /\ fields_to_watch_'[k].is_watching
                 /\ fields_to_watch_'[k].update_freq <= wt[x].update_freq
                 /\ fields_to_watch_'[k].max_keep_age >= wt[x].max_keep_age
                 /\ fields_to_watch_'[k].max_keep_samples >= wt[x].max_keep_samples
      <4>1. x \in Watching(watch_table_) /\ wt[x] = watch_table_[x]
        BY <1>3, <1>4, Zenon DEF Watching
      <4>2. /\ k \in DOMAIN fields_to_watch_
            /\ fields_to_watch_[k].is_watching
            /\ fields_to_watch_[k].update_freq <= wt[x].update_freq
            /\ fields_to_watch_[k].max_keep_age >= wt[x].max_keep_age
            /\ fields_to_watch_[k].max_keep_samples >= wt[x].max_keep_samples
        BY <4>1, <3>1, Zenon DEF IInv, WatchHonoured
      <4>3. k \notin idle /\ wt[x].update_freq \in FreqsOf(wt, k)
        BY <2>3, <3>1, Zenon
      <4>4. fields_to_watch_'[k].update_freq <= wt[x].update_freq
        BY <2>2, <2>4, <4>2, <4>3, Zenon
      <4> QED BY <2>4, <4>2, <4>3, <4>4, Zenon
    <3> QED BY <1>1, <3>1, Zenon DEF WatchHonoured
  <2> QED BY <1>5, <2>5, <2>6, <2>7, <2>8, Zenon DEF IInv
<1> QED BY <1>1, <1>6, <1>7, Zenon

\* The fetch of rdc_field_update_all: it leaves the tables, before the
\* clean-up, with samples no newer than the time stamp of their field.
LEMMA FetchTables ==
  ASSUME IInv, NEW now \in Nat, NEW took \in Nat, NEW ok \in SUBSET Due(now)
  PROVE  LET ftw   == Stamped(Due(now), clock + took)
             cache == Sampled(ok, clock)
         IN  /\ DOMAIN ftw = DOMAIN fields_to_watch_
             /\ ftw \in [DOMAIN fields_to_watch_ -> FieldSettings]
             /\ cache \in [RdcFieldKey -> Seq(Nat)]
             /\ \A k \in TelemetryKey : cache[k] # <<>> => k \in DOMAIN fields_to_watch_
             /\ \A k \in DOMAIN fields_to_watch_ :
                  /\ ftw[k].is_watching = fields_to_watch_[k].is_watching
                  /\ ftw[k].update_freq = fields_to_watch_[k].update_freq
                  /\ ftw[k].max_keep_age = fields_to_watch_[k].max_keep_age
                  /\ ftw[k].max_keep_samples = fields_to_watch_[k].max_keep_samples
                  /\ ftw[k].last_update_time <= clock + took
                  /\ \A i \in 1 .. Len(cache[k]) : cache[k][i] <= ftw[k].last_update_time
<1> DEFINE ftw   == Stamped(Due(now), clock + took)
           cache == Sampled(ok, clock)
           due   == Due(now)
<1>1. /\ fields_to_watch_ \in [DOMAIN fields_to_watch_ -> FieldSettings]
      /\ DOMAIN fields_to_watch_ \subseteq TelemetryKey
      /\ cache_samples_ \in [RdcFieldKey -> Seq(Nat)]
      /\ clock \in Nat /\ clock + took \in Nat
  BY DEF IInv, TypeOK
<1>2. due \subseteq DOMAIN fields_to_watch_ /\ ok \subseteq due
  BY Zenon DEF Due
<1>3. ftw = [k \in DOMAIN fields_to_watch_ |->
               IF k \in due
               THEN [fields_to_watch_[k] EXCEPT !.last_update_time = clock + took]
               ELSE fields_to_watch_[k]]
  BY Zenon DEF Stamped
<1>4. cache = [k \in RdcFieldKey |->
                 IF k \in ok THEN Append(cache_samples_[k], clock) ELSE cache_samples_[k]]
  BY Zenon DEF Sampled, rdc_update_cache
<1> HIDE DEF ftw, cache, due
<1>5. /\ DOMAIN ftw = DOMAIN fields_to_watch_
      /\ \A k \in DOMAIN fields_to_watch_ :
           /\ ftw[k] \in FieldSettings
           /\ ftw[k].is_watching = fields_to_watch_[k].is_watching
           /\ ftw[k].update_freq = fields_to_watch_[k].update_freq
           /\ ftw[k].max_keep_age = fields_to_watch_[k].max_keep_age
           /\ ftw[k].max_keep_samples = fields_to_watch_[k].max_keep_samples
           /\ ftw[k].last_update_time =
                IF k \in due THEN clock + took ELSE fields_to_watch_[k].last_update_time
  BY <1>1, <1>3, Zenon DEF FieldSettings
<1>6. \A k \in RdcFieldKey :
        /\ cache_samples_[k] \in Seq(Nat) /\ Append(cache_samples_[k], clock) \in Seq(Nat)
        /\ Len(cache_samples_[k]) \in Nat
        /\ Len(Append(cache_samples_[k], clock)) = Len(cache_samples_[k]) + 1
        /\ \A i \in 1 .. Len(cache_samples_[k]) :
             Append(cache_samples_[k], clock)[i] = cache_samples_[k][i]
        /\ Append(cache_samples_[k], clock)[Len(cache_samples_[k]) + 1] = clock
  BY <1>1, AppendProperties, LenProperties
<1>7. cache \in [RdcFieldKey -> Seq(Nat)]
  BY <1>4, <1>6, Zenon
<1>8. \A k \in TelemetryKey : cache[k] # <<>> => k \in DOMAIN fields_to_watch_
  BY <1>2, <1>4, Keys, Zenon DEF IInv, NoOrphanSamples
<1>9. ASSUME NEW k \in DOMAIN fields_to_watch_
      PROVE  /\ ftw[k].last_update_time <= clock + took
             /\ \A i \in 1 .. Len(cache[k]) : cache[k][i] <= ftw[k].last_update_time
  <2>1. k \in RdcFieldKey /\ fields_to_watch_[k].last_update_time \in Nat
    BY <1>1, Keys, Zenon DEF FieldSettings
  <2>2. /\ fields_to_watch_[k].last_update_time <= clock
        /\ \A i \in 1 .. Len(cache_samples_[k]) :
             cache_samples_[k][i] <= fields_to_watch_[k].last_update_time
    BY Zenon DEF IInv, Stamps
  <2>3. \A i \in 1 .. Len(cache_samples_[k]) : cache_samples_[k][i] \in Nat
    BY <1>6, <2>1, ElementOfSeq, Zenon
  <2>4. CASE k \in ok
    <3>1. cache[k] = Append(cache_samples_[k], clock) /\ ftw[k].last_update_time = clock + took
      BY <1>2, <1>4, <1>5, <2>1, <2>4, Zenon
    <3>2. ASSUME NEW i \in 1 .. Len(cache[k]) PROVE cache[k][i] <= clock
      <4>1. i \in 1 .. Len(cache_samples_[k]) \/ i = Len(cache_samples_[k]) + 1
        BY <1>6, <2>1, <3>1
      <4> QED BY <1>1, <1>6, <2>1, <2>2, <2>3, <3>1, <4>1, SMTT(30)
    <3>3. \A i \in 1 .. Len(cache[k]) : cache[k][i] \in Nat
      BY <1>7, <2>1, ElementOfSeq, Zenon
    <3>4. ASSUME NEW i \in 1 .. Len(cache[k]) PROVE cache[k][i] <= clock + took
      <4>1. cache[k][i] \in Nat /\ cache[k][i] <= clock
        BY <3>2, <3>3, Zenon
      <4> QED BY <1>1, <4>1
    <3> QED BY <1>1, <3>1, <3>4, SMTT(30)
  <2>5. CASE k \notin ok
    <3>1. cache[k] = cache_samples_[k]
      BY <1>4, <2>1, <2>5, Zenon
    <3>2. /\ ftw[k].last_update_time \in {clock + took, fields_to_watch_[k].last_update_time}
          /\ fields_to_watch_[k].last_update_time <= ftw[k].last_update_time
      BY <1>1, <1>5, <2>1, <2>2, SMTT(30)
    <3>3. \A i \in 1 .. Len(cache[k]) : cache[k][i] <= ftw[k].last_update_time
      BY <1>1, <2>1, <2>2, <2>3, <3>1, <3>2, SMTT(30)
    <3> QED BY <1>1, <2>1, <2>2, <3>2, <3>3, SMTT(30)
  <2> QED BY <2>4, <2>5, Zenon
<1>10. ftw \in [DOMAIN fields_to_watch_ -> FieldSettings]
  BY <1>3, <1>5, Zenon
<1> QED BY <1>5, <1>7, <1>8, <1>9, <1>10, Zenon DEF ftw, cache

\* rdc_field_update_all without and with its clean-up.
LEMMA UpdateIInv ==
  ASSUME IInv, NEW now \in Nat, NEW took \in Nat, NEW ok \in SUBSET Due(now),
         rdc_field_update_all(now, ok, took)
  PROVE  IInv'
<1> DEFINE ftw   == Stamped(Due(now), clock + took)
           cache == Sampled(ok, clock)
           t     == clock + took
<1>1. /\ DOMAIN ftw = DOMAIN fields_to_watch_
      /\ ftw \in [DOMAIN fields_to_watch_ -> FieldSettings]
      /\ cache \in [RdcFieldKey -> Seq(Nat)]
      /\ \A k \in TelemetryKey : cache[k] # <<>> => k \in DOMAIN fields_to_watch_
      /\ \A k \in DOMAIN fields_to_watch_ :
           /\ ftw[k].is_watching = fields_to_watch_[k].is_watching
           /\ ftw[k].update_freq = fields_to_watch_[k].update_freq
           /\ ftw[k].max_keep_age = fields_to_watch_[k].max_keep_age
           /\ ftw[k].max_keep_samples = fields_to_watch_[k].max_keep_samples
           /\ ftw[k].last_update_time <= t
           /\ \A i \in 1 .. Len(cache[k]) : cache[k][i] <= ftw[k].last_update_time
  BY FetchTables, Zenon
<1>2. /\ clock' = t
      /\ \/ CleanUp(ftw, cache, t) /\ last_cleanup_time_' = now
         \/ /\ cache_samples_' = cache /\ fields_to_watch_' = ftw
            /\ UNCHANGED <<watch_table_, watched_keys, last_cleanup_time_>>
      /\ UNCHANGED <<gvars, nvars, smi_data_>>
  BY Zenon DEF rdc_field_update_all
<1>3. t \in Nat
  BY DEF IInv, TypeOK
<1>4. DOMAIN fields_to_watch_ \subseteq TelemetryKey
  BY Zenon DEF IInv, TypeOK
<1> HIDE DEF ftw, cache, t
<1>5. CASE /\ cache_samples_' = cache /\ fields_to_watch_' = ftw
           /\ UNCHANGED <<watch_table_, watched_keys, last_cleanup_time_>>
  <2>1. TypeOK'
    BY <1>1, <1>2, <1>3, <1>5, Zenon DEF IInv, TypeOK, GroupTypeOK, NotifTypeOK, gvars, nvars
  <2>2. (NoOrphanSamples /\ Stamps)'
    BY <1>1, <1>2, <1>5, ZenonT(30) DEF NoOrphanSamples, Stamps
  <2>3. (HandlesWatched /\ WatchHonoured)'
    BY <1>1, <1>2, <1>5 DEF IInv, HandlesWatched, WatchHonoured, Watching
  <2>4. Granted'
    BY <1>2, <1>5, Zenon DEF IInv, Granted, Watching, HasFields, FieldsOf, gvars
  <2> QED BY <2>1, <2>2, <2>3, <2>4, Zenon DEF IInv
<1>6. CASE CleanUp(ftw, cache, t) /\ last_cleanup_time_' = now
  <2> DEFINE gone == EndedKeys(ftw, t)
             over == EndedKeys(watch_table_, t)
             kept(k) == evict_cache(cache[k], ftw[k].max_keep_samples, ftw[k].max_keep_age, t)
  <2>1. /\ cache_samples_' = [k \in RdcFieldKey |->
             IF k \in DOMAIN fields_to_watch_ THEN kept(k) ELSE cache[k]]
        /\ fields_to_watch_' = MapErase(ftw, gone)
        /\ watch_table_' = MapErase(watch_table_, over)
        /\ watched_keys' = MapErase(watched_keys, over)
    BY <1>1, <1>6, Zenon DEF CleanUp
  <2>2. /\ \A k \in gone : k \in DOMAIN fields_to_watch_ /\ ~ftw[k].is_watching
        /\ \A e \in over : e \in DOMAIN watch_table_ /\ ~watch_table_[e].is_watching
    BY <1>1, Zenon DEF EndedKeys, Ended
  <2>3. ASSUME NEW k \in DOMAIN fields_to_watch_
        PROVE  /\ k \in RdcFieldKey /\ cache[k] \in Seq(Nat)
               /\ ftw[k] \in FieldSettings
               /\ ftw[k].max_keep_samples \in Nat /\ ftw[k].max_keep_age \in Nat
               /\ ftw[k].last_update_time \in Nat
    BY <1>1, <1>4, Keys, Zenon DEF FieldSettings
  <2>4. ASSUME NEW k \in DOMAIN fields_to_watch_
        PROVE  /\ kept(k) \in Seq(Nat)
               /\ \A j \in 1 .. Len(kept(k)) : kept(k)[j] <= ftw[k].last_update_time
               /\ k \in gone => kept(k) = <<>>
    <3>1. /\ kept(k) \in Seq(Nat)
          /\ \A j \in 1 .. Len(kept(k)) : \E i \in 1 .. Len(cache[k]) : kept(k)[j] = cache[k][i]
      <4> DEFINE s == cache[k]
                 keep == ftw[k].max_keep_samples
                 age == ftw[k].max_keep_age
      <4>1. s \in Seq(Nat) /\ keep \in Nat /\ age \in Nat
        BY <2>3, Zenon
      <4> HIDE DEF s, keep, age
      <4>2. InventsNone(evict_cache(s, keep, age, t), s)
        BY <1>3, <4>1, EvictInventsNone, Zenon
      <4> QED BY <4>2, Zenon DEF s, keep, age, InventsNone
    <3>2. ASSUME NEW j \in 1 .. Len(kept(k)) PROVE kept(k)[j] <= ftw[k].last_update_time
      <4> HIDE DEF kept
      <4>1. PICK i \in 1 .. Len(cache[k]) : kept(k)[j] = cache[k][i]
        BY <3>1, <3>2, Zenon
      <4> QED BY <1>1, <4>1, Zenon
    <3>3. ASSUME k \in gone PROVE kept(k) = <<>>
      <4>1. Expired(ftw[k].last_update_time, ftw[k].max_keep_age, t)
        BY <3>3, Zenon DEF EndedKeys, Ended
      <4>2. ASSUME NEW i \in 1 .. Len(cache[k])
            PROVE  Expired(cache[k][i], ftw[k].max_keep_age, t)
        <5>1. cache[k][i] \in Nat /\ cache[k][i] <= ftw[k].last_update_time
          BY <1>1, <2>3, ElementOfSeq, Zenon
        <5> DEFINE d == ftw[k].max_keep_age * TicksPerSecond
        <5>2. d \in Nat
          BY <2>3, CacheConstants, SMTT(30)
        <5>3. ftw[k].last_update_time + d < t
          BY <4>1, Zenon DEF Expired
        <5> HIDE DEF d
        <5>4. ftw[k].last_update_time \in Nat
          BY <2>3, Zenon
        <5>5. cache[k][i] + d < t
          BY ONLY <1>3, <5>1, <5>2, <5>3, <5>4, SMTT(30)
        <5> QED BY <5>5, Zenon DEF Expired, d
      <4> QED BY <1>3, <2>3, <4>2, EvictExpired, Zenon
    <3> QED BY <3>1, <3>2, <3>3, Zenon
  <2> HIDE DEF gone, over, kept
  <2>5. /\ DOMAIN fields_to_watch_' = DOMAIN fields_to_watch_ \ gone
        /\ fields_to_watch_' \in [DOMAIN fields_to_watch_ \ gone -> FieldSettings]
        /\ \A k \in DOMAIN fields_to_watch_ \ gone : fields_to_watch_'[k] = ftw[k]
    BY <1>1, <2>1, Zenon DEF MapErase
  <2>6. /\ DOMAIN watch_table_' = DOMAIN watch_table_ \ over
        /\ watch_table_' \in [DOMAIN watch_table_ \ over -> FieldSettings]
        /\ watched_keys' \in [DOMAIN watch_table_ \ over -> SUBSET TelemetryKey]
        /\ \A e \in DOMAIN watch_table_ \ over :
             watch_table_'[e] = watch_table_[e] /\ watched_keys'[e] = watched_keys[e]
    BY <2>1, Zenon DEF IInv, TypeOK, MapErase
  <2>7. Watching(watch_table_') = Watching(watch_table_)
    BY <2>2, <2>6, Zenon DEF Watching
  <2>8. TypeOK'
    <3>1. cache_samples_' \in [RdcFieldKey -> Seq(Nat)]
      BY <1>1, <2>1, <2>4, Zenon
    <3> QED BY <1>2, <1>3, <1>6, <2>5, <2>6, <3>1, Zenon
            DEF IInv, TypeOK, GroupTypeOK, NotifTypeOK, gvars, nvars
  <2>9. NoOrphanSamples'
    BY <1>1, <2>1, <2>4, <2>5, Keys, Zenon DEF NoOrphanSamples
  <2>10. Stamps'
    BY <1>1, <1>2, <2>1, <2>3, <2>4, <2>5, ZenonT(60) DEF Stamps
  <2>11. HandlesWatched'
    BY <1>1, <1>2, <2>2, <2>5, Zenon DEF IInv, HandlesWatched
  <2>12. Granted'
    BY <1>2, <2>6, <2>7, Zenon DEF IInv, Granted, HasFields, FieldsOf, gvars, Watching
  <2>13. WatchHonoured'
    <3>1. ASSUME NEW e \in Watching(watch_table_), NEW k \in watched_keys[e]
          PROVE  /\ k \in DOMAIN fields_to_watch_'
                 /\ fields_to_watch_'[k].is_watching
                 /\ fields_to_watch_'[k].update_freq <= watch_table_[e].update_freq
                 /\ fields_to_watch_'[k].max_keep_age >= watch_table_[e].max_keep_age
                 /\ fields_to_watch_'[k].max_keep_samples >= watch_table_[e].max_keep_samples
      <4>1. /\ k \in DOMAIN fields_to_watch_ /\ fields_to_watch_[k].is_watching
            /\ fields_to_watch_[k].update_freq <= watch_table_[e].update_freq
            /\ fields_to_watch_[k].max_keep_age >= watch_table_[e].max_keep_age
            /\ fields_to_watch_[k].max_keep_samples >= watch_table_[e].max_keep_samples
        BY <3>1, Zenon DEF IInv, WatchHonoured
      <4>2. k \notin gone
        BY <1>1, <2>2, <4>1, Zenon
      <4> QED BY <1>1, <2>5, <4>1, <4>2, Zenon
    <3>2. \A e \in Watching(watch_table_) :
            watch_table_'[e] = watch_table_[e] /\ watched_keys'[e] = watched_keys[e]
      BY <2>6, <2>7, Zenon DEF Watching
    <3> QED BY <2>7, <3>1, <3>2, Zenon DEF WatchHonoured
  <2> QED BY <2>8, <2>9, <2>10, <2>11, <2>12, <2>13, Zenon DEF IInv
<1> QED BY <1>2, <1>5, <1>6, Zenon

-----------------------------------------------------------------------------
(* The theorems *)

\* A time read before the mutex was taken is a time.
LEMMA ReadTimesNat == \A now \in ReadTimes : clock \in Nat => now \in Nat
BY WatchConstants DEF ReadTimes

\* Every step of the library and of its clients preserves the invariant.
LEMMA NextIInv == IInv /\ [Next]_vars => IInv'
<1> SUFFICES ASSUME IInv, [Next]_vars PROVE IInv'
  BY Zenon
<1>1. clock \in Nat
  BY Zenon DEF IInv, TypeOK
<1>2. CASE WatchStep
  <2>1. PICK g \in 1 .. cur_group_id_ - 1, f \in 0 .. cur_field_group_id_ - 1, r \in Status :
          \E q \in WatchRequests : rdc_field_watch(g, f, q, r)
    BY <1>2, Zenon DEF WatchStep
  <2>2. PICK q \in WatchRequests : rdc_field_watch(g, f, q, r)
    BY <2>1, Zenon
  <2>3. q \in Request
    BY WatchConstants, Zenon DEF Request
  <2> QED BY <2>2, <2>3, WatchIInv, Zenon
<1>3. CASE UnwatchStep
  <2>1. PICK e \in DOMAIN watch_table_, now \in ReadTimes, r \in Status :
          rdc_field_unwatch(e[1], e[2], now, r)
    BY <1>3, Zenon DEF UnwatchStep
  <2>2. now \in Nat
    BY <1>1, ReadTimesNat, Zenon
  <2> QED BY <2>1, <2>2, UnwatchIInv, Zenon
<1>4. CASE UpdateStep
  <2>1. PICK now \in ReadTimes : \E ok \in SUBSET Due(now), took \in 0 .. MaxFetch :
          rdc_field_update_all(now, ok, took)
    BY <1>4, Zenon DEF UpdateStep
  <2>2. PICK ok \in SUBSET Due(now), took \in 0 .. MaxFetch :
          rdc_field_update_all(now, ok, took)
    BY <2>1, Zenon
  <2>3. now \in Nat /\ took \in Nat
    BY <1>1, ReadTimesNat
  <2> QED BY <2>2, <2>3, UpdateIInv, Zenon
<1>5. CASE UNCHANGED vars
  BY <1>5, StutterIInv, Zenon
<1> QED BY <1>2, <1>3, <1>4, <1>5, GroupIInv, ListenIInv, NotifIInv, TickIInv, Zenon DEF Next

\* The inductive invariant holds throughout.
THEOREM WatchTableInvariant == Spec => []IInv
BY InitIInv, NextIInv, PTL DEF Spec

\* The tables stay well typed: in particular fields_to_watch_ and the held
\* counters only ever contain fields the telemetry module supports.
THEOREM TypeCorrect == Spec => []TypeOK
<1>1. IInv => TypeOK
  BY Zenon DEF IInv
<1> QED BY <1>1, WatchTableInvariant, PTL

\* clean_up never erases a field and leaves samples of it in the cache.
THEOREM NoSampleIsOrphaned == Spec => []NoOrphanSamples
<1>1. IInv => NoOrphanSamples
  BY Zenon DEF IInv
<1> QED BY <1>1, WatchTableInvariant, PTL

\* Whatever happens to watches and groups, no counter is held for a field
\* that is not being watched.
THEOREM CountersAreReleased == Spec => []HandlesWatched
<1>1. IInv => HandlesWatched
  BY Zenon DEF IInv
<1> QED BY <1>1, WatchTableInvariant, PTL

\* No interleaving of watches, unwatches, clean-ups and group changes
\* weakens a running watch.
THEOREM EveryWatchIsHonoured == Spec => []WatchHonoured
<1>1. IInv => WatchHonoured
  BY Zenon DEF IInv
<1> QED BY <1>1, WatchTableInvariant, PTL

\* A new group never inherits a watch that was made on a destroyed one.
THEOREM NoWatchIsInherited == Spec => NewGroupUnwatched
<1>1. IInv /\ [Next]_vars =>
        [/\ \A g \in DOMAIN gpu_group_' \ DOMAIN gpu_group_ :
              \A e \in DOMAIN watch_table_ : e[1] # g
         /\ \A f \in DOMAIN field_group_' \ DOMAIN field_group_ :
              \A e \in DOMAIN watch_table_ : e[2] # f]_vars
  <2> SUFFICES ASSUME IInv, Next
               PROVE  /\ \A g \in DOMAIN gpu_group_' \ DOMAIN gpu_group_ :
                           \A e \in DOMAIN watch_table_ : e[1] # g
                      /\ \A f \in DOMAIN field_group_' \ DOMAIN field_group_ :
                           \A e \in DOMAIN watch_table_ : e[2] # f
    BY Zenon
  <2>1. CASE GroupStep
    <3>1. GroupsKept
      BY <2>1, GroupStepKept, Zenon DEF IInv, TypeOK
    <3> QED BY <3>1, Zenon DEF GroupsKept, IInv, Granted
  <2>2. CASE ~GroupStep
    <3>1. UNCHANGED gvars
      BY <2>2, Zenon DEF Next, WatchStep, rdc_field_watch, UnwatchStep, rdc_field_unwatch,
         UpdateStep, rdc_field_update_all, ListenNotif, rdc_notif_update_cache, Tick
    <3> QED BY <3>1, Zenon DEF gvars
  <2> QED BY <2>1, <2>2, Zenon
<1> QED BY <1>1, WatchTableInvariant, PTL DEF Spec, NewGroupUnwatched

\* An update changes neither the watches that run nor the periods.
LEMMA UpdateKeeps ==
  ASSUME IInv, NEW now \in Nat, NEW took \in Nat, NEW ok \in SUBSET Due(now),
         rdc_field_update_all(now, ok, took)
  PROVE  /\ Watching(watch_table_') = Watching(watch_table_)
         /\ \A e \in Watching(watch_table_) :
              watch_table_'[e] = watch_table_[e] /\ watched_keys'[e] = watched_keys[e]
         /\ \A k \in DOMAIN fields_to_watch_' :
              /\ k \in DOMAIN fields_to_watch_
              /\ fields_to_watch_'[k].is_watching = fields_to_watch_[k].is_watching
              /\ fields_to_watch_'[k].update_freq = fields_to_watch_[k].update_freq
<1> DEFINE ftw   == Stamped(Due(now), clock + took)
           cache == Sampled(ok, clock)
           t     == clock + took
<1>1. /\ DOMAIN ftw = DOMAIN fields_to_watch_
      /\ \A k \in DOMAIN fields_to_watch_ :
           /\ ftw[k].is_watching = fields_to_watch_[k].is_watching
           /\ ftw[k].update_freq = fields_to_watch_[k].update_freq
  <2>1. fields_to_watch_ \in [DOMAIN fields_to_watch_ -> FieldSettings]
    BY Zenon DEF IInv, TypeOK
  <2> QED BY <2>1, Zenon DEF Stamped, FieldSettings
<1>2. \/ CleanUp(ftw, cache, t)
      \/ fields_to_watch_' = ftw /\ UNCHANGED <<watch_table_, watched_keys>>
  BY Zenon DEF rdc_field_update_all
<1>3. DOMAIN watched_keys = DOMAIN watch_table_
  BY Zenon DEF IInv, TypeOK
<1> HIDE DEF ftw, cache, t
<1>4. CASE fields_to_watch_' = ftw /\ UNCHANGED <<watch_table_, watched_keys>>
  BY <1>1, <1>4, Zenon
<1>5. CASE CleanUp(ftw, cache, t)
  <2> DEFINE gone == EndedKeys(ftw, t)
             over == EndedKeys(watch_table_, t)
  <2>1. /\ fields_to_watch_' = MapErase(ftw, gone)
        /\ watch_table_' = MapErase(watch_table_, over)
        /\ watched_keys' = MapErase(watched_keys, over)
    BY <1>5, Zenon DEF CleanUp
  <2>2. \A e \in over : ~watch_table_[e].is_watching
    BY Zenon DEF EndedKeys, Ended
  <2> HIDE DEF gone, over
  <2>3. /\ DOMAIN watch_table_' = DOMAIN watch_table_ \ over
        /\ \A e \in DOMAIN watch_table_ \ over :
             watch_table_'[e] = watch_table_[e] /\ watched_keys'[e] = watched_keys[e]
    BY <1>3, <2>1, Zenon DEF MapErase
  <2>4. \A k \in DOMAIN fields_to_watch_' : k \in DOMAIN ftw /\ fields_to_watch_'[k] = ftw[k]
    BY <2>1, Zenon DEF MapErase
  <2> QED BY <1>1, <2>2, <2>3, <2>4, Zenon DEF Watching
<1> QED BY <1>2, <1>4, <1>5, Zenon

-----------------------------------------------------------------------------
(* Clients that leave the groups alone that are being watched *)

\* Then what a running watch was granted is what its groups hold now.
Exact ==
  \A e \in Watching(watch_table_) :
    /\ HasFields(e[1], e[2])
    /\ watched_keys[e] = {k \in FieldsOf(e[1], e[2]) : k[2] \in Supported}

\* The groups of a running watch stay as they are.
LEMMA GroupsLeftAlone ==
  ASSUME ~ChangeWatchedGroups, GroupTypeOK, GroupStep,
         NEW e \in Watching(watch_table_), HasFields(e[1], e[2])
  PROVE  HasFields(e[1], e[2])' /\ FieldsOf(e[1], e[2])' = FieldsOf(e[1], e[2])
<1>1. /\ \A g : MayChange(g) => g # e[1]
      /\ \A f : MayChangeFields(f) => f # e[2]
  BY Zenon DEF MayChange, MayChangeFields
<1>2. e[1] \in DOMAIN gpu_group_ /\ e[2] \in DOMAIN field_group_
  BY Zenon DEF HasFields
<1>3. e[1] # cur_group_id_ /\ e[2] # cur_field_group_id_
  BY <1>2 DEF GroupTypeOK
<1> DEFINE Left ==
             /\ e[1] \in DOMAIN gpu_group_' /\ gpu_group_'[e[1]] = gpu_group_[e[1]]
             /\ e[2] \in DOMAIN field_group_' /\ field_group_'[e[2]] = field_group_[e[2]]
<1>4. Left
  <2>1. CASE GroupGpuCreate
    BY <1>2, <1>3, <2>1, Zenon DEF GroupGpuCreate, MapPut
  <2>2. ASSUME NEW g, MayChange(g), GroupGpuDestroy(g) PROVE Left
    BY <1>1, <1>2, <2>2, Zenon DEF GroupGpuDestroy, MapErase
  <2>3. ASSUME NEW g, NEW gpu, MayChange(g), GroupGpuAdd(g, gpu) PROVE Left
    BY <1>1, <1>2, <2>3, Zenon DEF GroupGpuAdd, MapPut
  <2>4. ASSUME NEW fields, GroupFieldCreate(fields) PROVE Left
    BY <1>2, <1>3, <2>4, Zenon DEF GroupFieldCreate, MapPut
  <2>5. ASSUME NEW f, MayChangeFields(f), GroupFieldDestroy(f) PROVE Left
    BY <1>1, <1>2, <2>5, Zenon DEF GroupFieldDestroy, MapErase
  <2> QED BY <2>1, <2>2, <2>3, <2>4, <2>5, Zenon DEF GroupStep
<1> QED BY <1>4, Zenon DEF HasFields, FieldsOf

\* Group changes.
LEMMA GroupDiscipline ==
  ASSUME ~ChangeWatchedGroups, IInv, Exact, GroupStep
  PROVE  /\ Exact'
         /\ FieldsDeducible => FieldsDeducible'
         /\ NoStrayListening => NoStrayListening'
<1>1. UNCHANGED <<device_mask, watch_table_, fields_to_watch_, watched_keys>>
  BY Zenon DEF GroupStep, nvars, tvars
<1>2. \A e \in Watching(watch_table_) :
        HasFields(e[1], e[2])' /\ FieldsOf(e[1], e[2])' = FieldsOf(e[1], e[2])
  BY GroupsLeftAlone, Zenon DEF IInv, TypeOK, Exact
<1>3. Exact'
  BY <1>1, <1>2, Zenon DEF Exact, Watching
<1>4. FieldsDeducible => FieldsDeducible'
  BY <1>1, Zenon DEF FieldsDeducible, Watching
<1>5. NoStrayListening => NoStrayListening'
  BY <1>1, <1>2 DEF NoStrayListening, NewMask, Watching
<1> QED BY <1>3, <1>4, <1>5, Zenon

\* A watch that is granted: its fields get its period, or keep a shorter one.
LEMMA WatchOkDiscipline ==
  ASSUME IInv, Exact, NEW g, NEW f, NEW q \in Request, FieldWatchOk(g, f, q), UNCHANGED gvars
  PROVE  /\ Exact'
         /\ FieldsDeducible => FieldsDeducible'
         /\ NoStrayListening => NoStrayListening'
<1> DEFINE e    == <<g, f>>
           keys == {k \in FieldsOf(g, f) : k[2] \in Supported}
<1>1. /\ e \notin Watching(watch_table_)
      /\ HasFields(e[1], e[2])
      /\ SetListenEvents(FieldsOf(e[1], e[2]))
      /\ fields_to_watch_' = AddFields(fields_to_watch_, keys, q)
      /\ watch_table_' = MapPut(watch_table_, e, NewSettings(q))
      /\ watched_keys' = MapPut(watched_keys, e, keys)
      /\ keys = {k \in FieldsOf(e[1], e[2]) : k[2] \in Supported}
  BY Zenon DEF FieldWatchOk
<1>2. \A x, y : HasFields(x, y)' = HasFields(x, y) /\ FieldsOf(x, y)' = FieldsOf(x, y)
  BY Zenon DEF HasFields, FieldsOf, gvars
<1>3. DOMAIN watched_keys = DOMAIN watch_table_
  BY Zenon DEF IInv, TypeOK
<1> HIDE DEF e, keys
<1>4. /\ e \in DOMAIN watch_table_' /\ watch_table_'[e] = NewSettings(q)
      /\ watched_keys'[e] = keys
      /\ \A x \in DOMAIN watch_table_ : x \in DOMAIN watch_table_'
      /\ \A x \in DOMAIN watch_table_' \ {e} :
           /\ x \in DOMAIN watch_table_
           /\ watch_table_'[x] = watch_table_[x] /\ watched_keys'[x] = watched_keys[x]
  BY <1>1, <1>3, Zenon DEF MapPut
<1>5. NewSettings(q).is_watching /\ NewSettings(q).update_freq = q.freq
  BY ZenonT(30) DEF NewSettings
<1>6. Watching(watch_table_') = Watching(watch_table_) \cup {e}
  BY <1>1, <1>4, <1>5, SMTT(60) DEF Watching
<1>7. \A x \in Watching(watch_table_) :
        /\ x # e /\ x \in Watching(watch_table_')
        /\ watch_table_'[x] = watch_table_[x] /\ watched_keys'[x] = watched_keys[x]
  BY <1>1, <1>4, <1>6, Zenon DEF Watching
<1>8. Exact'
  <2>1. ASSUME NEW x \in Watching(watch_table_')
        PROVE  /\ HasFields(x[1], x[2])
               /\ watched_keys'[x] = {k \in FieldsOf(x[1], x[2]) : k[2] \in Supported}
    BY <1>1, <1>4, <1>6, <1>7, Zenon DEF Exact
  <2> QED BY <1>2, <2>1, Zenon DEF Exact, Watching
<1>9. ASSUME FieldsDeducible PROVE FieldsDeducible'
  <2>1. ASSUME NEW k \in DOMAIN fields_to_watch_', fields_to_watch_'[k].is_watching
        PROVE  \E x \in Watching(watch_table_') :
                 /\ k \in watched_keys'[x]
                 /\ fields_to_watch_'[k].update_freq = watch_table_'[x].update_freq
    <3>1. CASE k \notin keys
      <4>1. k \in DOMAIN fields_to_watch_ /\ fields_to_watch_'[k] = fields_to_watch_[k]
        BY <1>1, <2>1, <3>1, Zenon DEF AddFields
      <4>2. PICK x \in Watching(watch_table_) :
              /\ k \in watched_keys[x]
              /\ fields_to_watch_[k].update_freq = watch_table_[x].update_freq
        BY <1>9, <2>1, <4>1, Zenon DEF FieldsDeducible
      <4> QED BY <1>7, <4>1, <4>2, Zenon
    <3>2. CASE k \in keys /\ fields_to_watch_'[k].update_freq = q.freq
      BY <1>4, <1>5, <1>6, <3>2, Zenon
    <3>3. CASE k \in keys /\ fields_to_watch_'[k].update_freq # q.freq
      <4>1. /\ k \in DOMAIN fields_to_watch_
            /\ fields_to_watch_'[k] = MergeSettings(fields_to_watch_[k], q)
        BY <1>1, <1>5, <2>1, <3>3, ZenonT(30) DEF AddFields
      <4>2. /\ fields_to_watch_[k].is_watching
            /\ fields_to_watch_'[k].update_freq = fields_to_watch_[k].update_freq
        BY <3>3, <4>1, SMTT(60) DEF MergeSettings, MinOf
      <4>3. PICK x \in Watching(watch_table_) :
              /\ k \in watched_keys[x]
              /\ fields_to_watch_[k].update_freq = watch_table_[x].update_freq
        BY <1>9, <4>1, <4>2, Zenon DEF FieldsDeducible
      <4> QED BY <1>7, <4>2, <4>3, Zenon
    <3> QED BY <3>1, <3>2, <3>3, Zenon
  <2> QED BY <2>1, Zenon DEF FieldsDeducible, Watching
<1>10. ASSUME NoStrayListening PROVE NoStrayListening'
  <2>1. ASSUME NEW x \in GPUs, device_mask'[x] # {}
        PROVE  \E w \in Watching(watch_table_') :
                 HasFields(w[1], w[2]) /\ device_mask'[x] = NewMask(FieldsOf(w[1], w[2]), x)
    <3>1. \/ device_mask'[x] = device_mask[x]
          \/ device_mask'[x] = NewMask(FieldsOf(e[1], e[2]), x)
      BY <1>1, Zenon DEF SetListenEvents
    <3>2. CASE device_mask'[x] = device_mask[x]
      BY <1>7, <1>10, <2>1, <3>2, Zenon DEF NoStrayListening
    <3>3. CASE device_mask'[x] = NewMask(FieldsOf(e[1], e[2]), x)
      BY <1>1, <1>6, <3>3, Zenon
    <3> QED BY <3>1, <3>2, <3>3, Zenon
  <2> QED BY <1>2, <2>1, Zenon DEF NoStrayListening, NewMask, Watching
<1> QED BY <1>8, <1>9, <1>10, Zenon

\* A step that changes neither the watches that run nor their groups, nor the
\* period of any field, nor the masks.
SameWatches ==
  /\ UNCHANGED <<gvars, device_mask>>
  /\ Watching(watch_table_') = Watching(watch_table_)
  /\ \A e \in Watching(watch_table_) :
       watch_table_'[e] = watch_table_[e] /\ watched_keys'[e] = watched_keys[e]
  /\ \A k \in DOMAIN fields_to_watch_' :
       /\ k \in DOMAIN fields_to_watch_
       /\ fields_to_watch_'[k].is_watching = fields_to_watch_[k].is_watching
       /\ fields_to_watch_'[k].update_freq = fields_to_watch_[k].update_freq

\* What leaves the watches alone keeps the settings deducible.
LEMMA SameDiscipline ==
  ASSUME Exact, SameWatches
  PROVE  /\ Exact'
         /\ FieldsDeducible => FieldsDeducible'
         /\ NoStrayListening => NoStrayListening'
<1> DEFINE W == Watching(watch_table_)
<1>1. W' = W
  BY Zenon DEF SameWatches, Watching
<1>2. /\ \A x \in W : watch_table_'[x] = watch_table_[x] /\ watched_keys'[x] = watched_keys[x]
      /\ device_mask' = device_mask
      /\ \A x, y : HasFields(x, y)' = HasFields(x, y) /\ FieldsOf(x, y)' = FieldsOf(x, y)
  BY Zenon DEF SameWatches, HasFields, FieldsOf, gvars
<1> HIDE DEF W
<1>3. Exact'
  BY <1>1, <1>2, Zenon DEF Exact, W
<1>4. ASSUME FieldsDeducible PROVE FieldsDeducible'
  <2>1. ASSUME NEW k \in DOMAIN fields_to_watch_', fields_to_watch_'[k].is_watching
        PROVE  \E x \in W : /\ k \in watched_keys'[x]
                            /\ fields_to_watch_'[k].update_freq = watch_table_'[x].update_freq
    <3>1. /\ k \in DOMAIN fields_to_watch_ /\ fields_to_watch_[k].is_watching
          /\ fields_to_watch_'[k].update_freq = fields_to_watch_[k].update_freq
      BY <2>1, Zenon DEF SameWatches
    <3>2. PICK x \in W : /\ k \in watched_keys[x]
                         /\ fields_to_watch_[k].update_freq = watch_table_[x].update_freq
      BY <1>4, <3>1, Zenon DEF FieldsDeducible, W
    <3> QED BY <1>2, <3>1, <3>2, Zenon
  <2> QED BY <1>1, <2>1, Zenon DEF FieldsDeducible, W
<1>5. NoStrayListening => NoStrayListening'
  BY <1>1, <1>2, Zenon DEF NoStrayListening, NewMask, W
<1> QED BY <1>3, <1>4, <1>5, Zenon

\* A call to rdc_field_watch, whatever it returns.
LEMMA WatchDiscipline ==
  ASSUME IInv, Exact, NEW g, NEW f, NEW q \in Request, NEW r, rdc_field_watch(g, f, q, r)
  PROVE  /\ Exact'
         /\ FieldsDeducible => FieldsDeducible'
         /\ NoStrayListening => NoStrayListening'
<1>1. /\ FieldWatchConflict(g, f) \/ FieldWatchNotFound(g, f) \/ FieldWatchOk(g, f, q)
      /\ UNCHANGED gvars
  BY Zenon DEF rdc_field_watch
<1>2. CASE FieldWatchConflict(g, f)
  <2>1. SameWatches
    BY <1>1, <1>2, Zenon DEF FieldWatchConflict, SameWatches, nvars, tvars
  <2> QED BY <2>1, SameDiscipline, Zenon
<1>3. CASE FieldWatchNotFound(g, f)
  <2>1. /\ <<g, f>> \notin Watching(watch_table_)
        /\ watch_table_' = MapErase(watch_table_, {<<g, f>>})
        /\ watched_keys' = MapErase(watched_keys, {<<g, f>>})
        /\ UNCHANGED <<device_mask, fields_to_watch_>>
    BY <1>3, Zenon DEF FieldWatchNotFound, nvars
  <2>2. DOMAIN watched_keys = DOMAIN watch_table_
    BY Zenon DEF IInv, TypeOK
  <2>3. /\ Watching(watch_table_') = Watching(watch_table_)
        /\ \A x \in Watching(watch_table_) :
             watch_table_'[x] = watch_table_[x] /\ watched_keys'[x] = watched_keys[x]
    BY <2>1, <2>2, Zenon DEF Watching, MapErase
  <2>4. SameWatches
    BY <1>1, <2>1, <2>3, Zenon DEF SameWatches
  <2> QED BY <2>4, SameDiscipline, Zenon
<1> QED BY <1>1, <1>2, <1>3, WatchOkDiscipline, Zenon

\* rdc_field_unwatch: a field nobody else watches is let go, any other gets the
\* period of a watch that still runs; and the events of the watch are stopped.
LEMMA UnwatchDiscipline ==
  ASSUME IInv, Exact, NEW g, NEW f, NEW now \in Nat, NEW r, rdc_field_unwatch(g, f, now, r)
  PROVE  /\ Exact'
         /\ FieldsDeducible => FieldsDeducible'
         /\ NoStrayListening /\ ~StopMayFail => NoStrayListening'
<1> DEFINE e == <<g, f>>
           wt == [watch_table_ EXCEPT ![e].is_watching = FALSE,
                                      ![e].last_update_time = now]
<1>1. /\ e \in DOMAIN watch_table_
      /\ watch_table_' = wt
      /\ UnwatchNotFound(e, wt) \/ UnwatchOk(e, wt)
      /\ UNCHANGED <<gvars, watched_keys>>
  BY Zenon DEF rdc_field_unwatch
<1> HIDE DEF e
<1>2. /\ watch_table_ \in [DOMAIN watch_table_ -> FieldSettings]
      /\ fields_to_watch_ \in [DOMAIN fields_to_watch_ -> FieldSettings]
      /\ DOMAIN fields_to_watch_ \subseteq TelemetryKey
  BY Zenon DEF IInv, TypeOK
<1>3. /\ DOMAIN wt = DOMAIN watch_table_
      /\ wt \in [DOMAIN watch_table_ -> FieldSettings]
      /\ \A x \in DOMAIN watch_table_ \ {e} : wt[x] = watch_table_[x]
      /\ wt[e].is_watching = FALSE
  BY <1>1, <1>2, ZenonT(60) DEF FieldSettings
<1> HIDE DEF wt
<1>4. /\ Watching(wt) = Watching(watch_table_) \ {e}
      /\ \A x \in Watching(wt) : wt[x] = watch_table_[x]
  BY <1>3, Zenon DEF Watching
<1>5. \A x, y : HasFields(x, y)' = HasFields(x, y) /\ FieldsOf(x, y)' = FieldsOf(x, y)
  BY <1>1, Zenon DEF HasFields, FieldsOf, gvars
<1>6. Exact'
  BY <1>1, <1>4, <1>5, Zenon DEF Exact, Watching
<1>7. CASE UnwatchNotFound(e, wt)
  <2>1. UNCHANGED <<device_mask, fields_to_watch_>> /\ e \notin Watching(watch_table_)
    BY <1>4, <1>7, Zenon DEF UnwatchNotFound, nvars, Exact
  <2>2. Watching(wt) = Watching(watch_table_)
    BY <1>4, <2>1, ZenonT(30)
  <2>3. FieldsDeducible => FieldsDeducible'
    BY <1>1, <1>4, <2>1, <2>2, SMTT(30) DEF FieldsDeducible, Watching
  <2>4. NoStrayListening => NoStrayListening'
    BY <1>1, <1>5, <2>1, <2>2, Zenon DEF NoStrayListening, NewMask, Watching
  <2> QED BY <1>6, <2>3, <2>4, Zenon
<1>8. CASE UnwatchOk(e, wt)
  <2> DEFINE keys == FieldsOf(e[1], e[2])
             telemetry == {k \in keys : ~is_notification_event(k[2])}
             idle == {k \in telemetry : FreqsOf(wt, k) = {}}
  <2>1. /\ StopListening({k[1] : k \in keys \ telemetry})
        /\ fields_to_watch_' = [k \in DOMAIN fields_to_watch_ |->
             IF k \in idle THEN [fields_to_watch_[k] EXCEPT !.is_watching = FALSE]
             ELSE IF k \in telemetry
             THEN [fields_to_watch_[k] EXCEPT !.update_freq = LeastOf(FreqsOf(wt, k))]
             ELSE fields_to_watch_[k]]
    BY <1>8, Zenon DEF UnwatchOk
  <2>2. ASSUME NEW k \in telemetry \ idle, k[2] \in Supported
        PROVE  \E x \in Watching(wt) :
                 k \in watched_keys[x] /\ LeastOf(FreqsOf(wt, k)) = wt[x].update_freq
    <3>1. FreqsOf(wt, k) \in SUBSET Nat /\ FreqsOf(wt, k) # {}
      BY <1>3, <2>2, Zenon DEF FreqsOf, Watching, FieldSettings
    <3>2. \E x \in FreqsOf(wt, k) : \A y \in FreqsOf(wt, k) : x <= y
      BY <3>1, LeastNatural, Zenon
    <3>3. LeastOf(FreqsOf(wt, k)) \in FreqsOf(wt, k)
      BY <3>2, Zenon DEF LeastOf
    <3>4. PICK x \in Watching(wt) :
            k \in FieldsOf(x[1], x[2]) /\ LeastOf(FreqsOf(wt, k)) = wt[x].update_freq
      BY <3>3, Zenon DEF FreqsOf
    <3>5. k \in watched_keys[x]
      BY <1>4, <2>2, <3>4, Zenon DEF Exact
    <3> QED BY <3>4, <3>5, Zenon
  <2>3. ASSUME FieldsDeducible PROVE FieldsDeducible'
    <3>1. ASSUME NEW k \in DOMAIN fields_to_watch_', fields_to_watch_'[k].is_watching
          PROVE  \E x \in Watching(wt) :
                   /\ k \in watched_keys[x]
                   /\ fields_to_watch_'[k].update_freq = wt[x].update_freq
      <4>1. /\ k \in DOMAIN fields_to_watch_ /\ fields_to_watch_[k] \in FieldSettings
            /\ k[2] \in Supported
        BY <1>2, <2>1, <3>1, Zenon DEF TelemetryKey
      <4>2. k \notin idle
        BY <2>1, <3>1, <4>1, Zenon DEF FieldSettings
      <4>3. CASE k \in telemetry
        <5>1. fields_to_watch_'[k].update_freq = LeastOf(FreqsOf(wt, k))
          <6> HIDE DEF telemetry, idle
          <6> QED BY <2>1, <4>1, <4>2, <4>3, Zenon DEF FieldSettings
        <5> QED BY <2>2, <4>1, <4>2, <4>3, <5>1, Zenon
      <4>4. CASE k \notin telemetry
        <5>1. fields_to_watch_'[k] = fields_to_watch_[k]
          BY <2>1, <4>1, <4>2, <4>4, Zenon
        <5>2. PICK x \in Watching(watch_table_) :
                /\ k \in watched_keys[x]
                /\ fields_to_watch_[k].update_freq = watch_table_[x].update_freq
          BY <2>3, <3>1, <4>1, <5>1, Zenon DEF FieldsDeducible
        <5>3. x # e
          <6>1. k[2] \notin NotifFields
            BY <4>1, WatchConstants, Zenon
          <6> QED BY <4>4, <5>2, <6>1, Zenon DEF Exact, is_notification_event
        <5> QED BY <1>4, <5>1, <5>2, <5>3, Zenon
      <4> QED BY <4>3, <4>4, Zenon
    <3> QED BY <1>1, <3>1, Zenon DEF FieldsDeducible, Watching
  <2>4. ASSUME NoStrayListening, ~StopMayFail PROVE NoStrayListening'
    <3> DEFINE stopped == {k[1] : k \in keys \ telemetry}
    <3>1. \A x \in GPUs : device_mask'[x] = IF x \in stopped THEN {} ELSE device_mask[x]
      BY <2>1, <2>4, Zenon DEF StopListening
    <3>2. ASSUME NEW x \in GPUs, device_mask'[x] # {}
          PROVE  \E w \in Watching(wt) :
                   HasFields(w[1], w[2]) /\ device_mask'[x] = NewMask(FieldsOf(w[1], w[2]), x)
      <4>1. x \notin stopped /\ device_mask'[x] = device_mask[x]
        BY <3>1, <3>2, Zenon
      <4>2. PICK w \in Watching(watch_table_) :
              HasFields(w[1], w[2]) /\ device_mask[x] = NewMask(FieldsOf(w[1], w[2]), x)
        BY <2>4, <3>2, <4>1, Zenon DEF NoStrayListening
      <4>3. PICK y \in NotifFields : <<x, y>> \in FieldsOf(w[1], w[2])
        BY <3>2, <4>1, <4>2, Zenon DEF NewMask
      <4>4. w # e
        <5>1. ASSUME w = e PROVE FALSE
          <6>1. <<x, y>> \in keys /\ <<x, y>> \notin telemetry
            BY <4>3, <5>1, Zenon DEF is_notification_event
          <6>2. <<x, y>>[1] \in stopped
            BY <6>1, Zenon
          <6> QED BY <4>1, <6>2, Zenon
        <5> QED BY <5>1, Zenon
      <4> QED BY <1>4, <4>1, <4>2, <4>4, Zenon
    <3> QED BY <1>1, <1>5, <3>2, Zenon DEF NoStrayListening, NewMask, Watching
  <2> QED BY <1>6, <2>3, <2>4, Zenon
<1> QED BY <1>1, <1>7, <1>8, Zenon

\* Every step of clients that leave watched groups alone.
LEMMA NextDiscipline ==
  ASSUME ~ChangeWatchedGroups, IInv, Exact, [Next]_vars
  PROVE  /\ Exact'
         /\ FieldsDeducible => FieldsDeducible'
         /\ NoStrayListening /\ ~StopMayFail => NoStrayListening'
<1>1. clock \in Nat
  BY Zenon DEF IInv, TypeOK
<1>2. CASE WatchStep
  <2>1. PICK g \in 1 .. cur_group_id_ - 1, f \in 0 .. cur_field_group_id_ - 1, r \in Status :
          \E q \in WatchRequests : rdc_field_watch(g, f, q, r)
    BY <1>2, Zenon DEF WatchStep
  <2>2. PICK q \in WatchRequests : rdc_field_watch(g, f, q, r)
    BY <2>1, Zenon
  <2>3. q \in Request
    BY WatchConstants, Zenon DEF Request
  <2> QED BY <2>2, <2>3, WatchDiscipline, Zenon
<1>3. CASE UnwatchStep
  <2>1. PICK e \in DOMAIN watch_table_, now \in ReadTimes, r \in Status :
          rdc_field_unwatch(e[1], e[2], now, r)
    BY <1>3, Zenon DEF UnwatchStep
  <2>2. now \in Nat
    BY <1>1, ReadTimesNat, Zenon
  <2> QED BY <2>1, <2>2, UnwatchDiscipline, Zenon
<1>4. CASE UpdateStep
  <2>1. PICK now \in ReadTimes : \E ok \in SUBSET Due(now), took \in 0 .. MaxFetch :
          rdc_field_update_all(now, ok, took)
    BY <1>4, Zenon DEF UpdateStep
  <2>2. PICK ok \in SUBSET Due(now), took \in 0 .. MaxFetch :
          rdc_field_update_all(now, ok, took)
    BY <2>1, Zenon
  <2>3. now \in Nat /\ took \in Nat
    BY <1>1, ReadTimesNat
  <2>4. UNCHANGED <<gvars, device_mask>>
    BY <2>2, Zenon DEF rdc_field_update_all, nvars
  <2>5. SameWatches
    BY <2>2, <2>3, <2>4, UpdateKeeps, Zenon DEF SameWatches
  <2> QED BY <2>5, SameDiscipline, Zenon
<1>5. CASE ListenNotif \/ Tick \/ UNCHANGED vars
  <2>1. SameWatches
    BY <1>5, Zenon DEF ListenNotif, Listen, Tick, SameWatches, vars, nvars, tvars
  <2> QED BY <2>1, SameDiscipline, Zenon
<1>6. CASE rdc_notif_update_cache
  <2>1. fields_to_watch_ \in [DOMAIN fields_to_watch_ -> FieldSettings]
    BY Zenon DEF IInv, TypeOK
  <2>2. /\ UNCHANGED <<gvars, device_mask, watch_table_, watched_keys>>
        /\ \A k \in DOMAIN fields_to_watch_' :
             /\ k \in DOMAIN fields_to_watch_
             /\ fields_to_watch_'[k].is_watching = fields_to_watch_[k].is_watching
             /\ fields_to_watch_'[k].update_freq = fields_to_watch_[k].update_freq
    BY <1>6, <2>1, Zenon DEF rdc_notif_update_cache, FieldSettings
  <2>3. SameWatches
    BY <2>2, Zenon DEF SameWatches
  <2> QED BY <2>3, SameDiscipline, Zenon
<1> QED BY <1>2, <1>3, <1>4, <1>5, <1>6, GroupDiscipline, Zenon DEF Next

\* Nothing is watched at the start.
LEMMA InitDiscipline == Init => Exact /\ FieldsDeducible /\ NoStrayListening
BY Zenon DEF Init, NotifInit, EmptyMap, Exact, FieldsDeducible, NoStrayListening, Watching

\* "The settings for each field can be deduced from watch_table", for clients
\* that leave the groups alone that are being watched: no field goes on being
\* fetched for a watch that has ended, or at a period nobody asked for.
THEOREM SettingsAreDeducible ==
  ASSUME ~ChangeWatchedGroups
  PROVE  Spec => []FieldsDeducible
<1>1. Exact /\ FieldsDeducible /\ IInv /\ [Next]_vars => Exact' /\ FieldsDeducible'
  BY NextDiscipline, Zenon
<1> QED BY <1>1, InitDiscipline, WatchTableInvariant, PTL DEF Spec

\* For the same clients, and as long as stopping works, no GPU is listened to
\* for events that no running watch asks for.
THEOREM NoListeningIsLeft ==
  ASSUME ~ChangeWatchedGroups, ~StopMayFail
  PROVE  Spec => []NoStrayListening
<1>1. Exact /\ NoStrayListening /\ IInv /\ [Next]_vars => Exact' /\ NoStrayListening'
  BY NextDiscipline, Zenon
<1> QED BY <1>1, InitDiscipline, WatchTableInvariant, PTL DEF Spec

-----------------------------------------------------------------------------
(* What a watch asked to keep is kept *)

\* No number of samples, cached or asked for, is beyond an int: with larger
\* ones the difference that evict_cache computes is not the surplus.
Sized ==
  /\ \A k \in TelemetryKey : Len(cache_samples_[k]) <= MaxSamples
  /\ \A k \in DOMAIN fields_to_watch_ : fields_to_watch_[k].max_keep_samples <= INT_MAX

\* One step keeps what the running watches asked to keep of the samples.
Retained ==
  \A e \in Watching(watch_table_) : \A k \in watched_keys[e] :
    \A i \in 1 .. Len(cache_samples_[k]) :
      (/\ Len(cache_samples_[k]) - i + 1 < watch_table_[e].max_keep_samples
       /\ ~Expired(cache_samples_[k][i], watch_table_[e].max_keep_age, clock'))
      => \E j \in 1 .. Len(cache_samples_'[k]) :
           cache_samples_'[k][j] = cache_samples_[k][i]

\* The cache as the fetch leaves it, before clean_up.
LEMMA SampledKeeps ==
  ASSUME TypeOK, Sized, NEW ok, \A k \in ok : Len(cache_samples_[k]) < MaxSamples,
         NEW k \in TelemetryKey
  PROVE  /\ Sampled(ok, clock)[k] \in Seq(Nat)
         /\ Len(Sampled(ok, clock)[k]) <= MaxSamples
         /\ Len(Sampled(ok, clock)[k]) \in {Len(cache_samples_[k]), Len(cache_samples_[k]) + 1}
         /\ \A i \in 1 .. Len(cache_samples_[k]) :
              /\ i \in 1 .. Len(Sampled(ok, clock)[k])
              /\ Sampled(ok, clock)[k][i] = cache_samples_[k][i]
<1> DEFINE s == cache_samples_[k]
           t == Sampled(ok, clock)[k]
<1>1. s \in Seq(Nat) /\ clock \in Nat /\ MaxSamples \in Nat /\ k \in RdcFieldKey
  BY Keys, WatchConstants, Zenon DEF TypeOK
<1>2. Len(s) \in Nat /\ Len(s) <= MaxSamples
  BY <1>1, LenProperties, Zenon DEF Sized
<1>3. CASE k \in ok
  <2>1. t = Append(s, clock) /\ Len(s) < MaxSamples
    BY <1>1, <1>3, Zenon DEF Sampled, rdc_update_cache
  <2> HIDE DEF s, t
  <2>2. /\ t \in Seq(Nat) /\ Len(t) = Len(s) + 1
        /\ \A i \in 1 .. Len(s) : i \in 1 .. Len(t) /\ t[i] = s[i]
    BY <1>1, <2>1, AppendKeeps, Zenon
  <2>3. Len(t) <= MaxSamples /\ Len(t) \in {Len(s), Len(s) + 1}
    BY <1>1, <1>2, <2>1, <2>2, SMTT(30)
  <2> QED BY <2>2, <2>3, Zenon DEF s, t
<1>4. CASE k \notin ok
  <2>1. t = s
    BY <1>1, <1>4, Zenon DEF Sampled
  <2> HIDE DEF s, t
  <2> QED BY <1>1, <1>2, <2>1, Zenon DEF s, t
<1> QED BY <1>3, <1>4, Zenon

\* rdc_notif_update_cache touches no telemetry field.
LEMMA NotifAside ==
  ASSUME TypeOK, rdc_notif_update_cache
  PROVE  /\ UNCHANGED <<fields_to_watch_, watch_table_, watched_keys, clock>>
         /\ \A k \in TelemetryKey : cache_samples_'[k] = cache_samples_[k]
<1> DEFINE keys == {e.key : e \in listened}
           stampOf(k) == CHOOSE t \in {e.ts : e \in listened} : [key |-> k, ts |-> t] \in listened
<1>1. /\ fields_to_watch_' = [k \in DOMAIN fields_to_watch_ |->
           IF k \in keys
           THEN [fields_to_watch_[k] EXCEPT !.last_update_time = stampOf(k)]
           ELSE fields_to_watch_[k]]
      /\ cache_samples_' = [k \in RdcFieldKey |->
           IF k \in keys THEN rdc_update_cache(cache_samples_[k], stampOf(k))
           ELSE cache_samples_[k]]
      /\ UNCHANGED <<watch_table_, watched_keys, clock>>
  BY Zenon DEF rdc_notif_update_cache
<1>2. \A e \in listened : e.key \notin TelemetryKey
  BY Keys DEF TypeOK, NotifTypeOK
<1>3. keys \cap TelemetryKey = {}
  BY <1>2, Zenon
<1> HIDE DEF keys, stampOf
<1> QED BY <1>1, <1>3, Keys, Zenon DEF TypeOK

\* clean_up evicts with settings that are at least those of every watch.
LEMMA UpdateRetains ==
  ASSUME IInv, Sized, MaxSamples <= INT_MAX, UpdateStep
  PROVE  Retained /\ Sized'
<1>1. PICK now \in ReadTimes : \E ok \in SUBSET Due(now), took \in 0 .. MaxFetch :
        rdc_field_update_all(now, ok, took)
  BY Zenon DEF UpdateStep
<1>2. PICK ok \in SUBSET Due(now), took \in 0 .. MaxFetch : rdc_field_update_all(now, ok, took)
  BY <1>1, Zenon
<1> DEFINE t     == clock + took
           ftw   == Stamped(Due(now), t)
           cache == Sampled(ok, clock)
           kept(k) == evict_cache(cache[k], ftw[k].max_keep_samples, ftw[k].max_keep_age, t)
<1>3. /\ \A k \in ok : Len(cache_samples_[k]) < MaxSamples
      /\ clock' = t
      /\ IF CleanupDue(now)
         THEN CleanUp(ftw, cache, t)
         ELSE cache_samples_' = cache /\ fields_to_watch_' = ftw
  BY <1>2, SMTT(30) DEF rdc_field_update_all
<1>4. clock \in Nat /\ t \in Nat /\ MaxSamples \in Nat /\ INT_MAX \in Nat
  BY WatchConstants, CacheConstants DEF IInv, TypeOK
<1>5. /\ DOMAIN ftw = DOMAIN fields_to_watch_
      /\ \A k \in DOMAIN ftw :
           /\ ftw[k].max_keep_samples = fields_to_watch_[k].max_keep_samples
           /\ ftw[k].max_keep_age = fields_to_watch_[k].max_keep_age
           /\ ftw[k].max_keep_samples \in Nat /\ ftw[k].max_keep_age \in Nat
  BY Zenon DEF IInv, TypeOK, FieldSettings, Stamped
<1>6. /\ DOMAIN fields_to_watch_' \subseteq DOMAIN ftw
      /\ \A k \in DOMAIN fields_to_watch_' : fields_to_watch_'[k] = ftw[k]
  BY <1>3, Zenon DEF CleanUp, MapErase
<1>7. ASSUME NEW k \in TelemetryKey
      PROVE  \/ cache_samples_'[k] = cache[k]
             \/ k \in DOMAIN ftw /\ cache_samples_'[k] = kept(k)
  BY <1>3, Keys, Zenon DEF CleanUp
<1> HIDE DEF t, ftw, cache
<1>8. ASSUME NEW k \in TelemetryKey
      PROVE  /\ cache[k] \in Seq(Nat) /\ Len(cache[k]) \in Nat /\ Len(cache[k]) <= MaxSamples
             /\ Len(cache[k]) \in {Len(cache_samples_[k]), Len(cache_samples_[k]) + 1}
             /\ \A i \in 1 .. Len(cache_samples_[k]) :
                  i \in 1 .. Len(cache[k]) /\ cache[k][i] = cache_samples_[k][i]
             /\ cache_samples_[k] \in Seq(Nat) /\ Len(cache_samples_[k]) \in Nat
  <2>1. cache_samples_[k] \in Seq(Nat)
    BY Keys, Zenon DEF IInv, TypeOK
  <2> QED BY <1>3, <2>1, SampledKeeps, LenProperties, Zenon DEF cache, IInv
<1>9. Sized'
  <2>1. ASSUME NEW k \in TelemetryKey PROVE Len(cache_samples_'[k]) <= MaxSamples
    <3>1. CASE cache_samples_'[k] = cache[k]
      BY <1>8, <3>1, Zenon
    <3>2. CASE k \in DOMAIN ftw /\ cache_samples_'[k] = kept(k)
      <4>1. kept(k) \in Seq(Nat) /\ Len(kept(k)) <= Len(cache[k])
        BY <1>4, <1>5, <1>8, <3>2, EvictShorter, EvictTail, ZenonT(30)
      <4> HIDE DEF kept
      <4>2. Len(kept(k)) \in Nat
        BY <4>1, LenProperties, Zenon
      <4> QED BY <1>4, <1>8, <3>2, <4>1, <4>2, SMTT(30)
    <3> QED BY <1>7, <3>1, <3>2, Zenon
  <2>2. \A k \in DOMAIN fields_to_watch_' : fields_to_watch_'[k].max_keep_samples <= INT_MAX
    BY <1>5, <1>6, Zenon DEF Sized
  <2> QED BY <2>1, <2>2, Zenon DEF Sized
<1>10. Retained
  <2> SUFFICES ASSUME NEW e \in Watching(watch_table_), NEW k \in watched_keys[e],
                      NEW i \in 1 .. Len(cache_samples_[k]),
                      Len(cache_samples_[k]) - i + 1 < watch_table_[e].max_keep_samples,
                      ~Expired(cache_samples_[k][i], watch_table_[e].max_keep_age, t)
               PROVE  \E j \in 1 .. Len(cache_samples_'[k]) :
                        cache_samples_'[k][j] = cache_samples_[k][i]
    BY <1>3, Zenon DEF Retained
  <2> DEFINE w == watch_table_[e]
             s == cache_samples_[k]
  <2>1. /\ k \in TelemetryKey /\ w \in FieldSettings
        /\ k \in DOMAIN ftw
        /\ ftw[k].max_keep_age >= w.max_keep_age
        /\ ftw[k].max_keep_samples >= w.max_keep_samples
        /\ ftw[k].max_keep_samples <= INT_MAX
    <3>1. e \in DOMAIN watch_table_ /\ k \in TelemetryKey /\ w \in FieldSettings
      BY Zenon DEF IInv, TypeOK, Watching
    <3>2. /\ k \in DOMAIN fields_to_watch_
          /\ fields_to_watch_[k].max_keep_age >= w.max_keep_age
          /\ fields_to_watch_[k].max_keep_samples >= w.max_keep_samples
      BY Zenon DEF IInv, WatchHonoured
    <3> QED BY <1>5, <3>1, <3>2, Zenon DEF Sized
  <2>2. CASE cache_samples_'[k] = cache[k]
    BY <1>8, <2>1, <2>2, Zenon
  <2>3. CASE cache_samples_'[k] = kept(k)
    <3>1. /\ i \in 1 .. Len(cache[k]) /\ cache[k][i] = s[i]
          /\ cache[k] \in Seq(Nat) /\ s \in Seq(Nat)
          /\ Len(cache[k]) <= Len(s) + 1
          /\ Len(cache[k]) \in Nat /\ Len(cache[k]) <= MaxSamples
      BY <1>8, <2>1, SMTT(30)
    <3>2. Len(cache[k]) <= INT_MAX
      BY <1>4, <3>1
    <3>3. w.max_keep_samples \in Nat /\ w.max_keep_age \in Nat
      BY <2>1, Zenon DEF FieldSettings
    <3>4. ftw[k].max_keep_samples \in Nat /\ ftw[k].max_keep_age \in Nat
      BY <1>5, <2>1, Zenon
    <3> HIDE DEF s, w
    <3>5. Len(s) - i + 1 < w.max_keep_samples /\ ~Expired(s[i], w.max_keep_age, t)
      BY Zenon DEF s, w
    <3> DEFINE c == cache[k]
               u == w.max_keep_samples
               v == w.max_keep_age
               x == ftw[k].max_keep_samples
               y == ftw[k].max_keep_age
    <3>6. i \in 1 .. Len(s)
      BY Zenon DEF s
    <3>7. x >= u /\ y >= v
      BY <2>1, Zenon
    <3>8. Wanted(c, i, x, y, t)
      <4> HIDE DEF c, u, v, x, y
      <4> QED BY ONLY WiderWanted, <1>4, <3>1, <3>3, <3>4, <3>5, <3>6, <3>7, ZenonT(30) DEF c, u, v, x, y
    <3>9. Has(kept(k), c[i])
      BY <1>4, <2>1, <3>1, <3>2, <3>4, <3>8, EvictKeeps, ZenonT(30)
    <3> HIDE DEF kept
    <3> QED BY <2>3, <3>1, <3>9, ZenonT(30) DEF Has, s
  <2> QED BY <1>7, <2>1, <2>2, <2>3, Zenon
<1> QED BY <1>9, <1>10, Zenon

\* A step that leaves the telemetry samples alone retains them.
LEMMA AsideRetains ==
  ASSUME TypeOK, \A k \in TelemetryKey : cache_samples_'[k] = cache_samples_[k]
  PROVE  Retained
<1>1. \A e \in Watching(watch_table_) : watched_keys[e] \subseteq TelemetryKey
  BY Zenon DEF TypeOK, Watching
<1> QED BY <1>1, Zenon DEF Retained

\* A watch merges its settings into those of the fields.
LEMMA WatchSized ==
  ASSUME TypeOK, Sized, NEW q \in Request, q.keep <= INT_MAX,
         NEW g, NEW f, NEW r, rdc_field_watch(g, f, q, r)
  PROVE  Sized'
<1>1. UNCHANGED cache_samples_
  BY Zenon DEF rdc_field_watch
<1>2. CASE FieldWatchConflict(g, f) \/ FieldWatchNotFound(g, f)
  BY <1>1, <1>2, Zenon DEF FieldWatchConflict, FieldWatchNotFound, tvars, Sized
<1>3. CASE FieldWatchOk(g, f, q)
  <2>1. PICK keys : fields_to_watch_' = AddFields(fields_to_watch_, keys, q)
    BY <1>3, ZenonT(30) DEF FieldWatchOk
  <2>2. ASSUME NEW k \in DOMAIN fields_to_watch_'
        PROVE  fields_to_watch_'[k].max_keep_samples <= INT_MAX
    <3>1. \/ k \in DOMAIN fields_to_watch_ /\ fields_to_watch_'[k] = fields_to_watch_[k]
          \/ k \in DOMAIN fields_to_watch_
             /\ fields_to_watch_'[k] = MergeSettings(fields_to_watch_[k], q)
          \/ fields_to_watch_'[k] = NewSettings(q)
      BY <2>1, Zenon DEF AddFields
    <3> QED BY <3>1, SMTT(60) DEF Sized, MergeSettings, NewSettings, MaxOf
  <2> QED BY <1>1, <2>2, Zenon DEF Sized
<1> QED BY <1>2, <1>3, Zenon DEF rdc_field_watch

\* An unwatch leaves the retention of the fields as it is.
LEMMA UnwatchSized ==
  ASSUME TypeOK, Sized, NEW g, NEW f, NEW now, NEW r, rdc_field_unwatch(g, f, now, r)
  PROVE  Sized'
<1>1. UNCHANGED cache_samples_
  BY Zenon DEF rdc_field_unwatch
<1> DEFINE wt == [watch_table_ EXCEPT ![<<g, f>>].is_watching = FALSE,
                                      ![<<g, f>>].last_update_time = now]
<1>2. UnwatchNotFound(<<g, f>>, wt) \/ UnwatchOk(<<g, f>>, wt)
  BY Zenon DEF rdc_field_unwatch
<1> HIDE DEF wt
<1>3. /\ DOMAIN fields_to_watch_' = DOMAIN fields_to_watch_
      /\ \A k \in DOMAIN fields_to_watch_ :
           fields_to_watch_'[k].max_keep_samples = fields_to_watch_[k].max_keep_samples
  <2>1. CASE UnwatchNotFound(<<g, f>>, wt)
    BY <2>1, Zenon DEF UnwatchNotFound
  <2>2. CASE UnwatchOk(<<g, f>>, wt)
    BY <2>2, Zenon DEF UnwatchOk, TypeOK, FieldSettings
  <2> QED BY <1>2, <2>1, <2>2, Zenon
<1> QED BY <1>1, <1>3, Zenon DEF Sized

\* No step evicts a sample that a running watch asked to keep.
LEMMA NextRetains ==
  ASSUME \A q \in WatchRequests : q.keep <= INT_MAX, MaxSamples <= INT_MAX,
         IInv, Sized, [Next]_vars
  PROVE  Retained /\ Sized'
<1>1. TypeOK
  BY Zenon DEF IInv
<1>2. ASSUME UNCHANGED <<cache_samples_, fields_to_watch_>> PROVE Retained /\ Sized'
  BY <1>1, <1>2, AsideRetains, Zenon DEF Sized
<1>3. CASE GroupStep
  BY <1>2, <1>3, Zenon DEF GroupStep, tvars
<1>4. CASE WatchStep
  <2>1. PICK q \in WatchRequests : \E g, f, r : rdc_field_watch(g, f, q, r)
    BY <1>4, Zenon DEF WatchStep
  <2>2. q \in Request /\ q.keep <= INT_MAX
    BY WatchConstants, Zenon DEF Request
  <2>3. UNCHANGED cache_samples_
    BY <2>1, Zenon DEF rdc_field_watch
  <2> QED BY <1>1, <2>1, <2>2, <2>3, WatchSized, AsideRetains, Zenon
<1>5. CASE UnwatchStep
  <2>1. PICK e, now, r : rdc_field_unwatch(e[1], e[2], now, r)
    BY <1>5, Zenon DEF UnwatchStep
  <2>2. UNCHANGED cache_samples_
    BY <2>1, Zenon DEF rdc_field_unwatch
  <2> QED BY <1>1, <2>1, <2>2, UnwatchSized, AsideRetains, ZenonT(30)
<1>6. CASE UpdateStep
  BY <1>6, UpdateRetains, Zenon
<1>7. CASE rdc_notif_update_cache
  BY <1>1, <1>7, NotifAside, AsideRetains, Zenon DEF Sized
<1>8. CASE ListenNotif \/ Tick \/ UNCHANGED vars
  BY <1>2, <1>8, Zenon DEF ListenNotif, Tick, vars, tvars
<1> QED BY <1>3, <1>4, <1>5, <1>6, <1>7, <1>8, Zenon DEF Next

\* A sample that a running watch asked to keep is never evicted: clean_up
\* evicts with the merged settings of the field.  For settings and caches
\* whose number of samples an int can hold.
THEOREM WatchedSamplesAreKept ==
  ASSUME \A q \in WatchRequests : q.keep <= INT_MAX, MaxSamples <= INT_MAX
  PROVE  Spec => RetentionHonoured
<1>1. Init => Sized
  BY Keys, WatchConstants DEF Init, Sized, EmptyMap
<1>2. IInv /\ Sized /\ [Next]_vars => Sized' /\ Retained
  BY NextRetains, Zenon
<1>3. IInv /\ Sized /\ [Next]_vars => [Retained]_vars
  BY <1>2, Zenon
<1>4. IInv /\ [Next]_vars => IInv'
  BY NextIInv, Zenon
<1>5. Spec => [][Retained]_vars
  BY <1>1, <1>2, <1>3, <1>4, InitIInv, PTL DEF Spec
<1> QED BY <1>5, Zenon DEF RetentionHonoured, Retained

-----------------------------------------------------------------------------
(***************************************************************************)
(* RdcHistoryReader: when two samples of a field never carry the same time *)
(* stamp, a client that reads its history gets every sample once and in    *)
(* order, whatever max_keep_samples and max_keep_age are.                  *)
(***************************************************************************)

\* The vector is strictly ordered by time, and no sample is newer than last.
Ordered ==
  /\ \A i, j \in 1 .. Len(cache_samples_) : i < j => cache_samples_[i] < cache_samples_[j]
  /\ \A i \in 1 .. Len(cache_samples_) : cache_samples_[i] <= last

\* The client has been given only samples before since, and since is at most
\* one past the newest sample: the next sample cannot be passed over.
SinceBetween ==
  /\ \A t \in got : t < since
  /\ since <= last + 1 /\ last <= time

RInv == ReaderTypeOK /\ Ordered /\ SinceBetween /\ NothingSkipped

\* At the start there is no sample, and nothing was read.
LEMMA InitRInv == ReaderInit => RInv
<1> SUFFICES ASSUME ReaderInit PROVE RInv
  BY Zenon
<1>1. cache_samples_ \in Seq(Nat) /\ Len(cache_samples_) = 0
  BY EmptySeq, Zenon DEF ReaderInit
<1> QED BY <1>1 DEF ReaderInit, RInv, ReaderTypeOK, Ordered, SinceBetween, NothingSkipped

\* rdc_field_get_value_since finds the oldest sample that is not before since.
LEMMA GetValueSince ==
  ASSUME NEW s \in Seq(Nat), NEW from \in Nat
  PROVE  LET r == rdc_field_get_value_since(s, from)
         IN  \/ r.status = "NOT_FOUND"
             \/ \E i \in 1 .. Len(s) :
                  /\ r.status = "OK" /\ r.ts = s[i] /\ s[i] >= from
                  /\ \A j \in 1 .. i - 1 : s[j] < from
                  /\ r.next = IF i < Len(s) THEN s[i + 1] ELSE s[i] + 1
<1> DEFINE hits == {i \in 1 .. Len(s) : s[i] >= from}
           i == CHOOSE x \in hits : \A y \in hits : x <= y
           r == rdc_field_get_value_since(s, from)
<1>1. Len(s) \in Nat /\ \A j \in 1 .. Len(s) : s[j] \in Nat
  BY LenProperties, ElementOfSeq, Zenon
<1>2. r = IF hits = {}
          THEN [status |-> "NOT_FOUND", ts |-> 0, next |-> from]
          ELSE [status |-> "OK", ts |-> s[i],
                next |-> IF i < Len(s) THEN s[i + 1] ELSE s[i] + 1]
  BY Zenon DEF rdc_field_get_value_since
<1>3. CASE hits = {}
  BY <1>2, <1>3
<1>4. CASE hits # {}
  <2>1. hits \in SUBSET Nat
    BY <1>1
  <2>2. \E x \in hits : \A y \in hits : x <= y
    BY <1>4, <2>1, LeastNatural, Zenon
  <2>3. i \in hits /\ \A y \in hits : i <= y
    BY <2>2, Zenon
  <2> HIDE DEF i
  <2>4. ASSUME NEW j \in 1 .. i - 1 PROVE s[j] < from
    <3>1. j \in 1 .. Len(s) /\ ~(i <= j)
      BY <1>1, <2>3
    <3> QED BY <1>1, <2>3, <3>1, SMTT(30)
  <2>5. i \in 1 .. Len(s) /\ s[i] >= from
    BY <2>3, Zenon
  <2>6. /\ r.status = "OK" /\ r.ts = s[i]
        /\ r.next = IF i < Len(s) THEN s[i + 1] ELSE s[i] + 1
    <3> HIDE DEF r, hits
    <3> QED BY <1>2, <1>4, Zenon
  <2> HIDE DEF r, hits
  <2>7. \E x \in 1 .. Len(s) :
          /\ r.status = "OK" /\ r.ts = s[x] /\ s[x] >= from
          /\ \A j \in 1 .. x - 1 : s[j] < from
          /\ r.next = IF x < Len(s) THEN s[x + 1] ELSE s[x] + 1
    BY <2>4, <2>5, <2>6, Zenon
  <2> QED BY <2>7, Zenon DEF r
<1> QED BY <1>3, <1>4, Zenon

\* A sample is added.
LEMMA SampleRInv ==
  ASSUME RInv, MinGap = 1, Sample
  PROVE  RInv'
<1> USE DEF RInv, Sample, rdc_update_cache
<1>1. cache_samples_ \in Seq(Nat) /\ time \in Nat /\ last \in Nat /\ since \in Nat
  BY Zenon DEF ReaderTypeOK
<1>2. /\ cache_samples_' \in Seq(Nat)
      /\ Len(cache_samples_) \in Nat
      /\ Len(cache_samples_') = Len(cache_samples_) + 1
      /\ \A i \in 1 .. Len(cache_samples_) : cache_samples_'[i] = cache_samples_[i]
      /\ cache_samples_'[Len(cache_samples_) + 1] = time
  BY <1>1, AppendProperties, LenProperties, SMTT(30)
<1>3. \A i \in 1 .. Len(cache_samples_) : cache_samples_[i] \in Nat
  BY <1>1, ElementOfSeq, Zenon
<1>4. last' = time /\ last < time /\ since <= time
      /\ UNCHANGED <<time, since, got, reading>>
  BY <1>1 DEF SinceBetween
<1>5. \A i \in 1 .. Len(cache_samples_') :
        i \in 1 .. Len(cache_samples_) \/ i = Len(cache_samples_) + 1
  BY <1>2
<1> HIDE DEF Sample, rdc_update_cache
<1>6. ReaderTypeOK'
  BY <1>1, <1>2, <1>4, Zenon DEF ReaderTypeOK
<1>7. Ordered'
  <2>1. ASSUME NEW i \in 1 .. Len(cache_samples_'), NEW j \in 1 .. Len(cache_samples_'), i < j
        PROVE  cache_samples_'[i] < cache_samples_'[j]
    <3>1. i \in 1 .. Len(cache_samples_)
      BY <1>2, <2>1, SMTT(30)
    <3>2. cache_samples_[i] <= last /\ cache_samples_'[i] = cache_samples_[i]
      BY <1>2, <3>1, Zenon DEF Ordered
    <3>3. CASE j \in 1 .. Len(cache_samples_)
      BY <1>2, <2>1, <3>1, <3>3, ZenonT(30) DEF Ordered
    <3>4. CASE j = Len(cache_samples_) + 1
      BY <1>1, <1>2, <1>3, <1>4, <3>1, <3>2, <3>4, SMTT(60)
    <3> QED BY <1>5, <3>3, <3>4, Zenon
  <2>2. ASSUME NEW i \in 1 .. Len(cache_samples_') PROVE cache_samples_'[i] <= time
    <3>1. CASE i \in 1 .. Len(cache_samples_)
      <4>1. cache_samples_[i] <= last /\ cache_samples_'[i] = cache_samples_[i]
        BY <1>2, <3>1, Zenon DEF Ordered
      <4> QED BY <1>1, <1>3, <1>4, <3>1, <4>1, SMTT(30)
    <3>2. CASE i = Len(cache_samples_) + 1
      BY <1>1, <1>2, <3>2, SMTT(30)
    <3> QED BY <1>5, <3>1, <3>2, ZenonT(30)
  <2> QED BY <1>4, <2>1, <2>2, Zenon DEF Ordered
<1>8. SinceBetween'
  BY <1>1, <1>4 DEF SinceBetween
<1>9. NothingSkipped'
  <2>1. ASSUME NEW i \in 1 .. Len(cache_samples_'), cache_samples_'[i] < since
        PROVE  cache_samples_'[i] \in got
    <3>1. CASE i \in 1 .. Len(cache_samples_)
      BY <1>2, <2>1, <3>1, Zenon DEF NothingSkipped
    <3>2. CASE i = Len(cache_samples_) + 1
      BY <1>1, <1>2, <1>4, <2>1, <3>2, SMTT(30)
    <3> QED BY <1>5, <3>1, <3>2, Zenon
  <2> QED BY <1>4, <2>1, Zenon DEF NothingSkipped
<1> QED BY <1>6, <1>7, <1>8, <1>9, Zenon

\* Samples are evicted.
LEMMA EvictRInv ==
  ASSUME RInv, Evict
  PROVE  RInv'
<1>1. cache_samples_ \in Seq(Nat) /\ time \in Nat /\ Keep \in Nat /\ Age \in Nat
  BY ReaderConstants, Zenon DEF RInv, ReaderTypeOK
<1>2. /\ cache_samples_' \in Seq(Nat) /\ IsTail(cache_samples_', cache_samples_)
      /\ UNCHANGED <<time, last, since, got, reading>>
  BY <1>1, EvictTail, Zenon DEF Evict
<1>3. PICK n \in 0 .. Len(cache_samples_) :
        /\ Len(cache_samples_') = Len(cache_samples_) - n
        /\ \A j \in 1 .. Len(cache_samples_') : cache_samples_'[j] = cache_samples_[n + j]
  BY <1>2, Zenon DEF IsTail
<1>4. Len(cache_samples_) \in Nat
  BY <1>1, LenProperties, Zenon
<1>5. \A j \in 1 .. Len(cache_samples_') : n + j \in 1 .. Len(cache_samples_)
  BY <1>3, <1>4, SMTT(30)
<1>6. ReaderTypeOK' /\ SinceBetween'
  BY <1>2, Zenon DEF RInv, ReaderTypeOK, SinceBetween
<1>7. Ordered'
  <2>1. ASSUME NEW i \in 1 .. Len(cache_samples_'), NEW j \in 1 .. Len(cache_samples_'), i < j
        PROVE  cache_samples_'[i] < cache_samples_'[j]
    <3>1. n + i < n + j
      BY <1>3, <1>4, <2>1, SMTT(30)
    <3> QED BY <1>3, <1>5, <3>1, Zenon DEF RInv, Ordered
  <2>2. \A i \in 1 .. Len(cache_samples_') : cache_samples_'[i] <= last
    BY <1>3, <1>5, Zenon DEF RInv, Ordered
  <2> QED BY <1>2, <2>1, <2>2, Zenon DEF Ordered
<1>8. NothingSkipped'
  BY <1>2, <1>3, <1>5, ZenonT(30) DEF RInv, NothingSkipped
<1> QED BY <1>6, <1>7, <1>8, ZenonT(30) DEF RInv

\* The client makes a call.
LEMMA ReadRInv ==
  ASSUME RInv, Read
  PROVE  RInv'
<1> DEFINE r == rdc_field_get_value_since(cache_samples_, since)
           s == cache_samples_
<1>1. /\ s \in Seq(Nat) /\ since \in Nat /\ last \in Nat /\ time \in Nat
      /\ got \subseteq Nat /\ reading \in BOOLEAN
  BY Zenon DEF RInv, ReaderTypeOK
<1>2. /\ \/ r.status = "OK" /\ got' = got \cup {r.ts} /\ since' = r.next /\ UNCHANGED reading
         \/ r.status # "OK" /\ reading' = FALSE /\ UNCHANGED <<got, since>>
      /\ UNCHANGED <<cache_samples_, time, last>>
  BY Zenon DEF Read
<1>3. CASE r.status # "OK"
  <2>1. UNCHANGED <<got, since, cache_samples_, time, last>> /\ reading' = FALSE
    BY <1>2, <1>3, Zenon
  <2> QED BY <1>1, <2>1, Zenon DEF RInv, ReaderTypeOK, Ordered, SinceBetween, NothingSkipped
<1>4. CASE r.status = "OK"
  <2>1. PICK i \in 1 .. Len(s) :
          /\ r.ts = s[i] /\ s[i] >= since
          /\ \A j \in 1 .. i - 1 : s[j] < since
          /\ r.next = IF i < Len(s) THEN s[i + 1] ELSE s[i] + 1
    BY <1>1, <1>4, GetValueSince, Zenon
  <2>2. /\ got' = got \cup {s[i]} /\ since' = r.next
        /\ UNCHANGED <<cache_samples_, time, last, reading>>
    BY <1>2, <1>4, <2>1, Zenon
  <2> HIDE DEF r
  <2>3. Len(s) \in Nat /\ \A j \in 1 .. Len(s) : s[j] \in Nat /\ s[j] <= last
    BY <1>1, LenProperties, ElementOfSeq, Zenon DEF RInv, Ordered
  <2>4. \A j, k \in 1 .. Len(s) : j < k => s[j] < s[k]
    BY Zenon DEF RInv, Ordered
  <2>5. since' \in Nat /\ s[i] < since' /\ since' <= last + 1
    <3>1. CASE i < Len(s)
      <4>1. i + 1 \in 1 .. Len(s) /\ i < i + 1 /\ since' = s[i + 1]
        BY <2>1, <2>2, <2>3, <3>1, SMTT(30)
      <4> QED BY <1>1, <2>3, <2>4, <4>1, SMTT(30)
    <3>2. CASE ~(i < Len(s))
      BY <1>1, <2>1, <2>2, <2>3, <3>2, SMTT(30)
    <3> QED BY <3>1, <3>2, Zenon
  <2>6. ASSUME NEW j \in 1 .. Len(s), s[j] < since' PROVE s[j] \in got'
    <3>1. j <= i
      <4>1. SUFFICES ASSUME i < j PROVE FALSE
        BY <2>3, SMTT(30)
      <4>2. i < Len(s) /\ i + 1 \in 1 .. Len(s) /\ since' = s[i + 1]
        BY <2>1, <2>2, <2>3, <4>1, SMTT(30)
      <4>3. j = i + 1 \/ s[i + 1] < s[j]
        BY <2>3, <2>4, <4>1, <4>2, SMTT(30)
      <4> QED BY <2>3, <2>6, <4>2, <4>3, SMTT(30)
    <3>2. CASE j = i
      BY <2>2, <3>2, Zenon
    <3>3. CASE j # i
      <4>1. j \in 1 .. i - 1
        BY <2>3, <3>1, <3>3, SMTT(30)
      <4> QED BY <2>1, <2>2, <4>1, Zenon DEF RInv, NothingSkipped
    <3> QED BY <3>2, <3>3, Zenon
  <2>7. \A t \in got' : t < since'
    <3>1. \A t \in got : t < since /\ t \in Nat
      BY <1>1, Zenon DEF RInv, SinceBetween
    <3>2. since < since'
      BY <1>1, <2>1, <2>3, <2>5, SMTT(30)
    <3> QED BY <1>1, <2>2, <2>5, <3>1, <3>2, SMTT(30)
  <2>8. ReaderTypeOK'
    BY <1>1, <2>2, <2>3, <2>5, Zenon DEF ReaderTypeOK
  <2>9. Ordered'
    BY <2>2, Zenon DEF RInv, Ordered
  <2>10. SinceBetween'
    BY <2>2, <2>5, <2>7, Zenon DEF RInv, SinceBetween
  <2>11. NothingSkipped'
    BY <2>2, <2>6, Zenon DEF NothingSkipped
  <2> QED BY <2>8, <2>9, <2>10, <2>11, Zenon DEF RInv
<1> QED BY <1>3, <1>4, Zenon

\* Every step preserves the invariant.
LEMMA NextRInv ==
  ASSUME MinGap = 1, RInv, [ReaderNext]_rvars
  PROVE  RInv'
<1>1. CASE Advance
  BY <1>1 DEF Advance, RInv, ReaderTypeOK, Ordered, SinceBetween, NothingSkipped
<1>2. CASE UNCHANGED rvars
  BY <1>2, Zenon DEF rvars, RInv, ReaderTypeOK, Ordered, SinceBetween, NothingSkipped
<1> QED BY <1>1, <1>2, SampleRInv, EvictRInv, ReadRInv, ZenonT(30) DEF ReaderNext

\* With distinct time stamps the invariant holds throughout.
THEOREM ReaderInvariant == ASSUME MinGap = 1 PROVE ReaderSpec => []RInv
<1>1. RInv /\ [ReaderNext]_rvars => RInv'
  BY NextRInv, Zenon
<1> QED BY <1>1, InitRInv, PTL DEF ReaderSpec

\* rdc_field_get_value_since never gives a sample twice or out of order.
THEOREM SamplesReadOnce == ASSUME MinGap = 1 PROVE ReaderSpec => []ReadOnceInOrder
<1>1. RInv => ReadOnceInOrder
  <2> SUFFICES ASSUME RInv,
                      rdc_field_get_value_since(cache_samples_, since).status = "OK",
                      NEW t \in got
               PROVE  t < rdc_field_get_value_since(cache_samples_, since).ts
    BY Zenon DEF ReadOnceInOrder
  <2> DEFINE r == rdc_field_get_value_since(cache_samples_, since)
  <2>1. cache_samples_ \in Seq(Nat) /\ since \in Nat /\ t \in Nat /\ t < since
    BY Zenon DEF RInv, ReaderTypeOK, SinceBetween
  <2>2. \E i \in 1 .. Len(cache_samples_) :
          r.ts = cache_samples_[i] /\ cache_samples_[i] >= since
    BY <2>1, GetValueSince, Zenon
  <2>3. \A i \in 1 .. Len(cache_samples_) : cache_samples_[i] \in Nat
    BY <2>1, ElementOfSeq, Zenon
  <2> HIDE DEF r
  <2>4. t < r.ts
    BY <2>1, <2>2, <2>3, SMTT(30)
  <2> QED BY <2>4, Zenon DEF r
<1> QED BY <1>1, ReaderInvariant, PTL

\* next_since_time_stamp never passes over a sample.
THEOREM NoSampleIsSkipped == ASSUME MinGap = 1 PROVE ReaderSpec => []NothingSkipped
<1>1. RInv => NothingSkipped
  BY Zenon DEF RInv
<1> QED BY <1>1, ReaderInvariant, PTL

-----------------------------------------------------------------------------
\* The clock stays within its bound.
ClockInv == RInv /\ time <= MaxTime + 1

\* With distinct time stamps the stronger invariant holds throughout.
LEMMA ClockInvariant == ASSUME MinGap = 1 PROVE ReaderSpec => []ClockInv
<1>1. ReaderInit => ClockInv
  BY InitRInv, ReaderConstants, SMTT(30) DEF ReaderInit, ClockInv
<1>2. ASSUME ClockInv, [ReaderNext]_rvars PROVE ClockInv'
  <2>1. RInv'
    BY <1>2, NextRInv, Zenon DEF ClockInv
  <2>2. time \in Nat /\ time <= MaxTime + 1 /\ MaxTime \in Nat
    BY <1>2, ReaderConstants, Zenon DEF ClockInv, RInv, ReaderTypeOK
  <2>3. time' = time \/ (time < MaxTime /\ time' = time + 1)
    BY <1>2, Zenon DEF ReaderNext, Sample, Evict, Read, Advance, rvars
  <2> QED BY <2>1, <2>2, <2>3, SMTT(30) DEF ClockInv
<1> QED BY <1>1, <1>2, PTL DEF ReaderSpec

\* The waiting samples, by position.
LEMMA PendingAt ==
  ASSUME RInv
  PROVE  /\ \A t : t \in Pending <=> \E i \in 1 .. Len(cache_samples_) :
                                       cache_samples_[i] >= since /\ t = cache_samples_[i]
         /\ Pending \subseteq Nat
<1>1. \A i \in 1 .. Len(cache_samples_) : cache_samples_[i] \in Nat
  BY ElementOfSeq, Zenon DEF RInv, ReaderTypeOK
<1> QED BY <1>1, Zenon DEF Pending

\* A fetch produces a sample.
LEMMA SampleProduces ==
  ASSUME ClockInv, RInv', MinGap = 1, Sample
  PROVE  Feed!Produce
<1>1. /\ cache_samples_ \in Seq(Nat) /\ time \in Nat /\ last \in Nat /\ since \in Nat
      /\ got \subseteq Nat /\ time <= MaxTime + 1 /\ MaxTime \in Nat
  BY ReaderConstants, ZenonT(30) DEF ClockInv, RInv, ReaderTypeOK
<1>2. /\ Len(cache_samples_) \in Nat
      /\ Len(cache_samples_') = Len(cache_samples_) + 1
      /\ \A i \in 1 .. Len(cache_samples_) : cache_samples_'[i] = cache_samples_[i]
      /\ cache_samples_'[Len(cache_samples_) + 1] = time
      /\ since' = since /\ got' = got
  BY <1>1, AppendProperties, LenProperties, SMTT(30) DEF Sample, rdc_update_cache
<1>3. last < time /\ since <= time /\ \A t \in got : t < since
  BY <1>1, SMTT(30) DEF Sample, ClockInv, RInv, SinceBetween
<1>4. time \in 0 .. MaxTime + 1
  BY <1>1
<1>5. \A u \in Pending \cup got : u < time
  <2>1. ASSUME NEW u \in Pending PROVE u < time
    <3>1. PICK i \in 1 .. Len(cache_samples_) : u = cache_samples_[i]
      BY PendingAt, Zenon DEF ClockInv
    <3>2. u <= last /\ u \in Nat
      BY <3>1, PendingAt, Zenon DEF ClockInv, RInv, Ordered
    <3> QED BY <1>1, <1>3, <3>2, SMTT(30)
  <2>2. ASSUME NEW u \in got PROVE u < time
    BY <1>1, <1>3
  <2> QED BY <2>1, <2>2, Zenon
<1>6. Pending' = Pending \cup {time}
  <2>1. \A t : t \in Pending' <=> \E i \in 1 .. Len(cache_samples_') :
                                    cache_samples_'[i] >= since /\ t = cache_samples_'[i]
    BY <1>2, Zenon DEF Pending
  <2>2. \A i : i \in 1 .. Len(cache_samples_')
               <=> (i \in 1 .. Len(cache_samples_) \/ i = Len(cache_samples_) + 1)
    BY <1>2, SMTT(30)
  <2>3. time >= since
    BY <1>1, <1>3, ZenonT(30)
  <2>4. ASSUME NEW t \in Pending' PROVE t \in Pending \cup {time}
    <3>1. PICK i \in 1 .. Len(cache_samples_') :
            cache_samples_'[i] >= since /\ t = cache_samples_'[i]
      BY <2>1, Zenon
    <3>2. CASE i = Len(cache_samples_) + 1
      BY <1>2, <3>1, <3>2, ZenonT(30)
    <3>3. CASE i \in 1 .. Len(cache_samples_)
      <4>1. cache_samples_[i] >= since /\ t = cache_samples_[i]
        BY <1>2, <3>1, <3>3, ZenonT(30)
      <4> QED BY <3>3, <4>1, ZenonT(30) DEF Pending
    <3> QED BY <2>2, <3>2, <3>3, ZenonT(30)
  <2>5. ASSUME NEW t \in Pending \cup {time} PROVE t \in Pending'
    <3>1. CASE t = time
      <4>1. Len(cache_samples_) + 1 \in 1 .. Len(cache_samples_')
        BY <1>2, SMTT(30)
      <4> QED BY <1>2, <2>1, <2>3, <3>1, <4>1, ZenonT(30)
    <3>2. CASE t \in Pending
      <4>1. PICK i \in 1 .. Len(cache_samples_) :
              cache_samples_[i] >= since /\ t = cache_samples_[i]
        BY <3>2, PendingAt, ZenonT(30) DEF ClockInv
      <4>2. i \in 1 .. Len(cache_samples_')
        BY <2>2, ZenonT(30)
      <4> QED BY <1>2, <2>1, <4>1, <4>2, ZenonT(30)
    <3> QED BY <3>1, <3>2, Zenon
  <2> QED BY <2>4, <2>5, Zenon
<1> QED BY <1>2, <1>4, <1>5, <1>6, Zenon DEF Feed!Produce

\* An eviction loses the oldest of the samples that wait.
LEMMA EvictLoses ==
  ASSUME RInv, RInv', Evict
  PROVE  Feed!Lose
<1>1. cache_samples_ \in Seq(Nat) /\ time \in Nat /\ Keep \in Nat /\ Age \in Nat
  BY ReaderConstants, Zenon DEF RInv, ReaderTypeOK
<1>2. IsTail(cache_samples_', cache_samples_) /\ since' = since /\ got' = got
  BY <1>1, EvictTail, ZenonT(30) DEF Evict
<1>3. PICK n \in 0 .. Len(cache_samples_) :
        /\ Len(cache_samples_') = Len(cache_samples_) - n
        /\ \A j \in 1 .. Len(cache_samples_') : cache_samples_'[j] = cache_samples_[n + j]
  BY <1>2, Zenon DEF IsTail
<1>4. Len(cache_samples_) \in Nat
  BY <1>1, LenProperties, Zenon
<1>5. \A t : t \in Pending' <=> \E i \in 1 .. Len(cache_samples_') :
                                  cache_samples_'[i] >= since /\ t = cache_samples_'[i]
  BY <1>2, Zenon DEF Pending
<1>6. \A t : t \in Pending' <=> \E i \in n + 1 .. Len(cache_samples_) :
                                  cache_samples_[i] >= since /\ t = cache_samples_[i]
  <2>1. ASSUME NEW t \in Pending'
        PROVE  \E i \in n + 1 .. Len(cache_samples_) :
                 cache_samples_[i] >= since /\ t = cache_samples_[i]
    <3>1. PICK j \in 1 .. Len(cache_samples_') :
            cache_samples_'[j] >= since /\ t = cache_samples_'[j]
      BY <1>5, Zenon
    <3>2. n + j \in n + 1 .. Len(cache_samples_)
      BY <1>3, <1>4, SMTT(30)
    <3> QED BY <1>3, <3>1, <3>2, ZenonT(30)
  <2>2. ASSUME NEW t, NEW i \in n + 1 .. Len(cache_samples_),
               cache_samples_[i] >= since, t = cache_samples_[i]
        PROVE  t \in Pending'
    <3>1. i - n \in 1 .. Len(cache_samples_') /\ n + (i - n) = i
      BY <1>3, <1>4, SMTT(30)
    <3>2. cache_samples_'[i - n] = cache_samples_[i]
      BY <1>3, <3>1, ZenonT(30)
    <3> QED BY <1>5, <2>2, <3>1, <3>2, ZenonT(30)
  <2> QED BY <2>1, <2>2, ZenonT(30)
<1>7. Pending' \in SUBSET Pending
  <2>1. \A i \in n + 1 .. Len(cache_samples_) : i \in 1 .. Len(cache_samples_)
    BY <1>3, <1>4, SMTT(30)
  <2> QED BY <1>6, <2>1, PendingAt, ZenonT(30)
<1>8. ASSUME NEW t \in Pending \ Pending', NEW u \in Pending' PROVE t < u
  <2>1. PICK i \in 1 .. Len(cache_samples_) :
          cache_samples_[i] >= since /\ t = cache_samples_[i]
    BY PendingAt, Zenon
  <2>2. PICK j \in n + 1 .. Len(cache_samples_) :
          cache_samples_[j] >= since /\ u = cache_samples_[j]
    BY <1>6, Zenon
  <2>3. i \notin n + 1 .. Len(cache_samples_)
    BY <1>6, <1>8, <2>1, ZenonT(30)
  <2>4. i < j /\ j \in 1 .. Len(cache_samples_)
    BY <1>3, <1>4, <2>3, SMTT(30)
  <2> QED BY <2>1, <2>2, <2>4, Zenon DEF RInv, Ordered
<1> QED BY <1>2, <1>7, <1>8, ZenonT(30) DEF Feed!Lose

\* A call delivers the oldest sample that waits, or nothing.
LEMMA ReadDelivers ==
  ASSUME RInv, RInv', Read
  PROVE  Feed!Deliver \/ UNCHANGED Feed!fvars
<1> DEFINE r == rdc_field_get_value_since(cache_samples_, since)
           s == cache_samples_
<1>1. s \in Seq(Nat) /\ since \in Nat
  BY Zenon DEF RInv, ReaderTypeOK
<1>2. /\ \/ r.status = "OK" /\ got' = got \cup {r.ts} /\ since' = r.next
         \/ r.status # "OK" /\ got' = got /\ since' = since
      /\ cache_samples_' = s
  BY Zenon DEF Read
<1>3. CASE r.status # "OK"
  <2>1. got' = got /\ since' = since /\ cache_samples_' = cache_samples_
    BY <1>2, <1>3, Zenon
  <2> QED BY <2>1, Zenon DEF Feed!fvars, Pending
<1>4. CASE r.status = "OK"
  <2>1. PICK i \in 1 .. Len(s) :
          /\ r.ts = s[i] /\ s[i] >= since
          /\ \A j \in 1 .. i - 1 : s[j] < since
          /\ r.next = IF i < Len(s) THEN s[i + 1] ELSE s[i] + 1
    BY <1>1, <1>4, GetValueSince, ZenonT(30)
  <2>2. got' = got \cup {s[i]} /\ since' = r.next /\ cache_samples_' = s
    BY <1>2, <1>4, <2>1, ZenonT(30)
  <2> HIDE DEF r
  <2>3. Len(s) \in Nat /\ \A j \in 1 .. Len(s) : s[j] \in Nat
    BY <1>1, LenProperties, ElementOfSeq, ZenonT(30)
  <2>4. \A j, k \in 1 .. Len(s) : j < k => s[j] < s[k]
    BY Zenon DEF RInv, Ordered
  <2>5. \A j \in 1 .. Len(s) : s[j] >= since <=> j >= i
    <3>1. ASSUME NEW j \in 1 .. Len(s), j >= i PROVE s[j] >= since
      <4>1. j = i \/ s[i] < s[j]
        BY <2>3, <2>4, <3>1, SMTT(30)
      <4> QED BY <1>1, <2>1, <2>3, <4>1, SMTT(30)
    <3>2. ASSUME NEW j \in 1 .. Len(s), ~(j >= i) PROVE ~(s[j] >= since)
      <4>1. j \in 1 .. i - 1
        BY <2>3, <3>2, SMTT(30)
      <4> QED BY <1>1, <2>1, <2>3, <4>1, SMTT(30)
    <3> QED BY <3>1, <3>2, Zenon
  <2>6. \A j \in 1 .. Len(s) : s[j] >= since' <=> j > i
    <3>1. CASE i < Len(s)
      <4>1. i + 1 \in 1 .. Len(s) /\ since' = s[i + 1]
        BY <2>1, <2>2, <2>3, <3>1, SMTT(30)
      <4>2. ASSUME NEW j \in 1 .. Len(s) PROVE s[j] >= s[i + 1] <=> j > i
        <5>1. CASE j > i
          <6>1. j = i + 1 \/ i + 1 < j
            BY <2>3, <5>1, SMTT(30)
          <6> QED BY <2>3, <2>4, <4>1, <5>1, <6>1, SMTT(30)
        <5>2. CASE ~(j > i)
          <6>1. j < i + 1
            BY <2>3, <5>2, SMTT(30)
          <6>2. s[j] < s[i + 1]
            BY <2>4, <4>1, <6>1, Zenon
          <6> QED BY <2>3, <4>1, <5>2, <6>2, SMTT(30)
        <5> QED BY <5>1, <5>2, Zenon
      <4> QED BY <4>1, <4>2, ZenonT(30)
    <3>2. CASE ~(i < Len(s))
      <4>1. i = Len(s) /\ since' = s[i] + 1
        BY <2>1, <2>2, <2>3, <3>2, SMTT(30)
      <4>2. ASSUME NEW j \in 1 .. Len(s) PROVE ~(s[j] >= s[i] + 1) /\ ~(j > i)
        <5>1. j = i \/ s[j] < s[i]
          BY <2>3, <2>4, <4>1, SMTT(30)
        <5> QED BY <2>3, <4>1, <5>1, SMTT(30)
      <4> QED BY <4>1, <4>2, ZenonT(30)
    <3> QED BY <3>1, <3>2, Zenon
  <2>7. \A t : t \in Pending <=> \E j \in 1 .. Len(s) : j >= i /\ t = s[j]
    BY <2>5, PendingAt, Zenon
  <2>8. \A t : t \in Pending' <=> \E j \in 1 .. Len(s) : j > i /\ t = s[j]
    BY <2>2, <2>6, Zenon DEF Pending
  <2>9. s[i] \in Pending
    BY <2>3, <2>7, SMTT(30)
  <2>10. \A u \in Pending \ {s[i]} : s[i] < u
    <3>1. ASSUME NEW u \in Pending, u # s[i] PROVE s[i] < u
      <4>1. PICK j \in 1 .. Len(s) : j >= i /\ u = s[j]
        BY <2>7, Zenon
      <4>2. i < j
        BY <2>3, <3>1, <4>1, SMTT(30)
      <4> QED BY <2>4, <4>1, <4>2, Zenon
    <3> QED BY <3>1, Zenon
  <2>11. Pending' = Pending \ {s[i]}
    <3>1. ASSUME NEW t \in Pending' PROVE t \in Pending \ {s[i]}
      <4>1. PICK j \in 1 .. Len(s) : j > i /\ t = s[j]
        BY <2>8, Zenon
      <4>2. s[i] < t /\ s[i] \in Nat /\ t \in Nat
        BY <2>3, <2>4, <4>1, ZenonT(30)
      <4>3. t # s[i]
        BY <4>2, SMTT(30)
      <4>4. j >= i
        BY <2>3, <4>1, SMTT(30)
      <4> QED BY <2>7, <4>1, <4>3, <4>4, ZenonT(30)
    <3>2. ASSUME NEW t \in Pending, t # s[i] PROVE t \in Pending'
      <4>1. PICK j \in 1 .. Len(s) : j >= i /\ t = s[j]
        BY <2>7, Zenon
      <4>2. j > i
        BY <2>3, <3>2, <4>1, SMTT(30)
      <4> QED BY <2>8, <4>1, <4>2, ZenonT(30)
    <3> QED BY <3>1, <3>2, Zenon
  <2> QED BY <2>2, <2>9, <2>10, <2>11, Zenon DEF Feed!Deliver
<1> QED BY <1>3, <1>4, ZenonT(30)

\* The cache and the reader implement the feed, for all settings of the watch and
\* as long as two samples of the field carry distinct time stamps.
THEOREM ReaderImplementsFeed == ASSUME MinGap = 1 PROVE ReaderSpec => FeedImplemented
<1>1. ReaderInit => Feed!FeedInit
  <2> SUFFICES ASSUME ReaderInit PROVE Feed!FeedInit
    BY Zenon
  <2>1. Len(cache_samples_) = 0
    BY EmptySeq, Zenon DEF ReaderInit
  <2> QED BY <2>1 DEF ReaderInit, Feed!FeedInit, Pending
<1>2. ASSUME ClockInv, ClockInv', [ReaderNext]_rvars PROVE [Feed!FeedNext]_(Feed!fvars)
  <2>1. CASE Sample
    BY <1>2, <2>1, SampleProduces, ZenonT(30) DEF ClockInv, Feed!FeedNext
  <2>2. CASE Evict
    BY <1>2, <2>2, EvictLoses, ZenonT(30) DEF ClockInv, Feed!FeedNext
  <2>3. CASE Read
    BY <1>2, <2>3, ReadDelivers, Zenon DEF ClockInv, Feed!FeedNext
  <2>4. CASE Advance \/ UNCHANGED rvars
    BY <2>4, Zenon DEF Advance, rvars, Feed!fvars, Pending
  <2> QED BY <1>2, <2>1, <2>2, <2>3, <2>4, Zenon DEF ReaderNext
<1> QED BY <1>1, <1>2, ClockInvariant, PTL DEF ReaderSpec, FeedImplemented, Feed!FeedSpec
=============================================================================
