----------------------------- MODULE QueueFacts -----------------------------
(***************************************************************************)
(* What the array operations of the pools' queues leave: shift, splice and *)
(* a splice of everything, on a queue without repetitions; the places of a *)
(* sequence, and induction over them; sequences put one after another.     *)
(***************************************************************************)
EXTENDS Integers, Sequences, SequencesExt, SequenceTheorems, FiniteSetTheorems, TLAPS

\* The places of a queue, and a queue without repetitions.
Entries(s) == 1..Len(s)
Distinct(s) == \A i, j \in Entries(s) : s[i] = s[j] => i = j

\* The queue t is s without the entries of gone.
Drops(S, t, s, gone) ==
  /\ t \in Seq(S)
  /\ \A i \in Entries(t) : \E j \in Entries(s) : t[i] = s[j] /\ s[j] \notin gone
  /\ \A j \in Entries(s) : s[j] \in gone \/ \E i \in Entries(t) : t[i] = s[j]
  /\ Distinct(t)
  /\ Len(t) <= Len(s)

\* The first n entries of a queue go.
LEMMA DropsFront ==
  ASSUME NEW S, NEW s \in Seq(S), Distinct(s), NEW n \in 0..Len(s)
  PROVE  Drops(S, SubSeq(s, n + 1, Len(s)), s, {s[i] : i \in 1..n})
<1> DEFINE t == SubSeq(s, n + 1, Len(s))
           gone == {s[i] : i \in 1..n}
<1>1. Len(s) \in Nat /\ \A i \in 1..Len(s) : s[i] \in S
  OBVIOUS
<1>2. \A i \in n + 1 .. Len(s) : s[i] \in S
  BY <1>1
<1>3. /\ t \in Seq(S)
      /\ Len(t) = Len(s) - n
      /\ \A i \in 1..Len(s) - n : t[i] = s[n + i]
  BY <1>1, <1>2, SubSeqProperties
<1>4. \A j \in Entries(s) : s[j] \in gone <=> j \in 1..n
  BY <1>1 DEF Distinct, Entries
<1> HIDE DEF t, gone
<1>5. \A i \in Entries(t) : n + i \in Entries(s) /\ n + i \notin 1..n /\ t[i] = s[n + i]
  BY <1>1, <1>3 DEF Entries
<1>6. \A j \in Entries(s) : j \in 1..n \/ (j - n \in Entries(t) /\ t[j - n] = s[j])
  BY <1>1, <1>3 DEF Entries
<1>7. Distinct(t)
  BY <1>3, <1>5 DEF Distinct, Entries
<1>8. Len(t) <= Len(s)
  BY <1>1, <1>3
<1>9. Drops(S, t, s, gone)
  BY <1>3, <1>4, <1>5, <1>6, <1>7, <1>8 DEF Drops
<1> QED
  BY <1>9 DEF t, gone

\* Its head goes.
LEMMA DropsHead ==
  ASSUME NEW S, NEW s \in Seq(S), Distinct(s), s # <<>>
  PROVE  /\ Drops(S, Tail(s), s, {Head(s)})
         /\ Head(s) \in S /\ 1 \in Entries(s) /\ s[1] = Head(s)
<1>1. /\ Tail(s) \in Seq(S) /\ Head(s) \in S
      /\ Len(Tail(s)) = Len(s) - 1
      /\ \A i \in 1..Len(Tail(s)) : Tail(s)[i] = s[i + 1]
  BY HeadTailProperties
<1>2. Len(s) \in Nat /\ Len(s) # 0 /\ Head(s) = s[1]
  BY EmptySeq
<1> DEFINE t == Tail(s)
           h == Head(s)
<1> HIDE DEF t, h
<1>3. \A j \in Entries(s) : s[j] = h <=> j = 1
  BY <1>2 DEF Distinct, Entries, h
<1>4. \A i \in Entries(t) : i + 1 \in Entries(s) /\ i + 1 # 1 /\ t[i] = s[i + 1]
  BY <1>1, <1>2 DEF Entries, t
<1>5. \A j \in Entries(s) : j = 1 \/ (j - 1 \in Entries(t) /\ t[j - 1] = s[j])
  BY <1>1, <1>2 DEF Entries, t
<1>6. Distinct(t)
  BY <1>1, <1>2, <1>4 DEF Distinct, Entries, t
<1>7. Drops(S, t, s, {h})
  <2>1. t \in Seq(S) /\ Len(t) <= Len(s)
    BY <1>1, <1>2 DEF t
  <2> QED
    BY <2>1, <1>3, <1>4, <1>5, <1>6 DEF Drops
<1> QED
  BY <1>1, <1>2, <1>7 DEF t, h, Entries

\* One entry of it goes.
LEMMA DropsOne ==
  ASSUME NEW S, NEW s \in Seq(S), Distinct(s), NEW n \in Entries(s)
  PROVE  Drops(S, RemoveAt(s, n), s, {s[n]})
<1> DEFINE before == SubSeq(s, 1, n - 1)
           after == SubSeq(s, n + 1, Len(s))
           t == before \o after
<1>1. Len(s) \in Nat /\ n \in 1..Len(s) /\ \A i \in 1..Len(s) : s[i] \in S
  BY DEF Entries
<1>2. /\ before \in Seq(S)
      /\ Len(before) = n - 1
      /\ \A i \in 1 .. n - 1 : before[i] = s[i]
  <2>1. \A i \in 1 .. n - 1 : s[i] \in S
    BY <1>1
  <2> QED
    BY <1>1, <2>1, SubSeqProperties
<1>3. /\ after \in Seq(S)
      /\ Len(after) = Len(s) - n
      /\ \A i \in 1 .. Len(s) - n : after[i] = s[n + i]
  <2>1. \A i \in n + 1 .. Len(s) : s[i] \in S
    BY <1>1
  <2> QED
    BY <1>1, <2>1, SubSeqProperties
<1> HIDE DEF before, after
<1>4. /\ t \in Seq(S)
      /\ Len(t) = Len(s) - 1
      /\ \A i \in 1 .. Len(s) - 1 : t[i] = IF i < n THEN s[i] ELSE s[i + 1]
  <2>1. /\ t \in Seq(S)
        /\ Len(t) = Len(before) + Len(after)
        /\ \A i \in 1 .. Len(before) + Len(after) :
             t[i] = IF i <= Len(before) THEN before[i] ELSE after[i - Len(before)]
    BY <1>2, <1>3, ConcatProperties
  <2>2. \A i \in 1 .. Len(s) - 1 : i >= n => after[i - (n - 1)] = s[i + 1]
    <3> SUFFICES ASSUME NEW i \in 1 .. Len(s) - 1, i >= n
                 PROVE  after[i - (n - 1)] = s[i + 1]
      OBVIOUS
    <3>1. i - (n - 1) \in 1 .. Len(s) - n /\ n + (i - (n - 1)) = i + 1
      BY <1>1
    <3> QED
      BY <3>1, <1>3
  <2> QED
    BY <1>1, <1>2, <1>3, <2>1, <2>2
<1> HIDE DEF t
<1>5. \A j \in Entries(s) : s[j] = s[n] <=> j = n
  BY <1>1 DEF Distinct, Entries
<1>6. \A i \in Entries(t) : \E j \in Entries(s) \ {n} : t[i] = s[j]
  <2> SUFFICES ASSUME NEW i \in Entries(t)
               PROVE  \E j \in Entries(s) \ {n} : t[i] = s[j]
    OBVIOUS
  <2>1. i \in 1 .. Len(s) - 1
    BY <1>1, <1>4 DEF Entries
  <2>2. CASE i < n
    BY <2>1, <2>2, <1>1, <1>4 DEF Entries
  <2>3. CASE i >= n
    <3>1. i + 1 \in Entries(s) \ {n} /\ t[i] = s[i + 1]
      BY <2>1, <2>3, <1>1, <1>4 DEF Entries
    <3> QED
      BY <3>1
  <2> QED
    BY <2>1, <2>2, <2>3, <1>1
<1>7. \A j \in Entries(s) : j = n \/ \E i \in Entries(t) : t[i] = s[j]
  <2> SUFFICES ASSUME NEW j \in Entries(s), j # n
               PROVE  \E i \in Entries(t) : t[i] = s[j]
    OBVIOUS
  <2>1. CASE j < n
    BY <2>1, <1>1, <1>4 DEF Entries
  <2>2. CASE j > n
    <3>1. j - 1 \in Entries(t) /\ t[j - 1] = s[(j - 1) + 1] /\ (j - 1) + 1 = j
      BY <2>2, <1>1, <1>4 DEF Entries
    <3> QED
      BY <3>1
  <2> QED
    BY <2>1, <2>2, <1>1 DEF Entries
<1>8. Distinct(t)
  <2> SUFFICES ASSUME NEW i \in 1 .. Len(s) - 1, NEW j \in 1 .. Len(s) - 1, t[i] = t[j]
               PROVE  i = j
    BY <1>4 DEF Distinct, Entries
  <2> DEFINE at(k) == IF k < n THEN k ELSE k + 1
  <2>1. /\ at(i) \in Entries(s) /\ at(j) \in Entries(s)
        /\ t[i] = s[at(i)] /\ t[j] = s[at(j)]
    BY <1>1, <1>4 DEF Entries
  <2>2. at(i) = at(j)
    BY <2>1 DEF Distinct
  <2> QED
    BY <2>2, <1>1
<1>9. Drops(S, t, s, {s[n]})
  <2>1. Len(t) <= Len(s)
    BY <1>1, <1>4
  <2> QED
    BY <2>1, <1>4, <1>5, <1>6, <1>7, <1>8 DEF Drops
<1> QED
  BY <1>9 DEF t, before, after, RemoveAt

\* All of them go.
LEMMA DropsAll ==
  ASSUME NEW S, NEW s \in Seq(S)
  PROVE  Drops(S, <<>>, s, {s[i] : i \in 1..Len(s)})
<1>1. Len(<<>>) = 0 /\ <<>> \in Seq(S) /\ Len(s) \in Nat
  OBVIOUS
<1>2. Entries(<<>>) = {}
  BY <1>1 DEF Entries
<1>3. \A j \in Entries(s) : s[j] \in {s[i] : i \in 1..Len(s)}
  BY DEF Entries
<1> QED
  BY <1>1, <1>2, <1>3 DEF Drops, Distinct
-----------------------------------------------------------------------------
(***************************************************************************)
(* The order of a queue.                                                   *)
(***************************************************************************)
Before(s, q, r) == \E i, j \in Entries(s) : i < j /\ s[i] = q /\ s[j] = r

\* The entries of s that are not in gone stand in t as they stood in s.
InOrder(t, s, gone) ==
  \A i, j \in Entries(s) :
    i < j /\ s[i] \notin gone /\ s[j] \notin gone => Before(t, s[i], s[j])

\* A shift, or a splice at the head.
LEMMA OrderFront ==
  ASSUME NEW S, NEW s \in Seq(S), NEW n \in 0..Len(s)
  PROVE  InOrder(SubSeq(s, n + 1, Len(s)), s, {s[i] : i \in 1..n})
<1> DEFINE t == SubSeq(s, n + 1, Len(s))
           gone == {s[i] : i \in 1..n}
<1>1. Len(s) \in Nat /\ \A i \in n + 1 .. Len(s) : s[i] \in S
  OBVIOUS
<1>2. /\ Len(t) = Len(s) - n
      /\ \A i \in 1..Len(s) - n : t[i] = s[n + i]
  BY <1>1, SubSeqProperties
<1>3. \A i \in 1..n : s[i] \in gone
  OBVIOUS
<1> HIDE DEF t, gone
<1>4. \A i \in Entries(s) : s[i] \notin gone => i - n \in Entries(t) /\ t[i - n] = s[i]
  BY <1>1, <1>2, <1>3 DEF Entries
<1>5. InOrder(t, s, gone)
  <2> SUFFICES ASSUME NEW i \in Entries(s), NEW j \in Entries(s),
                      i < j, s[i] \notin gone, s[j] \notin gone
               PROVE  Before(t, s[i], s[j])
    BY DEF InOrder
  <2>1. i - n < j - n
    BY <1>1 DEF Entries
  <2> QED
    BY <2>1, <1>4 DEF Before
<1> QED
  BY <1>5 DEF t, gone

\* The head alone.
LEMMA OrderHead ==
  ASSUME NEW S, NEW s \in Seq(S), s # <<>>
  PROVE  InOrder(Tail(s), s, {Head(s)})
<1>1. /\ Len(Tail(s)) = Len(s) - 1
      /\ \A i \in 1..Len(Tail(s)) : Tail(s)[i] = s[i + 1]
      /\ Len(s) \in Nat /\ Len(s) # 0 /\ Head(s) = s[1]
  BY HeadTailProperties, EmptySeq
<1> DEFINE t == Tail(s)
           h == Head(s)
<1> HIDE DEF t, h
<1>2. \A i \in Entries(s) : s[i] # h => i - 1 \in Entries(t) /\ t[i - 1] = s[i]
  BY <1>1 DEF Entries, t, h
<1>3. InOrder(t, s, {h})
  <2> SUFFICES ASSUME NEW i \in Entries(s), NEW j \in Entries(s),
                      i < j, s[i] # h, s[j] # h
               PROVE  Before(t, s[i], s[j])
    BY DEF InOrder
  <2>1. i - 1 < j - 1
    BY <1>1 DEF Entries
  <2> QED
    BY <2>1, <1>2 DEF Before
<1> QED
  BY <1>3 DEF t, h

\* A splice of one entry.
LEMMA OrderOne ==
  ASSUME NEW S, NEW s \in Seq(S), NEW n \in Entries(s)
  PROVE  InOrder(RemoveAt(s, n), s, {s[n]})
<1> DEFINE before == SubSeq(s, 1, n - 1)
           after == SubSeq(s, n + 1, Len(s))
           t == before \o after
<1>1. Len(s) \in Nat /\ n \in 1..Len(s) /\ \A i \in 1..Len(s) : s[i] \in S
  BY DEF Entries
<1>2. /\ before \in Seq(S)
      /\ Len(before) = n - 1
      /\ \A i \in 1 .. n - 1 : before[i] = s[i]
  <2>1. \A i \in 1 .. n - 1 : s[i] \in S
    BY <1>1
  <2> QED
    BY <1>1, <2>1, SubSeqProperties
<1>3. /\ after \in Seq(S)
      /\ Len(after) = Len(s) - n
      /\ \A i \in 1 .. Len(s) - n : after[i] = s[n + i]
  <2>1. \A i \in n + 1 .. Len(s) : s[i] \in S
    BY <1>1
  <2> QED
    BY <1>1, <2>1, SubSeqProperties
<1> HIDE DEF before, after
<1>4. /\ Len(t) = Len(before) + Len(after)
      /\ \A i \in 1 .. Len(before) + Len(after) :
           t[i] = IF i <= Len(before) THEN before[i] ELSE after[i - Len(before)]
  BY <1>2, <1>3, ConcatProperties
<1> HIDE DEF t
<1> DEFINE at(i) == IF i < n THEN i ELSE i - 1
<1>5. \A i \in Entries(s) : i # n => at(i) \in Entries(t) /\ t[at(i)] = s[i]
  <2> SUFFICES ASSUME NEW i \in Entries(s), i # n
               PROVE  at(i) \in Entries(t) /\ t[at(i)] = s[i]
    OBVIOUS
  <2>1. CASE i < n
    BY <2>1, <1>1, <1>2, <1>3, <1>4 DEF Entries
  <2>2. CASE i > n
    <3>1. /\ i - 1 \in 1 .. Len(before) + Len(after)
          /\ ~(i - 1 <= Len(before)) /\ (i - 1) - Len(before) = i - n
          /\ i - n \in 1 .. Len(s) - n /\ n + (i - n) = i
      BY <2>2, <1>1, <1>2, <1>3 DEF Entries
    <3>2. t[i - 1] = after[i - n] /\ after[i - n] = s[i]
      BY <3>1, <1>3, <1>4
    <3> QED
      BY <3>1, <3>2, <2>2, <1>1, <1>4 DEF Entries
  <2> QED
    BY <2>1, <2>2, <1>1 DEF Entries
<1>6. \A i, j \in Entries(s) : i < j /\ i # n /\ j # n => at(i) < at(j)
  BY <1>1 DEF Entries
<1>7. InOrder(t, s, {s[n]})
  <2> SUFFICES ASSUME NEW i \in Entries(s), NEW j \in Entries(s),
                      i < j, s[i] # s[n], s[j] # s[n]
               PROVE  Before(t, s[i], s[j])
    BY DEF InOrder
  <2>1. i # n /\ j # n
    OBVIOUS
  <2> HIDE DEF at
  <2> QED
    BY <2>1, <1>5, <1>6 DEF Before
<1> QED
  BY <1>7 DEF t, before, after, RemoveAt

\* A push: everybody keeps his place, and the new entry stands last.
LEMMA OrderAppended ==
  ASSUME NEW S, NEW s \in Seq(S), NEW r \in S
  PROVE  /\ InOrder(Append(s, r), s, {})
         /\ \A i \in Entries(s) : Before(Append(s, r), s[i], r)
<1> DEFINE t == Append(s, r)
<1>1. /\ Len(s) \in Nat
      /\ Len(t) = Len(s) + 1
      /\ \A i \in Entries(s) : t[i] = s[i]
      /\ t[Len(s) + 1] = r
  BY AppendProperties DEF Entries
<1> HIDE DEF t
<1>2. /\ Entries(s) \subseteq Entries(t) /\ Len(s) + 1 \in Entries(t)
      /\ \A i \in Entries(s) : i < Len(s) + 1
  BY <1>1 DEF Entries
<1>3. InOrder(t, s, {}) /\ \A i \in Entries(s) : Before(t, s[i], r)
  BY <1>1, <1>2 DEF InOrder, Before
<1> QED
  BY <1>3 DEF t

-----------------------------------------------------------------------------
\* A set of places of a queue that contains all places after each of its own is
\* the end of the queue.
LEMMA EndOfQueue ==
  ASSUME NEW n \in Nat, NEW L \in SUBSET (1..n), \A i \in L : \A j \in 1..n : i <= j => j \in L
  PROVE  /\ Cardinality(L) \in 0..n
         /\ \A i \in 1..n : i \in L <=> i > n - Cardinality(L)
<1>1. /\ IsFiniteSet(1..n) /\ Cardinality(1..n) = n /\ IsFiniteSet(L) /\ Cardinality(L) \in Nat
      /\ Cardinality(L) <= n
  <2>1. IsFiniteSet(1..n) /\ Cardinality(1..n) = n
    BY FS_Interval
  <2> QED
    BY <2>1, FS_Subset, FS_CardinalityType
<1>2. ASSUME NEW i \in 1..n, i \in L
      PROVE  i > n - Cardinality(L)
  <2>1. i..n \subseteq L
    BY <1>2
  <2>2. Cardinality(i..n) = n - i + 1
    BY FS_Interval
  <2>3. Cardinality(i..n) <= Cardinality(L)
    BY <1>1, <2>1, FS_Subset
  <2> QED
    BY <1>1, <2>2, <2>3
<1>3. ASSUME NEW i \in 1..n, i \notin L
      PROVE  ~(i > n - Cardinality(L))
  <2>1. L \subseteq (i + 1)..n
    BY <1>3
  <2>2. IsFiniteSet((i + 1)..n) /\ Cardinality((i + 1)..n) = n - i
    BY FS_Interval
  <2>3. Cardinality(L) <= Cardinality((i + 1)..n)
    BY <2>1, <2>2, FS_Subset
  <2> QED
    BY <1>1, <2>2, <2>3
<1> QED
  BY <1>1, <1>2, <1>3

\* A nonempty set of places of a queue has a first.
LEMMA FirstPlace ==
  ASSUME NEW n \in Nat, NEW S \in SUBSET (1..n), S # {}
  PROVE  \E i \in S : \A j \in S : i <= j
<1> DEFINE L == {i \in 1..n : \E j \in S : j <= i}
<1>1. L \in SUBSET (1..n) /\ S \subseteq L
  OBVIOUS
<1>2. ASSUME NEW i \in L, NEW j \in 1..n, i <= j
      PROVE  j \in L
  <2>1. PICK h \in S : h <= i
    OBVIOUS
  <2>2. h \in Int /\ i \in Int /\ j \in Int
    OBVIOUS
  <2>3. h <= j
    BY <1>2, <2>1, <2>2
  <2> QED
    BY <2>1, <2>3
<1> HIDE DEF L
<1> DEFINE c == Cardinality(L)
<1>3. c \in 0..n /\ \A i \in 1..n : i \in L <=> i > n - c
  BY <1>1, <1>2, EndOfQueue
<1>4. c # 0
  <2>1. IsFiniteSet(1..n)
    BY FS_Interval
  <2>2. IsFiniteSet(L)
    BY <1>1, <2>1, FS_Subset
  <2> QED
    BY <1>1, <2>2, FS_EmptySet
<1> HIDE DEF c
<1> DEFINE i == n - c + 1
<1>5. i \in 1..n
  BY <1>3, <1>4
<1>6. i > n - c
  BY <1>3
<1>7. i \in L
  BY <1>3, <1>5, <1>6
<1>8. PICK h \in S : h <= i
  BY <1>7 DEF L
<1>9. \A j \in S : j \in 1..n /\ j > n - c
  BY <1>1, <1>3
<1>10. \A j \in S : i <= j
  BY <1>3, <1>9
<1>11. h = i
  BY <1>5, <1>8, <1>9, <1>10
<1> QED
  BY <1>8, <1>10, <1>11

-------------------------------------------------------------------------------
(* Sequences joined, and places counted                                       *)

\* Every sequence is one of its entries.
IsSequence(s) == s \in Seq({s[i] : i \in DOMAIN s})

\* A sequence over a set is one.
LEMMA SequenceOf ==
  ASSUME NEW S, NEW s \in Seq(S)
  PROVE  IsSequence(s)
<1>1. Len(s) \in Nat /\ s \in [1..Len(s) -> S] /\ DOMAIN s = 1..Len(s)
  BY LenProperties
<1> DEFINE R == {s[i] : i \in DOMAIN s}
<1>2. s \in [1..Len(s) -> R]
  BY <1>1
<1> HIDE DEF R
<1>3. s \in Seq(R)
  BY <1>1, <1>2, SeqDef
<1> QED
  BY <1>3 DEF IsSequence, R

\* A sequence is a function on its places.
LEMMA SequenceOn ==
  ASSUME NEW n \in Nat, NEW S, NEW s \in [1..n -> S]
  PROVE  s \in Seq(S) /\ Len(s) = n
BY SeqDef

\* What one sequence after another is.
LEMMA Joined ==
  ASSUME NEW s, NEW t, IsSequence(s), IsSequence(t)
  PROVE  /\ IsSequence(s \o t)
         /\ Len(s) \in Nat /\ Len(t) \in Nat /\ Len(s \o t) = Len(s) + Len(t)
         /\ DOMAIN s = 1..Len(s) /\ DOMAIN t = 1..Len(t) /\ DOMAIN (s \o t) = 1 .. Len(s) + Len(t)
         /\ \A i \in 1..Len(s) : (s \o t)[i] = s[i]
         /\ \A i \in 1..Len(t) : (s \o t)[Len(s) + i] = t[i]
<1> DEFINE S == {s[i] : i \in DOMAIN s}
           T == {t[i] : i \in DOMAIN t}
<1>1. s \in Seq(S) /\ t \in Seq(T)
  BY DEF IsSequence
<1> HIDE DEF S, T
<1> DEFINE U == S \cup T
<1>2. s \in Seq(U) /\ t \in Seq(U)
  BY <1>1, SeqMonotonic
<1>3. /\ Len(s) \in Nat /\ Len(t) \in Nat
      /\ DOMAIN s = 1..Len(s) /\ DOMAIN t = 1..Len(t)
  BY <1>1, LenProperties
<1> HIDE DEF U
<1>4. /\ s \o t \in Seq(U) /\ Len(s \o t) = Len(s) + Len(t)
      /\ \A i \in 1 .. Len(s) + Len(t) : (s \o t)[i] = IF i <= Len(s) THEN s[i] ELSE t[i - Len(s)]
  BY <1>2, ConcatProperties
<1>5. IsSequence(s \o t)
  BY <1>4, SequenceOf
<1>6. DOMAIN (s \o t) = 1 .. Len(s) + Len(t)
  BY <1>4, LenProperties
<1>7. \A i \in 1..Len(s) : (s \o t)[i] = s[i]
  BY <1>3, <1>4
<1>8. \A i \in 1..Len(t) : (s \o t)[Len(s) + i] = t[i]
  BY <1>3, <1>4
<1> QED
  BY <1>3, <1>4, <1>5, <1>6, <1>7, <1>8

\* The last of some places.
LEMMA LastPlace ==
  ASSUME NEW n \in Nat, NEW S \in SUBSET (1..n), S # {}
  PROVE  \E i \in S : \A j \in S : j <= i
<1> DEFINE R == {n + 1 - i : i \in S}
<1>1. R \in SUBSET (1..n) /\ R # {}
  <2>1. PICK i \in S : TRUE
    OBVIOUS
  <2>2. n + 1 - i \in R
    BY <2>1
  <2>3. R \subseteq 1..n
    OBVIOUS
  <2> QED
    BY <2>2, <2>3
<1>2. PICK m \in R : \A x \in R : m <= x
  BY <1>1, FirstPlace
<1>3. PICK i \in S : m = n + 1 - i
  BY <1>2
<1>4. ASSUME NEW j \in S
      PROVE  j <= i
  <2>1. n + 1 - j \in R
    OBVIOUS
  <2>2. n + 1 - i <= n + 1 - j
    BY <1>2, <1>3, <2>1
  <2>3. i \in 1..n /\ j \in 1..n
    OBVIOUS
  <2> QED
    BY <2>2, <2>3
<1> QED
  BY <1>4

\* The values of an increasing function below a bound are as many as their places.
LEMMA CountBelow ==
  ASSUME NEW N \in Nat, NEW f, \A k \in 0..N - 1 : f[k] \in Int,
         \A k, j \in 0..N - 1 : k < j => f[k] < f[j],
         NEW i, NEW m \in 0..N, \A k \in 0..N - 1 : f[k] < i <=> k < m,
         NEW T, \A j : j \in T <=> \E k \in 0..N - 1 : j = f[k] /\ f[k] < i
  PROVE  Cardinality(T) = m
<1> DEFINE g == [k \in 1..m |-> f[k - 1]]
<1>1. g \in [1..m -> T]
  OBVIOUS
<1>2. \A k, j \in 1..m : g[k] = g[j] => k = j
  OBVIOUS
<1>3. \A x \in T : \E k \in 1..m : g[k] = x
  <2> SUFFICES ASSUME NEW x \in T
               PROVE  \E k \in 1..m : g[k] = x
    OBVIOUS
  <2>1. PICK k \in 0..N - 1 : x = f[k] /\ f[k] < i
    OBVIOUS
  <2>2. k + 1 \in 1..m /\ g[k + 1] = x
    BY <2>1
  <2> QED
    BY <2>2
<1> HIDE DEF g
<1>4. g \in Bijection(1..m, T)
  BY <1>1, <1>2, <1>3 DEF Bijection, Injection, Surjection, IsInjective
<1> QED
  BY <1>4, FS_CountingElements DEF ExistsBijection

\* A short sequence.
LEMMA ShortSequences ==
  /\ IsSequence(<<>>) /\ Len(<<>>) = 0
  /\ \A x : IsSequence(<<x>>) /\ Len(<<x>>) = 1 /\ <<x>>[1] = x
  /\ \A x, y : IsSequence(<<x, y>>) /\ Len(<<x, y>>) = 2 /\ <<x, y>>[1] = x /\ <<x, y>>[2] = y
<1>1. IsSequence(<<>>) /\ Len(<<>>) = 0
  <2>1. <<>> \in Seq({0})
    OBVIOUS
  <2> QED
    BY <2>1, SequenceOf
<1>2. ASSUME NEW x
      PROVE  IsSequence(<<x>>) /\ Len(<<x>>) = 1 /\ <<x>>[1] = x
  <2>1. <<x>> \in Seq({x})
    OBVIOUS
  <2> QED
    BY <2>1, SequenceOf
<1>3. ASSUME NEW x, NEW y
      PROVE  IsSequence(<<x, y>>) /\ Len(<<x, y>>) = 2 /\ <<x, y>>[1] = x /\ <<x, y>>[2] = y
  <2>1. <<x, y>> \in Seq({x, y})
    OBVIOUS
  <2> QED
    BY <2>1, SequenceOf
<1> QED
  BY <1>1, <1>2, <1>3
-------------------------------------------------------------------------------
(* Induction over places, and many sequences put one after another (FlattenSeq) *)

\* What holds at 0 and is passed on from each number to the next, below n.
LEMMA StepByStep ==
  ASSUME NEW n \in Nat, NEW S, 0 \in S, \A i \in 0..n - 1 : i \in S => i + 1 \in S
  PROVE  \A i \in 0..n : i \in S
<1> DEFINE R == {i \in 1..n : i \notin S}
<1>1. SUFFICES ASSUME R # {}
               PROVE  FALSE
  OBVIOUS
<1>2. PICK i \in R : \A j \in R : i <= j
  BY <1>1, FirstPlace
<1>3. i - 1 \in 0..n - 1 /\ i - 1 \notin R /\ (i - 1) + 1 = i
  BY <1>2
<1>4. i - 1 \in S
  BY <1>3
<1> QED
  BY <1>2, <1>3, <1>4

\* The function that FlattenSeq computes, on the first n of the sequences ss.
Flattens(f, n, ss) ==
  f = [i \in 1..n |-> IF i = 1 THEN ss[i] ELSE f[i - 1] \o ss[i]]

\* There is one.
LEMMA FlattensSome ==
  ASSUME NEW n \in Nat, NEW ss
  PROVE  \E f : Flattens(f, n, ss)
<1> DEFINE S == {i \in 0..n : \E f : Flattens(f, i, ss)}
<1>1. 0 \in S
  <2> DEFINE f == [i \in 1..0 |-> 0]
  <2>1. Flattens(f, 0, ss)
    BY DEF Flattens
  <2> QED
    BY <2>1
<1>2. ASSUME NEW i \in 0..n - 1, i \in S
      PROVE  i + 1 \in S
  <2>1. PICK f : Flattens(f, i, ss)
    BY <1>2
  <2> DEFINE last == IF i = 0 THEN ss[1] ELSE f[i] \o ss[i + 1]
             g == [j \in 1..i + 1 |-> IF j = i + 1 THEN last ELSE f[j]]
  <2>2. \A j \in 1..i : f[j] = IF j = 1 THEN ss[j] ELSE f[j - 1] \o ss[j]
    BY <2>1 DEF Flattens
  <2> HIDE DEF last
  <2>3. \A j \in 1..i : g[j] = f[j]
    OBVIOUS
  <2>4. g[i + 1] = last
    OBVIOUS
  <2>5. ASSUME NEW j \in 1..i + 1
        PROVE  g[j] = IF j = 1 THEN ss[j] ELSE g[j - 1] \o ss[j]
    <3>1. CASE j = i + 1
      <4>1. CASE i = 0
        BY <2>4, <3>1, <4>1 DEF last
      <4>2. CASE i # 0
        <5>1. i \in 1..i /\ j # 1 /\ j - 1 = i
          BY <3>1, <4>2
        <5>2. g[i] = f[i]
          BY <2>3, <5>1
        <5> QED
          BY <2>4, <3>1, <4>2, <5>1, <5>2 DEF last
      <4> QED
        BY <4>1, <4>2
    <3>2. CASE j # i + 1
      <4>1. j \in 1..i /\ (j # 1 => j - 1 \in 1..i)
        BY <3>2
      <4> QED
        BY <2>2, <2>3, <4>1
    <3> QED
      BY <3>1, <3>2
  <2> HIDE DEF g
  <2>6. g = [j \in 1..i + 1 |-> g[j]]
    BY DEF g
  <2>7. Flattens(g, i + 1, ss)
    BY <2>5, <2>6 DEF Flattens
  <2>8. i + 1 \in 0..n
    OBVIOUS
  <2> QED
    BY <2>7, <2>8
<1> HIDE DEF S
<1>3. \A i \in 0..n : i \in S
  BY <1>1, <1>2, StepByStep
<1> QED
  BY <1>3 DEF S

\* It is the same where the sequences are.
LEMMA FlattensSame ==
  ASSUME NEW n \in Nat, NEW m \in Nat, NEW ss, NEW tt, NEW f, NEW g,
         Flattens(f, n, ss), Flattens(g, m, tt), n <= m,
         \A i \in 1..n : ss[i] = tt[i]
  PROVE  \A i \in 1..n : f[i] = g[i]
<1> DEFINE S == {i \in 0..n : i = 0 \/ f[i] = g[i]}
<1>1. 0 \in S
  OBVIOUS
<1>2. ASSUME NEW i \in 0..n - 1, i \in S
      PROVE  i + 1 \in S
  <2>1. i + 1 \in 1..n /\ i + 1 \in 1..m /\ i + 1 \in 0..n
    OBVIOUS
  <2>2. f[i + 1] = IF i + 1 = 1 THEN ss[i + 1] ELSE f[(i + 1) - 1] \o ss[i + 1]
    BY <2>1 DEF Flattens
  <2>3. g[i + 1] = IF i + 1 = 1 THEN tt[i + 1] ELSE g[(i + 1) - 1] \o tt[i + 1]
    BY <2>1 DEF Flattens
  <2>4. (i + 1) - 1 = i /\ (i + 1 = 1 <=> i = 0) /\ ss[i + 1] = tt[i + 1]
    BY <2>1
  <2>5. i = 0 \/ f[i] = g[i]
    BY <1>2
  <2>6. f[i + 1] = g[i + 1]
    BY <2>2, <2>3, <2>4, <2>5
  <2> QED
    BY <2>1, <2>6
<1> HIDE DEF S
<1>3. \A i \in 0..n : i \in S
  BY <1>1, <1>2, StepByStep
<1>4. \A i \in 1..n : i \in 0..n /\ i # 0
  OBVIOUS
<1> QED
  BY <1>3, <1>4 DEF S

\* FlattenSeq is its last value.
LEMMA FlattenLast ==
  ASSUME NEW ss, Len(ss) \in Nat, Len(ss) # 0
  PROVE  \E f : Flattens(f, Len(ss), ss) /\ FlattenSeq(ss) = f[Len(ss)]
<1> DEFINE n == Len(ss)
           f == CHOOSE g : Flattens(g, n, ss)
<1>1. Flattens(f, n, ss)
  BY FlattensSome
<1>2. FlattenSeq(ss) = f[n]
  BY DEF FlattenSeq, Flattens
<1> HIDE DEF f
<1> QED
  BY <1>1, <1>2

\* FlattenSeq of no sequence.
LEMMA FlattenNone == FlattenSeq(<<>>) = <<>>
BY DEF FlattenSeq

\* FlattenSeq of one more sequence.
LEMMA FlattenMore ==
  ASSUME NEW S, NEW ss \in Seq(Seq(S)), NEW x \in Seq(S)
  PROVE  /\ FlattenSeq(ss) \in Seq(S)
         /\ FlattenSeq(Append(ss, x)) = FlattenSeq(ss) \o x
<1> DEFINE n == Len(ss)
           tt == Append(ss, x)
<1>1. n \in Nat /\ (n = 0 <=> ss = <<>>) /\ \A i \in 1..n : ss[i] \in Seq(S)
  BY LenProperties, EmptySeq, ElementOfSeq
<1>2. FlattenSeq(<<>>) = <<>>
  BY FlattenNone
<1>3. Len(tt) = n + 1 /\ (\A i \in 1..n : tt[i] = ss[i]) /\ tt[n + 1] = x
  BY AppendProperties
<1>4. PICK g : Flattens(g, n + 1, tt) /\ FlattenSeq(tt) = g[n + 1]
  <2>1. Len(tt) \in Nat /\ Len(tt) # 0
    BY <1>1, <1>3
  <2> HIDE DEF tt, n
  <2> QED
    BY <1>3, <2>1, FlattenLast
<1> HIDE DEF tt
<1>5. g[n + 1] = IF n + 1 = 1 THEN tt[n + 1] ELSE g[(n + 1) - 1] \o tt[n + 1]
  <2>1. n + 1 \in 1..n + 1
    BY <1>1
  <2> HIDE DEF n
  <2> QED
    BY <1>4, <2>1 DEF Flattens
<1>6. CASE n = 0
  <2>1. FlattenSeq(tt) = x
    BY <1>3, <1>4, <1>5, <1>6
  <2>2. ss = <<>> /\ FlattenSeq(ss) = <<>>
    BY <1>1, <1>2, <1>6
  <2>3. <<>> \o x = x /\ <<>> \in Seq(S)
    BY ConcatEmptySeq
  <2> QED
    BY <1>2, <2>1, <2>2, <2>3 DEF tt
<1>7. CASE n # 0
  <2>1. PICK f : Flattens(f, n, ss) /\ FlattenSeq(ss) = f[n]
    BY <1>1, <1>7, FlattenLast
  <2> DEFINE R == {i \in 0..n : i = 0 \/ f[i] \in Seq(S)}
  <2>2. 0 \in R
    BY <1>1
  <2>3. ASSUME NEW i \in 0..n - 1, i \in R
        PROVE  i + 1 \in R
    <3>1. i + 1 \in 1..n /\ (i + 1) - 1 = i /\ (i + 1 = 1 <=> i = 0) /\ i + 1 \in 0..n
      BY <1>1
    <3>2. f[i + 1] = IF i + 1 = 1 THEN ss[i + 1] ELSE f[(i + 1) - 1] \o ss[i + 1]
      BY <2>1, <3>1 DEF Flattens
    <3>3. ss[i + 1] \in Seq(S)
      BY <1>1, <3>1
    <3>4. i = 0 \/ f[i] \in Seq(S)
      BY <2>3
    <3>5. CASE i = 0
      BY <3>1, <3>2, <3>3, <3>5
    <3>6. CASE i # 0
      <4>1. f[i] \o ss[i + 1] \in Seq(S)
        BY <3>3, <3>4, <3>6, ConcatProperties
      <4> QED
        BY <3>1, <3>2, <3>6, <4>1
    <3> QED
      BY <3>5, <3>6
  <2> HIDE DEF R
  <2>4. \A i \in 0..n : i \in R
    BY <1>1, <2>2, <2>3, StepByStep
  <2>5. f[n] \in Seq(S)
    BY <1>1, <1>7, <2>4 DEF R
  <2>6. \A i \in 1..n : f[i] = g[i]
    <3>1. n + 1 \in Nat /\ n <= n + 1 /\ \A i \in 1..n : ss[i] = tt[i]
      BY <1>1, <1>3
    <3> QED
      BY <1>1, <1>4, <2>1, <3>1, FlattensSame
  <2>7. n \in 1..n /\ n + 1 # 1 /\ (n + 1) - 1 = n
    BY <1>1, <1>7
  <2>8. FlattenSeq(tt) = FlattenSeq(ss) \o x
    BY <1>3, <1>4, <1>5, <2>1, <2>6, <2>7
  <2> QED
    BY <1>2, <2>1, <2>5, <2>8 DEF tt
<1> QED
  BY <1>6, <1>7
=============================================================================
