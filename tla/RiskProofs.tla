----------------------------- MODULE RiskProofs -----------------------------
(***************************************************************************)
(* Proofs about RiskAccumulator, for any entities, kinds of contributions, *)
(* layers, window, cooldown and number of restarts.                        *)
(*                                                                         *)
(* Windows are compared from their newest end: Prune and Newest both keep  *)
(* a suffix, and which contributions have left a window that is in order   *)
(* of age is decided from that end.                                        *)
(***************************************************************************)
EXTENDS RiskAccumulator, FiniteSetTheorems, SequenceTheorems, TLAPS

Sorted(w) == \A i, j \in 1..Len(w) : i <= j => w[i].age >= w[j].age

LEMMA Bounds ==
  /\ Longest \in Nat /\ Window <= Longest /\ Cooldown <= Longest
  /\ Window \in Nat \ {0} /\ Cooldown \in Nat /\ MaxResults \in Nat \ {0}
  BY ConstantsAssumption DEF Longest

LEMMA AgedType ==
  ASSUME NEW a \in 0..Longest, NEW d \in Nat
  PROVE  Aged(a, d) \in 0..Longest /\ Aged(a, d) >= a
  BY Bounds DEF Aged

LEMMA AgedMonotone ==
  ASSUME NEW a \in 0..Longest, NEW b \in 0..Longest, a <= b, NEW d \in Nat
  PROVE  Aged(a, d) <= Aged(b, d)
  BY Bounds DEF Aged

LEMMA SameFromEnd ==
  ASSUME NEW s \in Seq(Contribution), NEW t \in Seq(Contribution), Len(s) = Len(t),
         \A k \in 0..Len(s) - 1 : s[Len(s) - k] = t[Len(t) - k]
  PROVE  s = t
<1>1. Len(s) \in Nat
  BY LenProperties
<1>2. ASSUME NEW i \in 1..Len(s) PROVE s[i] = t[i]
  <2>1. Len(s) - i \in 0..Len(s) - 1 /\ Len(s) - (Len(s) - i) = i
    BY <1>1
  <2> QED
    BY <2>1
<1> QED
  BY <1>2, SeqEqual

-----------------------------------------------------------------------------
(* The operators on windows. *)

LEMMA PruneType ==
  ASSUME NEW w \in Seq(Contribution)
  PROVE  /\ Prune(w) \in Seq(Contribution)
         /\ Gone(w) \in 0..Len(w)
         /\ Len(Prune(w)) = Len(w) - Gone(w)
         /\ \A k \in 0..Len(Prune(w)) - 1 : Prune(w)[Len(Prune(w)) - k] = w[Len(w) - k]
<1> DEFINE gone == {i \in DOMAIN w : w[i].age >= Window}
<1>1. Len(w) \in Nat /\ DOMAIN w = 1..Len(w)
  BY LenProperties
<1>2. Gone(w) \in 0..Len(w)
  <2>1. IsFiniteSet(1..Len(w)) /\ Cardinality(1..Len(w)) = Len(w)
    BY <1>1, FS_Interval
  <2>2. gone \in SUBSET (1..Len(w))
    BY <1>1
  <2>3. IsFiniteSet(gone) /\ Cardinality(gone) <= Len(w)
    BY <2>1, <2>2, FS_Subset
  <2> QED
    BY <2>3, <1>1, FS_CardinalityType DEF Gone
<1>3. \A i \in Gone(w) + 1..Len(w) : w[i] \in Contribution
  BY <1>1, <1>2, ElementOfSeq
<1>4. /\ Prune(w) \in Seq(Contribution)
      /\ Len(Prune(w)) = IF Gone(w) + 1 <= Len(w) THEN Len(w) - (Gone(w) + 1) + 1 ELSE 0
      /\ \A i \in 1..Len(w) - (Gone(w) + 1) + 1 : Prune(w)[i] = w[Gone(w) + 1 + i - 1]
  BY <1>1, <1>2, <1>3, SubSeqProperties DEF Prune
<1>5. Len(Prune(w)) = Len(w) - Gone(w)
  BY <1>1, <1>2, <1>4
<1>6. ASSUME NEW k \in 0..Len(Prune(w)) - 1
      PROVE  Prune(w)[Len(Prune(w)) - k] = w[Len(w) - k]
  <2>1. Len(Prune(w)) - k \in 1..Len(w) - (Gone(w) + 1) + 1
    BY <1>1, <1>2, <1>5
  <2>2. Gone(w) + 1 + (Len(Prune(w)) - k) - 1 = Len(w) - k
    BY <1>1, <1>2, <1>5
  <2> QED
    BY <1>4, <2>1, <2>2
<1> QED
  BY <1>2, <1>4, <1>5, <1>6

LEMMA AgesOf ==
  ASSUME NEW w \in Seq(Contribution)
  PROVE  \A i \in 1..Len(w) : w[i].age \in 0..Longest
<1>1. \A i \in 1..Len(w) : w[i] \in Contribution
  BY ElementOfSeq
<1> QED
  BY <1>1 DEF Contribution

(* What is left of a window in order of age. *)
LEMMA PruneSorted ==
  ASSUME NEW w \in Seq(Contribution), Sorted(w)
  PROVE  \A k \in Nat : k < Len(Prune(w)) <=> k < Len(w) /\ w[Len(w) - k].age < Window
<1> DEFINE gone == {i \in DOMAIN w : w[i].age >= Window}
<1> DEFINE g == Cardinality(gone)
<1>1. Len(w) \in Nat /\ DOMAIN w = 1..Len(w)
  BY LenProperties
<1>2. g = Gone(w) /\ g \in 0..Len(w)
  BY PruneType DEF Gone
<1>3. \A i \in 1..Len(w) : w[i].age \in Nat
  BY AgesOf, Bounds
<1>4. gone \in SUBSET (1..Len(w)) /\ IsFiniteSet(gone)
  <2>1. IsFiniteSet(1..Len(w))
    BY <1>1, FS_Interval
  <2>2. gone \in SUBSET (1..Len(w))
    BY <1>1
  <2> HIDE DEF gone
  <2> QED
    BY <2>1, <2>2, FS_Subset
<1>5. \A i \in gone : 1..i \subseteq gone
  BY <1>1, <1>3, Bounds DEF Sorted
<1>6. gone \subseteq 1..g
  <2> SUFFICES ASSUME NEW i \in gone PROVE i \in 1..g
    OBVIOUS
  <2>1. i \in Nat \ {0} /\ 1..i \in SUBSET gone
    BY <1>4, <1>5
  <2>2. Cardinality(1..i) = i
    BY <2>1, FS_Interval
  <2>3. Cardinality(1..i) <= g
    BY <1>4, <2>1, FS_Subset
  <2> QED
    BY <1>2, <2>1, <2>2, <2>3
<1>7. gone = 1..g
  <2>1. IsFiniteSet(1..g) /\ Cardinality(1..g) = g
    BY <1>2, FS_Interval
  <2> HIDE DEF gone
  <2> QED
    BY <1>6, <2>1, FS_Subset
<1>8. \A i \in 1..Len(w) : w[i].age < Window <=> i > g
  <2> HIDE DEF g
  <2> QED
    BY <1>1, <1>2, <1>3, <1>7, Bounds
<1>9. Len(Prune(w)) = Len(w) - g
  BY <1>2, PruneType
<1> HIDE DEF g
<1> QED
  BY <1>1, <1>2, <1>8, <1>9

LEMMA OlderType ==
  ASSUME NEW w \in Seq(Contribution), NEW d \in Nat
  PROVE  /\ Older(w, d) \in Seq(Contribution)
         /\ Len(Older(w, d)) = Len(w)
         /\ \A i \in 1..Len(w) : /\ Older(w, d)[i].age = Aged(w[i].age, d)
                                 /\ Older(w, d)[i] = [w[i] EXCEPT !.age = Aged(@, d)]
<1>1. Len(w) \in Nat /\ DOMAIN w = 1..Len(w)
  BY LenProperties
<1>2. \A i \in 1..Len(w) : w[i] \in Contribution
  BY ElementOfSeq
<1>3. \A i \in 1..Len(w) : Aged(w[i].age, d) \in 0..Longest
  BY <1>2, AgedType DEF Contribution
<1>4. \A i \in 1..Len(w) : [w[i] EXCEPT !.age = Aged(@, d)] \in Contribution
  BY <1>2, <1>3 DEF Contribution
<1>5. Older(w, d) = [i \in 1..Len(w) |-> [w[i] EXCEPT !.age = Aged(@, d)]]
  BY <1>1 DEF Older
<1>6. Older(w, d) \in [1..Len(w) -> Contribution]
  BY <1>4, <1>5
<1>7. Older(w, d) \in Seq(Contribution) /\ Len(Older(w, d)) = Len(w)
  BY <1>1, <1>6
<1>8. ASSUME NEW i \in 1..Len(w)
      PROVE  /\ Older(w, d)[i].age = Aged(w[i].age, d)
             /\ Older(w, d)[i] = [w[i] EXCEPT !.age = Aged(@, d)]
  BY <1>2, <1>5 DEF Contribution
<1> QED
  BY <1>7, <1>8

LEMMA OlderSorted ==
  ASSUME NEW w \in Seq(Contribution), Sorted(w), NEW d \in Nat
  PROVE  Sorted(Older(w, d))
<1>1. Len(w) \in Nat
  BY LenProperties
<1>2. \A i \in 1..Len(w) : w[i].age \in 0..Longest
  BY AgesOf
<1>3. SUFFICES ASSUME NEW i \in 1..Len(w), NEW j \in 1..Len(w), i <= j
               PROVE  Older(w, d)[i].age >= Older(w, d)[j].age
  BY OlderType DEF Sorted
<1>4. w[i].age >= w[j].age
  BY <1>3 DEF Sorted
<1>5. Aged(w[j].age, d) <= Aged(w[i].age, d)
  BY <1>2, <1>3, <1>4, AgedMonotone, Bounds
<1>6. Aged(w[j].age, d) \in 0..Longest /\ Aged(w[i].age, d) \in 0..Longest
  BY <1>2, AgedType
<1> QED
  BY <1>5, <1>6, OlderType, Bounds

LEMMA PruneKeepsOrder ==
  ASSUME NEW w \in Seq(Contribution), Sorted(w)
  PROVE  Sorted(Prune(w))
<1>1. Len(w) \in Nat /\ Gone(w) \in 0..Len(w) /\ Len(Prune(w)) = Len(w) - Gone(w)
  BY LenProperties, PruneType
<1>2. \A k \in 0..Len(Prune(w)) - 1 : Prune(w)[Len(Prune(w)) - k] = w[Len(w) - k]
  BY PruneType
<1>3. ASSUME NEW i \in 1..Len(Prune(w)) PROVE Prune(w)[i] = w[Gone(w) + i]
  <2>1. Len(Prune(w)) - i \in 0..Len(Prune(w)) - 1
    BY <1>1
  <2>2. /\ Len(Prune(w)) - (Len(Prune(w)) - i) = i
        /\ Len(w) - (Len(Prune(w)) - i) = Gone(w) + i
    BY <1>1
  <2> QED
    BY <1>2, <2>1, <2>2
<1> QED
  BY <1>1, <1>3 DEF Sorted

LEMMA NewestType ==
  ASSUME NEW w \in Seq(Contribution)
  PROVE  /\ Newest(w) \in Seq(Contribution)
         /\ Len(Newest(w)) = IF Len(w) <= MaxResults THEN Len(w) ELSE MaxResults
         /\ \A k \in 0..Len(Newest(w)) - 1 : Newest(w)[Len(Newest(w)) - k] = w[Len(w) - k]
         /\ Sorted(w) => Sorted(Newest(w))
<1>1. Len(w) \in Nat
  BY LenProperties
<1>2. CASE Len(w) <= MaxResults
  BY <1>2 DEF Newest
<1>3. CASE ~(Len(w) <= MaxResults)
  <2> DEFINE m == Len(w) - MaxResults + 1
  <2>1. m \in 1..Len(w) /\ m \in Int /\ Newest(w) = SubSeq(w, m, Len(w))
    BY <1>1, <1>3, Bounds DEF Newest
  <2>2. \A i \in m..Len(w) : w[i] \in Contribution
    BY <1>1, <2>1, ElementOfSeq
  <2>3. /\ Newest(w) \in Seq(Contribution)
        /\ Len(Newest(w)) = IF m <= Len(w) THEN Len(w) - m + 1 ELSE 0
        /\ \A i \in 1..Len(w) - m + 1 : Newest(w)[i] = w[m + i - 1]
    BY <1>1, <2>1, <2>2, SubSeqProperties
  <2>4. Len(Newest(w)) = MaxResults
    BY <1>1, <1>3, <2>3, Bounds
  <2>5. ASSUME NEW k \in 0..Len(Newest(w)) - 1
        PROVE  Newest(w)[Len(Newest(w)) - k] = w[Len(w) - k]
    <3>1. Len(Newest(w)) - k \in 1..Len(w) - m + 1 /\ m + (Len(Newest(w)) - k) - 1 = Len(w) - k
      BY <1>1, <1>3, <2>4, Bounds
    <3> QED
      BY <2>3, <3>1
  <2>6. ASSUME Sorted(w) PROVE Sorted(Newest(w))
    <3>1. Len(w) - m + 1 = MaxResults
      BY <1>1, Bounds
    <3>2. ASSUME NEW i \in 1..MaxResults, NEW j \in 1..MaxResults, i <= j
          PROVE  Newest(w)[i].age >= Newest(w)[j].age
      <4>1. m + i - 1 \in 1..Len(w) /\ m + j - 1 \in 1..Len(w) /\ m + i - 1 <= m + j - 1
        BY <1>1, <1>3, <3>2, Bounds
      <4>2. w[m + i - 1].age >= w[m + j - 1].age
        BY <2>6, <4>1 DEF Sorted
      <4>3. /\ Newest(w)[i] = w[m + i - 1]
            /\ Newest(w)[j] = w[m + j - 1]
        BY <2>3, <3>1
      <4> QED
        BY <4>2, <4>3
    <3> QED
      BY <2>4, <3>2 DEF Sorted
  <2> QED
    BY <1>3, <2>3, <2>4, <2>5, <2>6
<1> QED
  BY <1>2, <1>3

LEMMA EmptyWindow ==
  /\ <<>> \in Seq(Contribution) /\ Len(<<>>) = 0 /\ Sorted(<<>>)
  /\ Prune(<<>>) = <<>> /\ \A d : Older(<<>>, d) = <<>>
<1>1. <<>> \in Seq(Contribution) /\ Len(<<>>) = 0
  OBVIOUS
<1>2. \A w \in Seq(Contribution) : Prune(w) \in Seq(Contribution) /\ Len(Prune(w)) \in 0..Len(w)
  BY PruneType, LenProperties
<1>3. Prune(<<>>) = <<>>
  <2>1. Prune(<<>>) \in Seq(Contribution) /\ Len(Prune(<<>>)) \in 0..Len(<<>>)
    BY <1>1, <1>2
  <2>2. Len(Prune(<<>>)) = 0
    BY <1>1, <2>1
  <2> QED
    BY <2>1, <2>2, EmptySeq
<1>4. \A d : Older(<<>>, d) = <<>>
  BY DEF Older
<1> QED
  BY <1>1, <1>3, <1>4 DEF Sorted

(* What a window still holds, and what was recorded in it, stay the same    *)
(* up to the cap as time passes.                                            *)
LEMMA MatchOlder ==
  ASSUME NEW h \in Seq(Contribution), Sorted(h), NEW s \in Seq(Contribution), Sorted(s),
         Prune(h) = Newest(s), NEW d \in Nat
  PROVE  Prune(Older(h, d)) = Newest(Prune(Older(s, d)))
<1> DEFINE old == Older(h, d)
           rest == Prune(Older(s, d))
<1>1. /\ old \in Seq(Contribution) /\ Sorted(old) /\ Len(old) = Len(h)
      /\ Older(s, d) \in Seq(Contribution) /\ Sorted(Older(s, d)) /\ Len(Older(s, d)) = Len(s)
  BY OlderType, OlderSorted
<1>2. rest \in Seq(Contribution) /\ Prune(old) \in Seq(Contribution) /\ Newest(rest) \in Seq(Contribution)
  BY <1>1, PruneType, NewestType
<1>3. /\ Len(h) \in Nat /\ Len(s) \in Nat /\ Len(rest) \in Nat /\ Len(Prune(old)) \in Nat
      /\ Len(Newest(rest)) \in Nat /\ Len(Prune(h)) \in Nat
  BY <1>2, LenProperties, PruneType
<1>4. Len(Prune(h)) = IF Len(s) <= MaxResults THEN Len(s) ELSE MaxResults
  BY NewestType
<1>5. ASSUME NEW k \in Nat, k < Len(Prune(h)) PROVE h[Len(h) - k] = s[Len(s) - k]
  <2>1. k \in 0..Len(Prune(h)) - 1
    BY <1>3, <1>5
  <2>2. Prune(h)[Len(Prune(h)) - k] = h[Len(h) - k]
    BY <2>1, PruneType
  <2>3. Newest(s)[Len(Newest(s)) - k] = s[Len(s) - k]
    BY <2>1, NewestType
  <2> QED
    BY <2>2, <2>3
<1>6. ASSUME NEW k \in Nat
      PROVE  k < Len(Prune(old)) <=> k < Len(h) /\ Aged(h[Len(h) - k].age, d) < Window
  <2>1. k < Len(Prune(old)) <=> k < Len(h) /\ old[Len(h) - k].age < Window
    BY <1>1, PruneSorted
  <2>2. k < Len(h) => Len(h) - k \in 1..Len(h)
    BY <1>3
  <2>3. k < Len(h) => old[Len(h) - k].age = Aged(h[Len(h) - k].age, d)
    BY <2>2, OlderType
  <2> QED
    BY <2>1, <2>3
<1>7. ASSUME NEW k \in Nat
      PROVE  k < Len(rest) <=> k < Len(s) /\ Aged(s[Len(s) - k].age, d) < Window
  <2>1. k < Len(rest) <=> k < Len(s) /\ Older(s, d)[Len(s) - k].age < Window
    BY <1>1, PruneSorted
  <2>2. k < Len(s) => Len(s) - k \in 1..Len(s)
    BY <1>3
  <2>3. k < Len(s) => Older(s, d)[Len(s) - k].age = Aged(s[Len(s) - k].age, d)
    BY <2>2, OlderType
  <2> QED
    BY <2>1, <2>3
<1>8. ASSUME NEW k \in Nat, k < Len(Prune(old)) PROVE k < Len(Prune(h))
  <2>1. Len(h) - k \in 1..Len(h) /\ k < Len(h) /\ Aged(h[Len(h) - k].age, d) < Window
    BY <1>3, <1>6, <1>8
  <2>2. h[Len(h) - k].age \in 0..Longest
    BY <2>1, AgesOf
  <2>3. Aged(h[Len(h) - k].age, d) \in 0..Longest /\ Aged(h[Len(h) - k].age, d) >= h[Len(h) - k].age
    BY <2>2, AgedType
  <2>4. h[Len(h) - k].age < Window
    BY <2>1, <2>2, <2>3, Bounds
  <2> QED
    BY <2>1, <2>4, PruneSorted
<1>9. Len(Newest(rest)) = IF Len(rest) <= MaxResults THEN Len(rest) ELSE MaxResults
  BY <1>2, NewestType
<1>10. ASSUME NEW k \in Nat
       PROVE  k < Len(Prune(old)) <=> k < Len(Newest(rest))
  <2>1. k < Len(Newest(rest)) <=> k < MaxResults /\ k < Len(rest)
    BY <1>3, <1>9, Bounds
  <2>2. k < Len(Prune(h)) <=> k < MaxResults /\ k < Len(s)
    BY <1>3, <1>4, Bounds
  <2>3. CASE k < Len(Prune(h))
    <3>1. h[Len(h) - k] = s[Len(s) - k] /\ k < Len(h) /\ k < Len(s) /\ k < MaxResults
      BY <1>3, <1>5, <2>2, <2>3, PruneType
    <3> QED
      BY <1>6, <1>7, <2>1, <3>1
  <2>4. CASE ~(k < Len(Prune(h)))
    BY <1>7, <1>8, <2>1, <2>2, <2>4
  <2> QED
    BY <2>3, <2>4
<1>11. Len(Prune(old)) = Len(Newest(rest))
  <2>1. ~(Len(Prune(old)) < Len(Newest(rest)))
    BY <1>3, <1>10
  <2>2. ~(Len(Newest(rest)) < Len(Prune(old)))
    BY <1>3, <1>10
  <2> QED
    BY <1>3, <2>1, <2>2
<1>12. ASSUME NEW k \in 0..Len(Prune(old)) - 1
       PROVE  Prune(old)[Len(Prune(old)) - k] = Newest(rest)[Len(Newest(rest)) - k]
  <2>1. k \in Nat /\ k < Len(Prune(old))
    BY <1>3
  <2>2. k < Len(Prune(h)) /\ k < Len(rest) /\ k < Len(h) /\ k < Len(s)
    BY <1>3, <1>4, <1>6, <1>8, <1>9, <1>10, <2>1, Bounds
  <2>3. k \in 0..Len(Newest(rest)) - 1 /\ k \in 0..Len(rest) - 1
    BY <1>3, <1>11, <2>1, <2>2
  <2>4. Prune(old)[Len(Prune(old)) - k] = old[Len(h) - k]
    BY <1>1, PruneType
  <2>5. Newest(rest)[Len(Newest(rest)) - k] = rest[Len(rest) - k]
    BY <1>2, <2>3, NewestType
  <2>6. rest[Len(rest) - k] = Older(s, d)[Len(s) - k]
    BY <1>1, <2>3, PruneType
  <2>7. Len(h) - k \in 1..Len(h) /\ Len(s) - k \in 1..Len(s)
    BY <1>3, <2>1, <2>2
  <2>8. old[Len(h) - k] = Older(s, d)[Len(s) - k]
    <3>1. h[Len(h) - k] = s[Len(s) - k]
      BY <1>5, <2>1, <2>2
    <3>2. old[Len(h) - k] = [h[Len(h) - k] EXCEPT !.age = Aged(@, d)]
      <4>1. \A i \in 1..Len(h) : old[i] = [h[i] EXCEPT !.age = Aged(@, d)]
        BY OlderType
      <4> HIDE DEF old
      <4> QED
        BY <2>7, <4>1
    <3>3. Older(s, d)[Len(s) - k] = [s[Len(s) - k] EXCEPT !.age = Aged(@, d)]
      BY <2>7, OlderType
    <3> HIDE DEF old
    <3> QED
      BY <3>1, <3>2, <3>3
  <2> QED
    BY <2>4, <2>5, <2>6, <2>8
<1> QED
  BY <1>2, <1>11, <1>12, SameFromEnd

Fresh(w) == \A i \in 1..Len(w) : w[i].age < Window

LEMMA PruneFresh ==
  ASSUME NEW w \in Seq(Contribution), Fresh(w)
  PROVE  Prune(w) = w
<1>1. DOMAIN w = 1..Len(w) /\ \A i \in 1..Len(w) : w[i].age \in 0..Longest
  BY LenProperties, AgesOf
<1>2. {i \in DOMAIN w : w[i].age >= Window} = {}
  BY <1>1, Bounds DEF Fresh
<1>3. Gone(w) = 0
  BY <1>2, FS_EmptySet DEF Gone
<1>4. Prune(w) = SubSeq(w, 1, Len(w))
  BY <1>3 DEF Prune
<1> QED
  BY <1>4, SubSeqFull

LEMMA PruneIsFresh ==
  ASSUME NEW w \in Seq(Contribution), Sorted(w)
  PROVE  Fresh(Prune(w)) /\ Prune(Prune(w)) = Prune(w)
<1>1. Len(Prune(w)) \in Nat /\ Len(w) \in Nat /\ Prune(w) \in Seq(Contribution)
  BY LenProperties, PruneType
<1>2. ASSUME NEW i \in 1..Len(Prune(w)) PROVE Prune(w)[i].age < Window
  <2> DEFINE k == Len(Prune(w)) - i
  <2>1. k \in 0..Len(Prune(w)) - 1 /\ k \in Nat /\ k < Len(Prune(w)) /\ Len(Prune(w)) - k = i
    BY <1>1
  <2>2. w[Len(w) - k].age < Window
    BY <2>1, PruneSorted
  <2>3. Prune(w)[Len(Prune(w)) - k] = w[Len(w) - k]
    BY <2>1, PruneType
  <2> QED
    BY <2>1, <2>2, <2>3
<1>3. Fresh(Prune(w))
  BY <1>2 DEF Fresh
<1> QED
  BY <1>1, <1>3, PruneFresh

LEMMA NewestIsFresh ==
  ASSUME NEW w \in Seq(Contribution), Fresh(w)
  PROVE  Fresh(Newest(w))
<1>1. Len(Newest(w)) \in Nat /\ Len(w) \in Nat /\ Len(Newest(w)) <= Len(w)
  BY LenProperties, NewestType, Bounds
<1>2. ASSUME NEW i \in 1..Len(Newest(w)) PROVE Newest(w)[i].age < Window
  <2> DEFINE k == Len(Newest(w)) - i
  <2>1. k \in 0..Len(Newest(w)) - 1 /\ Len(Newest(w)) - k = i /\ Len(w) - k \in 1..Len(w)
    BY <1>1
  <2>2. Newest(w)[Len(Newest(w)) - k] = w[Len(w) - k]
    BY <2>1, NewestType
  <2> QED
    BY <2>1, <2>2 DEF Fresh
<1> QED
  BY <1>2 DEF Fresh

(* A new contribution, and the cap after it. *)
LEMMA NewestAppend ==
  ASSUME NEW s \in Seq(Contribution), NEW x \in Contribution
  PROVE  Newest(Append(Newest(s), x)) = Newest(Append(s, x))
<1> DEFINE a == Append(s, x)
           b == Append(Newest(s), x)
<1>1. /\ Newest(s) \in Seq(Contribution)
      /\ Len(s) \in Nat /\ Len(Newest(s)) = IF Len(s) <= MaxResults THEN Len(s) ELSE MaxResults
      /\ \A k \in 0..Len(Newest(s)) - 1 : Newest(s)[Len(Newest(s)) - k] = s[Len(s) - k]
  BY NewestType, LenProperties
<1>2. /\ a \in Seq(Contribution) /\ Len(a) = Len(s) + 1 /\ a[Len(s) + 1] = x
      /\ \A i \in 1..Len(s) : a[i] = s[i]
  BY AppendProperties
<1>3. /\ b \in Seq(Contribution) /\ Len(b) = Len(Newest(s)) + 1 /\ b[Len(Newest(s)) + 1] = x
      /\ \A i \in 1..Len(Newest(s)) : b[i] = Newest(s)[i]
  BY <1>1, AppendProperties
<1> HIDE DEF a, b
<1>4. /\ Newest(a) \in Seq(Contribution) /\ Newest(b) \in Seq(Contribution)
      /\ Len(Newest(a)) = IF Len(a) <= MaxResults THEN Len(a) ELSE MaxResults
      /\ Len(Newest(b)) = IF Len(b) <= MaxResults THEN Len(b) ELSE MaxResults
      /\ \A k \in 0..Len(Newest(a)) - 1 : Newest(a)[Len(Newest(a)) - k] = a[Len(a) - k]
      /\ \A k \in 0..Len(Newest(b)) - 1 : Newest(b)[Len(Newest(b)) - k] = b[Len(b) - k]
  BY <1>2, <1>3, NewestType
<1>5. Len(Newest(a)) = Len(Newest(b))
  BY <1>1, <1>2, <1>3, <1>4, Bounds
<1>6. ASSUME NEW k \in 0..Len(Newest(b)) - 1
      PROVE  a[Len(a) - k] = b[Len(b) - k]
  <2>1. Len(Newest(b)) <= MaxResults /\ k \in Nat /\ k < MaxResults /\ k <= Len(Newest(s))
    BY <1>1, <1>2, <1>3, <1>4, Bounds
  <2>2. CASE k = 0
    BY <1>1, <1>2, <1>3, <2>2, Bounds
  <2>3. CASE k # 0
    <3>1. k - 1 \in 0..Len(Newest(s)) - 1
      BY <1>1, <2>1, <2>3, Bounds
    <3>2. /\ Len(a) - k = Len(s) - (k - 1) /\ Len(a) - k \in 1..Len(s)
          /\ Len(b) - k = Len(Newest(s)) - (k - 1) /\ Len(b) - k \in 1..Len(Newest(s))
      BY <1>1, <1>2, <1>3, <2>1, <2>3, Bounds
    <3> QED
      BY <1>1, <1>2, <1>3, <3>1, <3>2
  <2> QED
    BY <2>2, <2>3
<1>7. \A k \in 0..Len(Newest(b)) - 1 :
        Newest(b)[Len(Newest(b)) - k] = Newest(a)[Len(Newest(a)) - k]
  BY <1>4, <1>5, <1>6
<1>8. Newest(b) = Newest(a)
  BY <1>4, <1>5, <1>7, SameFromEnd
<1> QED
  BY <1>8 DEF a, b

LEMMA AppendFresh ==
  ASSUME NEW s \in Seq(Contribution), Sorted(s), Fresh(s), NEW kind \in Kinds
  PROVE  LET t == Append(s, [age |-> 0, kind |-> kind])
         IN  /\ t \in Seq(Contribution) /\ t # s
             /\ Sorted(t) /\ Fresh(t)
             /\ Len(t) = Len(s) + 1 /\ t[Len(t)].age = 0
<1> DEFINE hit == [age |-> 0, kind |-> kind]
           t == Append(s, hit)
<1>1. hit \in Contribution /\ Len(s) \in Nat
  BY LenProperties, Bounds DEF Contribution
<1>2. /\ t \in Seq(Contribution) /\ Len(t) = Len(s) + 1 /\ t[Len(s) + 1] = hit
      /\ \A i \in 1..Len(s) : t[i] = s[i]
  BY <1>1, AppendProperties
<1>3. \A i \in 1..Len(s) : s[i].age \in 0..Longest
  BY AgesOf
<1> HIDE DEF t
<1>4. Sorted(t)
  BY <1>1, <1>2, <1>3, Bounds DEF Sorted
<1>5. Fresh(t)
  BY <1>1, <1>2, Bounds DEF Fresh
<1>6. t # s /\ t[Len(t)].age = 0
  BY <1>1, <1>2
<1> QED
  BY <1>2, <1>4, <1>5, <1>6 DEF t

-----------------------------------------------------------------------------
(* A stored window and the recorded one it stands for. *)
Matches(h, s) ==
  /\ h \in Seq(Contribution) /\ Sorted(h)
  /\ s \in Seq(Contribution) /\ Sorted(s) /\ Fresh(s)
  /\ Prune(h) = Newest(s)

LEMMA MatchesEmpty == Matches(<<>>, <<>>)
<1>1. Newest(<<>>) = <<>>
  BY EmptyWindow, Bounds DEF Newest
<1>2. Fresh(<<>>)
  BY EmptyWindow DEF Fresh
<1> QED
  BY <1>1, <1>2, EmptyWindow DEF Matches

LEMMA MatchesOlder ==
  ASSUME NEW h, NEW s, Matches(h, s), NEW d \in Nat
  PROVE  Matches(Older(h, d), Prune(Older(s, d)))
<1>1. /\ h \in Seq(Contribution) /\ Sorted(h)
      /\ s \in Seq(Contribution) /\ Sorted(s)
      /\ Prune(h) = Newest(s)
  BY DEF Matches
<1>2. /\ Older(h, d) \in Seq(Contribution) /\ Sorted(Older(h, d))
      /\ Older(s, d) \in Seq(Contribution) /\ Sorted(Older(s, d))
  BY <1>1, OlderType, OlderSorted
<1>3. Prune(Older(h, d)) = Newest(Prune(Older(s, d)))
  BY <1>1, MatchOlder
<1>4. Prune(Older(s, d)) \in Seq(Contribution) /\ Sorted(Prune(Older(s, d))) /\ Fresh(Prune(Older(s, d)))
  BY <1>2, PruneType, PruneKeepsOrder, PruneIsFresh
<1> QED
  BY <1>2, <1>3, <1>4 DEF Matches

LEMMA MatchesPrune ==
  ASSUME NEW h, NEW s, Matches(h, s)
  PROVE  Matches(Prune(h), s)
<1>1. h \in Seq(Contribution) /\ Sorted(h)
  BY DEF Matches
<1>2. Prune(h) \in Seq(Contribution) /\ Sorted(Prune(h)) /\ Prune(Prune(h)) = Prune(h)
  BY <1>1, PruneType, PruneKeepsOrder, PruneIsFresh
<1> QED
  BY <1>2 DEF Matches

(* What Record makes of a window. *)
LEMMA MatchesRecord ==
  ASSUME NEW h, NEW s, Matches(h, s), NEW kind \in Kinds
  PROVE  LET hit == [age |-> 0, kind |-> kind]
             w == Newest(Append(Prune(h), hit))
         IN  /\ Matches(w, Append(s, hit))
             /\ w = Newest(Append(s, hit))
             /\ Append(s, hit) # s
             /\ Len(w) \in 1..MaxResults /\ w[Len(w)].age = 0
<1> DEFINE hit == [age |-> 0, kind |-> kind]
           p == Prune(h)
           t == Append(p, hit)
           w == Newest(t)
<1>1. /\ h \in Seq(Contribution) /\ Sorted(h)
      /\ s \in Seq(Contribution) /\ Sorted(s) /\ Fresh(s)
      /\ Prune(h) = Newest(s)
  BY DEF Matches
<1>2. p \in Seq(Contribution) /\ Sorted(p) /\ Fresh(p)
  BY <1>1, PruneType, PruneKeepsOrder, PruneIsFresh
<1>3. hit \in Contribution
  BY Bounds DEF Contribution
<1>4. w = Newest(Append(s, hit))
  BY <1>1, <1>3, NewestAppend
<1>5. /\ Append(s, hit) \in Seq(Contribution) /\ Append(s, hit) # s
      /\ Sorted(Append(s, hit)) /\ Fresh(Append(s, hit))
  BY <1>1, AppendFresh
<1> HIDE DEF p
<1>6. t \in Seq(Contribution) /\ Sorted(t) /\ Fresh(t) /\ Len(t) = Len(p) + 1 /\ t[Len(t)].age = 0
  BY <1>2, AppendFresh
<1> HIDE DEF t
<1>7. /\ w \in Seq(Contribution) /\ Sorted(w) /\ Fresh(w)
      /\ Len(w) = IF Len(t) <= MaxResults THEN Len(t) ELSE MaxResults
  BY <1>6, NewestType, NewestIsFresh
<1>8. Len(w) \in 1..MaxResults
  BY <1>2, <1>6, <1>7, LenProperties, Bounds
<1>9. w[Len(w)] = t[Len(t)]
  <2>1. 0 \in 0..Len(w) - 1 /\ Len(w) - 0 = Len(w) /\ Len(t) - 0 = Len(t)
    BY <1>6, <1>8, LenProperties, Bounds
  <2>2. w[Len(w) - 0] = t[Len(t) - 0]
    BY <1>6, <2>1, NewestType
  <2> QED
    BY <2>1, <2>2
<1>10. Prune(w) = w
  BY <1>7, PruneFresh
<1> HIDE DEF w, hit
<1>11. Matches(w, Append(s, hit))
  BY <1>1, <1>4, <1>5, <1>7, <1>10 DEF Matches
<1> QED
  BY <1>4, <1>5, <1>6, <1>8, <1>9, <1>11 DEF w, t, p, hit

(* The newest contribution of a window: whether it has left it decides      *)
(* whether the window is empty, and it is the last to leave.                *)
LEMMA NewestStays ==
  ASSUME NEW w \in Seq(Contribution), Sorted(w), Len(w) > 0
  PROVE  /\ (Prune(w) # <<>>) = (w[Len(w)].age < Window)
         /\ Prune(w) # <<>> => Len(Prune(w)) > 0 /\ Prune(w)[Len(Prune(w))] = w[Len(w)]
<1>1. Len(w) \in Nat /\ Prune(w) \in Seq(Contribution) /\ Len(Prune(w)) \in Nat
  BY LenProperties, PruneType
<1>2. 0 < Len(Prune(w)) <=> 0 < Len(w) /\ w[Len(w) - 0].age < Window
  BY PruneSorted
<1>3. Prune(w) # <<>> <=> Len(Prune(w)) > 0
  BY <1>1, EmptySeq
<1>4. ASSUME Len(Prune(w)) > 0 PROVE Prune(w)[Len(Prune(w))] = w[Len(w)]
  <2>1. 0 \in 0..Len(Prune(w)) - 1 /\ Len(Prune(w)) - 0 = Len(Prune(w)) /\ Len(w) - 0 = Len(w)
    BY <1>1, <1>4
  <2>2. Prune(w)[Len(Prune(w)) - 0] = w[Len(w) - 0]
    BY <2>1, PruneType
  <2> QED
    BY <2>1, <2>2
<1>5. Len(w) - 0 = Len(w)
  BY <1>1
<1> QED
  BY <1>1, <1>2, <1>3, <1>4, <1>5

-----------------------------------------------------------------------------
(* Types. *)

LEMMA InitType ==
  ASSUME Init PROVE TypeOK
<1>1. <<>> \in Seq(Contribution) /\ DOMAIN <<>> = {}
  OBVIOUS
<1>2. /\ layer \in Layers /\ loaded = None /\ reloading = None /\ Tracked = {} /\ DOMAIN fired = {}
      /\ alarm = {} /\ records = 0
  BY <1>1 DEF Init, Tracked
<1>3. seen \in [Entities -> Seq(Contribution)] /\ since \in [Entities -> 0..Longest]
  BY <1>1, Bounds DEF Init
<1> QED
  BY <1>2, <1>3, ConstantsAssumption DEF TypeOK

(* A step that leaves the store as it is. *)
LEMMA StoreType ==
  ASSUME TypeOK, UNCHANGED <<store, seen, since, records>>,
         layer' \in Layers, loaded' \in Layers \cup {None}, reloading' \in Layers \cup {None},
         alarm' = {}
  PROVE  TypeOK'
  BY DEF TypeOK, Tracked, store

(* What is left of tracked windows. *)
LEMMA PrunedType ==
  ASSUME NEW w \in Seq(Contribution), Len(w) \in 1..MaxResults, Prune(w) # <<>>
  PROVE  Prune(w) \in Seq(Contribution) /\ Len(Prune(w)) \in 1..MaxResults
<1>1. /\ Prune(w) \in Seq(Contribution) /\ Gone(w) \in 0..Len(w) /\ Len(Prune(w)) = Len(w) - Gone(w)
  BY PruneType
<1>2. Len(Prune(w)) # 0 /\ Len(Prune(w)) \in Nat
  BY <1>1, LenProperties, EmptySeq
<1> QED
  BY <1>1, <1>2, Bounds

LEMMA SlideType ==
  ASSUME TypeOK, Slide, UNCHANGED <<layer, reloading, seen, since, records>>,
         loaded' = None, alarm' = {}
  PROVE  TypeOK'
<1> DEFINE live == {e \in Tracked : Live(e)}
<1>1. hits' = [e \in live |-> Prune(hits[e])] /\ fired' = [e \in live |-> fired[e]]
  BY DEF Slide
<1>2. Tracked' = live /\ DOMAIN fired' = live
  BY <1>1 DEF Tracked
<1>3. ASSUME NEW e \in live
      PROVE  /\ hits'[e] \in Seq(Contribution) /\ Len(hits'[e]) \in 1..MaxResults
             /\ fired'[e] \in 0..Longest \cup {None}
  <2>1. /\ e \in Tracked /\ hits[e] \in Seq(Contribution) /\ Len(hits[e]) \in 1..MaxResults
        /\ Prune(hits[e]) # <<>>
    BY DEF TypeOK, Live
  <2>2. hits'[e] = Prune(hits[e]) /\ fired'[e] = fired[e]
    BY <1>1
  <2> QED
    BY <2>1, <2>2, PrunedType DEF TypeOK
<1> QED
  BY <1>2, <1>3 DEF TypeOK

LEMMA RecordType ==
  ASSUME TypeOK, NEW e \in Entities, NEW kind \in Kinds, Record(e, kind)
  PROVE  TypeOK'
<1> DEFINE hit == [age |-> 0, kind |-> kind]
           window == Newest(Append(IF e \in Tracked THEN Prune(hits[e]) ELSE <<>>, hit))
<1>1. hit \in Contribution
  BY Bounds DEF Contribution
<1>2. window \in Seq(Contribution) /\ Len(window) \in 1..MaxResults
  <2>1. PICK p \in Seq(Contribution) : window = Newest(Append(p, hit))
    <3>1. CASE e \in Tracked
      BY <3>1, PruneType DEF TypeOK
    <3>2. CASE e \notin Tracked
      BY <3>2, EmptyWindow
    <3> QED
      BY <3>1, <3>2
  <2>2. Append(p, hit) \in Seq(Contribution) /\ Len(Append(p, hit)) = Len(p) + 1 /\ Len(p) \in Nat
    BY <1>1, AppendProperties, LenProperties
  <2>3. /\ Newest(Append(p, hit)) \in Seq(Contribution)
        /\ Len(Newest(Append(p, hit))) =
             IF Len(Append(p, hit)) <= MaxResults THEN Len(Append(p, hit)) ELSE MaxResults
    BY <2>2, NewestType
  <2> QED
    BY <2>1, <2>2, <2>3, Bounds
<1> HIDE DEF window, hit
<1>3. /\ hits' = [f \in Tracked \cup {e} |-> IF f = e THEN window ELSE hits[f]]
      /\ alarm' \in {{}, {e}} /\ loaded' = None
      /\ UNCHANGED <<layer, reloading>>
  BY DEF Record, window, hit
<1>4. PICK last \in 0..Longest \cup {None} :
        fired' = [f \in Tracked \cup {e} |-> IF f = e THEN last ELSE fired[f]]
  <2> DEFINE fires == Crosses(loaded, Newest(Append(IF e \in Tracked THEN Prune(hits[e]) ELSE <<>>, hit)))
                      /\ ~Cooling(e)
             last == IF fires THEN 0 ELSE IF e \in Tracked THEN fired[e] ELSE None
  <2>1. fired' = [f \in Tracked \cup {e} |-> IF f = e THEN last ELSE fired[f]]
    BY DEF Record, hit
  <2> HIDE DEF fires
  <2>2. last \in 0..Longest \cup {None}
    BY Bounds DEF TypeOK
  <2> QED
    BY <2>1, <2>2
<1>5. /\ seen' = [seen EXCEPT ![e] = Append(@, hit)]
      /\ since' \in {since, [since EXCEPT ![e] = 0]}
      /\ records < MaxRecords /\ records' = records + 1
  BY DEF Record, hit
<1>6. Tracked' = Tracked \cup {e}
  BY <1>3 DEF Tracked
<1>7. \A f \in Tracked' : /\ hits'[f] \in Seq(Contribution) /\ Len(hits'[f]) \in 1..MaxResults
                          /\ fired'[f] \in 0..Longest \cup {None}
  BY <1>2, <1>3, <1>4, <1>6 DEF TypeOK
<1>8. seen' \in [Entities -> Seq(Contribution)]
  BY <1>1, <1>5, AppendProperties DEF TypeOK
<1>9. since' \in [Entities -> 0..Longest]
  BY <1>5, Bounds DEF TypeOK
<1>10. records' \in 0..MaxRecords
  BY <1>5, ConstantsAssumption DEF TypeOK
<1> QED
  BY <1>3, <1>4, <1>6, <1>7, <1>8, <1>9, <1>10 DEF TypeOK

LEMMA AdvanceType ==
  ASSUME TypeOK, Advance
  PROVE  TypeOK'
<1>1. Tracked' = Tracked /\ DOMAIN fired' = Tracked
  BY DEF Advance, Tracked
<1>2. ASSUME NEW e \in Tracked
      PROVE  /\ hits'[e] \in Seq(Contribution) /\ Len(hits'[e]) \in 1..MaxResults
             /\ fired'[e] \in 0..Longest \cup {None}
  <2>1. hits'[e] = Older(hits[e], 1) /\ fired'[e] = IF fired[e] = None THEN None ELSE Aged(fired[e], 1)
    BY DEF Advance
  <2>2. /\ hits[e] \in Seq(Contribution) /\ Len(hits[e]) \in 1..MaxResults
        /\ fired[e] \in 0..Longest \cup {None}
    BY DEF TypeOK
  <2>3. Older(hits[e], 1) \in Seq(Contribution) /\ Len(Older(hits[e], 1)) = Len(hits[e])
    BY <2>2, OlderType
  <2> QED
    BY <2>1, <2>2, <2>3, AgedType
<1>3. seen' \in [Entities -> Seq(Contribution)]
  <2>1. \A e \in Entities : Prune(Older(seen[e], 1)) \in Seq(Contribution)
    BY OlderType, PruneType DEF TypeOK
  <2> QED
    BY <2>1 DEF Advance
<1>4. since' \in [Entities -> 0..Longest]
  <2>1. \A e \in Entities : Aged(since[e], 1) \in 0..Longest
    BY AgedType DEF TypeOK
  <2> QED
    BY <2>1 DEF Advance
<1> QED
  BY <1>1, <1>2, <1>3, <1>4 DEF TypeOK, Advance

LEMMA ReloadType ==
  ASSUME TypeOK, NEW c \in Layers, StartReload(c)
  PROVE  TypeOK'
<1>1. CASE c.accumulates
  BY <1>1, StoreType DEF StartReload, store, TypeOK
<1>2. CASE ~c.accumulates
  <2>1. <<>> \in Seq(Contribution) /\ DOMAIN <<>> = {}
    OBVIOUS
  <2>2. /\ hits' = <<>> /\ fired' = <<>> /\ reloading' = c /\ alarm' = {}
        /\ seen' = [e \in Entities |-> <<>>] /\ since' = [e \in Entities |-> Longest]
        /\ UNCHANGED <<layer, loaded, records>>
    BY <1>2 DEF StartReload
  <2>3. Tracked' = {} /\ DOMAIN fired' = {}
    BY <2>1, <2>2 DEF Tracked
  <2>4. seen' \in [Entities -> Seq(Contribution)] /\ since' \in [Entities -> 0..Longest]
    BY <2>1, <2>2, Bounds
  <2> QED
    BY <2>2, <2>3, <2>4 DEF TypeOK
<1> QED
  BY <1>1, <1>2

LEMMA RestartType ==
  ASSUME TypeOK, NEW c \in Layers, NEW d \in 0..Longest, Restart(c, d)
  PROVE  TypeOK'
<1> DEFINE found == IF c.accumulates THEN {e \in Tracked : Restorable(e, d)} ELSE {}
<1>1. PICK kept \in SUBSET found :
        /\ layer' = c /\ loaded' = None /\ reloading' = None /\ alarm' = {}
        /\ hits' = [e \in kept |-> Prune(Older(hits[e], d))]
        /\ fired' = [e \in kept |-> IF fired[e] = None THEN None ELSE Aged(fired[e], d)]
        /\ seen' = [e \in Entities |-> IF e \in kept THEN Prune(Older(seen[e], d)) ELSE <<>>]
        /\ since' = [e \in Entities |->
             IF e \in Tracked \ kept THEN Longest ELSE Aged(since[e], d)]
        /\ UNCHANGED records
  BY DEF Restart
<1>2. kept \subseteq Tracked /\ d \in Nat /\ \A e \in kept : Prune(Older(hits[e], d)) # <<>>
  BY Bounds DEF Restorable
<1>3. Tracked' = kept /\ DOMAIN fired' = kept
  BY <1>1 DEF Tracked
<1>4. ASSUME NEW e \in kept
      PROVE  /\ hits'[e] \in Seq(Contribution) /\ Len(hits'[e]) \in 1..MaxResults
             /\ fired'[e] \in 0..Longest \cup {None}
  <2>1. /\ hits'[e] = Prune(Older(hits[e], d))
        /\ fired'[e] = IF fired[e] = None THEN None ELSE Aged(fired[e], d)
    BY <1>1
  <2>2. /\ hits[e] \in Seq(Contribution) /\ Len(hits[e]) \in 1..MaxResults
        /\ fired[e] \in 0..Longest \cup {None}
    BY <1>2 DEF TypeOK
  <2>3. Older(hits[e], d) \in Seq(Contribution) /\ Len(Older(hits[e], d)) \in 1..MaxResults
    BY <1>2, <2>2, OlderType
  <2> QED
    BY <1>2, <2>1, <2>2, <2>3, AgedType, PrunedType
<1>5. seen' \in [Entities -> Seq(Contribution)]
  <2>1. \A e \in Entities : Prune(Older(seen[e], d)) \in Seq(Contribution)
    BY <1>2, OlderType, PruneType DEF TypeOK
  <2> QED
    BY <1>1, <2>1, EmptyWindow
<1>6. since' \in [Entities -> 0..Longest]
  <2>1. \A e \in Entities : Aged(since[e], d) \in 0..Longest
    BY <1>2, AgedType DEF TypeOK
  <2> QED
    BY <1>1, <2>1, Bounds
<1>7. kept \subseteq Entities
  BY <1>2 DEF TypeOK
<1> QED
  BY <1>1, <1>3, <1>4, <1>5, <1>6, <1>7 DEF TypeOK

LEMMA TypeStep ==
  ASSUME TypeOK, [Next]_vars
  PROVE  TypeOK'
<1>1. CASE Load
  BY <1>1, StoreType DEF Load, TypeOK
<1>2. CASE Pass
  BY <1>2, StoreType DEF Pass, TypeOK
<1>3. CASE \E e \in Entities, k \in Kinds : Record(e, k)
  BY <1>3, RecordType
<1>4. CASE \E e \in Entities : Refuse(e)
  BY <1>4, StoreType DEF Refuse, TypeOK
<1>5. CASE Tick
  <2>1. CASE loaded.accumulates
    BY <1>5, <2>1, SlideType DEF Tick
  <2>2. CASE ~loaded.accumulates
    BY <1>5, <2>2, StoreType DEF Tick, TypeOK
  <2> QED
    BY <2>1, <2>2
<1>6. CASE Advance
  BY <1>6, AdvanceType
<1>7. CASE \E c \in Layers : StartReload(c)
  BY <1>7, ReloadType
<1>8. CASE FinishReload
  BY <1>8, StoreType DEF FinishReload, TypeOK
<1>9. CASE \E c \in Layers, d \in 0..Longest : Restart(c, d)
  BY <1>9, RestartType
<1>10. CASE UNCHANGED vars
  BY <1>10 DEF vars, store, TypeOK, Tracked
<1> QED
  BY <1>1, <1>2, <1>3, <1>4, <1>5, <1>6, <1>7, <1>8, <1>9, <1>10 DEF Next

(* The store keeps its types in every behaviour: in particular, no tracked  *)
(* entity is without contributions or has more than the cap.                *)
THEOREM TypeCorrect == Spec => []TypeOK
<1>1. Init => TypeOK
  BY InitType
<1>2. TypeOK /\ [Next]_vars => TypeOK'
  BY TypeStep
<1> QED
  BY <1>1, <1>2, PTL DEF Spec

-----------------------------------------------------------------------------
(* Windows. *)

Kept(e) == IF e \in Tracked THEN hits[e] ELSE <<>>

WindowInv == \A e \in Entities : Matches(Kept(e), seen[e])

LEMMA RecordEffect ==
  ASSUME TypeOK, WindowInv, NEW e \in Entities, NEW kind \in Kinds, Record(e, kind)
  PROVE  /\ Tracked' = Tracked \cup {e}
         /\ Matches(hits'[e], seen'[e]) /\ hits'[e] = Newest(seen'[e]) /\ seen'[e] # seen[e]
         /\ Len(hits'[e]) > 0 /\ hits'[e][Len(hits'[e])].age = 0
         /\ \A f \in Entities \ {e} : seen'[f] = seen[f] /\ since'[f] = since[f]
         /\ \A f \in Tracked \ {e} : hits'[f] = hits[f] /\ fired'[f] = fired[f]
         /\ \/ /\ Crosses(loaded, hits'[e]) /\ ~Cooling(e)
               /\ alarm' = {e} /\ fired'[e] = 0 /\ since'[e] = 0
            \/ /\ ~(Crosses(loaded, hits'[e]) /\ ~Cooling(e))
               /\ alarm' = {} /\ since'[e] = since[e]
               /\ fired'[e] = IF e \in Tracked THEN fired[e] ELSE None
<1> DEFINE hit == [age |-> 0, kind |-> kind]
           window == Newest(Append(IF e \in Tracked THEN Prune(hits[e]) ELSE <<>>, hit))
           fires == Crosses(loaded, window) /\ ~Cooling(e)
<1>1. (IF e \in Tracked THEN Prune(hits[e]) ELSE <<>>) = Prune(Kept(e))
  BY EmptyWindow DEF Kept
<1>2. Matches(Kept(e), seen[e])
  BY DEF WindowInv
<1>3. /\ Matches(window, Append(seen[e], hit)) /\ window = Newest(Append(seen[e], hit))
      /\ Append(seen[e], hit) # seen[e]
      /\ Len(window) \in 1..MaxResults /\ window[Len(window)].age = 0
  BY <1>1, <1>2, MatchesRecord
<1>4. /\ hits' = [f \in Tracked \cup {e} |-> IF f = e THEN window ELSE hits[f]]
      /\ fired' = [f \in Tracked \cup {e} |-> IF f = e
                    THEN IF fires THEN 0 ELSE IF e \in Tracked THEN fired[e] ELSE None
                    ELSE fired[f]]
      /\ alarm' = IF fires THEN {e} ELSE {}
      /\ since' = IF fires THEN [since EXCEPT ![e] = 0] ELSE since
      /\ seen' = [seen EXCEPT ![e] = Append(@, hit)]
  BY DEF Record
<1> HIDE DEF window, hit
<1>5. hits'[e] = window /\ seen'[e] = Append(seen[e], hit) /\ Tracked' = Tracked \cup {e}
  BY <1>4 DEF TypeOK, Tracked
<1>6. /\ \A f \in Entities \ {e} : seen'[f] = seen[f] /\ since'[f] = since[f]
      /\ \A f \in Tracked \ {e} : hits'[f] = hits[f] /\ fired'[f] = fired[f]
  BY <1>4 DEF TypeOK
<1>7. CASE fires
  <2>1. alarm' = {e} /\ fired'[e] = 0 /\ since'[e] = 0
    BY <1>4, <1>7 DEF TypeOK
  <2> QED
    BY <1>3, <1>5, <1>6, <1>7, <2>1, Bounds
<1>8. CASE ~fires
  <2>1. /\ alarm' = {} /\ since'[e] = since[e]
        /\ fired'[e] = IF e \in Tracked THEN fired[e] ELSE None
    BY <1>4, <1>8 DEF TypeOK
  <2> QED
    BY <1>3, <1>5, <1>6, <1>8, <2>1, Bounds
<1> QED
  BY <1>7, <1>8

LEMMA RestartEffect ==
  ASSUME TypeOK, NEW c \in Layers, NEW d \in 0..Longest, Restart(c, d)
  PROVE  /\ Tracked' \subseteq Tracked /\ d \in Nat /\ alarm' = {} /\ records' = records
         /\ \A e \in Tracked' : /\ hits'[e] = Prune(Older(hits[e], d)) /\ hits'[e] # <<>>
                                /\ fired'[e] = IF fired[e] = None THEN None ELSE Aged(fired[e], d)
                                /\ seen'[e] = Prune(Older(seen[e], d))
                                /\ since'[e] = Aged(since[e], d)
         /\ \A e \in Entities \ Tracked' :
              seen'[e] = <<>> /\ since'[e] = IF e \in Tracked THEN Longest ELSE Aged(since[e], d)
<1> DEFINE found == IF c.accumulates THEN {e \in Tracked : Restorable(e, d)} ELSE {}
<1>1. PICK kept \in SUBSET found :
        /\ alarm' = {}
        /\ hits' = [e \in kept |-> Prune(Older(hits[e], d))]
        /\ fired' = [e \in kept |-> IF fired[e] = None THEN None ELSE Aged(fired[e], d)]
        /\ seen' = [e \in Entities |-> IF e \in kept THEN Prune(Older(seen[e], d)) ELSE <<>>]
        /\ since' = [e \in Entities |->
             IF e \in Tracked \ kept THEN Longest ELSE Aged(since[e], d)]
        /\ UNCHANGED records
  BY DEF Restart
<1>2. kept \subseteq Tracked /\ d \in Nat /\ \A e \in kept : Prune(Older(hits[e], d)) # <<>>
  BY Bounds DEF Restorable
<1>3. Tracked' = kept
  BY <1>1 DEF Tracked
<1> HIDE DEF found
<1>4. \A e \in kept : e \in Entities
  BY <1>2 DEF TypeOK
<1> QED
  BY <1>1, <1>2, <1>3, <1>4

LEMMA WindowSame ==
  ASSUME WindowInv, UNCHANGED <<store, seen>>
  PROVE  WindowInv'
  BY DEF WindowInv, Kept, Tracked, store

LEMMA WindowStep ==
  ASSUME TypeOK, WindowInv, [Next]_vars
  PROVE  WindowInv'
<1>1. CASE Load
  BY <1>1, WindowSame DEF Load
<1>2. CASE Pass
  BY <1>2, WindowSame DEF Pass
<1>3. ASSUME NEW e \in Entities, NEW kind \in Kinds, Record(e, kind) PROVE WindowInv'
  <2> SUFFICES ASSUME NEW f \in Entities PROVE Matches(Kept(f), seen[f])'
    BY DEF WindowInv
  <2>1. CASE f = e
    BY <1>3, <2>1, RecordEffect DEF Kept
  <2>2. CASE f # e
    BY <1>3, <2>2, RecordEffect DEF Kept, WindowInv
  <2> QED
    BY <2>1, <2>2
<1>4. CASE \E e \in Entities : Refuse(e)
  BY <1>4, WindowSame DEF Refuse
<1>5. CASE Tick
  <2>1. CASE Slide /\ seen' = seen
    <3> DEFINE live == {e \in Tracked : Live(e)}
    <3>1. Tracked' = live /\ \A e \in live : hits'[e] = Prune(hits[e])
      BY <2>1 DEF Slide, Tracked
    <3> SUFFICES ASSUME NEW e \in Entities PROVE Matches(Kept(e), seen[e])'
      BY DEF WindowInv
    <3>2. Matches(Kept(e), seen[e])
      BY DEF WindowInv
    <3>3. Kept(e)' = Prune(Kept(e))
      BY <3>1, EmptyWindow DEF Kept, Live
    <3> QED
      BY <2>1, <3>2, <3>3, MatchesPrune
  <2>2. CASE UNCHANGED <<store, seen>>
    BY <2>2, WindowSame
  <2> QED
    BY <1>5, <2>1, <2>2 DEF Tick
<1>6. CASE Advance
  <2> SUFFICES ASSUME NEW e \in Entities PROVE Matches(Kept(e), seen[e])'
    BY DEF WindowInv
  <2>1. Matches(Kept(e), seen[e])
    BY DEF WindowInv
  <2>2. Kept(e)' = Older(Kept(e), 1) /\ seen'[e] = Prune(Older(seen[e], 1))
    BY <1>6, EmptyWindow DEF Advance, Kept, Tracked
  <2> QED
    BY <2>1, <2>2, MatchesOlder
<1>7. ASSUME NEW c \in Layers, StartReload(c) PROVE WindowInv'
  <2>1. CASE c.accumulates
    BY <1>7, <2>1, WindowSame DEF StartReload
  <2>2. CASE ~c.accumulates
    <3>1. hits' = <<>> /\ \A e \in Entities : seen'[e] = <<>>
      BY <1>7, <2>2 DEF StartReload
    <3>2. DOMAIN <<>> = {}
      OBVIOUS
    <3>3. \A e \in Entities : Kept(e)' = <<>>
      BY <3>1, <3>2 DEF Kept, Tracked
    <3> QED
      BY <3>1, <3>3, MatchesEmpty DEF WindowInv
  <2> QED
    BY <2>1, <2>2
<1>8. CASE FinishReload
  BY <1>8, WindowSame DEF FinishReload
<1>9. ASSUME NEW c \in Layers, NEW d \in 0..Longest, Restart(c, d) PROVE WindowInv'
  <2> SUFFICES ASSUME NEW e \in Entities PROVE Matches(Kept(e), seen[e])'
    BY DEF WindowInv
  <2>1. CASE e \in Tracked'
    <3>1. /\ e \in Tracked /\ d \in Nat
          /\ hits'[e] = Prune(Older(hits[e], d)) /\ seen'[e] = Prune(Older(seen[e], d))
      BY <1>9, <2>1, RestartEffect
    <3>2. Matches(hits[e], seen[e])
      BY <3>1 DEF WindowInv, Kept
    <3>3. Matches(Prune(Older(hits[e], d)), Prune(Older(seen[e], d)))
      BY <3>1, <3>2, MatchesOlder, MatchesPrune
    <3> QED
      BY <2>1, <3>1, <3>3 DEF Kept
  <2>2. CASE e \notin Tracked'
    BY <1>9, <2>2, RestartEffect, MatchesEmpty DEF Kept
  <2> QED
    BY <2>1, <2>2
<1>10. CASE UNCHANGED vars
  BY <1>10, WindowSame DEF vars
<1> QED
  BY <1>1, <1>2, <1>3, <1>4, <1>5, <1>6, <1>7, <1>8, <1>9, <1>10 DEF Next

LEMMA WindowInit ==
  ASSUME Init PROVE WindowInv
<1>1. DOMAIN <<>> = {}
  OBVIOUS
<1>2. \A e \in Entities : Kept(e) = <<>> /\ seen[e] = <<>>
  BY <1>1 DEF Init, Kept, Tracked
<1> QED
  BY <1>2, MatchesEmpty DEF WindowInv

(* Every entity's window holds exactly what was recorded for it within the  *)
(* window, newest first up to the cap: for any cap, window and history.     *)
THEOREM WindowCorrect == Spec => []WindowIsReference
<1>1. Init => TypeOK /\ WindowInv
  BY InitType, WindowInit
<1>2. TypeOK /\ WindowInv /\ [Next]_vars => (TypeOK /\ WindowInv)'
  BY TypeStep, WindowStep
<1>3. WindowInv => WindowIsReference
  BY EmptyWindow DEF WindowInv, WindowIsReference, Kept, Matches
<1> QED
  BY <1>1, <1>2, <1>3, PTL DEF Spec

-----------------------------------------------------------------------------
(* Cooldowns.  While an incident of e may forbid the next, e is tracked,    *)
(* because a contribution as young as the incident is in its window.        *)

Holding == Least(Cooldown, Window)

Remembered(e) ==
  /\ e \in Tracked /\ fired[e] # None => fired[e] = since[e]
  /\ since[e] < Holding =>
       e \in Tracked /\ fired[e] # None /\ hits[e][Len(hits[e])].age <= since[e]

CooldownInv == \A e \in Entities : Remembered(e)

LEMMA HoldingBounds == Holding \in Nat /\ Holding <= Cooldown /\ Holding <= Window /\ Holding <= Longest
  BY Bounds DEF Holding, Least

(* Time passes for the incident and for the newest contribution alike. *)
LEMMA RememberedOlder ==
  ASSUME NEW w \in Seq(Contribution), Sorted(w), Len(w) > 0, NEW d \in Nat,
         NEW a \in 0..Longest, a < Holding => w[Len(w)].age <= a, Aged(a, d) < Holding
  PROVE  /\ a < Holding
         /\ Older(w, d)[Len(Older(w, d))].age <= Aged(a, d)
<1>1. Aged(a, d) \in 0..Longest /\ Aged(a, d) >= a
  BY AgedType
<1>2. a < Holding
  BY <1>1, HoldingBounds, Bounds
<1>3. Len(w) \in 1..Len(w)
  BY LenProperties
<1>4. w[Len(w)].age \in 0..Longest
  BY <1>3, AgesOf
<1>5. Aged(w[Len(w)].age, d) <= Aged(a, d)
  BY <1>2, <1>4, AgedMonotone
<1>6. Len(Older(w, d)) = Len(w) /\ Older(w, d)[Len(w)].age = Aged(w[Len(w)].age, d)
  BY <1>3, OlderType
<1> QED
  BY <1>2, <1>5, <1>6

LEMMA CooldownSame ==
  ASSUME CooldownInv, UNCHANGED <<store, since>>
  PROVE  CooldownInv'
  BY DEF CooldownInv, Remembered, Tracked, store

LEMMA CooldownSlide ==
  ASSUME TypeOK, WindowInv, CooldownInv, Slide, since' = since
  PROVE  CooldownInv'
<1> DEFINE live == {e \in Tracked : Live(e)}
<1>1. /\ Tracked' = live
      /\ \A e \in live : hits'[e] = Prune(hits[e]) /\ fired'[e] = fired[e]
  BY DEF Slide, Tracked
<1> SUFFICES ASSUME NEW e \in Entities PROVE Remembered(e)'
  BY DEF CooldownInv
<1>2. Remembered(e)
  BY DEF CooldownInv
<1>3. e \in Tracked' /\ fired'[e] # None => fired'[e] = since'[e]
  BY <1>1, <1>2 DEF Remembered
<1>4. ASSUME since'[e] < Holding
      PROVE  e \in live /\ fired'[e] # None /\ hits'[e][Len(hits'[e])].age <= since'[e]
  <2>1. e \in Tracked /\ fired[e] # None /\ hits[e][Len(hits[e])].age <= since[e]
    BY <1>2, <1>4 DEF Remembered
  <2>2. /\ hits[e] \in Seq(Contribution) /\ Sorted(hits[e]) /\ Len(hits[e]) > 0
        /\ Len(hits[e]) \in 1..Len(hits[e])
    BY <2>1, Bounds DEF TypeOK, WindowInv, Kept, Matches
  <2>3. hits[e][Len(hits[e])].age \in 0..Longest /\ since[e] \in 0..Longest
    BY <2>2, AgesOf DEF TypeOK
  <2>4. hits[e][Len(hits[e])].age < Window
    BY <1>4, <2>1, <2>3, HoldingBounds, Bounds
  <2>5. Prune(hits[e]) # <<>> /\ Prune(hits[e])[Len(Prune(hits[e]))] = hits[e][Len(hits[e])]
    BY <2>2, <2>4, NewestStays
  <2> QED
    BY <1>1, <2>1, <2>5 DEF Live
<1> QED
  BY <1>1, <1>3, <1>4, HoldingBounds DEF Remembered

LEMMA CooldownRecord ==
  ASSUME TypeOK, WindowInv, CooldownInv, NEW e \in Entities, NEW kind \in Kinds, Record(e, kind)
  PROVE  CooldownInv'
<1> SUFFICES ASSUME NEW f \in Entities PROVE Remembered(f)'
  BY DEF CooldownInv
<1>1. Remembered(f) /\ since[f] \in 0..Longest /\ None \notin 0..Longest
  BY ConstantsAssumption, Bounds DEF CooldownInv, TypeOK
<1>2. CASE f # e
  <2>1. /\ (f \in Tracked') = (f \in Tracked) /\ since'[f] = since[f]
        /\ f \in Tracked => hits'[f] = hits[f] /\ fired'[f] = fired[f]
    BY <1>2, RecordEffect
  <2> QED
    BY <1>1, <2>1 DEF Remembered, Holding
<1>3. CASE f = e
  <2>1. e \in Tracked' /\ hits'[e][Len(hits'[e])].age = 0
    BY RecordEffect
  <2>2. CASE fired'[e] = 0 /\ since'[e] = 0
    BY <1>1, <1>3, <2>1, <2>2, Bounds DEF Remembered
  <2>3. CASE since'[e] = since[e] /\ fired'[e] = IF e \in Tracked THEN fired[e] ELSE None
    BY <1>1, <1>3, <2>1, <2>3, Bounds DEF Remembered, Holding
  <2> QED
    BY <2>2, <2>3, RecordEffect
<1> QED
  BY <1>2, <1>3

LEMMA CooldownAdvance ==
  ASSUME TypeOK, WindowInv, CooldownInv, Advance
  PROVE  CooldownInv'
<1> SUFFICES ASSUME NEW e \in Entities PROVE Remembered(e)'
  BY DEF CooldownInv
<1>1. /\ Tracked' = Tracked /\ since'[e] = Aged(since[e], 1) /\ since[e] \in 0..Longest
      /\ e \in Tracked => /\ hits'[e] = Older(hits[e], 1)
                          /\ fired'[e] = IF fired[e] = None THEN None ELSE Aged(fired[e], 1)
  BY DEF Advance, Tracked, TypeOK
<1>2. Remembered(e) /\ None \notin 0..Longest
  BY ConstantsAssumption, Bounds DEF CooldownInv
<1>3. 1 \in Nat
  OBVIOUS
<1>4. Aged(since[e], 1) \in 0..Longest /\ Aged(since[e], 1) >= since[e]
  BY <1>1, <1>3, AgedType
<1>5. e \in Tracked' /\ fired'[e] # None => fired'[e] = since'[e]
  BY <1>1, <1>2 DEF Remembered
<1>6. ASSUME since'[e] < Holding
      PROVE  e \in Tracked' /\ fired'[e] # None /\ hits'[e][Len(hits'[e])].age <= since'[e]
  <2>1. since[e] < Holding
    BY <1>1, <1>4, <1>6, HoldingBounds, Bounds
  <2>2. e \in Tracked /\ fired[e] # None /\ hits[e][Len(hits[e])].age <= since[e]
    BY <1>2, <2>1 DEF Remembered
  <2>3. hits[e] \in Seq(Contribution) /\ Sorted(hits[e]) /\ Len(hits[e]) > 0
    BY <2>2, Bounds DEF TypeOK, WindowInv, Kept, Matches
  <2>4. Older(hits[e], 1)[Len(Older(hits[e], 1))].age <= Aged(since[e], 1)
    BY <1>1, <1>6, <2>2, <2>3, RememberedOlder
  <2>5. fired'[e] # None
    BY <1>1, <1>2, <1>4, <2>2 DEF Remembered
  <2> QED
    BY <1>1, <2>2, <2>4, <2>5
<1> QED
  BY <1>5, <1>6 DEF Remembered, Holding

LEMMA CooldownRestart ==
  ASSUME TypeOK, WindowInv, CooldownInv, NEW c \in Layers, NEW d \in 0..Longest, Restart(c, d)
  PROVE  CooldownInv'
<1> SUFFICES ASSUME NEW e \in Entities PROVE Remembered(e)'
  BY DEF CooldownInv
<1>1. /\ Tracked' \subseteq Tracked /\ d \in Nat
      /\ e \in Tracked' => /\ hits'[e] = Prune(Older(hits[e], d)) /\ hits'[e] # <<>>
                           /\ fired'[e] = IF fired[e] = None THEN None ELSE Aged(fired[e], d)
                           /\ since'[e] = Aged(since[e], d)
      /\ e \notin Tracked' => since'[e] = IF e \in Tracked THEN Longest ELSE Aged(since[e], d)
  BY RestartEffect
<1>2. Remembered(e) /\ since[e] \in 0..Longest /\ None \notin 0..Longest
  BY ConstantsAssumption, Bounds DEF CooldownInv, TypeOK
<1>3. Aged(since[e], d) \in 0..Longest /\ Aged(since[e], d) >= since[e]
  BY <1>1, <1>2, AgedType
<1>4. e \in Tracked' /\ fired'[e] # None => fired'[e] = since'[e]
  BY <1>1, <1>2 DEF Remembered
<1>5. ASSUME since'[e] < Holding
      PROVE  e \in Tracked' /\ fired'[e] # None /\ hits'[e][Len(hits'[e])].age <= since'[e]
  <2>1. ~(e \in Tracked /\ e \notin Tracked')
    BY <1>1, <1>5, HoldingBounds, Bounds
  <2>2. since'[e] = Aged(since[e], d) /\ since[e] < Holding
    BY <1>1, <1>2, <1>3, <1>5, <2>1, HoldingBounds, Bounds
  <2>3. e \in Tracked /\ e \in Tracked' /\ fired[e] # None /\ hits[e][Len(hits[e])].age <= since[e]
    BY <1>2, <2>1, <2>2 DEF Remembered
  <2>4. hits[e] \in Seq(Contribution) /\ Sorted(hits[e]) /\ Len(hits[e]) > 0
    BY <2>3, Bounds DEF TypeOK, WindowInv, Kept, Matches
  <2>5. Older(hits[e], d)[Len(Older(hits[e], d))].age <= Aged(since[e], d)
    BY <1>1, <1>2, <1>5, <2>2, <2>3, <2>4, RememberedOlder
  <2>6. /\ Older(hits[e], d) \in Seq(Contribution) /\ Sorted(Older(hits[e], d))
        /\ Len(Older(hits[e], d)) > 0
    BY <1>1, <2>4, OlderType, OlderSorted
  <2>7. hits'[e][Len(hits'[e])] = Older(hits[e], d)[Len(Older(hits[e], d))]
    BY <1>1, <2>3, <2>6, NewestStays
  <2>8. fired'[e] # None
    BY <1>1, <1>2, <1>3, <2>3 DEF Remembered
  <2> QED
    BY <2>2, <2>3, <2>5, <2>7, <2>8
<1> QED
  BY <1>4, <1>5 DEF Remembered, Holding

LEMMA CooldownStep ==
  ASSUME TypeOK, WindowInv, CooldownInv, [Next]_vars
  PROVE  CooldownInv'
<1>1. CASE Load
  BY <1>1, CooldownSame DEF Load
<1>2. CASE Pass
  BY <1>2, CooldownSame DEF Pass
<1>3. CASE \E e \in Entities, k \in Kinds : Record(e, k)
  BY <1>3, CooldownRecord
<1>4. CASE \E e \in Entities : Refuse(e)
  BY <1>4, CooldownSame DEF Refuse
<1>5. CASE Tick
  BY <1>5, CooldownSlide, CooldownSame DEF Tick
<1>6. CASE Advance
  BY <1>6, CooldownAdvance
<1>7. ASSUME NEW c \in Layers, StartReload(c) PROVE CooldownInv'
  <2>1. CASE c.accumulates
    BY <1>7, <2>1, CooldownSame DEF StartReload
  <2>2. CASE ~c.accumulates
    <3>1. hits' = <<>> /\ \A e \in Entities : since'[e] = Longest
      BY <1>7, <2>2 DEF StartReload
    <3>2. DOMAIN <<>> = {}
      OBVIOUS
    <3> QED
      BY <3>1, <3>2, HoldingBounds, Bounds DEF CooldownInv, Remembered, Tracked, Holding
  <2> QED
    BY <2>1, <2>2
<1>8. CASE FinishReload
  BY <1>8, CooldownSame DEF FinishReload
<1>9. CASE \E c \in Layers, d \in 0..Longest : Restart(c, d)
  BY <1>9, CooldownRestart
<1>10. CASE UNCHANGED vars
  BY <1>10, CooldownSame DEF vars
<1> QED
  BY <1>1, <1>2, <1>3, <1>4, <1>5, <1>6, <1>7, <1>8, <1>9, <1>10 DEF Next

LEMMA CooldownInit ==
  ASSUME Init PROVE CooldownInv
<1>1. DOMAIN <<>> = {}
  OBVIOUS
<1>2. Tracked = {} /\ \A e \in Entities : since[e] = Longest
  BY <1>1 DEF Init, Tracked
<1> QED
  BY <1>2, HoldingBounds, Bounds DEF CooldownInv, Remembered

Inv == TypeOK /\ WindowInv /\ CooldownInv

LEMMA Invariant == Spec => []Inv
<1>1. Init => Inv
  BY InitType, WindowInit, CooldownInit DEF Inv
<1>2. Inv /\ [Next]_vars => Inv'
  BY TypeStep, WindowStep, CooldownStep DEF Inv
<1> QED
  BY <1>1, <1>2, PTL DEF Spec

(* Whether an entity is cooling down, by what the history says. *)
LEMMA CoolingIsRecent ==
  ASSUME Inv, NEW e \in Entities
  PROVE  /\ since[e] < Holding => Cooling(e)
         /\ Cooling(e) => since[e] < Cooldown
<1>1. Remembered(e) /\ since[e] \in 0..Longest
  BY DEF Inv, CooldownInv, TypeOK
<1> QED
  BY <1>1, HoldingBounds, Bounds DEF Remembered, Cooling

(* Only Record raises an incident or counts a contribution. *)
LEMMA OnlyRecord ==
  ASSUME TypeOK, [Next]_vars
  PROVE  \/ \E e \in Entities, k \in Kinds : Record(e, k)
         \/ UNCHANGED vars
         \/ alarm' = {} /\ records' = records
<1>1. \A c \in Layers, d \in 0..Longest :
        Restart(c, d) => alarm' = {} /\ records' = records
  BY RestartEffect
<1> QED
  BY <1>1 DEF Next, Load, Pass, Refuse, Tick, Advance, StartReload, FinishReload

(* Two incidents of an entity are a cooldown apart, or a window where that  *)
(* is shorter, over eviction by the tick and any number of restarts.        *)
THEOREM CooldownCorrect == Spec => CooldownHolds
<1>1. ASSUME Inv, [Next]_vars
      PROVE  [\A e \in alarm' : since[e] >= Least(Cooldown, Window)]_vars
  <2>1. ASSUME NEW e \in Entities, NEW k \in Kinds, Record(e, k)
        PROVE  \A f \in alarm' : since[f] >= Holding
    <3>1. alarm' = {} \/ (alarm' = {e} /\ ~Cooling(e))
      BY <1>1, <2>1, RecordEffect DEF Inv
    <3>2. ~Cooling(e) => since[e] >= Holding
      BY <1>1, CoolingIsRecent, HoldingBounds, Bounds DEF Inv, TypeOK
    <3> QED
      BY <3>1, <3>2
  <2> QED
    BY <1>1, <2>1, OnlyRecord DEF Holding, Inv
<1> QED
  BY <1>1, Invariant, PTL DEF Spec, CooldownHolds

(* A contribution raises an incident whenever the window it completes, as   *)
(* the history has it, crosses a threshold and no incident of the entity is *)
(* within the cooldown; and only when it crosses one.                       *)
THEOREM DueCorrect == Spec => IncidentWhenDue
<1> DEFINE Due == \A e \in Entities :
             (records' > records /\ seen'[e] # seen[e]) =>
               /\ Crosses(loaded, Newest(seen'[e])) /\ since[e] >= Cooldown => e \in alarm'
               /\ e \in alarm' => Crosses(loaded, Newest(seen'[e]))
<1>1. ASSUME Inv, [Next]_vars
      PROVE  [Due]_vars
  <2>1. ASSUME NEW e \in Entities, NEW k \in Kinds, Record(e, k)
        PROVE  Due
    <3> SUFFICES ASSUME NEW f \in Entities, seen'[f] # seen[f]
                 PROVE  /\ Crosses(loaded, Newest(seen'[f])) /\ since[f] >= Cooldown => f \in alarm'
                        /\ f \in alarm' => Crosses(loaded, Newest(seen'[f]))
      OBVIOUS
    <3>1. f = e
      BY <1>1, <2>1, RecordEffect DEF Inv
    <3>2. hits'[e] = Newest(seen'[e])
      BY <1>1, <2>1, RecordEffect DEF Inv
    <3>3. \/ Crosses(loaded, hits'[e]) /\ alarm' = {e}
          \/ ~(Crosses(loaded, hits'[e]) /\ ~Cooling(e)) /\ alarm' = {}
      BY <1>1, <2>1, RecordEffect DEF Inv
    <3>4. since[e] >= Cooldown => ~Cooling(e)
      BY <1>1, CoolingIsRecent, Bounds DEF Inv, TypeOK
    <3> QED
      BY <3>1, <3>2, <3>3, <3>4
  <2>2. ASSUME records' = records PROVE Due
    BY <1>1, <2>2, ConstantsAssumption DEF Inv, TypeOK
  <2> HIDE DEF Due
  <2> QED
    BY <1>1, <2>1, <2>2, OnlyRecord DEF Inv
<1> QED
  BY <1>1, Invariant, PTL DEF Spec, IncidentWhenDue
=============================================================================
