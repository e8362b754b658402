-------------------------- MODULE CorrelationProofs --------------------------
(***************************************************************************)
(* Proofs about CorrelationEngine, for every set of rules, groups, events  *)
(* and limits.                                                             *)
(*                                                                         *)
(* The base of all of them is IInv: types, with what is still to do in a   *)
(* call (CallOK) and what may be kept between calls (Kept).  On it rest    *)
(* the bound on the windows (Room), the buckets of tumbling windows        *)
(* (AllBucketed), what is remembered of alerts (Alerting) and the event    *)
(* buffers (BufferOK), each inductive relative to IInv.  Last comes what   *)
(* the windows hold (Faithful): the positions of the arrivals that are in  *)
(* a window are enumerated, and every operation on a window is shown to    *)
(* take from the enumeration what the definition of the window takes.  The *)
(* lemmas before say what the operators on sequences and on windows keep.  *)
(***************************************************************************)
EXTENDS CorrelationEngine, FiniteSetTheorems, WellFoundedInduction, TLAPS

-----------------------------------------------------------------------------
(* The operators on sequences. *)

LEMMA LeastNatural ==
  ASSUME NEW I \in SUBSET Nat, I # {}
  PROVE  \E i \in I : \A j \in I : i <= j
<1> DEFINE R == {ss \in Nat \X Nat : ss[1] < ss[2]}
<1>0. IsWellFoundedOn(R, Nat)
  BY NatLessThanWellFounded DEF OpToRel
<1>1. PICK i \in I : \A j \in I : ~(<<j, i>> \in R)
  <2> HIDE DEF R
  <2> QED
    BY <1>0, WFMin
<1>2. \A j \in I : ~(j < i)
  BY <1>1
<1> QED
  BY <1>2

LEMMA Positions ==
  ASSUME NEW m \in Nat, NEW I \in SUBSET (1..m)
  PROVE  IsFiniteSet(I) /\ Cardinality(I) \in Nat
<1>1. IsFiniteSet(1..m)
  BY FS_Interval
<1> QED
  BY <1>1, FS_Subset, FS_CardinalityType

Rank(I, i) == Cardinality({j \in I : j <= i})

(* Every number up to the size of a set of positions is the rank of one. *)
LEMMA Ranks ==
  ASSUME NEW m \in Nat, NEW I \in SUBSET (1..m), NEW n \in 1..Cardinality(I)
  PROVE  \E i \in I : Rank(I, i) = n
<1> DEFINE Upto(i) == {j \in I : j <= i}
<1> DEFINE Missing == {k \in 1..Cardinality(I) : \A i \in I : Rank(I, i) # k}
<1>1. IsFiniteSet(I) /\ Cardinality(I) \in Nat
  BY Positions
<1>2. ASSUME NEW i \in I PROVE IsFiniteSet(Upto(i)) /\ Upto(i) \in SUBSET I
  BY <1>1, FS_Subset
<1> SUFFICES ASSUME Missing # {} PROVE FALSE
  OBVIOUS
<1>3. PICK k \in Missing : \A l \in Missing : k <= l
  <2>1. Missing \in SUBSET Nat
    BY <1>1
  <2> QED
    BY <2>1, LeastNatural
<1>4. k \in 1..Cardinality(I) /\ \A i \in I : Rank(I, i) # k
  OBVIOUS
<1>5. PICK L \in SUBSET I : /\ IsFiniteSet(L) /\ Cardinality(L) = k - 1
                            /\ \A i \in L, j \in I \ L : i < j
  <2>1. CASE k = 1
    BY <2>1, FS_EmptySet
  <2>2. CASE k # 1
    <3>1. k - 1 \in 1..Cardinality(I) /\ k - 1 \notin Missing
      BY <1>1, <1>3, <1>4, <2>2
    <3>2. PICK i \in I : Rank(I, i) = k - 1
      BY <3>1
    <3>3. Cardinality(Upto(i)) = k - 1
      BY <3>2 DEF Rank
    <3>4. \A h \in Upto(i), j \in I \ Upto(i) : h < j
      OBVIOUS
    <3> QED
      BY <1>2, <3>3, <3>4
  <2> QED
    BY <2>1, <2>2
<1>6. I \ L # {}
  <2>1. L # I
    BY <1>1, <1>4, <1>5
  <2> QED
    BY <2>1
<1>7. PICK i \in I \ L : \A j \in I \ L : i <= j
  <2>1. I \ L \in SUBSET Nat
    OBVIOUS
  <2> QED
    BY <1>6, <2>1, LeastNatural
<1>8. Upto(i) = L \cup {i}
  <2>1. \A j \in L : j <= i
    BY <1>5, <1>7
  <2>2. \A j \in I \ L : j <= i => j = i
    BY <1>7
  <2>3. i \in I /\ i <= i /\ L \subseteq I
    BY <1>7
  <2>4. \A j : j \in Upto(i) <=> j \in L \cup {i}
    BY <2>1, <2>2, <2>3
  <2> HIDE DEF Upto
  <2> QED
    BY <2>4
<1>9. Cardinality(Upto(i)) = k
  <2>1. Cardinality(L \cup {i}) = Cardinality(L) + 1
    BY <1>5, <1>7, FS_AddElement
  <2> HIDE DEF Upto
  <2> QED
    BY <1>1, <1>4, <1>5, <1>8, <2>1
<1> QED
  BY <1>4, <1>7, <1>9 DEF Rank

(* At selects nothing else. *)
LEMMA AtType ==
  ASSUME NEW S, NEW s \in Seq(S), NEW I \in SUBSET (1..Len(s))
  PROVE  /\ Cardinality(I) \in Nat
         /\ DOMAIN At(s, I) = 1..Cardinality(I)
         /\ \A n \in DOMAIN At(s, I) : \E i \in I : At(s, I)[n] = s[i]
<1>0. Len(s) \in Nat
  OBVIOUS
<1>1. Cardinality(I) \in Nat
  BY <1>0, Positions
<1>2. ASSUME NEW n \in 1..Cardinality(I)
      PROVE  \E i \in I : At(s, I)[n] = s[i]
  <2>1. \E i \in I : Rank(I, i) = n
    BY <1>0, Ranks
  <2>2. PICK i \in I : i = CHOOSE j \in I : Rank(I, j) = n
    BY <2>1
  <2>3. At(s, I)[n] = s[i]
    BY <2>2 DEF At, Rank
  <2> QED
    BY <2>3
<1> QED
  BY <1>1, <1>2 DEF At

LEMMA Sequence ==
  ASSUME NEW S, NEW m \in Nat, NEW f \in [1..m -> S]
  PROVE  f \in Seq(S) /\ Len(f) = m /\ DOMAIN f = 1..Len(f)
  OBVIOUS

LEMMA Elements ==
  ASSUME NEW S, NEW s \in Seq(S)
  PROVE  \A i \in 1..Len(s) : s[i] \in S
  OBVIOUS

LEMMA QueueHead ==
  ASSUME NEW S, NEW q \in Seq(S), q # <<>>
  PROVE  /\ Head(q) = q[1] /\ q[1] \in S
         /\ Tail(q) \in Seq(S)
         /\ Len(Tail(q)) = Len(q) - 1 /\ Len(q) >= 1 /\ Len(q) \in Nat
         /\ \A i \in 1..Len(Tail(q)) : Tail(q)[i] = q[i + 1]
  OBVIOUS

LEMMA DivMod ==
  ASSUME NEW a \in Nat, NEW n \in Nat, NEW d \in Nat, a < n * d
  PROVE  (a \div d) + 1 \in 1..n /\ (a % d) + 1 \in 1..d
<1>1. d > 0
  <2>1. d = 0 => n * d = 0
    OBVIOUS
  <2> QED
    BY <2>1
<1>2. a = d * (a \div d) + (a % d) /\ a % d \in 0..d - 1 /\ a \div d \in Int
  BY <1>1
<1>3. a \div d >= 0
  BY <1>1, <1>2
<1>4. a \div d < n
  <2> DEFINE q == a \div d
  <2>1. q \in Int /\ d * q <= a
    BY <1>2
  <2> HIDE DEF q
  <2>2. q >= n => d * q >= n * d
    BY <1>1, <2>1
  <2>3. q < n
    BY <1>1, <2>1, <2>2
  <2> QED
    BY <2>3 DEF q
<1> QED
  BY <1>2, <1>3, <1>4

LEMMA PairsFrom ==
  ASSUME NEW S, NEW T, NEW s \in Seq(S), NEW t \in Seq(T), NEW n \in DOMAIN Pairs(s, t)
  PROVE  \E i \in 1..Len(s) : \E j \in 1..Len(t) : Pairs(s, t)[n] = <<s[i], t[j]>>
<1>1. Len(s) \in Nat /\ Len(t) \in Nat /\ Len(s) * Len(t) \in Nat
  OBVIOUS
<1>2. n \in 1..Len(s) * Len(t)
  BY DEF Pairs
<1> DEFINE i == ((n - 1) \div Len(t)) + 1
           j == ((n - 1) % Len(t)) + 1
<1>3. i \in 1..Len(s) /\ j \in 1..Len(t)
  <2>1. n - 1 \in Nat /\ n - 1 < Len(s) * Len(t)
    BY <1>1, <1>2
  <2> QED
    BY <1>1, <2>1, DivMod
<1>4. Pairs(s, t)[n] = <<s[i], t[j]>>
  BY <1>2 DEF Pairs
<1> HIDE DEF i, j
<1> QED
  BY <1>3, <1>4

LEMMA PairsType ==
  ASSUME NEW S, NEW T, NEW s \in Seq(S), NEW t \in Seq(T)
  PROVE  Pairs(s, t) \in Seq(S \X T)
<1>1. Len(s) * Len(t) \in Nat
  OBVIOUS
<1>2. DOMAIN Pairs(s, t) = 1..Len(s) * Len(t)
  BY DEF Pairs
<1>3. ASSUME NEW n \in DOMAIN Pairs(s, t) PROVE Pairs(s, t)[n] \in S \X T
  <2>1. PICK i \in 1..Len(s) : \E j \in 1..Len(t) : Pairs(s, t)[n] = <<s[i], t[j]>>
    BY PairsFrom
  <2>2. PICK j \in 1..Len(t) : Pairs(s, t)[n] = <<s[i], t[j]>>
    BY <2>1
  <2>3. s[i] \in S /\ t[j] \in T
    OBVIOUS
  <2> QED
    BY <2>2, <2>3
<1>4. Pairs(s, t) \in [1..Len(s) * Len(t) -> S \X T]
  BY <1>2, <1>3 DEF Pairs
<1> QED
  BY <1>1, <1>4, Sequence

-----------------------------------------------------------------------------
(* The updates an event asks for. *)

(* An update e may ask for. *)
Due(u, e) == KeyFor(u.key, e) /\ Refers(u.key[1], u.ref)

LEMMA RuleOf ==
  ASSUME corr \in RuleSets, NEW c \in Loaded
  PROVE  c \in Corrs /\ corr[c] \in CorrelationRule
  BY RulesAssumption DEF Loaded

LEMMA DirectWorkType ==
  ASSUME corr \in RuleSets, NEW e, e.group \in Grouping
  PROVE  /\ DirectWork(e) \in Seq(Updates)
         /\ \A i \in 1..Len(DirectWork(e)) : Due(DirectWork(e)[i], e)
<1> DEFINE pairs == Pairs(RuleOrder, CorrOrder)
           asked == {n \in DOMAIN pairs : /\ pairs[n][1] \in e.rules
                                          /\ Refers(pairs[n][2], pairs[n][1])
                                          /\ EventGroup(pairs[n][2], pairs[n][1], e) # None}
           updates == At(pairs, asked)
           made(n) == [key |-> <<updates[n][2], EventGroup(updates[n][2], updates[n][1], e)>>,
                       ref |-> updates[n][1]]
<1>1. pairs \in Seq(Rules \X Corrs) /\ DOMAIN pairs = 1..Len(pairs)
  <2>1. RuleOrder \in Seq(Rules) /\ CorrOrder \in Seq(Corrs)
    BY ConstantsAssumption
  <2>2. pairs \in Seq(Rules \X Corrs)
    BY <2>1, PairsType, Zenon
  <2> HIDE DEF pairs
  <2> QED
    BY <2>2
<1>2. asked \in SUBSET (1..Len(pairs))
  BY <1>1
<1>3. /\ Cardinality(asked) \in Nat /\ DOMAIN updates = 1..Cardinality(asked)
      /\ \A n \in DOMAIN updates : \E i \in asked : updates[n] = pairs[i]
  <2> HIDE DEF asked, pairs
  <2> QED
    BY <1>1, <1>2, AtType
<1>4. ASSUME NEW n \in 1..Cardinality(asked)
      PROVE  made(n) \in Updates /\ Due(made(n), e)
  <2>1. PICK i \in asked : updates[n] = pairs[i]
    BY <1>3
  <2>2. /\ pairs[i] \in Rules \X Corrs
        /\ Refers(pairs[i][2], pairs[i][1])
        /\ EventGroup(pairs[i][2], pairs[i][1], e) # None
    BY <1>1, <1>2, <2>1
  <2> DEFINE c == pairs[i][2]
             r == pairs[i][1]
             g == EventGroup(pairs[i][2], pairs[i][1], e)
  <2>3. c \in Corrs /\ c \in Loaded /\ g \in Groups \cup {All} /\ r \in Rules
        /\ IF corr[c].grouped THEN \E f \in Fields : g = e.group[f] ELSE g = All
    <3>1. c \in Corrs /\ c \in Loaded /\ r \in Rules /\ g # None
      BY <2>2 DEF Refers
    <3>2. corr[c] \in CorrelationRule
      BY <3>1, RuleOf
    <3>3. corr[c].by[r] \in Fields
      BY <3>1, <3>2 DEF CorrelationRule
    <3>4. g = IF corr[c].grouped THEN e.group[corr[c].by[r]] ELSE All
      BY DEF EventGroup
    <3> QED
      BY <3>1, <3>3, <3>4 DEF Grouping
  <2>4. <<c, g>> \in Keys /\ <<c, g>>[1] = c /\ <<c, g>>[2] = g
    BY <2>3 DEF Keys
  <2>5. made(n) = [key |-> <<c, g>>, ref |-> r]
    BY <2>1
  <2>6. Refers(c, r)
    BY <2>2
  <2> HIDE DEF c, r, g, made
  <2> QED
    BY <2>3, <2>4, <2>5, <2>6 DEF Updates, KeyFor, Due
<1>5. DirectWork(e) = [n \in 1..Cardinality(asked) |-> made(n)]
  BY <1>3 DEF DirectWork
<1>6. DirectWork(e) \in [1..Cardinality(asked) -> Updates]
  <2> HIDE DEF asked, made
  <2> QED
    BY <1>4, <1>5
<1> HIDE DEF asked, made
<1> QED
  BY <1>3, <1>4, <1>5, <1>6, Sequence

LEMMA ChainWorkType ==
  ASSUME NEW e, NEW pending \in Seq(Keys),
         \A i \in 1..Len(pending) : KeyFor(pending[i], e)
  PROVE  /\ ChainWork(pending) \in Seq(Updates)
         /\ \A i \in 1..Len(ChainWork(pending)) :
              Due(ChainWork(pending)[i], e) /\ ChainWork(pending)[i].ref \in Corrs
<1> DEFINE pairs == Pairs(pending, CorrOrder)
           asked == {n \in DOMAIN pairs : Refers(pairs[n][2], pairs[n][1][1])}
           first == {n \in asked : \A m \in asked :
                       m < n => pairs[m][2] # pairs[n][2] \/ pairs[m][1][1] # pairs[n][1][1]}
           grouped == {n \in first : ChainGroup(pairs[n][2], pairs[n][1][2]) # None}
           updates == At(pairs, grouped)
           made(n) == [key |-> <<updates[n][2], ChainGroup(updates[n][2], updates[n][1][2])>>,
                       ref |-> updates[n][1][1]]
<1>1. pairs \in Seq(Keys \X Corrs) /\ DOMAIN pairs = 1..Len(pairs)
  <2>1. CorrOrder \in Seq(Corrs)
    BY ConstantsAssumption
  <2>2. pairs \in Seq(Keys \X Corrs)
    BY <2>1, PairsType, Zenon
  <2> HIDE DEF pairs
  <2> QED
    BY <2>2
<1>2. grouped \in SUBSET (1..Len(pairs)) /\ grouped \subseteq asked
  BY <1>1
<1>3. /\ Cardinality(grouped) \in Nat /\ DOMAIN updates = 1..Cardinality(grouped)
      /\ \A n \in DOMAIN updates : \E i \in grouped : updates[n] = pairs[i]
  <2> HIDE DEF grouped, pairs
  <2> QED
    BY <1>1, <1>2, AtType
<1>4. ASSUME NEW n \in 1..Cardinality(grouped)
      PROVE  made(n) \in Updates /\ Due(made(n), e) /\ made(n).ref \in Corrs
  <2>1. PICK i \in grouped : updates[n] = pairs[i]
    BY <1>3
  <2> DEFINE c == pairs[i][2]
             k == pairs[i][1]
             g == ChainGroup(pairs[i][2], pairs[i][1][2])
  <2>2. i \in DOMAIN pairs /\ Refers(c, k[1]) /\ g # None
    BY <1>1, <1>2, <2>1
  <2>3. PICK h \in 1..Len(pending) : k = pending[h]
    <3>1. CorrOrder \in Seq(Corrs)
      BY ConstantsAssumption
    <3>2. \E h \in 1..Len(pending) : \E j \in 1..Len(CorrOrder) :
            pairs[i] = <<pending[h], CorrOrder[j]>>
      BY <2>2, <3>1, PairsFrom
    <3> QED
      BY <3>2
  <2>4. k \in Keys /\ c \in Corrs
    BY <1>1, <2>2
  <2>5. c \in Loaded /\ KeyFor(k, e)
    BY <2>2, <2>3 DEF Refers
  <2>6. /\ IF corr[c].grouped THEN \E f \in Fields : g = e.group[f] ELSE g = All
        /\ g \in Groups \cup {All}
    <3>1. g = IF ~corr[c].grouped THEN All ELSE IF k[2] = All THEN None ELSE k[2]
      BY DEF ChainGroup
    <3>2. /\ IF corr[k[1]].grouped THEN \E f \in Fields : k[2] = e.group[f] ELSE k[2] = All
          /\ k[2] \in Groups \cup {All}
      BY <2>4, <2>5 DEF KeyFor, Keys
    <3> HIDE DEF g, k, c
    <3> QED
      BY <2>2, <3>1, <3>2
  <2>7. <<c, g>> \in Keys /\ <<c, g>>[1] = c /\ <<c, g>>[2] = g
    BY <2>4, <2>6 DEF Keys
  <2>8. made(n) = [key |-> <<c, g>>, ref |-> k[1]]
    BY <2>1
  <2>9. k[1] \in Corrs
    BY <2>4 DEF Keys
  <2> HIDE DEF c, k, g, made
  <2> QED
    BY <2>2, <2>5, <2>6, <2>7, <2>8, <2>9 DEF Updates, KeyFor, Due
<1>5. ChainWork(pending) = [n \in 1..Cardinality(grouped) |-> made(n)]
  BY <1>3 DEF ChainWork
<1>6. ChainWork(pending) \in [1..Cardinality(grouped) -> Updates]
  <2> HIDE DEF grouped, made
  <2> QED
    BY <1>4, <1>5
<1> HIDE DEF grouped, made
<1>7. ChainWork(pending) \in Seq(Updates) /\ Len(ChainWork(pending)) = Cardinality(grouped)
  BY <1>3, <1>6, Sequence
<1>8. \A i \in 1..Cardinality(grouped) : ChainWork(pending)[i] = made(i)
  BY <1>5
<1> QED
  BY <1>4, <1>7, <1>8

-----------------------------------------------------------------------------
(* The operators on windows. *)

Timed(S) == \A e \in S : e.t \in 0..MaxTime

(* What leaves from the front leaves a suffix: the longest that begins with *)
(* an entry that is young enough.                                           *)
LEMMA FromFrontExact ==
  ASSUME NEW S, Timed(S), NEW entries \in Seq(S), NEW cutoff \in Int
  PROVE  /\ FromFront(entries, cutoff) \in Seq(S)
         /\ \E d \in 0..Len(entries) :
              /\ Len(FromFront(entries, cutoff)) = Len(entries) - d
              /\ \A i \in 1..Len(entries) - d :
                   FromFront(entries, cutoff)[i] = entries[i + d]
              /\ \A i \in 1..d : ~(entries[i].t >= cutoff)
              /\ d < Len(entries) => entries[d + 1].t >= cutoff
<1> DEFINE kept == {i \in DOMAIN entries : entries[i].t >= cutoff}
<1>1. Len(entries) \in Nat /\ DOMAIN entries = 1..Len(entries)
  OBVIOUS
<1>2. CASE kept = {}
  <2>1. FromFront(entries, cutoff) = <<>>
    BY <1>2 DEF FromFront
  <2>2. Len(entries) \in 0..Len(entries) /\ 1..Len(entries) - Len(entries) = {}
    BY <1>1
  <2>3. <<>> \in Seq(S) /\ Len(<<>>) = Len(entries) - Len(entries)
    BY <1>1
  <2>4. \A i \in 1..Len(entries) : ~(entries[i].t >= cutoff)
    BY <1>1, <1>2
  <2>5. ~(Len(entries) < Len(entries))
    BY <1>1
  <2> HIDE DEF kept
  <2> QED
    BY <2>1, <2>2, <2>3, <2>4, <2>5
<1>3. CASE kept # {}
  <2>1. Min(kept) \in kept
    <3>1. kept \in SUBSET Nat
      BY <1>1
    <3>2. \E i \in kept : \A j \in kept : i <= j
      BY <1>3, <3>1, LeastNatural
    <3> HIDE DEF kept
    <3> QED
      BY <3>2 DEF Min
  <2> DEFINE m == Min(kept)
  <2>2. m \in 1..Len(entries) /\ FromFront(entries, cutoff) = SubSeq(entries, m, Len(entries))
    BY <1>1, <1>3, <2>1 DEF FromFront
  <2>0. entries[m].t >= cutoff /\ \A i \in 1..m - 1 : ~(entries[i].t >= cutoff)
    <3>1. kept \in SUBSET Nat
      BY <1>1
    <3>2. PICK n \in kept : \A j \in kept : n <= j
      BY <1>3, <3>1, LeastNatural
    <3>3. m \in kept /\ \A j \in kept : m <= j
      <4> HIDE DEF kept
      <4> QED
        BY <3>2 DEF Min
    <3>4. \A i \in 1..m - 1 : i \in 1..Len(entries) /\ ~(m <= i)
      BY <1>1, <2>2
    <3> HIDE DEF m
    <3> QED
      BY <1>1, <3>3, <3>4
  <2> HIDE DEF m, kept
  <2>3. /\ SubSeq(entries, m, Len(entries)) \in Seq(S)
        /\ Len(SubSeq(entries, m, Len(entries))) = Len(entries) - (m - 1)
        /\ \A i \in 1..Len(entries) - (m - 1) :
             SubSeq(entries, m, Len(entries))[i] = entries[i + (m - 1)]
    BY <1>1, <2>2
  <2>4. m - 1 \in 0..Len(entries) /\ (m - 1) + 1 = m
    BY <1>1, <2>2
  <2> QED
    BY <2>0, <2>2, <2>3, <2>4
<1> QED
  BY <1>2, <1>3

LEMMA FromFrontType ==
  ASSUME NEW S, Timed(S), NEW entries \in Seq(S), NEW cutoff \in Int
  PROVE  /\ FromFront(entries, cutoff) \in Seq(S)
         /\ \E d \in 0..Len(entries) :
              /\ Len(FromFront(entries, cutoff)) = Len(entries) - d
              /\ \A i \in 1..Len(entries) - d :
                   FromFront(entries, cutoff)[i] = entries[i + d]
<1>1. FromFront(entries, cutoff) \in Seq(S)
  BY FromFrontExact
<1>2. PICK d \in 0..Len(entries) :
        /\ Len(FromFront(entries, cutoff)) = Len(entries) - d
        /\ \A i \in 1..Len(entries) - d : FromFront(entries, cutoff)[i] = entries[i + d]
  BY FromFrontExact, ZenonT(20)
<1> QED
  BY <1>1, <1>2

(* The cap takes entries away and adds none. *)
LEMMA NewestType ==
  ASSUME NEW S, NEW entries \in Seq(S), NEW cap \in Nat \ {0}, NEW anchored
  PROVE  /\ Newest(entries, cap, anchored) \in Seq(S)
         /\ \A i \in 1..Len(Newest(entries, cap, anchored)) :
              \E j \in 1..Len(entries) : Newest(entries, cap, anchored)[i] = entries[j]
<1> DEFINE n == Len(entries)
<1>1. n \in Nat
  OBVIOUS
<1>2. CASE n <= cap
  <2>1. Newest(entries, cap, anchored) = entries
    BY <1>2 DEF Newest
  <2> QED
    BY <2>1
<1>3. CASE ~(n <= cap) /\ ~anchored
  <2> DEFINE rest == SubSeq(entries, n - cap + 1, n)
  <2>1. Newest(entries, cap, anchored) = rest
    BY <1>3 DEF Newest
  <2>2. n - cap + 1 \in 1..n
    BY <1>1, <1>3
  <2>3. /\ rest \in Seq(S) /\ Len(rest) = cap
        /\ \A i \in 1..cap : rest[i] = entries[i + (n - cap)] /\ i + (n - cap) \in 1..n
    BY <1>1, <1>3, <2>2
  <2> HIDE DEF rest
  <2> QED
    BY <2>1, <2>3
<1>4. CASE ~(n <= cap) /\ anchored
  <2> DEFINE rest == SubSeq(entries, n - cap + 2, n)
  <2>1. Newest(entries, cap, anchored) = <<Head(entries)>> \o rest
    BY <1>4 DEF Newest
  <2>2. n - cap + 2 \in 1..n + 1 /\ entries # <<>>
    BY <1>1, <1>4
  <2>3. /\ rest \in Seq(S) /\ Len(rest) = cap - 1
        /\ \A i \in 1..cap - 1 : rest[i] = entries[i + (n - cap + 1)]
    BY <1>1, <1>4, <2>2
  <2>4. <<Head(entries)>> \in Seq(S) /\ Head(entries) = entries[1] /\ 1 \in 1..n
    BY <1>1, <1>4
  <2> HIDE DEF rest
  <2>5. /\ <<Head(entries)>> \o rest \in Seq(S)
        /\ Len(<<Head(entries)>> \o rest) = cap
        /\ \A i \in 1..cap :
             (<<Head(entries)>> \o rest)[i] = IF i = 1 THEN entries[1] ELSE rest[i - 1]
    BY <2>3, <2>4
  <2>6. \A i \in 1..cap :
          i # 1 => i - 1 \in 1..cap - 1 /\ i - 1 + (n - cap + 1) \in 1..n
    BY <1>1, <1>4
  <2>7. ASSUME NEW i \in 1..cap
        PROVE  \E j \in 1..n : (<<Head(entries)>> \o rest)[i] = entries[j]
    <3>1. CASE i = 1
      BY <2>4, <2>5, <3>1
    <3>2. CASE i # 1
      <4>1. rest[i - 1] = entries[i - 1 + (n - cap + 1)]
        BY <2>3, <2>6, <3>2
      <4> QED
        BY <2>5, <2>6, <3>2, <4>1
    <3> QED
      BY <3>1, <3>2
  <2> QED
    BY <2>1, <2>5, <2>7
<1> QED
  BY <1>2, <1>3, <1>4

(* The times of a window. *)
TimesOf(w) == UNION {Times(w.hits[s]) : s \in Slots}

LEMMA TimesOfType ==
  ASSUME NEW w \in Windows
  PROVE  /\ \A s \in Slots : w.hits[s] \in Seq(Entries)
         /\ \A s \in Slots : \A i \in 1..Len(w.hits[s]) :
              w.hits[s][i] \in Entries /\ w.hits[s][i].t \in TimesOf(w)
         /\ TimesOf(w) \subseteq 0..MaxTime
         /\ \A x \in TimesOf(w) : \E s \in Slots : \E i \in 1..Len(w.hits[s]) :
              w.hits[s][i].t = x
<1>1. \A s \in Slots : w.hits[s] \in Seq(Entries)
  BY DEF Windows
<1>2. \A s \in Slots : DOMAIN w.hits[s] = 1..Len(w.hits[s])
  BY <1>1
<1>3. \A s \in Slots : \A i \in 1..Len(w.hits[s]) : w.hits[s][i] \in Entries
  BY <1>1
<1>4. \A x : x \in TimesOf(w) <=>
        \E s \in Slots : \E i \in 1..Len(w.hits[s]) : w.hits[s][i].t = x
  BY <1>2 DEF TimesOf, Times
<1>5. \A e \in Entries : e.t \in 0..MaxTime
  BY DEF Entries
<1> QED
  BY <1>1, <1>3, <1>4, <1>5

LEMMA EntriesTimed == Timed(Entries) /\ Timed([t : 0..MaxTime])
  BY DEF Timed, Entries

LEMMA NewWindowType ==
  ASSUME NEW v, v \in {"event_count", "value_count", "value_sum", "temporal"}
  PROVE  /\ NewWindow(v) \in Windows /\ TimesOf(NewWindow(v)) = {}
         /\ IsEmpty(NewWindow(v))
<1>1. NewWindow(v) \in Windows
  BY DEF NewWindow, Windows
<1>2. \A s \in Slots : NewWindow(v).hits[s] = <<>>
  BY DEF NewWindow
<1>3. TimesOf(NewWindow(v)) = {}
  BY <1>2 DEF TimesOf, Times
<1>4. IsEmpty(NewWindow(v))
  BY <1>2 DEF IsEmpty, Full
<1> QED
  BY <1>1, <1>3, <1>4

(* The last entry of a window that is not empty is one of its entries. *)
LEMMA LatestType ==
  ASSUME NEW w \in Windows, ~IsEmpty(w)
  PROVE  Latest(w) \in TimesOf(w) /\ Latest(w) \in 0..MaxTime
<1> DEFINE L == {Last(w.hits[s]).t : s \in Full(w)}
<1>1. \A s \in Full(w) : Last(w.hits[s]).t \in TimesOf(w)
  <2> SUFFICES ASSUME NEW s \in Full(w) PROVE Last(w.hits[s]).t \in TimesOf(w)
    OBVIOUS
  <2>1. s \in Slots /\ w.hits[s] # <<>> /\ w.hits[s] \in Seq(Entries)
    BY TimesOfType DEF Full
  <2>2. Len(w.hits[s]) \in 1..Len(w.hits[s])
    BY <2>1
  <2> QED
    BY <2>1, <2>2, TimesOfType DEF Last
<1>2. L \subseteq TimesOf(w) /\ L \subseteq 0..MaxTime /\ L # {}
  BY <1>1, TimesOfType DEF IsEmpty
<1>3. \E x \in L : \A y \in L : y <= x
  <2> DEFINE I == {MaxTime - x : x \in L}
  <2>1. MaxTime \in Nat
    BY ConstantsAssumption
  <2> HIDE DEF L
  <2>2. I \in SUBSET Nat /\ I # {}
    <3>1. \A x \in L : MaxTime - x \in Nat
      BY <1>2, <2>1
    <3>2. PICK x \in L : TRUE
      BY <1>2
    <3>3. MaxTime - x \in I
      BY <3>2
    <3> QED
      BY <3>1, <3>3
  <2> HIDE DEF I
  <2>3. PICK i \in I : \A j \in I : i <= j
    BY <2>2, LeastNatural
  <2>4. PICK x \in L : i = MaxTime - x
    BY DEF I
  <2>5. \A y \in L : MaxTime - y \in I
    BY DEF I
  <2> QED
    BY <1>2, <2>1, <2>3, <2>4, <2>5
<1>4. Latest(w) \in L
  <2>1. Latest(w) = Max(L)
    BY DEF Latest
  <2> HIDE DEF L
  <2> QED
    BY <1>3, <2>1 DEF Max
<1> QED
  BY <1>2, <1>4

(* What the steps of an update do to a window: it stays a window of its     *)
(* variant, and no time comes into it but that of the entry pushed.         *)
LEMMA EvictType ==
  ASSUME NEW w \in Windows, NEW cutoff \in Int
  PROVE  /\ Evict(w, cutoff) \in Windows /\ Evict(w, cutoff).variant = w.variant
         /\ TimesOf(Evict(w, cutoff)) \subseteq TimesOf(w)
<1>1. ASSUME NEW s \in Slots
      PROVE  /\ FromFront(w.hits[s], cutoff) \in Seq(Entries)
             /\ \A i \in 1..Len(FromFront(w.hits[s], cutoff)) :
                  FromFront(w.hits[s], cutoff)[i].t \in TimesOf(w)
  <2>1. w.hits[s] \in Seq(Entries)
    BY TimesOfType
  <2> DEFINE q == w.hits[s]
             f == FromFront(w.hits[s], cutoff)
  <2>2. f \in Seq(Entries)
    BY <2>1, EntriesTimed, FromFrontType
  <2>3. PICK d \in 0..Len(q) : /\ Len(f) = Len(q) - d
                               /\ \A i \in 1..Len(q) - d : f[i] = q[i + d]
    BY <2>1, EntriesTimed, FromFrontType
  <2>4. Len(q) \in Nat
    BY <2>1
  <2>5. \A i \in 1..Len(q) : q[i].t \in TimesOf(w)
    BY TimesOfType
  <2> HIDE DEF f, q
  <2>6. \A i \in 1..Len(f) : i + d \in 1..Len(q) /\ f[i] = q[i + d]
    BY <2>3, <2>4
  <2>7. \A i \in 1..Len(f) : f[i].t \in TimesOf(w)
    BY <2>5, <2>6
  <2> QED
    BY <2>2, <2>7 DEF f
<1>2. /\ Evict(w, cutoff).variant = w.variant
      /\ Evict(w, cutoff).hits = [s \in Slots |-> FromFront(w.hits[s], cutoff)]
      /\ Evict(w, cutoff) \in Windows
  BY <1>1 DEF Evict, Windows
<1>3. TimesOf(Evict(w, cutoff)) \subseteq TimesOf(w)
  <2> SUFFICES ASSUME NEW x \in TimesOf(Evict(w, cutoff)) PROVE x \in TimesOf(w)
    OBVIOUS
  <2>1. PICK s \in Slots : \E i \in 1..Len(Evict(w, cutoff).hits[s]) :
          Evict(w, cutoff).hits[s][i].t = x
    BY <1>2, TimesOfType
  <2> QED
    BY <1>1, <1>2, <2>1
<1> QED
  BY <1>2, <1>3

LEMMA ClearType ==
  ASSUME NEW w \in Windows
  PROVE  /\ Clear(w) \in Windows /\ TimesOf(Clear(w)) = {} /\ IsEmpty(Clear(w))
         /\ Clear(w).variant = w.variant
  BY NewWindowType DEF Clear, Windows, NewWindow

LEMMA PushType ==
  ASSUME NEW w \in Windows, NEW slot \in Slots, NEW entry \in Entries
  PROVE  /\ Push(w, slot, entry) \in Windows
         /\ TimesOf(Push(w, slot, entry)) \subseteq TimesOf(w) \cup {entry.t}
<1> DEFINE p == Push(w, slot, entry)
<1>1. \A s \in Slots : w.hits[s] \in Seq(Entries)
  BY TimesOfType
<1>2. p.variant = w.variant /\ p.hits = [w.hits EXCEPT ![slot] = Append(@, entry)]
  BY DEF Push, Windows
<1>3. \A s \in Slots : p.hits[s] = IF s = slot THEN Append(w.hits[s], entry) ELSE w.hits[s]
  BY <1>2 DEF Windows
<1>4. Append(w.hits[slot], entry) \in Seq(Entries)
  BY <1>1
<1>5. p \in Windows
  BY <1>4 DEF Push, Windows
<1>6. TimesOf(p) \subseteq TimesOf(w) \cup {entry.t}
  <2> SUFFICES ASSUME NEW x \in TimesOf(p), x # entry.t PROVE x \in TimesOf(w)
    OBVIOUS
  <2> HIDE DEF p
  <2>1. PICK s \in Slots : \E i \in 1..Len(p.hits[s]) : p.hits[s][i].t = x
    BY <1>5, TimesOfType
  <2>2. PICK i \in 1..Len(p.hits[s]) : p.hits[s][i].t = x
    BY <2>1
  <2>3. \A j \in 1..Len(w.hits[s]) : w.hits[s][j].t \in TimesOf(w)
    BY TimesOfType
  <2>4. CASE s # slot
    BY <1>3, <2>2, <2>3, <2>4
  <2>5. CASE s = slot
    <3>1. p.hits[s] = Append(w.hits[s], entry) /\ w.hits[s] \in Seq(Entries)
      BY <1>1, <1>3, <2>5
    <3>2. i \in 1..Len(w.hits[s]) /\ p.hits[s][i] = w.hits[s][i]
      BY <2>2, <3>1
    <3> QED
      BY <2>2, <2>3, <3>2
  <2> QED
    BY <2>4, <2>5
<1> QED
  BY <1>5, <1>6

LEMMA TruncateType ==
  ASSUME NEW w \in Windows, NEW c \in CorrelationRule
  PROVE  Truncate(w, c) \in Windows /\ TimesOf(Truncate(w, c)) \subseteq TimesOf(w)
<1>0. c.cap \in Nat
  BY DEF CorrelationRule
<1>1. CASE c.cap = 0
  BY <1>1 DEF Truncate
<1>2. CASE c.cap # 0
  <2> DEFINE f(s) == Newest(w.hits[s], c.cap, c.mode = "session")
  <2>1. ASSUME NEW s \in Slots
        PROVE  /\ f(s) \in Seq(Entries)
               /\ \A i \in 1..Len(f(s)) : f(s)[i].t \in TimesOf(w)
    <3>1. w.hits[s] \in Seq(Entries) /\ c.cap \in Nat \ {0}
      BY <1>0, <1>2, TimesOfType
    <3>2. f(s) \in Seq(Entries)
      BY <3>1, NewestType
    <3>3. \A i \in 1..Len(f(s)) : \E j \in 1..Len(w.hits[s]) : f(s)[i] = w.hits[s][j]
      BY <3>1, NewestType
    <3>4. \A j \in 1..Len(w.hits[s]) : w.hits[s][j].t \in TimesOf(w)
      BY TimesOfType
    <3> HIDE DEF f
    <3> QED
      BY <3>2, <3>3, <3>4
  <2>2. /\ Truncate(w, c).hits = [s \in Slots |-> f(s)]
        /\ Truncate(w, c) \in Windows
    BY <1>2, <2>1 DEF Truncate, Windows
  <2>3. ASSUME NEW x \in TimesOf(Truncate(w, c)) PROVE x \in TimesOf(w)
    <3>1. PICK s \in Slots : \E i \in 1..Len(Truncate(w, c).hits[s]) :
            Truncate(w, c).hits[s][i].t = x
      BY <2>2, TimesOfType
    <3> HIDE DEF f
    <3> QED
      BY <2>1, <2>2, <3>1
  <2> QED
    BY <2>2, <2>3
<1> QED
  BY <1>1, <1>2

LEMMA OpenedType ==
  ASSUME NEW w \in Windows, NEW c \in CorrelationRule, NEW t \in 0..MaxTime
  PROVE  Opened(w, c, t) \in Windows /\ TimesOf(Opened(w, c, t)) \subseteq TimesOf(w)
<1>1. t - c.timespan \in Int
  BY DEF CorrelationRule
<1> QED
  BY <1>1, EvictType, ClearType DEF Opened

-----------------------------------------------------------------------------
(* Type correctness. *)

Variants == {"event_count", "value_count", "value_sum", "temporal"}

LEMMA WindowType ==
  ASSUME TypeOK, NEW k \in Keys, k[1] \in Loaded
  PROVE  /\ corr[k[1]] \in CorrelationRule
         /\ Window(k) \in Windows
         /\ k \notin DOMAIN state => TimesOf(Window(k)) = {} /\ IsEmpty(Window(k))
<1>1. corr[k[1]] \in CorrelationRule
  BY RuleOf DEF TypeOK
<1>2. Variant(corr[k[1]].type) \in Variants
  BY <1>1 DEF CorrelationRule, Variant, Variants, Temporal
<1>3. CASE k \in DOMAIN state
  BY <1>1, <1>3 DEF TypeOK, Window
<1>4. CASE k \notin DOMAIN state
  BY <1>1, <1>2, <1>4, NewWindowType DEF Window, Variants
<1> QED
  BY <1>3, <1>4

(* What an update reads and makes. *)
LEMMA UpdateType ==
  ASSUME TypeOK, event # None, NEW u \in Updates, Due(u, event)
  PROVE  /\ event \in Call
         /\ u.key \in Keys /\ u.key[1] \in Loaded /\ corr[u.key[1]] \in CorrelationRule
         /\ Slot(u) \in Slots /\ Entry(u) \in Entries /\ Entry(u).t = event.t
<1>1. event \in Call
  BY DEF TypeOK
<1>2. u.key \in Keys /\ u.key[1] \in Loaded /\ u.ref \in ToSet(corr[u.key[1]].refs)
  BY DEF Due, KeyFor, Refers
<1>3. corr[u.key[1]] \in CorrelationRule
  BY <1>2, RuleOf DEF TypeOK
<1>4. Slot(u) \in Slots
  <2>1. CASE corr[u.key[1]].type \in Temporal
    <3>1. ToSet(corr[u.key[1]].refs) \subseteq Names
      BY <1>2, <2>1, RulesAssumption DEF TypeOK, Loaded
    <3> QED
      BY <1>2, <2>1, <3>1 DEF Slot, Slots
  <2>2. CASE corr[u.key[1]].type \notin Temporal
    BY <2>2 DEF Slot, Slots
  <2> QED
    BY <2>1, <2>2
<1>5. Entry(u) \in Entries /\ Entry(u).t = event.t
  BY <1>1 DEF Entry, Entries, Call
<1> QED
  BY <1>1, <1>2, <1>3, <1>4, <1>5

LEMMA UpdatedType ==
  ASSUME TypeOK, event # None, NEW u \in Updates, Due(u, event)
  PROVE  LET opened == Opened(Window(u.key), corr[u.key[1]], event.t)
         IN  /\ Updated(u) \in Windows /\ opened \in Windows
             /\ TimesOf(opened) \subseteq TimesOf(Window(u.key))
             /\ TimesOf(Updated(u)) \subseteq TimesOf(opened) \cup {event.t}
<1> DEFINE c == corr[u.key[1]]
           opened == Opened(Window(u.key), c, event.t)
           pushed == Push(opened, Slot(u), Entry(u))
           filled == IF Adds(u) THEN pushed ELSE opened
<1>1. /\ event.t \in 0..MaxTime /\ c \in CorrelationRule
      /\ Slot(u) \in Slots /\ Entry(u) \in Entries /\ Entry(u).t = event.t
  BY UpdateType DEF Call
<1>2. Window(u.key) \in Windows
  BY UpdateType, WindowType
<1>3. opened \in Windows /\ TimesOf(opened) \subseteq TimesOf(Window(u.key))
  <2> HIDE DEF c
  <2> QED
    BY <1>1, <1>2, OpenedType
<1>4. pushed \in Windows /\ TimesOf(pushed) \subseteq TimesOf(opened) \cup {event.t}
  <2> HIDE DEF opened
  <2>1. /\ pushed \in Windows
        /\ TimesOf(pushed) \subseteq TimesOf(opened) \cup {Entry(u).t}
    BY <1>1, <1>3, PushType
  <2> QED
    BY <1>1, <2>1
<1>5. filled \in Windows /\ TimesOf(filled) \subseteq TimesOf(opened) \cup {event.t}
  <2> HIDE DEF opened, pushed
  <2> QED
    BY <1>3, <1>4
<1>6. Updated(u) = Truncate(filled, c)
  BY DEF Updated
<1>7. Truncate(filled, c) \in Windows /\ TimesOf(Truncate(filled, c)) \subseteq TimesOf(filled)
  <2> HIDE DEF filled, c
  <2> QED
    BY <1>1, <1>5, TruncateType
<1> HIDE DEF filled, pushed
<1> QED
  BY <1>3, <1>5, <1>6, <1>7

Buffers == Seq([t : 0..MaxTime])

(* A buffer at its limit makes room before it takes another event. *)
LEMMA UpdatedBufferType ==
  ASSUME TypeOK, event # None, NEW u \in Updates, Due(u, event),
         Len(buffer[u.key]) <= MaxBuffered
  PROVE  UpdatedBuffer(u) \in Buffers /\ Len(UpdatedBuffer(u)) <= MaxBuffered
<1> DEFINE k == u.key
           c == corr[k[1]]
           kept == IF c.mode = "sliding" THEN FromFront(buffer[k], event.t - c.timespan)
                   ELSE IF RollsOver(Window(k), c, event.t) THEN <<>> ELSE buffer[k]
           room == IF Len(kept) >= MaxBuffered THEN Tail(kept) ELSE kept
<1>1. /\ event.t \in 0..MaxTime /\ c.timespan \in Nat
      /\ buffer[k] \in Buffers /\ Len(buffer[k]) \in Nat /\ Len(buffer[k]) <= MaxBuffered
      /\ MaxBuffered \in Nat \ {0}
  <2>1. event.t \in 0..MaxTime /\ c.timespan \in Nat
    BY UpdateType DEF Call, CorrelationRule
  <2>2. buffer[k] \in Buffers
    BY UpdateType DEF TypeOK, Buffers
  <2>3. Len(buffer[k]) \in Nat
    BY <2>2 DEF Buffers
  <2> QED
    BY <2>1, <2>2, <2>3, ConstantsAssumption
<1>2. kept \in Buffers /\ Len(kept) <= Len(buffer[k]) /\ Len(kept) \in Nat
  <2>1. CASE c.mode = "sliding"
    <3> DEFINE f == FromFront(buffer[k], event.t - c.timespan)
    <3>1. event.t - c.timespan \in Int
      BY <1>1
    <3>2. /\ f \in Buffers
          /\ \E d \in 0..Len(buffer[k]) : Len(f) = Len(buffer[k]) - d
      <4> HIDE DEF c, k
      <4> QED
        BY <1>1, <3>1, EntriesTimed, FromFrontType DEF Buffers
    <3> HIDE DEF f
    <3>3. Len(f) <= Len(buffer[k]) /\ Len(f) \in Nat
      BY <1>1, <3>2
    <3> QED
      BY <2>1, <3>2, <3>3 DEF f
  <2>2. CASE c.mode # "sliding"
    <3>1. <<>> \in Buffers /\ Len(<<>>) = 0
      BY DEF Buffers
    <3> HIDE DEF c, k
    <3> QED
      BY <1>1, <2>2, <3>1
  <2> QED
    BY <2>1, <2>2
<1>3. room \in Buffers /\ Len(room) < MaxBuffered /\ Len(room) \in Nat
  <2> HIDE DEF kept, k
  <2> QED
    BY <1>1, <1>2 DEF Buffers
<1>4. /\ Append(room, [t |-> event.t]) \in Buffers
      /\ Len(Append(room, [t |-> event.t])) <= MaxBuffered
  <2>1. [t |-> event.t] \in [t : 0..MaxTime]
    BY <1>1
  <2> HIDE DEF room
  <2> QED
    BY <1>1, <1>3, <2>1 DEF Buffers
<1>5. UpdatedBuffer(u) = buffer[k] \/ UpdatedBuffer(u) = Append(room, [t |-> event.t])
  BY DEF UpdatedBuffer
<1> HIDE DEF room, k
<1> QED
  BY <1>1, <1>4, <1>5

(* What eviction does to one window, one buffer and one alert. *)
LEMMA AgedWindowType ==
  ASSUME TypeOK, NEW k \in DOMAIN state, k[1] \in Loaded, NEW t \in 0..MaxTime
  PROVE  AgedWindow(k, t) \in Windows /\ TimesOf(AgedWindow(k, t)) \subseteq TimesOf(state[k])
<1>1. state[k] \in Windows /\ corr[k[1]] \in CorrelationRule
  BY RuleOf DEF TypeOK
<1>2. t - corr[k[1]].timespan \in Int
  BY <1>1 DEF CorrelationRule
<1>3. \/ AgedWindow(k, t) = Evict(state[k], t - corr[k[1]].timespan)
      \/ AgedWindow(k, t) = Clear(state[k])
      \/ AgedWindow(k, t) = state[k]
  BY DEF AgedWindow
<1> QED
  BY <1>1, <1>2, <1>3, EvictType, ClearType

LEMMA AgedBufferType ==
  ASSUME TypeOK, NEW k \in Keys, k[1] \in Loaded, NEW t \in 0..MaxTime, NEW alive
  PROVE  AgedBuffer(k, alive, t) \in Buffers /\ Len(AgedBuffer(k, alive, t)) <= Len(buffer[k])
<1> DEFINE f == FromFront(buffer[k], t - corr[k[1]].timespan)
<1>1. buffer[k] \in Buffers
  BY DEF TypeOK, Buffers
<1>2. t - corr[k[1]].timespan \in Int
  <2>1. corr[k[1]] \in CorrelationRule
    BY RuleOf DEF TypeOK
  <2> QED
    BY <2>1 DEF CorrelationRule
<1>3. f \in Buffers /\ \E d \in 0..Len(buffer[k]) : Len(f) = Len(buffer[k]) - d
  BY <1>1, <1>2, EntriesTimed, FromFrontType DEF Buffers
<1>4. Len(buffer[k]) \in Nat /\ <<>> \in Buffers /\ Len(<<>>) = 0
  BY <1>1 DEF Buffers
<1>5. AgedBuffer(k, alive, t) \in {f, buffer[k], <<>>}
  BY DEF AgedBuffer
<1> HIDE DEF f
<1> QED
  BY <1>1, <1>3, <1>4, <1>5

Arrivals == Seq([slot : Slots, entry : Entries])

Evicted(t) ==
  /\ DOMAIN state' \subseteq DOMAIN state
  /\ state' \in [DOMAIN state' -> Windows]
  /\ \A k \in DOMAIN state' : TimesOf(state'[k]) \subseteq TimesOf(state[k])
  /\ buffer' \in [Keys -> Buffers]
  /\ \A k \in Keys : Len(buffer'[k]) <= Len(buffer[k])
  /\ lastAlert' \in Alerts /\ alerted' \in Alerts
  /\ \A k \in Keys : k[1] \notin Loaded /\ buffer[k] = <<>> /\ lastAlert[k] = None =>
       buffer'[k] = <<>> /\ lastAlert'[k] = None
  /\ \A k \in Keys : \/ alerted'[k] = None
                     \/ /\ alerted'[k] = alerted[k]
                        /\ \/ lastAlert'[k] = lastAlert[k]
                           \/ k[1] \notin Loaded
                           \/ t - lastAlert[k] >= corr[k[1]].suppress
  /\ arrived' \in [Keys -> Arrivals]

LEMMA MakeRoomType ==
  ASSUME TypeOK, NEW t \in 0..MaxTime, \A k \in DOMAIN state : k[1] \in Loaded, MakeRoom(t)
  PROVE  Evicted(t)
<1>1. CASE UNCHANGED <<state, buffer, lastAlert, arrived, alerted>>
  <2>1. buffer \in [Keys -> Buffers] /\ arrived \in [Keys -> Arrivals]
    BY DEF TypeOK, Buffers, Arrivals
  <2>2. \A k \in Keys : Len(buffer[k]) \in Nat
    BY <2>1 DEF Buffers
  <2> QED
    BY <1>1, <2>1, <2>2 DEF TypeOK, Evicted
<1>2. CASE EvictAll(t)
  <2> DEFINE alive == {k \in DOMAIN state : ~IsEmpty(AgedWindow(k, t))}
             aged == [k \in alive |-> AgedWindow(k, t)]
  <2>1. PICK gone \in Stalest(aged) :
          /\ state' = [k \in alive \ gone |-> aged[k]]
          /\ buffer' = [k \in Keys |->
               IF k \in gone \/ k[1] \notin Loaded THEN <<>> ELSE AgedBuffer(k, alive, t)]
          /\ lastAlert' = [k \in Keys |->
               IF k \in gone \/ k[1] \notin Loaded THEN None ELSE AgedAlert(k, alive, t)]
          /\ arrived' = [k \in Keys |-> IF k \in gone THEN <<>> ELSE arrived[k]]
          /\ alerted' = [k \in Keys |-> IF k \in gone THEN None ELSE alerted[k]]
    BY <1>2 DEF EvictAll
  <2>2. \A k \in DOMAIN state : /\ AgedWindow(k, t) \in Windows
                                /\ TimesOf(AgedWindow(k, t)) \subseteq TimesOf(state[k])
    BY AgedWindowType
  <2>3. /\ DOMAIN state' = alive \ gone /\ DOMAIN state' \subseteq DOMAIN state
        /\ \A k \in DOMAIN state' : state'[k] = AgedWindow(k, t)
    BY <2>1
  <2>4. state' \in [DOMAIN state' -> Windows]
    <3>1. state' = [k \in DOMAIN state' |-> state'[k]]
      BY <2>1
    <3> HIDE DEF alive, aged
    <3> QED
      BY <2>2, <2>3, <3>1
  <2>5. \A k \in DOMAIN state' : TimesOf(state'[k]) \subseteq TimesOf(state[k])
    <3> HIDE DEF alive, aged
    <3> QED
      BY <2>2, <2>3
  <2> HIDE DEF alive, aged
  <2>6. ASSUME NEW k \in Keys
        PROVE  buffer'[k] \in Buffers /\ Len(buffer'[k]) <= Len(buffer[k])
    <3>1. <<>> \in Buffers /\ Len(<<>>) = 0
      BY DEF Buffers
    <3>2. Len(buffer[k]) \in Nat
      BY DEF TypeOK
    <3>3. CASE k \in gone \/ k[1] \notin Loaded
      BY <2>1, <3>1, <3>2, <3>3
    <3>4. CASE ~(k \in gone \/ k[1] \notin Loaded)
      BY <2>1, <3>4, AgedBufferType
    <3> QED
      BY <3>3, <3>4
  <2>7. buffer' \in [Keys -> Buffers]
    <3>1. buffer' = [k \in Keys |-> buffer'[k]]
      BY <2>1
    <3> QED
      BY <2>6, <3>1
  <2>8. \A k \in Keys : \/ lastAlert'[k] = lastAlert[k]
                        \/ /\ lastAlert'[k] = None
                           /\ \/ k \in gone \/ k[1] \notin Loaded
                              \/ lastAlert[k] = None
                              \/ ~(t - lastAlert[k] < corr[k[1]].suppress)
    BY <2>1 DEF AgedAlert
  <2>9. lastAlert' \in Alerts /\ alerted' \in Alerts
    <3>1. /\ DOMAIN lastAlert' = Keys /\ DOMAIN alerted' = Keys
          /\ lastAlert' = [k \in Keys |-> lastAlert'[k]]
          /\ alerted' = [k \in Keys |-> alerted'[k]]
      BY <2>1
    <3>2. \A k \in Keys : lastAlert[k] \in 0..MaxTime \cup {None}
                          /\ alerted[k] \in 0..MaxTime \cup {None}
      BY DEF TypeOK, Alerts
    <3>3. \A k \in Keys : lastAlert'[k] \in 0..MaxTime \cup {None}
      BY <2>8, <3>2
    <3>4. \A k \in Keys : alerted'[k] \in 0..MaxTime \cup {None}
      BY <2>1, <3>2
    <3> QED
      BY <3>1, <3>3, <3>4 DEF Alerts
  <2>10. ASSUME NEW k \in Keys, k[1] \notin Loaded
         PROVE  buffer'[k] = <<>> /\ lastAlert'[k] = None
    BY <2>1, <2>10
  <2>11. ASSUME NEW k \in Keys
         PROVE  \/ alerted'[k] = None
                \/ /\ alerted'[k] = alerted[k]
                   /\ \/ lastAlert'[k] = lastAlert[k]
                      \/ k[1] \notin Loaded
                      \/ t - lastAlert[k] >= corr[k[1]].suppress
    <3>1. alerted'[k] = IF k \in gone THEN None ELSE alerted[k]
      BY <2>1
    <3>2. CASE k \in gone
      BY <3>1, <3>2
    <3>3. CASE k \notin gone /\ k[1] \in Loaded /\ lastAlert[k] # None
      <4>1. lastAlert[k] \in Int /\ corr[k[1]].suppress \in Int /\ t \in Int
        BY <3>3, RuleOf DEF TypeOK, Alerts, CorrelationRule
      <4> QED
        BY <2>8, <3>1, <3>3, <4>1
    <3>4. CASE k \notin gone /\ ~(k[1] \in Loaded /\ lastAlert[k] # None)
      BY <2>8, <3>1, <3>4
    <3> QED
      BY <3>2, <3>3, <3>4
  <2>12. arrived' \in [Keys -> Arrivals]
    <3>1. \A k \in Keys : arrived[k] \in Arrivals
      BY DEF TypeOK, Arrivals
    <3>2. <<>> \in Arrivals
      BY DEF Arrivals
    <3> QED
      BY <2>1, <3>1, <3>2
  <2> QED
    BY <2>3, <2>4, <2>5, <2>6, <2>7, <2>9, <2>10, <2>11, <2>12 DEF Evicted
<1> QED
  BY <1>1, <1>2 DEF MakeRoom

-----------------------------------------------------------------------------
(* Type correctness.  What is still to do in a call is due for its event,   *)
(* and nothing is kept for a correlation that is not loaded: without both   *)
(* the rule an update or an eviction reads might not be there.              *)

CallOK ==
  /\ event = None => work = <<>> /\ fired = <<>> /\ depth = 0
  /\ event # None => event.t = now
  /\ \A i \in 1..Len(work) : Due(work[i], event)
  /\ \A i \in 1..Len(fired) : KeyFor(fired[i], event)

Kept ==
  /\ \A k \in DOMAIN state : k[1] \in Loaded
  /\ \A k \in Keys : Len(buffer[k]) <= MaxBuffered
  /\ \A k \in Keys : k[1] \notin Loaded => buffer[k] = <<>> /\ lastAlert[k] = None

IInv == TypeOK /\ CallOK /\ Kept

LEMMA HeadOfWork ==
  ASSUME TypeOK, CallOK, work # <<>>
  PROVE  /\ event # None /\ Head(work) \in Updates /\ Due(Head(work), event)
         /\ Tail(work) \in Seq(Updates)
         /\ \A i \in 1..Len(Tail(work)) : /\ Tail(work)[i] \in Updates
                                          /\ Due(Tail(work)[i], event)
<1>1. work \in Seq(Updates)
  BY DEF TypeOK
<1>2. /\ Head(work) = work[1] /\ work[1] \in Updates /\ Tail(work) \in Seq(Updates)
      /\ Len(Tail(work)) = Len(work) - 1 /\ Len(work) >= 1 /\ Len(work) \in Nat
      /\ \A i \in 1..Len(Tail(work)) : Tail(work)[i] = work[i + 1]
  BY <1>1, QueueHead
<1>3. \A i \in 1..Len(Tail(work)) : i + 1 \in 1..Len(work)
  BY <1>2
<1>4. 1 \in 1..Len(work)
  BY <1>2
<1>5. \A i \in 1..Len(Tail(work)) : Tail(work)[i] \in Updates /\ Due(Tail(work)[i], event)
  BY <1>1, <1>2, <1>3 DEF CallOK
<1> QED
  BY <1>2, <1>4, <1>5 DEF CallOK

LEMMA WithType ==
  ASSUME TypeOK, NEW k \in Keys, NEW w \in Windows
  PROVE  /\ DOMAIN With(k, w) = {k} \cup DOMAIN state /\ DOMAIN With(k, w) \subseteq Keys
         /\ With(k, w) \in [DOMAIN With(k, w) -> Windows]
         /\ With(k, w)[k] = w
         /\ \A j \in DOMAIN state : j # k => With(k, w)[j] = state[j]
  BY DEF TypeOK, With

(* What a window is due, for the updates of one round. *)
LEMMA DueFromType ==
  ASSUME TypeOK, event # None, NEW k,
         NEW rest \in Seq(Updates), \A i \in 1..Len(rest) : Due(rest[i], event)
  PROVE  DueFrom(k, rest) \in Arrivals
<1> DEFINE mine == {n \in DOMAIN rest : rest[n].key = k /\ CountsFirings(k[1])}
           later == At(rest, mine)
           made(n) == [slot |-> Slot(later[n]), entry |-> Entry(later[n])]
<1>1. \A i \in 1..Len(rest) : rest[i] \in Updates /\ Due(rest[i], event)
  OBVIOUS
<1>2. DOMAIN rest = 1..Len(rest) /\ mine \in SUBSET (1..Len(rest))
  BY <1>1
<1>3. /\ Cardinality(mine) \in Nat /\ DOMAIN later = 1..Cardinality(mine)
      /\ \A n \in DOMAIN later : \E i \in mine : later[n] = rest[i]
  <2> HIDE DEF mine
  <2> QED
    BY <1>1, <1>2, AtType
<1>4. ASSUME NEW n \in 1..Cardinality(mine)
      PROVE  made(n) \in [slot : Slots, entry : Entries]
  <2>1. PICK i \in mine : later[n] = rest[i]
    BY <1>3
  <2>2. later[n] \in Updates /\ Due(later[n], event)
    <3> HIDE DEF later, mine
    <3> QED
      BY <1>1, <1>2, <2>1
  <2>3. Slot(later[n]) \in Slots /\ Entry(later[n]) \in Entries
    <3> HIDE DEF later
    <3> QED
      BY <1>1, <2>2, UpdateType
  <2> HIDE DEF later
  <2> QED
    BY <2>3
<1>5. [n \in 1..Cardinality(mine) |-> made(n)] \in Arrivals
  <2>1. [n \in 1..Cardinality(mine) |-> made(n)]
          \in [1..Cardinality(mine) -> [slot : Slots, entry : Entries]]
    <3> HIDE DEF made, mine
    <3> QED
      BY <1>4
  <2> HIDE DEF made, mine
  <2> QED
    BY <1>3, <2>1, Sequence DEF Arrivals
<1>6. DueFrom(k, rest) = [n \in 1..Cardinality(mine) |-> made(n)]
  BY <1>3 DEF DueFrom
<1> HIDE DEF made, mine
<1> QED
  BY <1>5, <1>6

LEMMA StillDueType ==
  ASSUME TypeOK, CallOK, work # <<>>, NEW k
  PROVE  StillDue(k) \in Arrivals
<1>1. /\ event # None /\ Tail(work) \in Seq(Updates)
      /\ \A i \in 1..Len(Tail(work)) : Due(Tail(work)[i], event)
  BY HeadOfWork
<1>2. DueFrom(k, Tail(work)) \in Arrivals
  BY <1>1, DueFromType
<1>3. <<>> \in Arrivals
  BY DEF Arrivals
<1> QED
  BY <1>2, <1>3 DEF StillDue

(* What a window is due when a round begins. *)
LEMMA DueType ==
  ASSUME IInv, event # None, NEW k \in Keys
  PROVE  FiringsDue(k) \in Arrivals /\ arrived[k] \o FiringsDue(k) \in Arrivals
<1> DEFINE I == {n \in DOMAIN fired : /\ Refers(k[1], fired[n][1]) /\ CountsFirings(k[1])
                                      /\ ChainGroup(k[1], fired[n][2]) = k[2]
                                      /\ \A m \in 1..n - 1 : fired[m][1] # fired[n][1]}
           due == At(fired, I)
           slot(n) == IF corr[k[1]].type \in Temporal THEN due[n][1] ELSE Plain
           made(n) == [slot |-> slot(n), entry |-> [t |-> event.t, v |-> None]]
<1>1. fired \in Seq(Keys) /\ event \in Call /\ arrived[k] \in Arrivals /\ corr \in RuleSets
  BY DEF IInv, TypeOK, Arrivals
<1>0. I \in SUBSET (1..Len(fired)) /\ \A n \in I : Refers(k[1], fired[n][1])
  BY <1>1
<1>2. /\ Cardinality(I) \in Nat /\ DOMAIN due = 1..Cardinality(I)
      /\ \A n \in DOMAIN due : \E i \in I : due[n] = fired[i]
  <2> HIDE DEF I
  <2> QED
    BY <1>0, <1>1, AtType
<1>3. [t |-> event.t, v |-> None] \in Entries
  BY <1>1 DEF Call, Entries
<1>4. ASSUME NEW n \in 1..Cardinality(I) PROVE slot(n) \in Slots
  <2>1. PICK i \in I : due[n] = fired[i]
    BY <1>2
  <2>2. Refers(k[1], due[n][1])
    BY <1>0, <2>1
  <2> HIDE DEF due
  <2>3. k[1] \in Loaded /\ due[n][1] \in ToSet(corr[k[1]].refs)
    BY <2>2 DEF Refers
  <2>4. CASE corr[k[1]].type \in Temporal
    <3>1. ToSet(corr[k[1]].refs) \subseteq Names
      BY <1>1, <2>3, <2>4, RulesAssumption DEF Loaded
    <3> QED
      BY <2>3, <2>4, <3>1 DEF Slots
  <2>5. CASE corr[k[1]].type \notin Temporal
    BY <2>5 DEF Slots
  <2> QED
    BY <2>4, <2>5
<1>5. \A n \in 1..Cardinality(I) : made(n) \in [slot : Slots, entry : Entries]
  <2> HIDE DEF slot
  <2> QED
    BY <1>3, <1>4
<1>6. [n \in 1..Cardinality(I) |-> made(n)] \in Arrivals
  <2>1. [n \in 1..Cardinality(I) |-> made(n)]
          \in [1..Cardinality(I) -> [slot : Slots, entry : Entries]]
    <3> HIDE DEF made
    <3> QED
      BY <1>5
  <2> HIDE DEF made
  <2> QED
    BY <1>2, <2>1, Sequence DEF Arrivals
<1>7. FiringsDue(k) = [n \in 1..Cardinality(I) |-> made(n)]
  BY <1>2 DEF FiringsDue
<1> HIDE DEF made, I
<1> QED
  BY <1>1, <1>6, <1>7 DEF Arrivals

LEMMA InitType == Init => IInv
<1> SUFFICES ASSUME Init PROVE IInv
  OBVIOUS
<1>1. {MaxTime, MaxEvents, MaxReloads, MaxDepth, MaxBuffered} \subseteq Nat
  BY ConstantsAssumption
<1>2. TypeOK
  <2>1. corr \in RuleSets /\ event \in Call \cup {None} /\ ordered \in BOOLEAN
    BY DEF Init
  <2>2. DOMAIN state \subseteq Keys /\ state \in [DOMAIN state -> Windows]
    BY DEF Init
  <2>3. buffer \in [Keys -> Seq([t : 0..MaxTime])]
    BY DEF Init
  <2>4. lastAlert \in Alerts /\ alerted \in Alerts
    BY DEF Init, Alerts
  <2>5. work \in Seq(Updates) /\ fired \in Seq(Keys)
    BY DEF Init
  <2>6. /\ depth \in 0..MaxDepth /\ received \in 0..MaxEvents /\ reloads \in 0..MaxReloads
        /\ now \in 0..MaxTime
    BY <1>1 DEF Init
  <2>7. arrived \in [Keys -> Seq([slot : Slots, entry : Entries])]
    BY DEF Init
  <2> QED
    BY <2>1, <2>2, <2>3, <2>4, <2>5, <2>6, <2>7 DEF TypeOK
<1>3. CallOK
  BY DEF CallOK, Init
<1>4. Kept
  BY <1>1 DEF Kept, Init
<1> QED
  BY <1>2, <1>3, <1>4 DEF IInv

LEMMA ReceiveType ==
  ASSUME IInv, NEW e \in Events, NEW t \in 0..MaxTime, Receive(e, t)
  PROVE  IInv' /\ Evicted(t)
<1>1. /\ event = None /\ received < MaxEvents /\ received' = received + 1
      /\ MakeRoom(t)
      /\ event' = [rules |-> e.rules, group |-> e.group, value |-> e.value, t |-> t]
      /\ work' = DirectWork(e) /\ now' = t /\ ordered' = (ordered /\ t >= now)
      /\ UNCHANGED <<corr, fired, depth, reloads>>
  BY DEF Receive, Idle
<1>2. Evicted(t)
  BY <1>1, MakeRoomType DEF IInv, Kept
<1>3. event' \in Call /\ event' # None /\ e.group \in Grouping
  BY <1>1, ConstantsAssumption DEF Call
<1>4. /\ DirectWork(e) \in Seq(Updates)
      /\ \A i \in 1..Len(DirectWork(e)) : Due(DirectWork(e)[i], e)
  BY <1>3, DirectWorkType DEF IInv, TypeOK
<1>5. \A u : Due(u, e) => Due(u, event)'
  BY <1>1 DEF Due, KeyFor, Refers, Loaded
<1>6. TypeOK'
  <2>1. corr' \in RuleSets /\ event' \in Call \cup {None} /\ ordered' \in BOOLEAN
    BY <1>1, <1>3 DEF IInv, TypeOK
  <2>2. DOMAIN state' \subseteq Keys /\ state' \in [DOMAIN state' -> Windows]
    BY <1>2 DEF IInv, TypeOK, Evicted
  <2>3. buffer' \in [Keys -> Seq([t : 0..MaxTime])]
    BY <1>2 DEF Evicted, Buffers
  <2>4. lastAlert' \in Alerts /\ alerted' \in Alerts
    BY <1>2 DEF Evicted
  <2>5. work' \in Seq(Updates) /\ fired' \in Seq(Keys)
    BY <1>1, <1>4 DEF IInv, TypeOK
  <2>6. /\ depth' \in 0..MaxDepth /\ received' \in 0..MaxEvents /\ reloads' \in 0..MaxReloads
        /\ now' \in 0..MaxTime
    <3>1. received \in 0..MaxEvents /\ MaxEvents \in Nat
      BY ConstantsAssumption DEF IInv, TypeOK
    <3>2. received + 1 \in 0..MaxEvents
      BY <1>1, <3>1
    <3> QED
      BY <1>1, <3>2 DEF IInv, TypeOK
  <2>7. arrived' \in [Keys -> Seq([slot : Slots, entry : Entries])]
    BY <1>2 DEF Evicted, Arrivals
  <2> QED
    BY <2>1, <2>2, <2>3, <2>4, <2>5, <2>6, <2>7 DEF TypeOK
<1>7. CallOK'
  <2>1. \A i \in 1..Len(work') : Due(work[i], event)'
    BY <1>1, <1>4, <1>5
  <2>2. fired' = <<>>
    BY <1>1 DEF IInv, CallOK
  <2>3. event'.t = now'
    BY <1>1
  <2> QED
    BY <1>3, <2>1, <2>2, <2>3 DEF CallOK
<1>8. Kept'
  <2>1. \A k \in DOMAIN state' : k[1] \in Loaded'
    BY <1>1, <1>2 DEF IInv, Kept, Evicted, Loaded
  <2>2. ASSUME NEW k \in Keys PROVE Len(buffer'[k]) <= MaxBuffered
    <3>1. Len(buffer'[k]) <= Len(buffer[k]) /\ Len(buffer[k]) <= MaxBuffered
      BY <1>2 DEF IInv, Kept, Evicted
    <3>2. Len(buffer[k]) \in Nat /\ MaxBuffered \in Nat /\ Len(buffer'[k]) \in Nat
      <4>1. buffer'[k] \in Buffers /\ buffer[k] \in Buffers
        BY <1>2 DEF Evicted, IInv, TypeOK, Buffers
      <4> QED
        BY <4>1, ConstantsAssumption DEF Buffers
    <3> QED
      BY <3>1, <3>2
  <2>3. \A k \in Keys : k[1] \notin Loaded' => buffer'[k] = <<>> /\ lastAlert'[k] = None
    BY <1>1, <1>2 DEF IInv, Kept, Evicted, Loaded
  <2> QED
    BY <2>1, <2>2, <2>3 DEF Kept
<1> QED
  BY <1>2, <1>6, <1>7, <1>8 DEF IInv

(* While a call is worked off, what is due stays due. *)
LEMMA SameCall ==
  ASSUME UNCHANGED <<corr, event>>
  PROVE  /\ Loaded' = Loaded
         /\ \A u : Due(u, event)' <=> Due(u, event)
         /\ \A k : KeyFor(k, event)' <=> KeyFor(k, event)
  BY DEF Due, KeyFor, Refers, Loaded

LEMMA DiscardType ==
  ASSUME IInv, Discard
  PROVE  IInv'
<1> DEFINE k == Head(work).key
<1>1. /\ work # <<>> /\ state' = With(k, Window(k)) /\ work' = Tail(work)
      /\ UNCHANGED <<corr, buffer, lastAlert, event, fired, depth, received, reloads, history>>
  BY DEF Discard
<1>2. /\ event # None /\ Head(work) \in Updates /\ Due(Head(work), event)
      /\ Tail(work) \in Seq(Updates)
      /\ \A i \in 1..Len(Tail(work)) : Due(Tail(work)[i], event)
  BY <1>1, HeadOfWork DEF IInv
<1>3. k \in Keys /\ k[1] \in Loaded /\ Window(k) \in Windows
  BY <1>2, UpdateType, WindowType DEF IInv
<1>4. /\ DOMAIN state' = {k} \cup DOMAIN state /\ DOMAIN state' \subseteq Keys
      /\ state' \in [DOMAIN state' -> Windows]
  <2> HIDE DEF k
  <2> QED
    BY <1>1, <1>3, WithType DEF IInv
<1>5. TypeOK'
  <2> HIDE DEF k
  <2> QED
    BY <1>1, <1>2, <1>4 DEF IInv, TypeOK, history
<1>6. CallOK'
  <2>1. \A i \in 1..Len(work') : Due(work[i], event)'
    BY <1>1, <1>2, SameCall
  <2>2. \A i \in 1..Len(fired') : KeyFor(fired[i], event)'
    BY <1>1, SameCall DEF IInv, CallOK
  <2> QED
    BY <1>1, <1>2, <2>1, <2>2 DEF IInv, CallOK, history
<1>7. Kept'
  <2> HIDE DEF k
  <2> QED
    BY <1>1, <1>3, <1>4, SameCall DEF IInv, Kept
<1> QED
  BY <1>5, <1>6, <1>7 DEF IInv

LEMMA CountType ==
  ASSUME IInv, Count
  PROVE  IInv'
<1> DEFINE u == Head(work)
           k == u.key
           c == corr[k[1]]
           w == Updated(u)
           fires == Satisfied(c, w) /\ ~Suppressed(k)
           resets == fires /\ c.reset
           stored == IF resets THEN Clear(w) ELSE w
           kept == IF resets /\ Direct THEN <<>> ELSE UpdatedBuffer(u)
           added == IF resets THEN StillDue(k)
                    ELSE IF Direct /\ Adds(u)
                      THEN Append(arrived[k], [slot |-> Slot(u), entry |-> Entry(u)])
                    ELSE arrived[k]
<1>1. /\ work # <<>> /\ state' = With(k, stored) /\ work' = Tail(work)
      /\ lastAlert' = IF fires THEN [lastAlert EXCEPT ![k] = event.t] ELSE lastAlert
      /\ alerted' = IF fires THEN [alerted EXCEPT ![k] = event.t] ELSE alerted
      /\ fired' = IF fires THEN Append(fired, k) ELSE fired
      /\ UNCHANGED <<corr, event, depth, received, reloads, now, ordered>>
  BY DEF Count
<1>2. /\ buffer' = [buffer EXCEPT ![k] = kept]
      /\ arrived' = [arrived EXCEPT ![k] = added]
  BY DEF Count
<1>3. /\ event # None /\ u \in Updates /\ Due(u, event)
      /\ Tail(work) \in Seq(Updates)
      /\ \A i \in 1..Len(Tail(work)) : Due(Tail(work)[i], event)
  BY <1>1, HeadOfWork DEF IInv
<1> HIDE DEF u
<1>4. /\ event \in Call /\ k \in Keys /\ k[1] \in Loaded /\ KeyFor(k, event)
      /\ Slot(u) \in Slots /\ Entry(u) \in Entries
  BY <1>3, UpdateType DEF IInv, Due
<1>5. w \in Windows /\ Clear(w) \in Windows
  <2>1. w \in Windows
    BY <1>3, UpdatedType DEF IInv
  <2> HIDE DEF w
  <2> QED
    BY <2>1, ClearType
<1>6. stored \in Windows
  BY <1>5
<1>7. kept \in Buffers /\ Len(kept) <= MaxBuffered
  <2>1. UpdatedBuffer(u) \in Buffers /\ Len(UpdatedBuffer(u)) <= MaxBuffered
    BY <1>3, <1>4, UpdatedBufferType DEF IInv, Kept
  <2>2. <<>> \in Buffers /\ Len(<<>>) = 0 /\ MaxBuffered \in Nat
    BY ConstantsAssumption DEF Buffers
  <2>3. 0 <= MaxBuffered
    BY <2>2
  <2> QED
    BY <2>1, <2>2, <2>3
<1>8. added \in Arrivals
  <2>1. arrived[k] \in Arrivals
    BY <1>4 DEF IInv, TypeOK, Arrivals
  <2>2. StillDue(k) \in Arrivals
    BY <1>1, StillDueType DEF IInv
  <2>3. Append(arrived[k], [slot |-> Slot(u), entry |-> Entry(u)]) \in Arrivals
    BY <1>4, <2>1 DEF Arrivals
  <2> QED
    BY <2>1, <2>2, <2>3
<1>9. event.t \in 0..MaxTime
  BY <1>4 DEF Call
<1> HIDE DEF k, stored, kept, added, fires
<1>10. /\ DOMAIN state' = {k} \cup DOMAIN state /\ DOMAIN state' \subseteq Keys
       /\ state' \in [DOMAIN state' -> Windows]
  BY <1>1, <1>4, <1>6, WithType DEF IInv
<1>11. buffer \in [Keys -> Buffers] /\ arrived \in [Keys -> Arrivals]
  BY DEF IInv, TypeOK, Buffers, Arrivals
<1>12. TypeOK'
  <2>1. buffer' \in [Keys -> Seq([t : 0..MaxTime])]
    BY <1>2, <1>7, <1>11 DEF Buffers
  <2>2. lastAlert' \in Alerts /\ alerted' \in Alerts
    BY <1>1, <1>4, <1>9 DEF IInv, TypeOK, Alerts
  <2>3. fired' \in Seq(Keys)
    BY <1>1, <1>4 DEF IInv, TypeOK
  <2>4. arrived' \in [Keys -> Seq([slot : Slots, entry : Entries])]
    BY <1>2, <1>8, <1>11 DEF Arrivals
  <2> QED
    BY <1>1, <1>3, <1>10, <2>1, <2>2, <2>3, <2>4 DEF IInv, TypeOK
<1>13. CallOK'
  <2>1. \A i \in 1..Len(work') : Due(work[i], event)'
    BY <1>1, <1>3, SameCall
  <2>2. \A i \in 1..Len(fired') : KeyFor(fired'[i], event)
    <3>1. fired \in Seq(Keys) /\ \A i \in 1..Len(fired) : KeyFor(fired[i], event)
      BY DEF IInv, TypeOK, CallOK
    <3> QED
      BY <1>1, <1>4, <3>1
  <2>3. \A i \in 1..Len(fired') : KeyFor(fired[i], event)'
    BY <1>1, <2>2, SameCall
  <2> QED
    BY <1>1, <1>3, <2>1, <2>3 DEF IInv, CallOK
<1>14. Kept'
  <2>1. Loaded' = Loaded
    BY <1>1, SameCall
  <2>2. \A j \in DOMAIN state' : j[1] \in Loaded'
    BY <1>4, <1>10, <2>1 DEF IInv, Kept
  <2>3. \A j \in Keys : Len(buffer'[j]) <= MaxBuffered
    BY <1>2, <1>7, <1>11 DEF IInv, Kept
  <2>4. \A j \in Keys : j[1] \notin Loaded' => buffer'[j] = <<>> /\ lastAlert'[j] = None
    <3>1. \A j \in Keys : j # k => buffer'[j] = buffer[j] /\ lastAlert'[j] = lastAlert[j]
      BY <1>1, <1>2, <1>11 DEF IInv, TypeOK, Alerts
    <3> QED
      BY <1>4, <2>1, <3>1 DEF IInv, Kept
  <2> QED
    BY <2>2, <2>3, <2>4 DEF Kept
<1> QED
  BY <1>12, <1>13, <1>14 DEF IInv

LEMMA ChainType ==
  ASSUME IInv, Chain
  PROVE  IInv'
<1>1. /\ work = <<>> /\ fired # <<>> /\ depth < MaxDepth
      /\ work' = ChainWork(fired) /\ fired' = <<>> /\ depth' = depth + 1
      /\ UNCHANGED <<engine, event, received, reloads, now, ordered, alerted>>
  BY DEF Chain
<1>2. arrived' = [k \in Keys |-> arrived[k] \o FiringsDue(k)]
  BY DEF Chain
<1>3. UNCHANGED <<corr, state, buffer, lastAlert, event>>
  BY <1>1 DEF engine
<1>4. event # None
  BY <1>1 DEF IInv, CallOK
<1>5. /\ ChainWork(fired) \in Seq(Updates)
      /\ \A i \in 1..Len(ChainWork(fired)) : Due(ChainWork(fired)[i], event)
  BY ChainWorkType DEF IInv, TypeOK, CallOK
<1>6. ASSUME NEW k \in Keys PROVE arrived[k] \o FiringsDue(k) \in Arrivals
  BY <1>4, DueType
<1>7. arrived' \in [Keys -> Arrivals]
  BY <1>2, <1>6
<1>8. TypeOK'
  <2>1. depth' \in 0..MaxDepth
    <3>1. depth \in 0..MaxDepth
      BY DEF IInv, TypeOK
    <3>2. MaxDepth \in Nat
      BY ConstantsAssumption
    <3> QED
      BY <1>1, <3>1, <3>2
  <2>2. arrived' \in [Keys -> Seq([slot : Slots, entry : Entries])]
    BY <1>7 DEF Arrivals
  <2>3. work' \in Seq(Updates) /\ fired' \in Seq(Keys)
    BY <1>1, <1>5
  <2> QED
    BY <1>1, <1>3, <2>1, <2>2, <2>3 DEF IInv, TypeOK
<1>9. CallOK'
  <2>1. \A i \in 1..Len(work') : Due(work[i], event)'
    BY <1>1, <1>3, <1>5, SameCall
  <2> QED
    BY <1>1, <1>4, <2>1 DEF IInv, CallOK
<1>10. Kept'
  BY <1>3, SameCall DEF IInv, Kept
<1> QED
  BY <1>8, <1>9, <1>10 DEF IInv

LEMMA ReturnType ==
  ASSUME IInv, Return
  PROVE  IInv'
<1>1. /\ event' = None /\ fired' = <<>> /\ depth' = 0 /\ work = <<>>
      /\ UNCHANGED <<engine, work, received, reloads, history>>
  BY DEF Return
<1>2. 0 \in 0..MaxDepth
  BY ConstantsAssumption
<1>3. TypeOK'
  <2>1. UNCHANGED <<corr, state, buffer, lastAlert, received, reloads, now, ordered,
                    arrived, alerted>>
    BY <1>1 DEF engine, history
  <2>2. work' \in Seq(Updates) /\ fired' \in Seq(Keys)
    BY <1>1
  <2>3. event' \in Call \cup {None} /\ depth' \in 0..MaxDepth
    BY <1>1, <1>2
  <2> QED
    BY <2>1, <2>2, <2>3 DEF IInv, TypeOK
<1>4. CallOK'
  BY <1>1 DEF CallOK
<1>5. Kept'
  BY <1>1 DEF IInv, Kept, engine, Loaded
<1> QED
  BY <1>3, <1>4, <1>5 DEF IInv

LEMMA ReloadType ==
  ASSUME IInv, NEW R \in RuleSets, Reload(R)
  PROVE  IInv'
<1> DEFINE Stays(k) == R[k[1]] # None
<1>1. /\ event = None /\ reloads < MaxReloads /\ reloads' = reloads + 1 /\ corr' = R
      /\ UNCHANGED <<call, received, now, ordered>>
  BY DEF Reload, Idle
<1>2. /\ state' = [k \in {j \in DOMAIN state : Stays(j)} |-> state[k]]
      /\ buffer' = [k \in Keys |-> IF Stays(k) THEN buffer[k] ELSE <<>>]
      /\ lastAlert' = [k \in Keys |-> IF Stays(k) THEN lastAlert[k] ELSE None]
      /\ arrived' = [k \in Keys |-> IF Stays(k) THEN arrived[k] ELSE <<>>]
      /\ alerted' = [k \in Keys |-> IF Stays(k) THEN alerted[k] ELSE None]
  BY DEF Reload
<1>3. UNCHANGED <<event, work, fired, depth>> /\ work = <<>> /\ fired = <<>> /\ depth = 0
  BY <1>1 DEF call, IInv, CallOK
<1>4. \A k \in Keys : k[1] \in Loaded' <=> Stays(k)
  BY <1>1 DEF Loaded, Keys
<1> HIDE DEF Stays
<1>5. TypeOK'
  <2>1. DOMAIN state' \subseteq Keys /\ state' \in [DOMAIN state' -> Windows]
    BY <1>2 DEF IInv, TypeOK
  <2>2. buffer' \in [Keys -> Seq([t : 0..MaxTime])]
    <3>1. \A k \in Keys : buffer[k] \in Seq([t : 0..MaxTime])
      BY DEF IInv, TypeOK
    <3>2. <<>> \in Seq([t : 0..MaxTime])
      OBVIOUS
    <3> QED
      BY <1>2, <3>1, <3>2
  <2>3. lastAlert' \in Alerts /\ alerted' \in Alerts
    BY <1>2 DEF IInv, TypeOK, Alerts
  <2>4. arrived' \in [Keys -> Seq([slot : Slots, entry : Entries])]
    <3>1. \A k \in Keys : arrived[k] \in Seq([slot : Slots, entry : Entries])
      BY DEF IInv, TypeOK
    <3>2. <<>> \in Seq([slot : Slots, entry : Entries])
      OBVIOUS
    <3> QED
      BY <1>2, <3>1, <3>2
  <2>5. reloads' \in 0..MaxReloads
    BY <1>1, ConstantsAssumption DEF IInv, TypeOK
  <2> QED
    BY <1>1, <1>3, <2>1, <2>2, <2>3, <2>4, <2>5 DEF IInv, TypeOK
<1>6. CallOK'
  BY <1>1, <1>3 DEF CallOK
<1>7. Kept'
  <2>1. \A k \in DOMAIN state' : k[1] \in Loaded'
    BY <1>2, <1>4 DEF IInv, TypeOK
  <2>2. ASSUME NEW k \in Keys PROVE Len(buffer'[k]) <= MaxBuffered
    <3>1. Len(buffer[k]) <= MaxBuffered /\ Len(<<>>) = 0 /\ 0 <= MaxBuffered
      BY ConstantsAssumption DEF IInv, Kept
    <3> QED
      BY <1>2, <3>1
  <2>3. \A k \in Keys : k[1] \notin Loaded' => buffer'[k] = <<>> /\ lastAlert'[k] = None
    BY <1>2, <1>4
  <2> QED
    BY <2>1, <2>2, <2>3 DEF Kept
<1> QED
  BY <1>5, <1>6, <1>7 DEF IInv

LEMMA StutterType ==
  ASSUME IInv, UNCHANGED vars
  PROVE  IInv'
<1>1. UNCHANGED <<corr, state, buffer, lastAlert, event, work, fired, depth, received, reloads,
                  now, ordered, arrived, alerted>>
  BY DEF vars, engine, call, history
<1> QED
  BY <1>1, SameCall DEF IInv, TypeOK, CallOK, Kept

LEMMA TypeStep == IInv /\ [Next]_vars => IInv'
<1> SUFFICES ASSUME IInv, [Next]_vars PROVE IInv'
  OBVIOUS
<1>1. CASE \E e \in Events, t \in 0..MaxTime : Receive(e, t)
  BY <1>1, ReceiveType
<1>2. CASE Discard
  BY <1>2, DiscardType
<1>3. CASE Count
  BY <1>3, CountType
<1>4. CASE Chain
  BY <1>4, ChainType
<1>5. CASE Return
  BY <1>5, ReturnType
<1>6. CASE \E R \in RuleSets : Reload(R)
  BY <1>6, ReloadType
<1>7. CASE UNCHANGED vars
  BY <1>7, StutterType
<1> HIDE DEF IInv, vars
<1> QED
  BY <1>1, <1>2, <1>3, <1>4, <1>5, <1>6, <1>7 DEF Next

LEMMA IInvHolds == Spec => []IInv
BY InitType, TypeStep, PTL DEF Spec

(* The engine's maps are well formed in every state it can reach, and an    *)
(* update always finds the rule it is for: of event, groups, round and      *)
(* correlation alike (process_with_detection_identities, evict_all,         *)
(* import_state).                                                           *)
THEOREM TypeCorrect == Spec => [](TypeOK /\ CallOK)
<1>1. IInv => TypeOK /\ CallOK
  BY DEF IInv
<1> QED
  BY IInvHolds, <1>1, PTL

-----------------------------------------------------------------------------
(* The state limit.  All but fewer than max_state_entries of the windows    *)
(* can be told apart by their correlation and a field of an event: while a  *)
(* call runs, they are the windows its event may touch.  The bound alone is *)
(* not inductive: a reload that drops a correlation lowers it, and what it  *)
(* takes away must be windows of that correlation.                          *)

(* F gives the windows K fields that tell those of one correlation apart. *)
ToldApart(F, K) ==
  /\ F \in [K -> Fields]
  /\ \A j, k \in K : j[1] = k[1] /\ F[j] = F[k] => j = k

Room ==
  \E B \in SUBSET DOMAIN state :
    /\ IsFiniteSet(B) /\ Cardinality(B) < MaxState
    /\ \E F : ToldApart(F, DOMAIN state \ B)
    /\ event # None => \A k \in DOMAIN state \ B : KeyFor(k, event)

LEMMA LoadedFinite ==
  /\ IsFiniteSet(Corrs)
  /\ IsFiniteSet(Loaded) /\ Cardinality(Loaded) \in Nat
<1> DEFINE m == Len(CorrOrder)
<1>1. CorrOrder \in Seq(Corrs) /\ m \in Nat /\ DOMAIN CorrOrder = 1..m
  BY ConstantsAssumption
<1>2. CorrOrder \in Surjection(1..m, Corrs)
  <2>1. CorrOrder \in [1..m -> Corrs]
    BY <1>1
  <2>2. \A c \in Corrs : \E i \in 1..m : CorrOrder[i] = c
    BY <1>1 DEF Corrs, ToSet
  <2> QED
    BY <2>1, <2>2 DEF Surjection
<1>3. IsFiniteSet(Corrs)
  BY <1>1, <1>2, FS_Interval, FS_Surjection
<1> QED
  BY <1>3, FS_Subset, FS_CardinalityType DEF Loaded

LEMMA RoomBound ==
  ASSUME Kept, Room
  PROVE  /\ IsFiniteSet(DOMAIN state) /\ Cardinality(DOMAIN state) \in Nat
         /\ Cardinality(DOMAIN state) < MaxState + Cardinality(Loaded) * Cardinality(Fields)
         /\ event # None => Cardinality({k \in DOMAIN state : ~KeyFor(k, event)}) < MaxState
<1>1. PICK B \in SUBSET DOMAIN state :
        /\ IsFiniteSet(B) /\ Cardinality(B) < MaxState
        /\ \E F : ToldApart(F, DOMAIN state \ B)
        /\ event # None => \A k \in DOMAIN state \ B : KeyFor(k, event)
  BY DEF Room
<1> DEFINE rest == DOMAIN state \ B
           most == Cardinality(Loaded) * Cardinality(Fields)
<1>2. PICK F : ToldApart(F, rest)
  BY <1>1
<1> DEFINE f == [k \in rest |-> <<k[1], F[k]>>]
<1>2a. f \in Injection(rest, Loaded \X Fields)
  <2>1. \A k \in rest : k[1] \in Loaded
    BY DEF Kept
  <2> HIDE DEF rest
  <2>2. f \in [rest -> Loaded \X Fields]
    BY <1>2, <2>1 DEF ToldApart
  <2>3. \A j, k \in rest : f[j] = f[k] => j = k
    BY <1>2 DEF ToldApart
  <2> HIDE DEF f
  <2> QED
    BY <2>2, <2>3 DEF Injection, IsInjective
<1>2b. /\ IsFiniteSet(Loaded \X Fields) /\ Cardinality(Loaded \X Fields) = most
       /\ most \in Nat
  <2>1. IsFiniteSet(Loaded) /\ IsFiniteSet(Fields)
    BY LoadedFinite, ConstantsAssumption
  <2>2. Cardinality(Loaded \X Fields) \in Nat
    BY <2>1, FS_Product, FS_CardinalityType
  <2> QED
    BY <2>1, <2>2, FS_Product
<1>3. IsFiniteSet(rest) /\ Cardinality(rest) <= most
  <2> HIDE DEF f, rest, most
  <2> QED
    BY <1>2a, <1>2b, FS_Injection
<1> HIDE DEF most
<1>4. /\ Cardinality(B) \in Nat /\ Cardinality(rest) \in Nat
      /\ Cardinality(B \cap rest) = 0 /\ MaxState \in Nat
  <2>1. B \cap rest = {}
    OBVIOUS
  <2> HIDE DEF rest
  <2> QED
    BY <1>1, <1>3, <2>1, FS_CardinalityType, FS_EmptySet, ConstantsAssumption
<1>5. /\ IsFiniteSet(B \cup rest)
      /\ Cardinality(B \cup rest) = Cardinality(B) + Cardinality(rest) - Cardinality(B \cap rest)
  <2> HIDE DEF rest
  <2> QED
    BY <1>1, <1>3, FS_Union
<1>6. DOMAIN state = B \cup rest
  OBVIOUS
<1>7. event # None => Cardinality({k \in DOMAIN state : ~KeyFor(k, event)}) < MaxState
  <2> SUFFICES ASSUME event # None
               PROVE  Cardinality({k \in DOMAIN state : ~KeyFor(k, event)}) < MaxState
    OBVIOUS
  <2> DEFINE others == {k \in DOMAIN state : ~KeyFor(k, event)}
  <2>1. others \in SUBSET B
    BY <1>1
  <2> HIDE DEF others
  <2>2. Cardinality(others) \in Nat /\ Cardinality(others) <= Cardinality(B)
    BY <1>1, <2>1, FS_Subset, FS_CardinalityType
  <2>3. Cardinality(others) < MaxState
    BY <1>1, <1>4, <2>2
  <2> QED
    BY <2>3 DEF others
<1>8. /\ IsFiniteSet(DOMAIN state) /\ Cardinality(DOMAIN state) \in Nat
      /\ Cardinality(DOMAIN state) < MaxState + most
  <2> HIDE DEF rest
  <2> QED
    BY <1>1, <1>2b, <1>3, <1>4, <1>5, <1>6
<1> QED
  BY <1>7, <1>8 DEF most

LEMMA RestOf ==
  ASSUME NEW S, IsFiniteSet(S), NEW T \in SUBSET S
  PROVE  /\ IsFiniteSet(S \ T) /\ Cardinality(S \ T) \in Nat
         /\ Cardinality(S \ T) = Cardinality(S) - Cardinality(T)
<1> DEFINE rest == S \ T
<1>1. IsFiniteSet(T) /\ Cardinality(T) \in Nat
  BY FS_Subset, FS_CardinalityType
<1>2. IsFiniteSet(rest) /\ Cardinality(rest) \in Nat
  BY FS_Subset, FS_CardinalityType
<1>3. S = rest \cup T /\ rest \cap T = {}
  OBVIOUS
<1> HIDE DEF rest
<1>4. Cardinality(rest \cup T) = Cardinality(rest) + Cardinality(T) - Cardinality(rest \cap T)
  BY <1>1, <1>2, FS_Union
<1>5. Cardinality(rest \cap T) = 0
  BY <1>3, FS_EmptySet
<1>6. Cardinality(S) = Cardinality(rest \cup T)
  BY <1>3
<1>7. Cardinality(S) = Cardinality(rest) + Cardinality(T)
  BY <1>1, <1>2, <1>4, <1>5, <1>6
<1>8. Cardinality(rest) = Cardinality(S) - Cardinality(T)
  BY <1>1, <1>2, <1>7
<1> QED
  BY <1>2, <1>8 DEF rest

(* Eviction brings the windows below the limit, whatever it chooses to take. *)
LEMMA MakeRoomBound ==
  ASSUME IsFiniteSet(DOMAIN state), NEW t \in 0..MaxTime, MakeRoom(t)
  PROVE  IsFiniteSet(DOMAIN state') /\ Cardinality(DOMAIN state') < MaxState
<1>0. MaxState \in Nat \ {0} /\ Cardinality(DOMAIN state) \in Nat
  BY ConstantsAssumption, FS_CardinalityType
<1>1. CASE Cardinality(DOMAIN state) < MaxState
  <2>1. state' = state
    BY <1>0, <1>1 DEF MakeRoom
  <2> QED
    BY <1>1, <2>1
<1>2. CASE ~(Cardinality(DOMAIN state) < MaxState)
  <2> DEFINE alive == {k \in DOMAIN state : ~IsEmpty(AgedWindow(k, t))}
             aged == [k \in alive |-> AgedWindow(k, t)]
             target == (MaxState * 9) \div 10
  <2>1. PICK gone \in Stalest(aged) : state' = [k \in alive \ gone |-> aged[k]]
    <3>1. EvictAll(t)
      BY <1>0, <1>2 DEF MakeRoom
    <3> QED
      BY <3>1 DEF EvictAll
  <2>2. IsFiniteSet(alive) /\ Cardinality(alive) \in Nat
    <3>1. alive \in SUBSET DOMAIN state
      OBVIOUS
    <3> HIDE DEF alive
    <3> QED
      BY <3>1, FS_Subset, FS_CardinalityType
  <2>3. DOMAIN state' = alive \ gone /\ DOMAIN aged = alive
    BY <2>1
  <2>4. target \in Nat /\ target < MaxState
    BY <1>0
  <2> HIDE DEF alive, aged
  <2>5. CASE Cardinality(alive) < MaxState
    <3>1. gone = {}
      BY <2>1, <2>3, <2>5 DEF Stalest
    <3>2. DOMAIN state' = alive
      BY <2>3, <3>1
    <3> QED
      BY <2>2, <2>5, <3>2
  <2>6. CASE ~(Cardinality(alive) < MaxState)
    <3>1. gone \in SUBSET alive /\ Cardinality(gone) = Cardinality(alive) - target
      BY <2>1, <2>3, <2>6 DEF Stalest
    <3>2. /\ IsFiniteSet(alive \ gone) /\ Cardinality(alive \ gone) \in Nat
          /\ Cardinality(alive \ gone) = Cardinality(alive) - Cardinality(gone)
      BY <2>2, <3>1, RestOf
    <3> HIDE DEF target
    <3>3. Cardinality(alive \ gone) = target
      BY <2>2, <2>4, <3>1, <3>2
    <3> QED
      BY <2>3, <2>4, <3>2, <3>3
  <2> QED
    BY <2>5, <2>6
<1> QED
  BY <1>1, <1>2

LEMMA NoneToldApart == \E F : ToldApart(F, {})
<1>1. ToldApart([k \in {} |-> k], {})
  BY DEF ToldApart
<1> QED
  BY <1>1

LEMMA FewerToldApart ==
  ASSUME NEW F, NEW K, ToldApart(F, K), NEW J \in SUBSET K
  PROVE  \E G : ToldApart(G, J)
<1> DEFINE G == [k \in J |-> F[k]]
<1>1. G \in [J -> Fields] /\ \A k \in J : G[k] = F[k]
  BY DEF ToldApart
<1> HIDE DEF G
<1>2. ToldApart(G, J)
  BY <1>1 DEF ToldApart
<1> QED
  BY <1>2

LEMMA RoomInit == Init => Room
<1> SUFFICES ASSUME Init PROVE Room
  OBVIOUS
<1>1. DOMAIN state = {} /\ event = None /\ MaxState \in Nat \ {0}
  BY ConstantsAssumption DEF Init
<1>2. IsFiniteSet({}) /\ Cardinality({}) = 0
  BY FS_EmptySet
<1>3. Cardinality({}) < MaxState
  BY <1>1, <1>2
<1>4. \E F : ToldApart(F, {})
  BY NoneToldApart
<1> QED
  BY <1>1, <1>2, <1>3, <1>4 DEF Room

(* A window is stored only for a key the event may touch. *)
LEMMA StoreRoom ==
  ASSUME IInv, Room, UNCHANGED <<corr, event>>, NEW k, KeyFor(k, event), event # None,
         DOMAIN state' = {k} \cup DOMAIN state
  PROVE  Room'
<1>1. PICK B \in SUBSET DOMAIN state :
        /\ IsFiniteSet(B) /\ Cardinality(B) < MaxState
        /\ \A j \in DOMAIN state \ B : KeyFor(j, event)
  BY DEF Room
<1>2. \A j \in DOMAIN state' \ B : KeyFor(j, event)
  BY <1>1
<1> DEFINE K == DOMAIN state' \ B
           names(j, f) == j[2] = IF corr[j[1]].grouped THEN event.group[f] ELSE All
           F == [j \in K |-> CHOOSE f \in Fields : names(j, f)]
<1>3. \A j \in K : \E f \in Fields : names(j, f)
  <2> SUFFICES ASSUME NEW j \in K PROVE \E f \in Fields : names(j, f)
    OBVIOUS
  <2>1. IF corr[j[1]].grouped THEN \E f \in Fields : j[2] = event.group[f] ELSE j[2] = All
    BY <1>2 DEF KeyFor
  <2> QED
    BY <2>1, ConstantsAssumption
<1>3a. \A j \in K : F[j] \in Fields /\ names(j, F[j])
  <2> HIDE DEF names, K
  <2> QED
    BY <1>3
<1>3b. ASSUME NEW j \in K, NEW l \in K, j[1] = l[1], F[j] = F[l] PROVE j = l
  <2>1. j[2] = l[2]
    <3> HIDE DEF F, K
    <3> QED
      BY <1>3a, <1>3b
  <2>2. \A i \in Keys : i = <<i[1], i[2]>>
    BY DEF Keys
  <2>3. j \in Keys /\ l \in Keys
    BY <1>2 DEF KeyFor
  <2> HIDE DEF F, K
  <2> QED
    BY <1>3b, <2>1, <2>2, <2>3
<1>4. \E G : ToldApart(G, DOMAIN state' \ B)
  <2>1. F \in [K -> Fields]
    <3> HIDE DEF names, K
    <3> QED
      BY <1>3a
  <2>2. ToldApart(F, K)
    <3> HIDE DEF F, K
    <3> QED
      BY <1>3b, <2>1 DEF ToldApart
  <2> QED
    BY <2>2
<1> HIDE DEF F
<1>5. \A j \in DOMAIN state' \ B : KeyFor(j, event)'
  BY <1>2, SameCall
<1>6. B \in SUBSET DOMAIN state'
  OBVIOUS
<1> QED
  BY <1>1, <1>4, <1>5, <1>6 DEF Room

LEMMA RoomStep == IInv /\ Room /\ [Next]_vars => Room'
<1> SUFFICES ASSUME IInv, Room, [Next]_vars PROVE Room'
  OBVIOUS
<1>1. CASE \E e \in Events, t \in 0..MaxTime : Receive(e, t)
  <2>1. PICK e \in Events, t \in 0..MaxTime : Receive(e, t)
    BY <1>1
  <2>2. IsFiniteSet(DOMAIN state') /\ Cardinality(DOMAIN state') < MaxState
    BY <2>1, RoomBound, MakeRoomBound DEF IInv, Receive
  <2>3. DOMAIN state' \ DOMAIN state' = {}
    OBVIOUS
  <2>4. \E F : ToldApart(F, {})
    BY NoneToldApart
  <2> QED
    BY <2>2, <2>3, <2>4 DEF Room
<1>2. CASE Discard
  <2>1. Due(Head(work), event) /\ event # None /\ Window(Head(work).key) \in Windows
    BY <1>2, HeadOfWork, WindowType DEF IInv, Discard, Due, KeyFor
  <2>2. DOMAIN state' = {Head(work).key} \cup DOMAIN state
    BY <1>2 DEF Discard, With
  <2> QED
    BY <1>2, <2>1, <2>2, StoreRoom DEF Discard, Due
<1>3. CASE Count
  <2>1. Due(Head(work), event) /\ event # None
    BY <1>3, HeadOfWork DEF IInv, Count
  <2>2. DOMAIN state' = {Head(work).key} \cup DOMAIN state
    BY <1>3 DEF Count, With
  <2>3. UNCHANGED <<corr, event>>
    BY <1>3 DEF Count
  <2> QED
    BY <2>1, <2>2, <2>3, StoreRoom DEF Due
<1>4. CASE Chain
  <2>1. UNCHANGED <<corr, state, event>>
    BY <1>4 DEF Chain, engine
  <2> QED
    BY <2>1, SameCall DEF Room
<1>5. CASE Return
  <2>1. UNCHANGED <<corr, state>> /\ event' = None
    BY <1>5 DEF Return, engine
  <2> QED
    BY <2>1 DEF Room
<1>6. CASE \E R \in RuleSets : Reload(R)
  <2>1. DOMAIN state' \subseteq DOMAIN state /\ event' = None
    BY <1>6 DEF Reload, Idle, call
  <2>2. PICK B \in SUBSET DOMAIN state :
          /\ IsFiniteSet(B) /\ Cardinality(B) < MaxState
          /\ \E F : ToldApart(F, DOMAIN state \ B)
    BY DEF Room
  <2> DEFINE C == B \cap DOMAIN state'
  <2>3. C \in SUBSET B /\ C \in SUBSET DOMAIN state'
    OBVIOUS
  <2>4. IsFiniteSet(C) /\ Cardinality(C) < MaxState
    <3>1. IsFiniteSet(C) /\ Cardinality(C) <= Cardinality(B)
      BY <2>2, <2>3, FS_Subset
    <3>2. Cardinality(C) \in Nat /\ Cardinality(B) \in Nat /\ MaxState \in Nat
      BY <2>2, <3>1, FS_CardinalityType, ConstantsAssumption
    <3> QED
      BY <2>2, <3>1, <3>2
  <2>5. \E F : ToldApart(F, DOMAIN state' \ C)
    <3>1. PICK F : ToldApart(F, DOMAIN state \ B)
      BY <2>2
    <3>2. DOMAIN state' \ C \in SUBSET (DOMAIN state \ B)
      BY <2>1
    <3> QED
      BY <3>1, <3>2, FewerToldApart
  <2> QED
    BY <2>1, <2>3, <2>4, <2>5 DEF Room
<1>7. CASE UNCHANGED vars
  <2>1. UNCHANGED <<corr, state, event>>
    BY <1>7 DEF vars, engine, call
  <2> QED
    BY <2>1, SameCall DEF Room
<1> HIDE DEF IInv, Room, vars
<1> QED
  BY <1>1, <1>2, <1>3, <1>4, <1>5, <1>6, <1>7 DEF Next

(* Fewer than max_state_entries windows are of other groups than those of   *)
(* the event, at every moment of a call, and between calls the limit is     *)
(* exceeded by less than a window per loaded correlation and field, across  *)
(* reloads and whichever windows the hard cap takes (evict_all,             *)
(* update_correlation).  Every event buffer keeps its limit, and a reload   *)
(* leaves nothing behind of a correlation it dropped.                       *)
THEOREM LimitHolds == Spec => []StateBounded
<1>1. IInv /\ Room => StateBounded
  <2> SUFFICES ASSUME IInv, Room PROVE StateBounded
    OBVIOUS
  <2>1. /\ Cardinality(DOMAIN state) < MaxState + Cardinality(Loaded) * Cardinality(Fields)
        /\ event # None => Cardinality({k \in DOMAIN state : ~KeyFor(k, event)}) < MaxState
    BY RoomBound DEF IInv
  <2> QED
    BY <2>1 DEF StateBounded, IInv, Kept
<1>2. Init => IInv /\ Room
  BY InitType, RoomInit
<1>3. (IInv /\ Room) /\ [Next]_vars => (IInv /\ Room)'
  BY TypeStep, RoomStep
<1> QED
  BY <1>1, <1>2, <1>3, PTL DEF Spec

-----------------------------------------------------------------------------
(* Tumbling windows. *)

(* All times of the window w of correlation c are of one bucket. *)
Bucketed(w, c) ==
  c.mode = "tumbling" =>
    \A x, y \in TimesOf(w) : BucketStart(x, c.timespan) = BucketStart(y, c.timespan)

AllBucketed == \A k \in DOMAIN state : Bucketed(state[k], corr[k[1]])

LEMMA BucketType ==
  ASSUME NEW c \in CorrelationRule, NEW t \in 0..MaxTime
  PROVE  BucketStart(t, c.timespan) \in Int
<1>1. c.timespan \in Nat /\ c.timespan > 0
  BY DEF CorrelationRule
<1> QED
  BY <1>1 DEF BucketStart

(* An event that is not late joins a window of its own bucket, or one that  *)
(* it has emptied.                                                          *)
LEMMA OpenedBucketed ==
  ASSUME NEW w \in Windows, NEW c \in CorrelationRule, NEW t \in 0..MaxTime,
         Bucketed(w, c), ~Late(w, c, t), c.mode = "tumbling"
  PROVE  \A x \in TimesOf(Opened(w, c, t)) : BucketStart(x, c.timespan) = BucketStart(t, c.timespan)
<1>1. c.timespan > 0
  BY DEF CorrelationRule
<1>2. CASE RollsOver(w, c, t)
  <2>1. Opened(w, c, t) = Clear(w)
    BY <1>2 DEF Opened
  <2> QED
    BY <2>1, ClearType
<1>3. CASE ~RollsOver(w, c, t)
  <2>1. Opened(w, c, t) = w
    BY <1>3 DEF Opened
  <2>2. CASE IsEmpty(w)
    <3>1. \A s \in Slots : w.hits[s] = <<>>
      BY <2>2 DEF IsEmpty, Full
    <3>2. TimesOf(w) = {}
      BY <3>1 DEF TimesOf, Times
    <3> QED
      BY <2>1, <3>2
  <2>3. CASE ~IsEmpty(w)
    <3>1. Latest(w) \in TimesOf(w) /\ Latest(w) \in 0..MaxTime
      BY <2>3, LatestType
    <3>2. /\ ~(BucketStart(t, c.timespan) < BucketStart(Latest(w), c.timespan))
          /\ ~(BucketStart(t, c.timespan) > BucketStart(Latest(w), c.timespan))
      BY <1>1, <1>3, <2>3 DEF Late, RollsOver
    <3>3. /\ BucketStart(t, c.timespan) \in Int
          /\ BucketStart(Latest(w), c.timespan) \in Int
      BY <3>1, BucketType
    <3>4. BucketStart(t, c.timespan) = BucketStart(Latest(w), c.timespan)
      BY <3>2, <3>3
    <3> QED
      BY <2>1, <3>1, <3>4 DEF Bucketed
  <2> QED
    BY <2>2, <2>3
<1> QED
  BY <1>2, <1>3

LEMMA UpdatedBucketed ==
  ASSUME IInv, AllBucketed, event # None, NEW u \in Updates, Due(u, event),
         ~Late(Window(u.key), corr[u.key[1]], event.t)
  PROVE  Bucketed(Updated(u), corr[u.key[1]])
<1> DEFINE c == corr[u.key[1]]
           w == Window(u.key)
           opened == Opened(w, c, event.t)
<1>1. event.t \in 0..MaxTime /\ c \in CorrelationRule /\ w \in Windows
  BY UpdateType, WindowType DEF IInv, Call
<1>2. Bucketed(w, c)
  <2>1. CASE u.key \in DOMAIN state
    BY <2>1 DEF AllBucketed, Window
  <2>2. CASE u.key \notin DOMAIN state
    <3>1. TimesOf(w) = {}
      BY <2>2, UpdateType, WindowType DEF IInv
    <3> HIDE DEF w
    <3> QED
      BY <3>1 DEF Bucketed
  <2> QED
    BY <2>1, <2>2
<1>3. TimesOf(Updated(u)) \subseteq TimesOf(opened) \cup {event.t}
  BY UpdatedType DEF IInv
<1>4. ~Late(w, c, event.t)
  OBVIOUS
<1>5. c.mode = "tumbling" =>
        \A x \in TimesOf(opened) : BucketStart(x, c.timespan) = BucketStart(event.t, c.timespan)
  <2> HIDE DEF c, w
  <2> QED
    BY <1>1, <1>2, <1>4, OpenedBucketed
<1> HIDE DEF opened, w
<1> QED
  BY <1>3, <1>5 DEF Bucketed

(* Buckets survive every step that leaves or thins the windows. *)
LEMMA ThinnedBucketed ==
  ASSUME AllBucketed, corr' = corr, DOMAIN state' \subseteq DOMAIN state,
         \A k \in DOMAIN state' : TimesOf(state'[k]) \subseteq TimesOf(state[k])
  PROVE  AllBucketed'
  BY DEF AllBucketed, Bucketed, TimesOf, Times

LEMMA BucketStep ==
  ASSUME RulesKept
  PROVE  IInv /\ AllBucketed /\ [Next]_vars => AllBucketed'
<1> SUFFICES ASSUME IInv, AllBucketed, [Next]_vars PROVE AllBucketed'
  OBVIOUS
<1>1. CASE \E e \in Events, t \in 0..MaxTime : Receive(e, t)
  <2>1. PICK e \in Events, t \in 0..MaxTime : Receive(e, t)
    BY <1>1
  <2>2. Evicted(t) /\ corr' = corr
    BY <2>1, ReceiveType DEF Receive
  <2> QED
    BY <2>2, ThinnedBucketed DEF Evicted
<1>2. CASE Discard
  <2> DEFINE k == Head(work).key
  <2>1. k \in Keys /\ k[1] \in Loaded
    BY <1>2, HeadOfWork DEF IInv, Discard, Due, KeyFor
  <2>2. corr' = corr /\ state' = With(k, Window(k)) /\ Window(k) \in Windows
    BY <1>2, <2>1, WindowType DEF IInv, Discard
  <2> HIDE DEF k
  <2>3. Bucketed(Window(k), corr[k[1]])
    <3>1. CASE k \in DOMAIN state
      BY <3>1 DEF AllBucketed, Window
    <3>2. CASE k \notin DOMAIN state
      BY <2>1, <3>2, WindowType DEF IInv, Bucketed
    <3> QED
      BY <3>1, <3>2
  <2>4. \A j \in DOMAIN state' : Bucketed(state'[j], corr[j[1]])
    BY <2>2, <2>3 DEF AllBucketed, With
  <2> QED
    BY <2>2, <2>4 DEF AllBucketed, Bucketed, TimesOf
<1>3. CASE Count
  <2> DEFINE u == Head(work)
             k == u.key
  <2>1. /\ u \in Updates /\ Due(u, event) /\ event # None
        /\ ~Late(Window(k), corr[k[1]], event.t) /\ corr' = corr
    BY <1>3, HeadOfWork DEF IInv, Count
  <2>2. PICK w : state' = With(k, w) /\ w \in {Updated(u), Clear(Updated(u))}
    BY <1>3 DEF Count
  <2> HIDE DEF u
  <2>3. Bucketed(w, corr[k[1]])
    <3>1. Bucketed(Updated(u), corr[k[1]])
      BY <2>1, UpdatedBucketed
    <3>2. TimesOf(Clear(Updated(u))) = {}
      <4>1. Updated(u) \in Windows
        BY <2>1, UpdatedType DEF IInv
      <4> QED
        BY <4>1, ClearType
    <3>3. Bucketed(Clear(Updated(u)), corr[k[1]])
      BY <3>2 DEF Bucketed
    <3> QED
      BY <2>2, <3>1, <3>3
  <2> HIDE DEF k
  <2>4. \A j \in DOMAIN state' : Bucketed(state'[j], corr[j[1]])
    BY <2>2, <2>3 DEF AllBucketed, With
  <2> QED
    BY <2>1, <2>4 DEF AllBucketed, Bucketed, TimesOf
<1>4. CASE Chain
  BY <1>4, ThinnedBucketed DEF Chain, engine
<1>5. CASE Return
  BY <1>5, ThinnedBucketed DEF Return, engine
<1>6. CASE \E R \in RuleSets : Reload(R)
  <2>1. PICK R \in RuleSets : Reload(R)
    BY <1>6
  <2>2. /\ corr' = R /\ corr \in RuleSets
        /\ DOMAIN state' \subseteq DOMAIN state
        /\ \A k \in DOMAIN state' : state'[k] = state[k] /\ R[k[1]] # None
    BY <2>1 DEF Reload, IInv, TypeOK
  <2>3. \A k \in DOMAIN state' : /\ R[k[1]].mode = corr[k[1]].mode
                                 /\ R[k[1]].timespan = corr[k[1]].timespan
    <3>1. \A k \in DOMAIN state : k[1] \in Corrs /\ corr[k[1]] # None
      BY DEF IInv, Kept, Loaded
    <3> QED
      BY <2>2, <3>1 DEF RulesKept
  <2>4. \A k \in DOMAIN state' : Bucketed(state'[k], R[k[1]])
    BY <2>2, <2>3 DEF AllBucketed, Bucketed
  <2> QED
    BY <2>2, <2>4 DEF AllBucketed, Bucketed, TimesOf
<1>7. CASE UNCHANGED vars
  BY <1>7, ThinnedBucketed DEF vars, engine
<1> HIDE DEF IInv, AllBucketed, vars
<1> QED
  BY <1>1, <1>2, <1>3, <1>4, <1>5, <1>6, <1>7 DEF Next

(* A tumbling window never mixes two buckets (apply_window_open), however   *)
(* late events come, whatever eviction and the per-group cap take from it   *)
(* in between, and across reloads that keep its correlation as it is.       *)
THEOREM BucketsHold == RulesKept /\ Spec => []OneBucket
<1> SUFFICES ASSUME RulesKept PROVE Spec => []OneBucket
  OBVIOUS
<1>1. AllBucketed => OneBucket
  <2> SUFFICES ASSUME AllBucketed, NEW k \in DOMAIN state, corr[k[1]].mode = "tumbling",
                      NEW s \in Full(state[k]), NEW r \in Full(state[k]),
                      NEW x \in Times(state[k].hits[s]), NEW y \in Times(state[k].hits[r])
               PROVE  BucketStart(x, corr[k[1]].timespan) = BucketStart(y, corr[k[1]].timespan)
    BY DEF OneBucket
  <2>1. x \in TimesOf(state[k]) /\ y \in TimesOf(state[k])
    BY DEF TimesOf, Full
  <2> QED
    BY <2>1 DEF AllBucketed, Bucketed
<1>2. Init => AllBucketed
  BY DEF Init, AllBucketed
<1>3. (IInv /\ AllBucketed) /\ [Next]_vars => (IInv /\ AllBucketed)'
  BY TypeStep, BucketStep
<1>4. Init => IInv /\ AllBucketed
  BY <1>2, InitType
<1> QED
  BY <1>1, <1>3, <1>4, PTL DEF Spec

-----------------------------------------------------------------------------
(* Suppression. *)

(* While events come in order, the last alert of a key is what the engine   *)
(* remembers of it, or it is past its suppression: eviction forgets no      *)
(* other, and time does not go back.                                        *)
Alerting ==
  \A k \in Keys :
    /\ k[1] \notin Loaded => alerted[k] = None
    /\ ordered /\ alerted[k] # None =>
         /\ alerted[k] <= now
         /\ lastAlert[k] = alerted[k] \/ now - alerted[k] >= corr[k[1]].suppress

LEMMA AlertType ==
  ASSUME IInv, NEW k \in Keys
  PROVE  /\ lastAlert[k] \in 0..MaxTime \cup {None} /\ alerted[k] \in 0..MaxTime \cup {None}
         /\ k[1] \in Loaded => corr[k[1]].suppress \in Nat
         /\ now \in 0..MaxTime
<1>1. k[1] \in Loaded => corr[k[1]].suppress \in Nat
  <2>1. k[1] \in Loaded => corr[k[1]] \in CorrelationRule
    BY RuleOf DEF IInv, TypeOK
  <2> QED
    BY <2>1 DEF CorrelationRule
<1> QED
  BY <1>1 DEF IInv, TypeOK, Alerts

LEMMA AlertingStep ==
  ASSUME RulesKept
  PROVE  IInv /\ Alerting /\ [Next]_vars => Alerting'
<1> SUFFICES ASSUME IInv, Alerting, [Next]_vars PROVE Alerting'
  OBVIOUS
<1>1. CASE \E e \in Events, t \in 0..MaxTime : Receive(e, t)
  <2>1. PICK e \in Events, t \in 0..MaxTime : Receive(e, t)
    BY <1>1
  <2>2. Evicted(t) /\ corr' = corr /\ now' = t /\ ordered' = (ordered /\ t >= now)
    BY <2>1, ReceiveType DEF Receive
  <2> SUFFICES ASSUME NEW k \in Keys
               PROVE  /\ k[1] \notin Loaded' => alerted'[k] = None
                      /\ ordered' /\ alerted'[k] # None =>
                           /\ alerted'[k] <= now'
                           /\ \/ lastAlert'[k] = alerted'[k]
                              \/ now' - alerted'[k] >= corr'[k[1]].suppress
    BY DEF Alerting
  <2>3. \/ alerted'[k] = None
        \/ /\ alerted'[k] = alerted[k]
           /\ \/ lastAlert'[k] = lastAlert[k]
              \/ k[1] \notin Loaded
              \/ t - lastAlert[k] >= corr[k[1]].suppress
    BY <2>2 DEF Evicted
  <2>4. k[1] \notin Loaded' => alerted'[k] = None
    BY <2>2, <2>3 DEF Alerting, Loaded
  <2>5. ASSUME ordered', alerted'[k] # None
        PROVE  /\ alerted'[k] <= now'
               /\ \/ lastAlert'[k] = alerted'[k]
                  \/ now' - alerted'[k] >= corr'[k[1]].suppress
    <3>1. /\ alerted'[k] = alerted[k] /\ alerted[k] # None /\ k[1] \in Loaded
          /\ ordered /\ t >= now
      BY <2>2, <2>3, <2>5 DEF Alerting
    <3>2. /\ alerted[k] <= now
          /\ lastAlert[k] = alerted[k] \/ now - alerted[k] >= corr[k[1]].suppress
      BY <3>1 DEF Alerting
    <3>3. /\ alerted[k] \in Int /\ now \in Int /\ t \in Int
          /\ corr[k[1]].suppress \in Int
      BY <3>1, AlertType
    <3>4. lastAlert'[k] = lastAlert[k] \/ t - lastAlert[k] >= corr[k[1]].suppress
      BY <2>3, <3>1
    <3>5. alerted[k] <= t
      BY <3>1, <3>2, <3>3
    <3>6. CASE lastAlert[k] = alerted[k]
      BY <2>2, <3>1, <3>4, <3>5, <3>6
    <3>7. CASE now - alerted[k] >= corr[k[1]].suppress
      <4>1. t - alerted[k] >= corr[k[1]].suppress
        BY <3>1, <3>3, <3>7
      <4> QED
        BY <2>2, <3>1, <3>5, <4>1
    <3> QED
      BY <3>2, <3>6, <3>7
  <2> QED
    BY <2>4, <2>5
<1>2. CASE Discard
  BY <1>2 DEF Alerting, Discard, history, Loaded
<1>3. CASE Count
  <2> DEFINE k == Head(work).key
  <2>1. /\ KeyFor(k, event) /\ event # None /\ event.t = now /\ event \in Call
        /\ UNCHANGED <<corr, now, ordered>>
    BY <1>3, HeadOfWork, UpdateType DEF IInv, CallOK, Count, Due
  <2>2. \/ UNCHANGED <<lastAlert, alerted>>
        \/ /\ lastAlert' = [lastAlert EXCEPT ![k] = event.t]
           /\ alerted' = [alerted EXCEPT ![k] = event.t]
    BY <1>3 DEF Count
  <2> HIDE DEF k
  <2>3. CASE UNCHANGED <<lastAlert, alerted>>
    BY <2>1, <2>3 DEF Alerting, Loaded
  <2>4. CASE /\ lastAlert' = [lastAlert EXCEPT ![k] = event.t]
             /\ alerted' = [alerted EXCEPT ![k] = event.t]
    <3>1. lastAlert \in Alerts /\ alerted \in Alerts /\ k \in Keys /\ k[1] \in Loaded
      BY <2>1 DEF IInv, TypeOK, KeyFor
    <3>2. \A j \in Keys : j # k => lastAlert'[j] = lastAlert[j] /\ alerted'[j] = alerted[j]
      BY <2>4, <3>1 DEF Alerts
    <3>3. lastAlert'[k] = now /\ alerted'[k] = now
      BY <2>1, <2>4, <3>1 DEF Alerts
    <3>4. now <= now
      BY AlertType, <3>1
    <3> QED
      BY <2>1, <3>1, <3>2, <3>3, <3>4 DEF Alerting, Loaded
  <2> QED
    BY <2>2, <2>3, <2>4
<1>4. CASE Chain
  BY <1>4 DEF Alerting, Chain, engine, Loaded
<1>5. CASE Return
  BY <1>5 DEF Alerting, Return, engine, history, Loaded
<1>6. CASE \E R \in RuleSets : Reload(R)
  <2>1. PICK R \in RuleSets : Reload(R)
    BY <1>6
  <2>2. /\ corr' = R /\ corr \in RuleSets /\ UNCHANGED <<now, ordered>>
        /\ lastAlert' = [k \in Keys |-> IF R[k[1]] # None THEN lastAlert[k] ELSE None]
        /\ alerted' = [k \in Keys |-> IF R[k[1]] # None THEN alerted[k] ELSE None]
    BY <2>1 DEF Reload, IInv, TypeOK
  <2>3. \A k \in Keys : k[1] \in Loaded' <=> R[k[1]] # None
    BY <2>2 DEF Loaded, Keys
  <2>4. \A k \in Keys : k[1] \in Loaded /\ R[k[1]] # None =>
          R[k[1]].suppress = corr[k[1]].suppress
    BY <2>2 DEF Loaded, RulesKept
  <2> QED
    BY <2>2, <2>3, <2>4 DEF Alerting
<1>7. CASE UNCHANGED vars
  BY <1>7 DEF Alerting, vars, engine, history, Loaded
<1> HIDE DEF IInv, Alerting, vars
<1> QED
  BY <1>1, <1>2, <1>3, <1>4, <1>5, <1>6, <1>7 DEF Next

(* A correlation fires for a key only when its last alert is as old as the  *)
(* suppression asks.                                                        *)
LEMMA FiringStep ==
  ASSUME IInv, Alerting, [Next]_vars, NEW k \in Keys,
         ordered, alerted[k] # None, Len(fired') > Len(fired), Last(fired') = k
  PROVE  event.t - alerted[k] >= corr[k[1]].suppress
<1>1. fired \in Seq(Keys) /\ Len(fired) \in Nat
  BY DEF IInv, TypeOK
<1>2. Count
  <2>1. ~UNCHANGED fired
    BY <1>1
  <2>2. ~(Chain \/ Return)
    <3>1. ~(fired' = <<>>)
      BY <1>1
    <3> QED
      BY <3>1 DEF Chain, Return
  <2> QED
    BY <2>1, <2>2 DEF Next, Receive, Discard, Reload, call, vars
<1>3. /\ event # None /\ event.t = now /\ Due(Head(work), event)
  BY <1>2, HeadOfWork DEF IInv, CallOK, Count
<1>4. /\ fired' = Append(fired, Head(work).key) /\ ~Suppressed(Head(work).key)
  <2>1. fired' # fired
    BY <1>1
  <2> QED
    BY <1>2, <2>1 DEF Count
<1>5. Head(work).key = k
  <2>1. Head(work).key \in Keys
    BY <1>3 DEF Due, KeyFor
  <2> QED
    BY <1>1, <1>4, <2>1 DEF Last
<1>6. k[1] \in Loaded /\ ~Suppressed(k)
  BY <1>3, <1>4, <1>5 DEF Due, KeyFor
<1>7. /\ alerted[k] <= now
      /\ lastAlert[k] = alerted[k] \/ now - alerted[k] >= corr[k[1]].suppress
  BY DEF Alerting
<1>8. alerted[k] \in Int /\ now \in Int /\ corr[k[1]].suppress \in Nat
  BY <1>6, AlertType
<1>9. CASE lastAlert[k] = alerted[k]
  <2>1. corr[k[1]].suppress = 0 \/ now - alerted[k] >= corr[k[1]].suppress
    BY <1>3, <1>6, <1>8, <1>9 DEF Suppressed
  <2> QED
    BY <1>3, <1>7, <1>8, <2>1
<1> QED
  BY <1>3, <1>7, <1>9

(* Two alerts of one group are at least the suppression apart               *)
(* (update_correlation, evict_all): eviction by age, the restart of windows *)
(* and reloads that keep the correlation may forget an alert only when it   *)
(* no longer suppresses.                                                    *)
THEOREM SuppressionCorrect == RulesKept /\ Spec => SuppressionHolds
<1> SUFFICES ASSUME RulesKept PROVE Spec => SuppressionHolds
  OBVIOUS
<1>1. Init => IInv /\ Alerting
  BY InitType DEF Init, Alerting
<1>2. (IInv /\ Alerting) /\ [Next]_vars => (IInv /\ Alerting)'
  BY TypeStep, AlertingStep
<1>3. (IInv /\ Alerting) /\ [Next]_vars =>
        [\A k \in Keys :
           (ordered /\ alerted[k] # None /\ Len(fired') > Len(fired) /\ Last(fired') = k)
             => event.t - alerted[k] >= corr[k[1]].suppress]_vars
  BY FiringStep
<1> QED
  BY <1>1, <1>2, <1>3, PTL DEF Spec, SuppressionHolds

-----------------------------------------------------------------------------
(* Event buffers. *)

(* The buffer b holds the times of the last entries of the deque h. *)
Ends(b, h) ==
  \E d \in 0..Len(h) :
    /\ Len(b) = Len(h) - d
    /\ \A i \in 1..Len(b) : b[i].t = h[i + d].t

LEMMA EndsEmpty ==
  ASSUME NEW h \in Seq(Entries)
  PROVE  Ends(<<>>, h)
<1>1. Len(h) \in 0..Len(h) /\ Len(<<>>) = Len(h) - Len(h) /\ 1..Len(<<>>) = {}
  OBVIOUS
<1> QED
  BY <1>1 DEF Ends

LEMMA EndsOfEmpty ==
  ASSUME NEW b \in Buffers, Ends(b, <<>>)
  PROVE  b = <<>>
<1>1. PICK d \in 0..Len(<<>>) : Len(b) = Len(<<>>) - d
  BY DEF Ends
<1>2. d = 0 /\ Len(b) = 0
  BY <1>1
<1> QED
  BY <1>2 DEF Buffers

LEMMA EndsTail ==
  ASSUME NEW b \in Buffers, NEW h \in Seq(Entries), Ends(b, h), Len(b) > 0
  PROVE  Ends(Tail(b), h)
<1>1. PICK d \in 0..Len(h) : Len(b) = Len(h) - d /\ \A i \in 1..Len(b) : b[i].t = h[i + d].t
  BY DEF Ends
<1>2. Len(h) \in Nat /\ Len(b) \in Nat
  BY DEF Buffers
<1>3. /\ Len(Tail(b)) = Len(b) - 1
      /\ \A i \in 1..Len(b) - 1 : Tail(b)[i] = b[i + 1]
  BY <1>2 DEF Buffers
<1>4. d + 1 \in 0..Len(h) /\ Len(Tail(b)) = Len(h) - (d + 1)
  BY <1>1, <1>2, <1>3
<1>5. \A i \in 1..Len(Tail(b)) : i + 1 \in 1..Len(b) /\ i + 1 + d = i + (d + 1)
  BY <1>1, <1>2, <1>3
<1>6. \A i \in 1..Len(Tail(b)) : Tail(b)[i].t = h[i + (d + 1)].t
  BY <1>1, <1>3, <1>5
<1> QED
  BY <1>4, <1>6 DEF Ends

LEMMA EndsAppend ==
  ASSUME NEW b \in Buffers, NEW h \in Seq(Entries), Ends(b, h), NEW e \in Entries
  PROVE  Ends(Append(b, [t |-> e.t]), Append(h, e))
<1>1. PICK d \in 0..Len(h) : Len(b) = Len(h) - d /\ \A i \in 1..Len(b) : b[i].t = h[i + d].t
  BY DEF Ends
<1>2. Len(h) \in Nat /\ Len(b) \in Nat /\ e.t \in 0..MaxTime
  BY DEF Buffers, Entries
<1> DEFINE c == Append(b, [t |-> e.t])
           g == Append(h, e)
<1>3. /\ Len(c) = Len(b) + 1 /\ c[Len(b) + 1] = [t |-> e.t]
      /\ \A i \in 1..Len(b) : c[i] = b[i]
  <2>1. [t |-> e.t] \in [t : 0..MaxTime]
    BY <1>2
  <2> QED
    BY <2>1 DEF Buffers
<1>4. Len(g) = Len(h) + 1 /\ g[Len(h) + 1] = e /\ \A i \in 1..Len(h) : g[i] = h[i]
  OBVIOUS
<1> HIDE DEF c, g
<1>5. d \in 0..Len(g) /\ Len(c) = Len(g) - d
  BY <1>1, <1>2, <1>3, <1>4
<1>6. ASSUME NEW i \in 1..Len(c) PROVE c[i].t = g[i + d].t
  <2>1. CASE i \in 1..Len(b)
    <3>1. i + d \in 1..Len(h)
      BY <1>1, <1>2, <2>1
    <3> QED
      BY <1>1, <1>3, <1>4, <2>1, <3>1
  <2>2. CASE i \notin 1..Len(b)
    <3>1. i = Len(b) + 1 /\ i + d = Len(h) + 1
      BY <1>1, <1>2, <1>3, <2>2
    <3>2. c[i].t = e.t /\ g[i + d] = e
      BY <1>3, <1>4, <3>1
    <3> QED
      BY <3>2
  <2> QED
    BY <2>1, <2>2
<1> QED
  BY <1>5, <1>6 DEF Ends, c, g

(* The same cutoff leaves the buffer the end of what it leaves the deque. *)
LEMMA EndsFromFront ==
  ASSUME NEW b \in Buffers, NEW h \in Seq(Entries), Ends(b, h), NEW cutoff \in Int
  PROVE  Ends(FromFront(b, cutoff), FromFront(h, cutoff))
<1>1. PICK d \in 0..Len(h) : Len(b) = Len(h) - d /\ \A i \in 1..Len(b) : b[i].t = h[i + d].t
  BY DEF Ends
<1>2. Len(h) \in Nat /\ Len(b) \in Nat /\ d \in Nat
  BY DEF Buffers
<1> DEFINE fb == FromFront(b, cutoff)
           fh == FromFront(h, cutoff)
<1>3. PICK p \in 0..Len(b) : /\ Len(fb) = Len(b) - p
                             /\ \A i \in 1..Len(b) - p : fb[i] = b[i + p]
                             /\ p < Len(b) => b[p + 1].t >= cutoff
  BY EntriesTimed, FromFrontExact DEF Buffers
<1>4. PICK q \in 0..Len(h) : /\ Len(fh) = Len(h) - q
                             /\ \A i \in 1..Len(h) - q : fh[i] = h[i + q]
                             /\ \A i \in 1..q : ~(h[i].t >= cutoff)
  BY EntriesTimed, FromFrontExact
<1> HIDE DEF fb, fh
<1>5. q <= d + p
  <2>1. CASE p = Len(b)
    BY <1>1, <1>2, <1>3, <1>4, <2>1
  <2>2. CASE p # Len(b)
    <3>1. p + 1 \in 1..Len(b) /\ b[p + 1].t >= cutoff
      BY <1>2, <1>3, <2>2
    <3>2. h[p + 1 + d].t >= cutoff
      BY <1>1, <3>1
    <3>3. ~(p + 1 + d \in 1..q)
      BY <1>4, <3>2
    <3> QED
      BY <1>2, <1>3, <1>4, <3>3
  <2> QED
    BY <2>1, <2>2
<1> DEFINE r == d + p - q
<1>6. r \in 0..Len(fh) /\ Len(fb) = Len(fh) - r
  BY <1>1, <1>2, <1>3, <1>4, <1>5
<1>7. ASSUME NEW i \in 1..Len(fb) PROVE fb[i].t = fh[i + r].t
  <2>1. i \in 1..Len(b) - p /\ i + p \in 1..Len(b) /\ i + r \in 1..Len(h) - q
    BY <1>1, <1>2, <1>3, <1>4, <1>5
  <2>2. fb[i] = b[i + p] /\ b[i + p].t = h[i + p + d].t /\ fh[i + r] = h[i + r + q]
    BY <1>1, <1>3, <1>4, <2>1
  <2>3. i + p + d = i + r + q
    BY <1>2, <1>3, <1>4
  <2> QED
    BY <2>2, <2>3
<1> HIDE DEF r
<1> QED
  BY <1>6, <1>7 DEF Ends, fb, fh

LEMMA EndsSuffix ==
  ASSUME NEW b \in Buffers, NEW h \in Seq(Entries), Ends(b, h)
  PROVE  IsSuffix(b, [i \in DOMAIN h |-> [t |-> h[i].t]])
<1> DEFINE times == [i \in 1..Len(h) |-> [t |-> h[i].t]]
<1>1. PICK d \in 0..Len(h) : Len(b) = Len(h) - d /\ \A i \in 1..Len(b) : b[i].t = h[i + d].t
  BY DEF Ends
<1>2. Len(h) \in Nat /\ Len(b) \in Nat /\ DOMAIN h = 1..Len(h)
  BY DEF Buffers
<1>3. Len(times) = Len(h)
  BY <1>2
<1>4. \A i \in 1..Len(b) : b[i] = [t |-> b[i].t]
  <2>1. \A x \in [t : 0..MaxTime] : x = [t |-> x.t]
    OBVIOUS
  <2>2. \A i \in 1..Len(b) : b[i] \in [t : 0..MaxTime]
    BY Elements DEF Buffers
  <2> QED
    BY <2>1, <2>2
<1>5. \A i \in 1..Len(b) : i + d \in 1..Len(h) /\ b[i] = times[i + d]
  <2>1. \A i \in 1..Len(b) : i + d \in 1..Len(h)
    BY <1>1, <1>2
  <2>2. \A i \in 1..Len(b) : times[i + d] = [t |-> h[i + d].t]
    BY <2>1
  <2> HIDE DEF times
  <2> QED
    BY <1>1, <1>4, <2>1, <2>2
<1> HIDE DEF times
<1>6. ASSUME NEW i \in 1..Len(b) PROVE Reverse(b)[i] = Reverse(times)[i]
  <2>1. /\ Reverse(b)[i] = b[(Len(b) - i) + 1]
        /\ Reverse(times)[i] = times[(Len(h) - i) + 1]
    BY <1>1, <1>2, <1>3 DEF Reverse
  <2>2. (Len(b) - i) + 1 \in 1..Len(b) /\ (Len(b) - i) + 1 + d = (Len(h) - i) + 1
    BY <1>1, <1>2
  <2> QED
    BY <1>5, <2>1, <2>2
<1>7. Len(Reverse(b)) = Len(b) /\ Len(Reverse(times)) = Len(h) /\ Len(b) <= Len(h)
  BY <1>1, <1>2, <1>3 DEF Reverse
<1>8. SubSeq(Reverse(b), 1, Len(b)) = SubSeq(Reverse(times), 1, Len(b))
  BY <1>2, <1>6, <1>7
<1>9. IsSuffix(b, times)
  BY <1>7, <1>8 DEF IsSuffix, IsPrefix
<1> QED
  BY <1>2, <1>9 DEF times

(* The rules the property is about. *)
Whole(c) == c.type = "event_count" /\ c.cap = 0

BufferOK ==
  /\ \A k \in Keys : k[1] \in Loaded =>
       /\ ~corr[k[1]].buffered => buffer[k] = <<>>
       /\ Whole(corr[k[1]]) => Ends(buffer[k], Window(k).hits[Plain])
  /\ \A k \in DOMAIN state : state[k].variant = Variant(corr[k[1]].type)
  /\ depth # 0 => \A i \in 1..Len(work) : work[i].ref \in Corrs

LEMMA PlainHits ==
  ASSUME IInv, NEW k \in Keys, k[1] \in Loaded
  PROVE  /\ Window(k) \in Windows /\ Window(k).hits[Plain] \in Seq(Entries)
         /\ k \notin DOMAIN state => Window(k).hits[Plain] = <<>>
         /\ corr[k[1]] \in CorrelationRule /\ buffer[k] \in Buffers
<1>1. Window(k) \in Windows /\ corr[k[1]] \in CorrelationRule
  BY WindowType DEF IInv
<1>2. Plain \in Slots
  BY DEF Slots
<1>3. Window(k).hits[Plain] \in Seq(Entries)
  BY <1>1, <1>2, TimesOfType
<1>4. k \notin DOMAIN state => Window(k).hits[Plain] = <<>>
  BY <1>2 DEF Window, NewWindow
<1>5. buffer[k] \in Buffers
  BY DEF IInv, TypeOK, Buffers
<1> QED
  BY <1>1, <1>3, <1>4, <1>5

(* A window keeps the variant it was created with. *)
LEMMA VariantKept ==
  ASSUME NEW w \in Windows
  PROVE  /\ \A c, t : Opened(w, c, t).variant = w.variant
         /\ \A s, e : Push(w, s, e).variant = w.variant
         /\ \A c : Truncate(w, c).variant = w.variant
         /\ \A cutoff : Evict(w, cutoff).variant = w.variant
         /\ Clear(w).variant = w.variant
<1>1. \A h : [w EXCEPT !.hits = h].variant = w.variant
  BY DEF Windows
<1>2. \A cutoff : Evict(w, cutoff).variant = w.variant
  BY DEF Windows, Evict
<1>3. \A s, e : Push(w, s, e).variant = w.variant
  BY DEF Windows, Push
<1>4. \A c : Truncate(w, c).variant = w.variant
  BY DEF Windows, Truncate
<1>5. Clear(w).variant = w.variant
  BY DEF Clear, NewWindow
<1>6. \A c, t : Opened(w, c, t).variant = w.variant
  BY <1>2, <1>5 DEF Opened
<1> QED
  BY <1>2, <1>3, <1>4, <1>5, <1>6

LEMMA UpdatedVariant ==
  ASSUME IInv, BufferOK, event # None, NEW u \in Updates, Due(u, event)
  PROVE  /\ Window(u.key).variant = Variant(corr[u.key[1]].type)
         /\ Updated(u).variant = Variant(corr[u.key[1]].type)
         /\ Clear(Updated(u)).variant = Variant(corr[u.key[1]].type)
<1> DEFINE c == corr[u.key[1]]
           opened == Opened(Window(u.key), c, event.t)
           pushed == Push(opened, Slot(u), Entry(u))
<1>1. /\ Window(u.key) \in Windows /\ opened \in Windows /\ Updated(u) \in Windows
      /\ Slot(u) \in Slots /\ Entry(u) \in Entries
  BY UpdateType, WindowType, UpdatedType DEF IInv
<1>2. Window(u.key).variant = Variant(c.type)
  BY DEF BufferOK, Window, NewWindow
<1>3. opened.variant = Variant(c.type)
  <2> HIDE DEF c
  <2> QED
    BY <1>1, <1>2, VariantKept
<1>4. pushed \in Windows /\ pushed.variant = Variant(c.type)
  <2> HIDE DEF opened, c
  <2> QED
    BY <1>1, <1>3, VariantKept, PushType
<1>5. Updated(u) = Truncate(pushed, c) \/ Updated(u) = Truncate(opened, c)
  BY DEF Updated
<1>6. Updated(u).variant = Variant(c.type)
  <2> HIDE DEF opened, pushed, c
  <2> QED
    BY <1>1, <1>3, <1>4, <1>5, VariantKept
<1> QED
  BY <1>1, <1>2, <1>6, VariantKept

(* A direct update does to the buffer what it does to the deque. *)
LEMMA UpdatedEnds ==
  ASSUME IInv, BufferOK, event # None, NEW u \in Updates, Due(u, event),
         Direct, corr[u.key[1]].buffered, Whole(corr[u.key[1]])
  PROVE  Ends(UpdatedBuffer(u), Updated(u).hits[Plain])
<1> DEFINE k == u.key
           c == corr[k[1]]
           w == Window(k)
           opened == Opened(w, c, event.t)
           kept == IF c.mode = "sliding" THEN FromFront(buffer[k], event.t - c.timespan)
                   ELSE IF RollsOver(w, c, event.t) THEN <<>> ELSE buffer[k]
           room == IF Len(kept) >= MaxBuffered THEN Tail(kept) ELSE kept
<1>1. /\ event.t \in 0..MaxTime /\ k \in Keys /\ k[1] \in Loaded /\ c \in CorrelationRule
      /\ Entry(u) \in Entries /\ Entry(u).t = event.t
  BY UpdateType DEF IInv, Call
<1>2. /\ w \in Windows /\ w.hits[Plain] \in Seq(Entries) /\ buffer[k] \in Buffers
      /\ Ends(buffer[k], w.hits[Plain])
  BY <1>1, PlainHits DEF BufferOK
<1>3. opened \in Windows /\ Plain \in Slots /\ event.t - c.timespan \in Int
  <2>1. opened \in Windows
    BY UpdatedType DEF IInv
  <2>2. c.timespan \in Int
    <3> HIDE DEF c
    <3> QED
      BY <1>1 DEF CorrelationRule
  <2> QED
    BY <1>1, <2>1, <2>2 DEF Slots
<1>4. kept \in Buffers /\ Ends(kept, opened.hits[Plain])
  <2> HIDE DEF c, w, k
  <2>1. CASE c.mode = "sliding"
    <3>1. opened.hits[Plain] = FromFront(w.hits[Plain], event.t - c.timespan)
      BY <1>2, <1>3, <2>1 DEF Opened, Evict, Windows
    <3>2. FromFront(buffer[k], event.t - c.timespan) \in Buffers
      BY <1>2, <1>3, EntriesTimed, FromFrontType DEF Buffers
    <3>3. Ends(FromFront(buffer[k], event.t - c.timespan),
               FromFront(w.hits[Plain], event.t - c.timespan))
      BY <1>2, <1>3, EndsFromFront
    <3> QED
      BY <2>1, <3>1, <3>2, <3>3
  <2>2. CASE c.mode # "sliding" /\ RollsOver(w, c, event.t)
    <3>1. kept = <<>> /\ opened.hits[Plain] = <<>>
      BY <1>3, <2>2 DEF Opened, Clear, NewWindow
    <3>2. <<>> \in Seq(Entries) /\ <<>> \in Buffers
      BY DEF Buffers
    <3> HIDE DEF kept, opened
    <3> QED
      BY <3>1, <3>2, EndsEmpty
  <2>3. CASE c.mode # "sliding" /\ ~RollsOver(w, c, event.t)
    BY <1>2, <2>3 DEF Opened
  <2> QED
    BY <2>1, <2>2, <2>3
<1>5. opened.hits[Plain] \in Seq(Entries)
  BY <1>3, TimesOfType
<1>6. room \in Buffers /\ Ends(room, opened.hits[Plain])
  <2> HIDE DEF kept, opened
  <2>1. CASE Len(kept) >= MaxBuffered
    <3>1. Len(kept) \in Nat /\ MaxBuffered \in Nat \ {0}
      BY <1>4, ConstantsAssumption DEF Buffers
    <3>2. Len(kept) > 0
      BY <2>1, <3>1
    <3>3. Tail(kept) \in Buffers
      BY <1>4, <3>2 DEF Buffers
    <3> QED
      BY <1>4, <1>5, <2>1, <3>2, <3>3, EndsTail
  <2>2. CASE ~(Len(kept) >= MaxBuffered)
    BY <1>4, <2>2
  <2> QED
    BY <2>1, <2>2
<1>7. UpdatedBuffer(u) = Append(room, [t |-> event.t])
  BY DEF UpdatedBuffer
<1>8. Updated(u).hits[Plain] = Append(opened.hits[Plain], Entry(u))
  <2>1. Adds(u) /\ Slot(u) = Plain
    BY UpdatedVariant DEF Adds, Slot, Whole, Variant, Temporal
  <2>2. Updated(u) = Push(opened, Plain, Entry(u))
    BY <2>1 DEF Updated, Truncate, Whole
  <2> HIDE DEF opened
  <2> QED
    BY <1>3, <2>2 DEF Push, Windows
<1> HIDE DEF room, opened
<1>9. Ends(Append(room, [t |-> Entry(u).t]), Append(opened.hits[Plain], Entry(u)))
  BY <1>1, <1>5, <1>6, EndsAppend
<1> QED
  BY <1>1, <1>7, <1>8, <1>9

LEMMA EvictedEnds ==
  ASSUME IInv, BufferOK, NEW t \in 0..MaxTime, EvictAll(t), corr' = corr
  PROVE  /\ \A k \in Keys : k[1] \in Loaded =>
              /\ ~corr[k[1]].buffered => buffer'[k] = <<>>
              /\ Whole(corr[k[1]]) => Ends(buffer'[k], Window(k)'.hits[Plain])
         /\ \A k \in DOMAIN state' : state'[k].variant = Variant(corr[k[1]].type)
<1> DEFINE alive == {k \in DOMAIN state : ~IsEmpty(AgedWindow(k, t))}
           aged == [k \in alive |-> AgedWindow(k, t)]
<1>1. PICK gone \in Stalest(aged) :
        /\ state' = [k \in alive \ gone |-> aged[k]]
        /\ buffer' = [k \in Keys |->
             IF k \in gone \/ k[1] \notin Loaded THEN <<>> ELSE AgedBuffer(k, alive, t)]
  BY DEF EvictAll
<1>2. /\ DOMAIN state' = alive \ gone
      /\ \A k \in DOMAIN state' : state'[k] = AgedWindow(k, t) /\ k \in alive
  BY <1>1
<1>3. alive \subseteq DOMAIN state /\ DOMAIN state \subseteq Keys
  BY DEF IInv, TypeOK
<1>4. ASSUME NEW k \in DOMAIN state
      PROVE  /\ state[k] \in Windows /\ AgedWindow(k, t) \in Windows
             /\ AgedWindow(k, t).variant = Variant(corr[k[1]].type)
  <2>1. state[k] \in Windows /\ k[1] \in Loaded /\ AgedWindow(k, t) \in Windows
    BY AgedWindowType DEF IInv, TypeOK, Kept
  <2>2. \/ AgedWindow(k, t) = Evict(state[k], t - corr[k[1]].timespan)
        \/ AgedWindow(k, t) = Clear(state[k])
        \/ AgedWindow(k, t) = state[k]
    BY DEF AgedWindow
  <2> QED
    BY <2>1, <2>2, VariantKept DEF BufferOK
<1>5. \A k \in alive : ~IsEmpty(AgedWindow(k, t))
  OBVIOUS
<1>6. \A k \in DOMAIN state : k \notin alive => IsEmpty(AgedWindow(k, t))
  OBVIOUS
<1> HIDE DEF alive, aged
<1>7. ASSUME NEW k \in Keys, k[1] \in Loaded, ~corr[k[1]].buffered
      PROVE  buffer'[k] = <<>>
  <2>1. buffer[k] = <<>>
    BY <1>7 DEF BufferOK
  <2>2. FromFront(<<>>, t - corr[k[1]].timespan) = <<>>
    BY DEF FromFront
  <2>3. AgedBuffer(k, alive, t) = <<>>
    BY <2>1, <2>2 DEF AgedBuffer
  <2> QED
    BY <1>1, <2>3
<1>8. ASSUME NEW k \in Keys, k[1] \in Loaded, Whole(corr[k[1]])
      PROVE  Ends(buffer'[k], Window(k)'.hits[Plain])
  <2> DEFINE c == corr[k[1]]
             cutoff == t - c.timespan
  <2>1. /\ Window(k) \in Windows /\ Window(k).hits[Plain] \in Seq(Entries)
        /\ k \notin DOMAIN state => Window(k).hits[Plain] = <<>>
        /\ c \in CorrelationRule /\ buffer[k] \in Buffers
        /\ Ends(buffer[k], Window(k).hits[Plain]) /\ Plain \in Slots
    BY <1>8, PlainHits DEF BufferOK, Slots
  <2>2. cutoff \in Int
    <3>1. c.timespan \in Int
      BY <2>1 DEF CorrelationRule
    <3> QED
      BY <3>1
  <2>3. <<>> \in Seq(Entries) /\ <<>> \in Buffers
    BY DEF Buffers
  <2>4. k \notin DOMAIN state' => Window(k)'.hits[Plain] = <<>>
    BY <2>1 DEF Window, NewWindow
  <2>5. k \in DOMAIN state' => Window(k)' = AgedWindow(k, t) /\ k \in alive
    BY <1>2 DEF Window
  <2>6. buffer'[k] = IF k \in gone THEN <<>> ELSE AgedBuffer(k, alive, t)
    BY <1>1, <1>8
  <2> HIDE DEF c
  <2>7. CASE k \in gone
    <3>1. Window(k)'.hits[Plain] = <<>> /\ buffer'[k] = <<>>
      BY <1>2, <2>4, <2>6, <2>7
    <3> QED
      BY <2>3, <3>1, EndsEmpty
  <2>8. CASE k \notin gone /\ c.mode = "sliding"
    <3> DEFINE h == FromFront(Window(k).hits[Plain], cutoff)
    <3>1. Ends(FromFront(buffer[k], cutoff), h)
      BY <2>1, <2>2, EndsFromFront
    <3>2. buffer'[k] = FromFront(buffer[k], cutoff)
      BY <2>6, <2>8 DEF AgedBuffer, c
    <3>3. Window(k)'.hits[Plain] = h
      <4>1. CASE k \in DOMAIN state
        <5>1. AgedWindow(k, t) = Evict(state[k], cutoff) /\ state[k] = Window(k)
          BY <2>8, <4>1 DEF AgedWindow, Window, c
        <5>2. AgedWindow(k, t).hits[Plain] = h
          BY <2>1, <5>1 DEF Evict, Windows
        <5>3. CASE k \in alive
          <6>1. k \in DOMAIN state'
            BY <1>2, <2>8, <5>3
          <6> QED
            BY <2>5, <5>2, <6>1
        <5>4. CASE k \notin alive
          <6>1. k \notin DOMAIN state'
            BY <1>2, <5>4
          <6>2. AgedWindow(k, t).hits[Plain] = <<>>
            BY <1>6, <2>1, <4>1, <5>4 DEF IsEmpty, Full
          <6> QED
            BY <2>4, <5>2, <6>1, <6>2
        <5> QED
          BY <5>3, <5>4
      <4>2. CASE k \notin DOMAIN state
        <5>1. k \notin DOMAIN state'
          BY <1>2, <1>3, <4>2
        <5>2. FromFront(<<>>, cutoff) = <<>>
          BY DEF FromFront
        <5> QED
          BY <2>1, <2>4, <4>2, <5>1, <5>2
      <4> QED
        BY <4>1, <4>2
    <3> QED
      BY <3>1, <3>2, <3>3
  <2>9. CASE k \notin gone /\ c.mode # "sliding"
    <3>1. CASE k \in alive
      <4>1. buffer'[k] = buffer[k] /\ k \in DOMAIN state'
        BY <1>2, <2>6, <2>9, <3>1 DEF AgedBuffer, c
      <4>2. AgedWindow(k, t) \in {Clear(state[k]), state[k]}
        BY <2>9 DEF AgedWindow, c
      <4>3. IsEmpty(Clear(state[k]))
        BY <1>3, <1>4, <3>1, ClearType
      <4>4. AgedWindow(k, t) = state[k] /\ state[k] = Window(k)
        BY <1>3, <1>5, <3>1, <4>2, <4>3 DEF Window
      <4> QED
        BY <2>1, <2>5, <4>1, <4>4
    <3>2. CASE k \notin alive
      <4>1. buffer'[k] = <<>> /\ k \notin DOMAIN state'
        BY <1>2, <2>6, <2>9, <3>2 DEF AgedBuffer, c
      <4> QED
        BY <2>3, <2>4, <4>1, EndsEmpty
    <3> QED
      BY <3>1, <3>2
  <2> QED
    BY <2>7, <2>8, <2>9
<1>9. \A k \in DOMAIN state' : state'[k].variant = Variant(corr[k[1]].type)
  BY <1>2, <1>3, <1>4
<1> QED
  BY <1>7, <1>8, <1>9

(* Steps that leave the engine alone leave its buffers matched. *)
LEMMA SameEnds ==
  ASSUME BufferOK, UNCHANGED <<corr, state, buffer>>,
         depth' # 0 => \A i \in 1..Len(work') : work'[i].ref \in Corrs
  PROVE  BufferOK'
<1>1. \A k : Window(k)' = Window(k)
  BY DEF Window
<1>2. Loaded' = Loaded
  BY DEF Loaded
<1> QED
  BY <1>1, <1>2 DEF BufferOK

LEMMA BufferReceive ==
  ASSUME IInv, BufferOK, NEW e \in Events, NEW t \in 0..MaxTime, Receive(e, t)
  PROVE  BufferOK'
<1>1. MakeRoom(t) /\ corr' = corr /\ depth' = 0
  BY DEF Receive, Idle, IInv, CallOK
<1>2. CASE UNCHANGED <<state, buffer>>
  BY <1>1, <1>2, SameEnds
<1>3. CASE EvictAll(t)
  <2>1. Loaded' = Loaded
    BY <1>1 DEF Loaded
  <2> QED
    BY <1>1, <1>3, <2>1, EvictedEnds DEF BufferOK
<1> QED
  BY <1>1, <1>2, <1>3 DEF MakeRoom

LEMMA BufferDiscard ==
  ASSUME IInv, BufferOK, Discard
  PROVE  BufferOK'
<1> DEFINE k == Head(work).key
<1>1. /\ work # <<>> /\ state' = With(k, Window(k)) /\ work' = Tail(work)
      /\ UNCHANGED <<corr, buffer, depth>>
  BY DEF Discard
<1>2. k \in Keys /\ k[1] \in Loaded /\ event # None
  BY <1>1, HeadOfWork DEF IInv, Due, KeyFor
<1> HIDE DEF k
<1>3. \A j : Window(j)' = Window(j)
  BY <1>1 DEF Window, With
<1>4. Window(k).variant = Variant(corr[k[1]].type)
  BY DEF BufferOK, Window, NewWindow
<1>5. \A j \in DOMAIN state' : state'[j].variant = Variant(corr[j[1]].type)
  BY <1>1, <1>4 DEF BufferOK, With
<1>6. depth' # 0 => \A i \in 1..Len(work') : work'[i].ref \in Corrs
  <2>1. /\ work \in Seq(Updates) /\ Len(Tail(work)) = Len(work) - 1 /\ Len(work) \in Nat
        /\ \A i \in 1..Len(Tail(work)) : Tail(work)[i] = work[i + 1]
    BY <1>1, QueueHead DEF IInv, TypeOK
  <2>2. \A i \in 1..Len(Tail(work)) : i + 1 \in 1..Len(work)
    BY <2>1
  <2> QED
    BY <1>1, <2>1, <2>2 DEF BufferOK
<1>7. Loaded' = Loaded
  BY <1>1 DEF Loaded
<1> QED
  BY <1>1, <1>3, <1>5, <1>6, <1>7 DEF BufferOK

LEMMA BufferCount ==
  ASSUME BuffersKept, IInv, BufferOK, Count
  PROVE  BufferOK'
<1> DEFINE u == Head(work)
<1>0. PICK k \in Keys : k = u.key
  BY HeadOfWork DEF IInv, Count, Due, KeyFor
<1> DEFINE c == corr[k[1]]
<1>1. /\ event # None /\ u \in Updates /\ Due(u, event) /\ work # <<>>
      /\ UNCHANGED <<corr, depth>> /\ work' = Tail(work)
  BY HeadOfWork DEF IInv, Count
<1>2. PICK resets \in BOOLEAN :
        /\ state' = With(k, IF resets THEN Clear(Updated(u)) ELSE Updated(u))
        /\ buffer' = [buffer EXCEPT ![k] =
             IF resets /\ Direct THEN <<>> ELSE UpdatedBuffer(u)]
  <2> DEFINE r == (Satisfied(c, Updated(u)) /\ ~Suppressed(k)) /\ c.reset
  <2>1. /\ state' = With(k, IF r THEN Clear(Updated(u)) ELSE Updated(u))
        /\ buffer' = [buffer EXCEPT ![k] = IF r /\ Direct THEN <<>> ELSE UpdatedBuffer(u)]
    BY <1>0 DEF Count
  <2> HIDE DEF r
  <2>2. CASE r
    BY <2>1, <2>2
  <2>3. CASE ~r
    BY <2>1, <2>3
  <2> QED
    BY <2>2, <2>3
<1> HIDE DEF u
<1>3. /\ k \in Keys /\ k[1] \in Loaded /\ c \in CorrelationRule
      /\ Updated(u) \in Windows /\ Clear(Updated(u)) \in Windows
  <2>1. k \in Keys /\ k[1] \in Loaded /\ c \in CorrelationRule /\ Updated(u) \in Windows
    BY <1>0, <1>1, UpdateType, UpdatedType DEF IInv
  <2> QED
    BY <2>1, ClearType
<1>4. /\ Updated(u).variant = Variant(c.type)
      /\ Clear(Updated(u)).variant = Variant(c.type)
  BY <1>0, <1>1, UpdatedVariant
<1>5. /\ Window(k)' = IF resets THEN Clear(Updated(u)) ELSE Updated(u)
      /\ \A j : j # k => Window(j)' = Window(j)
  <2> DEFINE stored == IF resets THEN Clear(Updated(u)) ELSE Updated(u)
  <2>1. state' = With(k, stored)
    BY <1>2
  <2> HIDE DEF stored
  <2>2. Window(k)' = stored
    BY <2>1 DEF Window, With
  <2>3. ASSUME NEW j, j # k PROVE Window(j)' = Window(j)
    BY <1>1, <2>1, <2>3 DEF Window, With
  <2> QED
    BY <2>2, <2>3 DEF stored
<1>6. buffer \in [Keys -> Buffers]
  BY DEF IInv, TypeOK, Buffers
<1>7. /\ buffer'[k] = IF resets /\ Direct THEN <<>> ELSE UpdatedBuffer(u)
      /\ \A j \in Keys : j # k => buffer'[j] = buffer[j]
  <2> QED
    BY <1>2, <1>3, <1>6
<1>8. ~c.buffered => buffer'[k] = <<>>
  BY <1>0, <1>3, <1>7 DEF BufferOK, UpdatedBuffer
<1>9. c.buffered => Direct
  <2> SUFFICES ASSUME c.buffered, ~Direct PROVE FALSE
    OBVIOUS
  <2>1. u.ref \in ToSet(c.refs) /\ ToSet(c.refs) \subseteq Rules
    BY <1>0, <1>1, <1>3 DEF BuffersKept, IInv, TypeOK, Due, Refers, Loaded
  <2>2. u.ref \in Corrs
    <3>1. u = work[1] /\ 1 \in 1..Len(work)
      BY <1>1, QueueHead DEF IInv, TypeOK, u
    <3> QED
      BY <3>1 DEF BufferOK, Direct
  <2> QED
    BY <2>1, <2>2, ConstantsAssumption
<1>10. Plain \in Slots /\ Updated(u).hits[Plain] \in Seq(Entries)
       /\ Clear(Updated(u)).hits[Plain] = <<>>
  <2>1. Plain \in Slots
    BY DEF Slots
  <2> QED
    BY <1>3, <2>1, TimesOfType DEF Clear, NewWindow
<1>11. <<>> \in Seq(Entries)
  OBVIOUS
<1>12. Whole(c) => Ends(buffer'[k], Window(k)'.hits[Plain])
  <2> SUFFICES ASSUME Whole(c) PROVE Ends(buffer'[k], Window(k)'.hits[Plain])
    OBVIOUS
  <2>1. CASE ~c.buffered
    <3>1. Window(k)'.hits[Plain] \in Seq(Entries)
      BY <1>5, <1>10, <1>11
    <3> QED
      BY <1>8, <2>1, <3>1, EndsEmpty
  <2>2. CASE c.buffered /\ resets
    BY <1>5, <1>7, <1>9, <1>10, <1>11, <2>2, EndsEmpty
  <2>3. CASE c.buffered /\ ~resets
    BY <1>0, <1>1, <1>5, <1>7, <1>9, <2>3, UpdatedEnds
  <2> QED
    BY <2>1, <2>2, <2>3
<1>13. \A j \in Keys : j[1] \in Loaded =>
          /\ ~corr[j[1]].buffered => buffer'[j] = <<>>
          /\ Whole(corr[j[1]]) => Ends(buffer'[j], Window(j)'.hits[Plain])
  <2> SUFFICES ASSUME NEW j \in Keys, j[1] \in Loaded
               PROVE  /\ ~corr[j[1]].buffered => buffer'[j] = <<>>
                      /\ Whole(corr[j[1]]) => Ends(buffer'[j], Window(j)'.hits[Plain])
    OBVIOUS
  <2>1. CASE j = k
    BY <1>8, <1>12, <2>1
  <2>2. CASE j # k
    <3>1. buffer'[j] = buffer[j] /\ Window(j)' = Window(j)
      BY <1>5, <1>7, <2>2
    <3> QED
      BY <3>1 DEF BufferOK
  <2> QED
    BY <2>1, <2>2
<1>14. \A j \in DOMAIN state' : state'[j].variant = Variant(corr[j[1]].type)
  BY <1>2, <1>4 DEF BufferOK, With
<1>15. depth' # 0 => \A i \in 1..Len(work') : work'[i].ref \in Corrs
  <2>1. /\ work \in Seq(Updates) /\ Len(Tail(work)) = Len(work) - 1 /\ Len(work) \in Nat
        /\ \A i \in 1..Len(Tail(work)) : Tail(work)[i] = work[i + 1]
    BY <1>1, QueueHead DEF IInv, TypeOK
  <2>2. \A i \in 1..Len(Tail(work)) : i + 1 \in 1..Len(work)
    BY <2>1
  <2> QED
    BY <1>1, <2>1, <2>2 DEF BufferOK
<1>16. Loaded' = Loaded
  BY <1>1 DEF Loaded
<1> QED
  BY <1>1, <1>13, <1>14, <1>15, <1>16 DEF BufferOK

LEMMA BufferReload ==
  ASSUME BuffersKept, IInv, BufferOK, NEW R \in RuleSets, Reload(R)
  PROVE  BufferOK'
<1>1. /\ corr' = R /\ corr \in RuleSets /\ depth' = 0
      /\ state' = [k \in {j \in DOMAIN state : R[j[1]] # None} |-> state[k]]
      /\ buffer' = [k \in Keys |-> IF R[k[1]] # None THEN buffer[k] ELSE <<>>]
  BY DEF Reload, IInv, TypeOK, call, Idle, CallOK
<1>2. \A k \in Keys : k[1] \in Loaded' <=> R[k[1]] # None
  BY <1>1 DEF Loaded, Keys
<1>3. ASSUME NEW c \in Loaded, R[c] # None
      PROVE  R[c].type = corr[c].type /\ R[c].cap = corr[c].cap /\ R[c].buffered = corr[c].buffered
  BY <1>1, <1>3 DEF BuffersKept, Loaded
<1>4. ASSUME NEW k \in Keys, k[1] \in Loaded'
      PROVE  /\ ~R[k[1]].buffered => buffer'[k] = <<>>
             /\ Whole(R[k[1]]) => Ends(buffer'[k], Window(k)'.hits[Plain])
  <2>1. R[k[1]] # None /\ buffer'[k] = buffer[k]
    BY <1>1, <1>2, <1>4
  <2>2. CASE k[1] \in Loaded
    <3>1. Window(k)'.hits = Window(k).hits
      BY <1>1, <2>1 DEF Window, NewWindow
    <3> QED
      BY <1>3, <2>1, <2>2, <3>1 DEF BufferOK, Whole
  <2>3. CASE k[1] \notin Loaded
    <3>1. buffer'[k] = <<>> /\ k \notin DOMAIN state'
      BY <1>1, <2>1, <2>3 DEF IInv, Kept
    <3>2. Window(k)'.hits[Plain] = <<>>
      BY <3>1 DEF Window, NewWindow, Slots
    <3>3. <<>> \in Seq(Entries)
      OBVIOUS
    <3> QED
      BY <3>1, <3>2, <3>3, EndsEmpty
  <2> QED
    BY <2>2, <2>3
<1>5. \A k \in DOMAIN state' : state'[k].variant = Variant(R[k[1]].type)
  <2>1. \A k \in DOMAIN state' : /\ state'[k] = state[k] /\ k \in DOMAIN state
                                 /\ k[1] \in Loaded /\ R[k[1]] # None
    BY <1>1 DEF IInv, Kept
  <2> QED
    BY <1>3, <2>1 DEF BufferOK
<1> QED
  BY <1>1, <1>4, <1>5 DEF BufferOK

LEMMA BufferStep ==
  ASSUME BuffersKept
  PROVE  IInv /\ BufferOK /\ [Next]_vars => BufferOK'
<1> SUFFICES ASSUME IInv, BufferOK, [Next]_vars PROVE BufferOK'
  OBVIOUS
<1>1. CASE \E e \in Events, t \in 0..MaxTime : Receive(e, t)
  BY <1>1, BufferReceive
<1>2. CASE Discard
  BY <1>2, BufferDiscard
<1>3. CASE Count
  BY <1>3, BufferCount
<1>4. CASE Chain
  <2>1. UNCHANGED <<corr, state, buffer>> /\ work' = ChainWork(fired)
    BY <1>4 DEF Chain, engine
  <2>2. \A i \in 1..Len(ChainWork(fired)) : ChainWork(fired)[i].ref \in Corrs
    BY ChainWorkType DEF IInv, TypeOK, CallOK
  <2> QED
    BY <2>1, <2>2, SameEnds
<1>5. CASE Return
  BY <1>5, SameEnds DEF Return, engine
<1>6. CASE \E R \in RuleSets : Reload(R)
  BY <1>6, BufferReload
<1>7. CASE UNCHANGED vars
  BY <1>7, SameEnds DEF vars, engine, call, BufferOK
<1> HIDE DEF IInv, BufferOK, vars
<1> QED
  BY <1>1, <1>2, <1>3, <1>4, <1>5, <1>6, <1>7 DEF Next

(* The events an alert would carry are the newest of those its window       *)
(* counts (update_correlation, evict_all, import_state), for an uncapped    *)
(* event count: the buffer is trimmed, cleared, dropped and handed over by  *)
(* code of its own, and comes out of each with the end of the window.       *)
THEOREM BufferCorrect == BuffersKept /\ Spec => []BufferIsSuffix
<1> SUFFICES ASSUME BuffersKept PROVE Spec => []BufferIsSuffix
  OBVIOUS
<1>1. Init => IInv /\ BufferOK
  <2> SUFFICES ASSUME Init PROVE BufferOK
    BY InitType
  <2>1. depth = 0 /\ DOMAIN state = {} /\ \A k \in Keys : buffer[k] = <<>>
    BY DEF Init
  <2>2. \A k : Window(k).hits[Plain] = <<>>
    BY <2>1 DEF Window, NewWindow, Slots
  <2>3. <<>> \in Seq(Entries)
    OBVIOUS
  <2> QED
    BY <2>1, <2>2, <2>3, EndsEmpty DEF BufferOK
<1>2. (IInv /\ BufferOK) /\ [Next]_vars => (IInv /\ BufferOK)'
  BY TypeStep, BufferStep
<1>3. IInv /\ BufferOK => BufferIsSuffix
  <2> SUFFICES ASSUME IInv, BufferOK, NEW k \in Keys, k[1] \in Loaded,
                      Whole(corr[k[1]])
               PROVE  IsSuffix(buffer[k], [i \in DOMAIN Window(k).hits[Plain] |->
                                             [t |-> Window(k).hits[Plain][i].t]])
    BY DEF BufferIsSuffix, Whole
  <2>1. /\ buffer[k] \in Buffers /\ Window(k).hits[Plain] \in Seq(Entries)
        /\ Ends(buffer[k], Window(k).hits[Plain])
    BY PlainHits DEF BufferOK
  <2> QED
    BY <2>1, EndsSuffix
<1> QED
  BY <1>1, <1>2, <1>3, PTL DEF Spec

-----------------------------------------------------------------------------
(* Functions defined by recursion over an interval. *)

(* How a value follows from its place and the value before it. *)
IsRule(F, a, b, V) == F \in [(a + 1..b) \X V -> V]

Follows(f, F, a, b, v0) == f[a] = v0 /\ \A i \in a + 1..b : f[i] = F[<<i, f[i - 1]>>]

Solution(f, F, a, b, V, v0) == f \in [a..b -> V] /\ Follows(f, F, a, b, v0)

(* A recursion over an interval has a solution. *)
LEMMA RecursionSolved ==
  ASSUME NEW a \in Nat, NEW b \in Nat, a <= b, NEW V, NEW v0 \in V,
         NEW F, IsRule(F, a, b, V)
  PROVE  \E f : Solution(f, F, a, b, V, v0)
<1> USE DEF IsRule, Solution, Follows
<1> DEFINE Solves(f, m) == f[a] = v0 /\ \A i \in a + 1..m : f[i] = F[<<i, f[i - 1]>>]
           Missing == {m \in a..b : ~\E f \in [a..m -> V] : Solves(f, m)}
<1> SUFFICES ASSUME Missing # {} PROVE FALSE
  OBVIOUS
<1>1. PICK m \in Missing : \A n \in Missing : m <= n
  <2>1. Missing \in SUBSET Nat
    OBVIOUS
  <2> QED
    BY <2>1, LeastNatural
<1>2. m # a
  <2>1. [i \in a..a |-> v0] \in [a..a -> V] /\ Solves([i \in a..a |-> v0], a)
    OBVIOUS
  <2> QED
    BY <2>1
<1>3. m - 1 \in a..b /\ m - 1 \notin Missing
  BY <1>1, <1>2
<1>4. PICK f \in [a..m - 1 -> V] : Solves(f, m - 1)
  BY <1>3
<1> DEFINE g == [i \in a..m |-> IF i = m THEN F[<<m, f[m - 1]>>] ELSE f[i]]
<1>5. m \in a + 1..b /\ m - 1 \in a..m - 1
  BY <1>1, <1>2
<1>6. F[<<m, f[m - 1]>>] \in V
  BY <1>4, <1>5
<1>7. g \in [a..m -> V]
  BY <1>4, <1>5, <1>6
<1>8. \A i \in a..m - 1 : g[i] = f[i]
  BY <1>5
<1>9. Solves(g, m)
  <2>1. g[a] = v0
    BY <1>4, <1>5, <1>8
  <2>2. ASSUME NEW i \in a + 1..m PROVE g[i] = F[<<i, g[i - 1]>>]
    <3>1. g[i - 1] = f[i - 1]
      BY <1>5, <1>8
    <3>2. CASE i = m
      BY <1>5, <3>1, <3>2
    <3>3. CASE i # m
      <4>1. i \in a + 1..m - 1 /\ g[i] = f[i]
        BY <1>5, <1>8, <3>3
      <4> HIDE DEF g
      <4> QED
        BY <1>4, <3>1, <4>1
    <3> QED
      BY <3>2, <3>3
  <2> HIDE DEF g
  <2> QED
    BY <2>1, <2>2
<1> HIDE DEF g, Solves
<1> QED
  BY <1>1, <1>7, <1>9

-----------------------------------------------------------------------------
(* The greedy choice of temporal_ordered. *)

(* What the recursion of InOrder takes for each rule. *)
Takes(refs, hits, taken) ==
  /\ taken \in [0..Len(refs) -> 0..MaxTime \cup {Never}]
  /\ taken[0] = 0
  /\ \A i \in 1..Len(refs) :
       LET later == {t \in Times(hits[refs[i]]) : t >= taken[i - 1]}
       IN  taken[i] = IF taken[i - 1] = Never \/ later = {} THEN Never ELSE Min(later)

LEMMA MinOf ==
  ASSUME NEW S \in SUBSET Nat, S # {}
  PROVE  Min(S) \in S /\ \A x \in S : Min(S) <= x
<1>1. \E x \in S : \A y \in S : x <= y
  BY LeastNatural
<1> QED
  BY <1>1 DEF Min

LEMMA InOrderTakes ==
  ASSUME NEW m \in Nat, NEW refs, Len(refs) = m, NEW hits,
         \A i \in 1..m : Times(hits[refs[i]]) \subseteq 0..MaxTime
  PROVE  \E taken : Takes(refs, hits, taken) /\ (InOrder(refs, hits) <=> taken[m] # Never)
<1> DEFINE V == 0..MaxTime \cup {Never}
           later(i, p) == {t \in Times(hits[refs[i]]) : t >= p}
           next(i, p) == IF p = Never \/ later(i, p) = {} THEN Never ELSE Min(later(i, p))
           F == [q \in (1..m) \X V |-> next(q[1], q[2])]
<1>0. MaxTime \in Nat /\ Never = -1
  BY ConstantsAssumption DEF Never
<1>1. ASSUME NEW i \in 1..m, NEW p \in V PROVE next(i, p) \in V
  <2>1. CASE p = Never \/ later(i, p) = {}
    BY <2>1
  <2>2. CASE ~(p = Never \/ later(i, p) = {})
    <3>1. later(i, p) \in SUBSET Nat /\ later(i, p) # {} /\ later(i, p) \subseteq 0..MaxTime
      BY <1>0, <2>2
    <3>2. Min(later(i, p)) \in later(i, p)
      <4> HIDE DEF later
      <4> QED
        BY <3>1, MinOf
    <3> HIDE DEF later
    <3> QED
      BY <2>2, <3>1, <3>2
  <2> QED
    BY <2>1, <2>2
<1>2. F \in [(1..m) \X V -> V]
  <2> HIDE DEF next, V
  <2> QED
    BY <1>1
<1>3. PICK f \in [0..m -> V] : f[0] = 0 /\ \A i \in 1..m : f[i] = F[<<i, f[i - 1]>>]
  <2>1. 0 \in V
    BY <1>0
  <2> HIDE DEF F, V
  <2>2. \E f \in [0..m -> V] : f[0] = 0 /\ \A i \in 0 + 1..m : f[i] = F[<<i, f[i - 1]>>]
    <3>1. PICK a \in Nat : a = 0 /\ a <= m
      OBVIOUS
    <3>2. IsRule(F, a, m, V) /\ 0 \in V
      BY <1>2, <2>1, <3>1 DEF IsRule
    <3>3. PICK f : Solution(f, F, a, m, V, 0)
      BY <3>1, <3>2, RecursionSolved
    <3> QED
      BY <3>1, <3>3 DEF Solution, Follows
  <2> QED
    BY <2>2
<1>4. \A i \in 1..m : f[i] = next(i, f[i - 1])
  <2> SUFFICES ASSUME NEW i \in 1..m PROVE f[i] = next(i, f[i - 1])
    OBVIOUS
  <2>1. f[i - 1] \in V
    BY <1>3
  <2> HIDE DEF next, V
  <2> QED
    BY <1>3, <2>1
<1> DEFINE Body(g) == [i \in 0..Len(refs) |-> IF i = 0 THEN 0 ELSE next(i, g[i - 1])]
<1>5. f = Body(f)
  <2>1. \A i \in 0..m : f[i] = IF i = 0 THEN 0 ELSE next(i, f[i - 1])
    <3> HIDE DEF next
    <3> QED
      BY <1>3, <1>4
  <2>2. f = [i \in 0..m |-> f[i]]
    BY <1>3
  <2> HIDE DEF next
  <2> QED
    BY <2>1, <2>2
<1>6. ASSUME NEW g, g = Body(g) PROVE g = f
  <2>1. /\ g[0] = 0 /\ \A i \in 1..m : g[i] = next(i, g[i - 1])
        /\ g = [i \in 0..m |-> g[i]] /\ f = [i \in 0..m |-> f[i]]
    <3> HIDE DEF next
    <3>1. \A i \in 0..m : g[i] = IF i = 0 THEN 0 ELSE next(i, g[i - 1])
      BY <1>6
    <3>2. g = [i \in 0..m |-> g[i]]
      BY <1>6
    <3>3. 0 \in 0..m /\ \A i \in 1..m : i \in 0..m /\ i # 0
      OBVIOUS
    <3>4. f = [i \in 0..m |-> f[i]]
      BY <1>3
    <3> QED
      BY <3>1, <3>2, <3>3, <3>4
  <2> DEFINE D == {i \in 0..m : g[i] # f[i]}
  <2>2. D = {}
    <3> SUFFICES ASSUME D # {} PROVE FALSE
      OBVIOUS
    <3>1. PICK i \in D : \A j \in D : i <= j
      <4>1. D \in SUBSET Nat
        OBVIOUS
      <4> QED
        BY <4>1, LeastNatural
    <3>2. i \in 1..m /\ i - 1 \notin D /\ i - 1 \in 0..m
      BY <1>3, <2>1, <3>1
    <3>3. g[i] = next(i, g[i - 1]) /\ f[i] = next(i, f[i - 1])
      <4> HIDE DEF next
      <4> QED
        BY <1>4, <2>1, <3>2
    <3> HIDE DEF next
    <3> QED
      BY <3>1, <3>2, <3>3
  <2> QED
    BY <2>1, <2>2
<1>7. (CHOOSE g : g = Body(g)) = f
  <2> HIDE DEF Body
  <2> QED
    BY <1>5, <1>6
<1>8. InOrder(refs, hits) <=> (CHOOSE g : g = Body(g))[Len(refs)] # Never
  BY DEF InOrder
<1>9. Takes(refs, hits, f)
  <2> HIDE DEF V
  <2>1. f \in [0..Len(refs) -> V] /\ f[0] = 0
    BY <1>3
  <2>2. \A i \in 1..Len(refs) : f[i] = next(i, f[i - 1])
    BY <1>4
  <2> QED
    BY <2>1, <2>2 DEF Takes, V
<1> HIDE DEF Body
<1> QED
  BY <1>7, <1>8, <1>9

(* The greedy choice fails only where there is no choice.                   *)
LEMMA GreedyComplete ==
  ASSUME NEW m \in Nat, NEW refs, Len(refs) = m, NEW hits, NEW taken,
         Takes(refs, hits, taken),
         \A i \in 1..m : Times(hits[refs[i]]) \subseteq 0..MaxTime,
         NEW f \in [1..m -> 0..MaxTime],
         \A i \in 1..m : f[i] \in Times(hits[refs[i]]),
         \A i, j \in 1..m : i < j => f[i] <= f[j]
  PROVE  taken[m] # Never
<1>0. MaxTime \in Nat /\ Never = -1
  BY ConstantsAssumption DEF Never
<1> DEFINE D == {i \in 0..m : taken[i] = Never \/ (i > 0 /\ taken[i] > f[i])}
<1>1. D = {}
  <2> SUFFICES ASSUME D # {} PROVE FALSE
    OBVIOUS
  <2>1. PICK i \in D : \A j \in D : i <= j
    <3>1. D \in SUBSET Nat
      OBVIOUS
    <3> QED
      BY <3>1, LeastNatural
  <2>2. i \in 1..m /\ i - 1 \in 0..m /\ i - 1 \notin D
    BY <1>0, <2>1 DEF Takes
  <2> DEFINE later == {t \in Times(hits[refs[i]]) : t >= taken[i - 1]}
  <2>3. taken[i] = IF taken[i - 1] = Never \/ later = {} THEN Never ELSE Min(later)
    BY <2>2 DEF Takes
  <2>4. taken[i - 1] # Never /\ taken[i - 1] \in 0..MaxTime
        /\ (i - 1 > 0 => taken[i - 1] <= f[i - 1])
    <3>1. taken[i - 1] \in 0..MaxTime \cup {Never}
      BY <2>2 DEF Takes
    <3>2. i - 1 > 0 => i - 1 \in 1..m /\ f[i - 1] \in 0..MaxTime
      BY <2>2
    <3> QED
      BY <1>0, <2>2, <3>1, <3>2
  <2>5. f[i] >= taken[i - 1]
    <3>1. CASE i = 1
      BY <1>0, <2>2, <3>1 DEF Takes
    <3>2. CASE i # 1
      <4>1. i - 1 \in 1..m /\ i - 1 < i /\ i - 1 > 0
        BY <2>2, <3>2
      <4>2. f[i - 1] <= f[i] /\ f[i - 1] \in 0..MaxTime /\ f[i] \in 0..MaxTime
        BY <2>2, <4>1
      <4> QED
        BY <1>0, <2>4, <4>1, <4>2
    <3> QED
      BY <3>1, <3>2
  <2>6. f[i] \in later /\ later \subseteq 0..MaxTime
    BY <2>2, <2>5
  <2>7. Min(later) <= f[i] /\ Min(later) \in 0..MaxTime
    <3> HIDE DEF later
    <3>1. later \in SUBSET Nat /\ later # {}
      BY <1>0, <2>6
    <3> QED
      BY <2>6, <3>1, MinOf
  <2> HIDE DEF later
  <2>8. taken[i] = Min(later)
    BY <2>3, <2>4, <2>6
  <2> QED
    BY <1>0, <2>1, <2>2, <2>7, <2>8
<1>2. m \in 0..m
  OBVIOUS
<1> QED
  BY <1>1, <1>2

(* What the greedy choice takes is a choice.                                *)
LEMMA GreedySound ==
  ASSUME NEW m \in Nat, NEW refs, Len(refs) = m, NEW hits, NEW taken,
         Takes(refs, hits, taken), taken[m] # Never,
         \A i \in 1..m : Times(hits[refs[i]]) \subseteq 0..MaxTime
  PROVE  \E f \in [1..m -> 0..MaxTime] :
           /\ \A i \in 1..m : f[i] \in Times(hits[refs[i]])
           /\ \A i, j \in 1..m : i < j => f[i] <= f[j]
<1>0. MaxTime \in Nat /\ Never = -1
  BY ConstantsAssumption DEF Never
<1>1. ASSUME NEW i \in 0..m PROVE taken[i] # Never
  <2> DEFINE D == {j \in i..m : taken[j] # Never}
  <2> SUFFICES ASSUME taken[i] = Never PROVE FALSE
    OBVIOUS
  <2>1. PICK j \in D : \A k \in D : j <= k
    <3>1. D \in SUBSET Nat /\ m \in D
      OBVIOUS
    <3> HIDE DEF D
    <3> QED
      BY <3>1, LeastNatural
  <2>2. j \in 1..m /\ j - 1 \in i..m /\ j - 1 \notin D
    BY <2>1
  <2>3. taken[j - 1] = Never
    BY <2>2
  <2> QED
    BY <2>1, <2>2, <2>3 DEF Takes
<1>2. ASSUME NEW i \in 1..m
      PROVE  taken[i] \in Times(hits[refs[i]]) /\ taken[i - 1] <= taken[i]
             /\ taken[i] \in 0..MaxTime /\ taken[i - 1] \in 0..MaxTime
  <2> DEFINE later == {t \in Times(hits[refs[i]]) : t >= taken[i - 1]}
  <2>1. taken[i] = IF taken[i - 1] = Never \/ later = {} THEN Never ELSE Min(later)
    BY DEF Takes
  <2>2. taken[i] # Never /\ taken[i - 1] # Never /\ i - 1 \in 0..m /\ i \in 0..m
    BY <1>1
  <2>3. taken[i - 1] \in 0..MaxTime /\ taken[i] \in 0..MaxTime
    BY <2>2 DEF Takes
  <2>4. later \in SUBSET Nat
    BY <1>0
  <2>5. Min(later) \in later
    <3> HIDE DEF later
    <3> QED
      BY <2>1, <2>2, <2>4, MinOf
  <2>6. taken[i] = Min(later)
    <3> HIDE DEF later
    <3> QED
      BY <2>1, <2>2
  <2>7. taken[i] \in later
    <3> HIDE DEF later
    <3> QED
      BY <2>5, <2>6
  <2> QED
    BY <2>3, <2>7
<1>3. ASSUME NEW i \in 1..m, NEW j \in 1..m, i < j PROVE taken[i] <= taken[j]
  <2> DEFINE D == {k \in i..m : ~(taken[i] <= taken[k])}
  <2> SUFFICES ASSUME D # {} PROVE FALSE
    BY <1>3
  <2>1. PICK k \in D : \A l \in D : k <= l
    <3>1. D \in SUBSET Nat
      OBVIOUS
    <3> QED
      BY <3>1, LeastNatural
  <2>2. taken[i] \in 0..MaxTime
    BY <1>2
  <2>3. k \in 1..m /\ k - 1 \in i..m /\ k - 1 \notin D
    BY <1>0, <2>1, <2>2
  <2>4. taken[i] <= taken[k - 1]
    BY <2>3
  <2>5. taken[k - 1] <= taken[k] /\ taken[k] \in 0..MaxTime /\ taken[k - 1] \in 0..MaxTime
    BY <1>2, <2>3
  <2> QED
    BY <1>0, <2>1, <2>2, <2>4, <2>5
<1> DEFINE f == [i \in 1..m |-> taken[i]]
<1>4. f \in [1..m -> 0..MaxTime]
  BY <1>2
<1>5. \A i \in 1..m : f[i] = taken[i]
  OBVIOUS
<1> HIDE DEF f
<1>6. \A i \in 1..m : f[i] \in Times(hits[refs[i]])
  BY <1>2, <1>5
<1>7. \A i, j \in 1..m : i < j => f[i] <= f[j]
  BY <1>3, <1>5
<1> QED
  BY <1>4, <1>6, <1>7

(* check_temporal_ordered is greedy, and complete all the same: whatever    *)
(* the deques hold and in whatever order, it accepts exactly when the rules *)
(* can be given hits that follow one another.                               *)
THEOREM OrderCorrect == Spec => []OrderIsExistential
<1>1. ASSUME IInv PROVE OrderIsExistential
  <2> SUFFICES ASSUME NEW k \in DOMAIN state, corr[k[1]].type = "temporal_ordered"
               PROVE  InOrder(corr[k[1]].refs, state[k].hits) <=>
                        \E f \in [DOMAIN corr[k[1]].refs -> 0..MaxTime] :
                          /\ \A i \in DOMAIN corr[k[1]].refs :
                               f[i] \in Times(state[k].hits[corr[k[1]].refs[i]])
                          /\ \A i, j \in DOMAIN corr[k[1]].refs : i < j => f[i] <= f[j]
    BY DEF OrderIsExistential
  <2> DEFINE refs == corr[k[1]].refs
             hits == state[k].hits
  <2>1. k[1] \in Loaded /\ corr \in RuleSets /\ state[k] \in Windows
    BY <1>1 DEF IInv, TypeOK, Kept
  <2>2. refs \in Seq(Rules \cup Corrs) /\ ToSet(refs) \subseteq Slots
    <3>1. k[1] \in Corrs /\ corr[k[1]] \in CorrelationRule /\ corr[k[1]] # None
      BY <2>1, RuleOf DEF Loaded
    <3>2. ToSet(refs) \subseteq Names
      BY <2>1, <3>1, RulesAssumption DEF Temporal
    <3> QED
      BY <3>1, <3>2 DEF Slots, CorrelationRule
  <2>3. PICK m \in Nat : Len(refs) = m /\ DOMAIN refs = 1..m
    BY <2>2
  <2>4. ASSUME NEW i \in 1..m PROVE Times(hits[refs[i]]) \subseteq 0..MaxTime
    <3>1. refs[i] \in Slots
      BY <2>2, <2>3 DEF ToSet
    <3>2. TimesOf(state[k]) \subseteq 0..MaxTime
      BY <2>1, TimesOfType
    <3> QED
      BY <3>1, <3>2 DEF TimesOf
  <2> HIDE DEF refs, hits
  <2>5. PICK taken : Takes(refs, hits, taken) /\ (InOrder(refs, hits) <=> taken[m] # Never)
    BY <2>3, <2>4, InOrderTakes
  <2>6. InOrder(refs, hits) <=>
          \E f \in [1..m -> 0..MaxTime] :
            /\ \A i \in 1..m : f[i] \in Times(hits[refs[i]])
            /\ \A i, j \in 1..m : i < j => f[i] <= f[j]
    <3>1. ASSUME taken[m] # Never
          PROVE  \E f \in [1..m -> 0..MaxTime] :
                   /\ \A i \in 1..m : f[i] \in Times(hits[refs[i]])
                   /\ \A i, j \in 1..m : i < j => f[i] <= f[j]
      BY <2>3, <2>4, <2>5, <3>1, GreedySound
    <3>2. ASSUME NEW f \in [1..m -> 0..MaxTime],
                 \A i \in 1..m : f[i] \in Times(hits[refs[i]]),
                 \A i, j \in 1..m : i < j => f[i] <= f[j]
          PROVE  taken[m] # Never
      BY <2>3, <2>4, <2>5, <3>2, GreedyComplete
    <3> QED
      BY <2>5, <3>1, <3>2
  <2> QED
    BY <2>3, <2>6 DEF refs, hits
<1>2. Spec => []IInv
  BY IInvHolds
<1> QED
  BY <1>1, <1>2, PTL

-----------------------------------------------------------------------------
(* Selected positions, enumerated. *)

(* f runs through the positions I in order. *)
Enum(f, p, I) ==
  /\ f \in [1..p -> I]
  /\ \A a, b \in 1..p : a < b => f[a] < f[b]
  /\ \A i \in I : \E a \in 1..p : f[a] = i

(* An enumeration knows the ranks. *)
LEMMA EnumRank ==
  ASSUME NEW m \in Nat, NEW I \in SUBSET (1..m), NEW p \in Nat, NEW f, Enum(f, p, I)
  PROVE  Cardinality(I) = p /\ \A n \in 1..p : Rank(I, f[n]) = n
<1> DEFINE Upto(n) == {f[a] : a \in 1..n}
<1>1. \A a, b \in 1..p : f[a] \in Nat /\ (a # b => f[a] # f[b])
  <2> SUFFICES ASSUME NEW a \in 1..p, NEW b \in 1..p
               PROVE  f[a] \in Nat /\ (a # b => f[a] # f[b])
    OBVIOUS
  <2>1. f[a] \in I /\ f[b] \in I /\ (a < b => f[a] < f[b]) /\ (b < a => f[b] < f[a])
    BY DEF Enum
  <2>2. f[a] \in Nat /\ f[b] \in Nat
    <3>1. I \subseteq Nat
      OBVIOUS
    <3> QED
      BY <2>1, <3>1
  <2> QED
    BY <2>1, <2>2
<1>2. ASSUME NEW n \in Nat, n <= p PROVE Cardinality(Upto(n)) = n
  <2> DEFINE g == [a \in 1..n |-> f[a]]
  <2>1. g \in Bijection(1..n, Upto(n))
    <3>1. g \in [1..n -> Upto(n)]
      OBVIOUS
    <3>2. \A a, b \in 1..n : g[a] = g[b] => a = b
      BY <1>1, <1>2
    <3>3. \A x \in Upto(n) : \E a \in 1..n : g[a] = x
      OBVIOUS
    <3> QED
      BY <3>1, <3>2, <3>3 DEF Bijection, Injection, Surjection, IsInjective
  <2>2. IsFiniteSet(1..n) /\ Cardinality(1..n) = n
    BY <1>2, FS_Interval
  <2>3. ExistsBijection(1..n, Upto(n))
    BY <2>1 DEF ExistsBijection
  <2> HIDE DEF Upto
  <2> QED
    BY <2>2, <2>3, FS_Bijection
<1>3. I = Upto(p)
  BY DEF Enum
<1>4. ASSUME NEW n \in 1..p PROVE {j \in I : j <= f[n]} = Upto(n)
  <2>1. ASSUME NEW a \in 1..p PROVE f[a] <= f[n] <=> a \in 1..n
    <3>1. CASE a < n
      BY <1>1, <3>1 DEF Enum
    <3>2. CASE a = n
      BY <1>1, <3>2
    <3>3. CASE a > n
      BY <1>1, <3>3 DEF Enum
    <3> QED
      BY <3>1, <3>2, <3>3
  <2>2. \A a \in 1..n : a \in 1..p
    BY <1>4
  <2> QED
    BY <1>3, <2>1, <2>2
<1> HIDE DEF Upto
<1> QED
  BY <1>2, <1>3, <1>4 DEF Rank

Picked(s, f, p) == [n \in 1..p |-> s[f[n]]]

(* At picks what an enumeration of the positions picks.                     *)
LEMMA AtEnum ==
  ASSUME NEW s, NEW m \in Nat, NEW I \in SUBSET (1..m), NEW p \in Nat, NEW f, Enum(f, p, I)
  PROVE  At(s, I) = Picked(s, f, p)
<1>1. Cardinality(I) = p /\ \A n \in 1..p : Rank(I, f[n]) = n
  BY EnumRank
<1>2. ASSUME NEW n \in 1..p PROVE (CHOOSE i \in I : Rank(I, i) = n) = f[n]
  <2>1. f[n] \in I /\ Rank(I, f[n]) = n
    BY <1>1 DEF Enum
  <2>2. \A i \in I : Rank(I, i) = n => i = f[n]
    BY <1>1 DEF Enum
  <2> QED
    BY <2>1, <2>2
<1>3. At(s, I) = [n \in 1..p |-> s[CHOOSE i \in I : Rank(I, i) = n]]
  BY <1>1 DEF At, Rank
<1> QED
  BY <1>2, <1>3 DEF Picked

LEMMA RankMonotone ==
  ASSUME NEW m \in Nat, NEW I \in SUBSET (1..m), NEW i \in I, NEW j \in I
  PROVE  /\ Rank(I, i) \in 1..Cardinality(I)
         /\ i < j => Rank(I, i) < Rank(I, j)
<1> DEFINE Upto(h) == {l \in I : l <= h}
<1>1. IsFiniteSet(I) /\ Cardinality(I) \in Nat
  BY Positions
<1>2. \A h \in I : IsFiniteSet(Upto(h)) /\ Cardinality(Upto(h)) \in Nat
                   /\ Cardinality(Upto(h)) <= Cardinality(I)
  <2> SUFFICES ASSUME NEW h \in I
               PROVE  IsFiniteSet(Upto(h)) /\ Cardinality(Upto(h)) \in Nat
                      /\ Cardinality(Upto(h)) <= Cardinality(I)
    OBVIOUS
  <2>1. Upto(h) \in SUBSET I
    OBVIOUS
  <2> HIDE DEF Upto
  <2> QED
    BY <1>1, <2>1, FS_Subset, FS_CardinalityType
<1>3. Cardinality(Upto(i)) # 0
  <2>1. i \in Upto(i)
    OBVIOUS
  <2> HIDE DEF Upto
  <2> QED
    BY <1>2, <2>1, FS_EmptySet
<1>4. ASSUME i < j PROVE Cardinality(Upto(i)) < Cardinality(Upto(j))
  <2>0. I \subseteq Nat
    OBVIOUS
  <2>1. Upto(i) \in SUBSET Upto(j) /\ j \in Upto(j) /\ j \notin Upto(i)
    <3>1. i \in Nat /\ j \in Nat /\ ~(j <= i) /\ j <= j
      BY <1>4, <2>0
    <3>2. \A l \in I : l <= i => l <= j
      BY <1>4, <2>0, <3>1
    <3> QED
      BY <3>1, <3>2
  <2> HIDE DEF Upto
  <2>2. /\ Cardinality(Upto(i)) <= Cardinality(Upto(j))
        /\ Cardinality(Upto(i)) = Cardinality(Upto(j)) => Upto(i) = Upto(j)
    BY <1>2, <2>1, FS_Subset
  <2> QED
    BY <1>2, <2>1, <2>2
<1> HIDE DEF Upto
<1>5. Rank(I, i) = Cardinality(Upto(i)) /\ Rank(I, j) = Cardinality(Upto(j))
  BY DEF Rank, Upto
<1> QED
  BY <1>1, <1>2, <1>3, <1>4, <1>5

LEMMA EnumExists ==
  ASSUME NEW m \in Nat, NEW I \in SUBSET (1..m)
  PROVE  Cardinality(I) \in Nat /\ \E f : Enum(f, Cardinality(I), I)
<1> DEFINE p == Cardinality(I)
           f == [n \in 1..p |-> CHOOSE i \in I : Rank(I, i) = n]
<1>1. p \in Nat
  BY Positions
<1>2. ASSUME NEW n \in 1..p PROVE f[n] \in I /\ Rank(I, f[n]) = n
  <2>1. \E i \in I : Rank(I, i) = n
    BY Ranks
  <2> QED
    BY <2>1
<1> HIDE DEF f
<1>3. f \in [1..p -> I]
  BY <1>2 DEF f
<1>4. ASSUME NEW a \in 1..p, NEW b \in 1..p, a < b PROVE f[a] < f[b]
  <2>0. I \subseteq Nat
    OBVIOUS
  <2>1. f[a] \in Nat /\ f[b] \in Nat /\ f[a] \in I /\ f[b] \in I
    BY <1>2, <2>0
  <2>2. f[b] < f[a] => Rank(I, f[b]) < Rank(I, f[a])
    BY <2>1, RankMonotone
  <2>3. Rank(I, f[a]) = a /\ Rank(I, f[b]) = b
    BY <1>2
  <2>4. f[a] # f[b] /\ ~(f[b] < f[a])
    BY <1>4, <2>2, <2>3
  <2> QED
    BY <2>1, <2>4
<1>5. ASSUME NEW i \in I PROVE \E a \in 1..p : f[a] = i
  <2>1. Rank(I, i) \in 1..p
    BY RankMonotone
  <2>2. PICK a \in 1..p : a = Rank(I, i)
    BY <2>1
  <2>3. f[a] \in I /\ Rank(I, f[a]) = a
    BY <1>2
  <2>4. ~(f[a] < i) /\ ~(i < f[a])
    <3>1. f[a] < i => Rank(I, f[a]) < Rank(I, i)
      BY <2>3, RankMonotone
    <3>2. i < f[a] => Rank(I, i) < Rank(I, f[a])
      BY <2>3, RankMonotone
    <3> QED
      BY <2>2, <2>3, <3>1, <3>2
  <2>5. i \in Nat /\ f[a] \in Nat
    <3>1. I \subseteq Nat
      OBVIOUS
    <3> QED
      BY <2>3, <3>1
  <2> QED
    BY <2>3, <2>4, <2>5
<1> QED
  BY <1>1, <1>3, <1>4, <1>5 DEF Enum

-----------------------------------------------------------------------------
(* The cap and the cutoff, entry by entry. *)

LEMMA SameSeq ==
  ASSUME NEW S, NEW s \in Seq(S), NEW t \in Seq(S),
         Len(s) = Len(t), \A i \in 1..Len(s) : s[i] = t[i]
  PROVE  s = t
  OBVIOUS

LEMMA Appended ==
  ASSUME NEW S, NEW s \in Seq(S), NEW e \in S
  PROVE  /\ Append(s, e) \in Seq(S) /\ Len(Append(s, e)) = Len(s) + 1
         /\ \A i \in 1..Len(s) : Append(s, e)[i] = s[i]
         /\ Append(s, e)[Len(s) + 1] = e
  OBVIOUS

(* Which entry is kept in each place when there are more than the cap.      *)
LEMMA NewestExact ==
  ASSUME NEW S, NEW E \in Seq(S), NEW cap \in Nat \ {0}, NEW anchored \in BOOLEAN,
         Len(E) > cap
  PROVE  /\ Newest(E, cap, anchored) \in Seq(S) /\ Len(Newest(E, cap, anchored)) = cap
         /\ \A i \in 1..cap : Newest(E, cap, anchored)[i] =
              IF anchored /\ i = 1 THEN E[1] ELSE E[Len(E) - cap + i]
<1> DEFINE n == Len(E)
<1>1. n \in Nat /\ E # <<>> /\ ~(n <= cap)
  OBVIOUS
<1>2. CASE ~anchored
  <2>1. Newest(E, cap, anchored) = SubSeq(E, n - cap + 1, n)
    BY <1>1, <1>2 DEF Newest
  <2>2. n - cap + 1 \in 1..n
    BY <1>1
  <2>3. /\ SubSeq(E, n - cap + 1, n) \in Seq(S) /\ Len(SubSeq(E, n - cap + 1, n)) = cap
        /\ \A i \in 1..cap : SubSeq(E, n - cap + 1, n)[i] = E[n - cap + i]
    BY <1>1, <2>2
  <2> QED
    BY <1>2, <2>1, <2>3
<1>3. CASE anchored
  <2> DEFINE rest == SubSeq(E, n - cap + 2, n)
  <2>1. Newest(E, cap, anchored) = <<Head(E)>> \o rest
    BY <1>1, <1>3 DEF Newest
  <2>2. n - cap + 2 \in 1..n + 1
    BY <1>1
  <2>3. /\ rest \in Seq(S) /\ Len(rest) = cap - 1
        /\ \A i \in 1..cap - 1 : rest[i] = E[n - cap + i + 1]
    BY <1>1, <2>2
  <2>4. <<Head(E)>> \in Seq(S) /\ Head(E) = E[1]
    BY <1>1
  <2> HIDE DEF rest
  <2>5. /\ <<Head(E)>> \o rest \in Seq(S) /\ Len(<<Head(E)>> \o rest) = cap
        /\ \A i \in 1..cap : (<<Head(E)>> \o rest)[i] = IF i = 1 THEN E[1] ELSE rest[i - 1]
    BY <2>3, <2>4
  <2>6. \A i \in 1..cap : i # 1 => rest[i - 1] = E[n - cap + i]
    <3> SUFFICES ASSUME NEW i \in 1..cap, i # 1 PROVE rest[i - 1] = E[n - cap + i]
      OBVIOUS
    <3>1. i - 1 \in 1..cap - 1 /\ n - cap + (i - 1) + 1 = n - cap + i
      BY <1>1
    <3> QED
      BY <2>3, <3>1
  <2> QED
    BY <1>3, <2>1, <2>5, <2>6
<1> QED
  BY <1>2, <1>3

(* What the cap keeps: no more than it says, the last entry, of an anchored *)
(* window the first one, and something of whatever there is.                *)
LEMMA NewestKeeps ==
  ASSUME NEW S, NEW E \in Seq(S), NEW cap \in Nat \ {0}, NEW anchored \in BOOLEAN,
         anchored => cap # 1
  PROVE  LET N == Newest(E, cap, anchored)
         IN  /\ N \in Seq(S) /\ Len(N) <= cap /\ Len(N) <= Len(E)
             /\ N = <<>> <=> E = <<>>
             /\ E # <<>> => N[Len(N)] = E[Len(E)]
             /\ E # <<>> /\ anchored => N[1] = E[1]
<1> DEFINE N == Newest(E, cap, anchored)
<1>1. Len(E) \in Nat
  OBVIOUS
<1>2. CASE Len(E) <= cap
  BY <1>2 DEF Newest
<1>3. CASE Len(E) > cap
  <2>1. /\ N \in Seq(S) /\ Len(N) = cap
        /\ \A i \in 1..cap : N[i] = IF anchored /\ i = 1 THEN E[1] ELSE E[Len(E) - cap + i]
    BY <1>3, NewestExact
  <2> HIDE DEF N
  <2>2. N[cap] = E[Len(E)]
    <3>1. cap \in 1..cap /\ Len(E) - cap + cap = Len(E) /\ (anchored => cap # 1)
      BY <1>1
    <3> QED
      BY <2>1, <3>1
  <2>3. anchored => N[1] = E[1]
    BY <2>1
  <2>4. E # <<>> /\ N # <<>> /\ cap <= Len(E)
    BY <1>1, <1>3, <2>1
  <2> QED
    BY <1>1, <2>1, <2>2, <2>3, <2>4 DEF N
<1> QED
  BY <1>1, <1>2, <1>3

(* Truncated each time or once, an appended entry makes no difference.      *)
LEMMA NewestAppend ==
  ASSUME NEW S, NEW E \in Seq(S), NEW e \in S, NEW cap \in Nat \ {0},
         NEW anchored \in BOOLEAN, anchored => cap # 1
  PROVE  Newest(Append(Newest(E, cap, anchored), e), cap, anchored)
           = Newest(Append(E, e), cap, anchored)
<1> DEFINE X == Newest(E, cap, anchored)
           n == Len(E)
<1>1. n \in Nat
  OBVIOUS
<1>2. CASE n <= cap
  BY <1>2 DEF Newest
<1>3. CASE n > cap
  <2>1. /\ X \in Seq(S) /\ Len(X) = cap
        /\ \A i \in 1..cap : X[i] = IF anchored /\ i = 1 THEN E[1] ELSE E[n - cap + i]
    BY <1>3, NewestExact
  <2> HIDE DEF X
  <2>2. /\ Append(X, e) \in Seq(S) /\ Len(Append(X, e)) = cap + 1
        /\ \A i \in 1..cap : Append(X, e)[i] = X[i]
        /\ Append(X, e)[cap + 1] = e
    BY <2>1, Appended
  <2>3. /\ Append(E, e) \in Seq(S) /\ Len(Append(E, e)) = n + 1
        /\ \A i \in 1..n : Append(E, e)[i] = E[i]
        /\ Append(E, e)[n + 1] = e
    BY Appended
  <2>0. PICK y \in Seq(S), z \in Seq(S) : y = Append(X, e) /\ z = Append(E, e)
    BY <2>2, <2>3
  <2> DEFINE l == Newest(y, cap, anchored)
             r == Newest(z, cap, anchored)
  <2>4. ASSUME NEW q \in Seq(S), Len(q) > cap
        PROVE  /\ Newest(q, cap, anchored) \in Seq(S) /\ Len(Newest(q, cap, anchored)) = cap
               /\ \A i \in 1..cap : Newest(q, cap, anchored)[i] =
                    IF anchored /\ i = 1 THEN q[1] ELSE q[Len(q) - cap + i]
    BY <2>4, NewestExact
  <2>5. Len(y) = cap + 1 /\ Len(y) > cap /\ Len(z) = n + 1 /\ Len(z) > cap
    BY <1>1, <1>3, <2>0, <2>2, <2>3
  <2>8. /\ l \in Seq(S) /\ Len(l) = cap
        /\ \A i \in 1..cap : l[i] = IF anchored /\ i = 1 THEN y[1]
                                    ELSE y[Len(y) - cap + i]
    BY <2>4, <2>5
  <2>9. /\ r \in Seq(S) /\ Len(r) = cap
        /\ \A i \in 1..cap : r[i] = IF anchored /\ i = 1 THEN z[1]
                                    ELSE z[Len(z) - cap + i]
    BY <2>4, <2>5
  <2> HIDE DEF l, r
  <2>6. ASSUME NEW i \in 1..cap PROVE l[i] = r[i]
    <3>1. CASE anchored /\ i = 1
      <4>1. 1 \in 1..cap /\ 1 \in 1..n
        BY <1>1, <1>3
      <4> QED
        BY <2>0, <2>1, <2>2, <2>3, <2>8, <2>9, <3>1, <4>1
    <3>2. CASE ~(anchored /\ i = 1)
      <4>1. l[i] = y[i + 1] /\ r[i] = z[n - cap + (i + 1)]
        <5>1. Len(y) - cap + i = i + 1 /\ Len(z) - cap + i = n - cap + (i + 1)
          BY <1>1, <2>5
        <5> QED
          BY <2>8, <2>9, <3>2, <5>1
      <4>2. CASE i = cap
        <5>1. n - cap + (i + 1) = n + 1
          BY <1>1, <4>2
        <5> QED
          BY <2>0, <2>2, <2>3, <4>1, <4>2, <5>1
      <4>3. CASE i # cap
        <5>1. i + 1 \in 1..cap /\ i + 1 # 1 /\ n - cap + (i + 1) \in 1..n
          BY <1>1, <1>3, <4>3
        <5>2. X[i + 1] = E[n - cap + (i + 1)]
          BY <2>1, <5>1
        <5> QED
          BY <2>0, <2>2, <2>3, <4>1, <5>1, <5>2
      <4> QED
        BY <4>2, <4>3
    <3> QED
      BY <3>1, <3>2
  <2>7. l = r
    BY <2>8, <2>9, <2>6, SameSeq
  <2> QED
    BY <2>0, <2>7 DEF l, r, X
<1> QED
  BY <1>1, <1>2, <1>3

(* Entries in the order of their times. *)
InOrderOfTime(E) == \A i, j \in 1..Len(E) : i <= j => E[i].t <= E[j].t

(* What a cutoff takes from entries in order, in one number.                *)
LEMMA CutoffDrops ==
  ASSUME NEW S, Timed(S), NEW E \in Seq(S), InOrderOfTime(E), NEW cutoff \in Int
  PROVE  \E d \in 0..Len(E) :
           /\ FromFront(E, cutoff) \in Seq(S) /\ Len(FromFront(E, cutoff)) = Len(E) - d
           /\ \A i \in 1..Len(E) - d : FromFront(E, cutoff)[i] = E[i + d]
           /\ \A i \in 1..Len(E) : i > d <=> E[i].t >= cutoff
<1>1. PICK d \in 0..Len(E) :
        /\ FromFront(E, cutoff) \in Seq(S) /\ Len(FromFront(E, cutoff)) = Len(E) - d
        /\ \A i \in 1..Len(E) - d : FromFront(E, cutoff)[i] = E[i + d]
        /\ \A i \in 1..d : ~(E[i].t >= cutoff)
        /\ d < Len(E) => E[d + 1].t >= cutoff
  BY FromFrontExact
<1>2. \A i \in 1..Len(E) : E[i].t \in Int
  BY DEF Timed
<1>3. ASSUME NEW i \in 1..Len(E) PROVE i > d <=> E[i].t >= cutoff
  <2>1. CASE i > d
    <3>1. d < Len(E) /\ d + 1 \in 1..Len(E) /\ d + 1 <= i
      BY <2>1
    <3>2. E[d + 1].t <= E[i].t
      BY <3>1 DEF InOrderOfTime
    <3> QED
      BY <1>1, <1>2, <2>1, <3>1, <3>2
  <2>2. CASE ~(i > d)
    BY <1>1, <2>2
  <2> QED
    BY <2>1, <2>2
<1> QED
  BY <1>1, <1>3

-----------------------------------------------------------------------------
(* What is selected when a position is added, taken away or renamed. *)

Extended(f, p, x) == [n \in 1..p + 1 |-> IF n = p + 1 THEN x ELSE f[n]]

Shifted(f, p, d) == [n \in 1..p - d |-> f[n + d]]

LEMMA EnumAppend ==
  ASSUME NEW m \in Nat, NEW I \in SUBSET (1..m), NEW p \in Nat, NEW f, Enum(f, p, I)
  PROVE  Enum(Extended(f, p, m + 1), p + 1, I \cup {m + 1})
<1> DEFINE g == [n \in 1..p + 1 |-> IF n = p + 1 THEN m + 1 ELSE f[n]]
<1>1. g[p + 1] = m + 1 /\ \A n \in 1..p : g[n] = f[n]
  <2>1. p + 1 \in 1..p + 1 /\ \A n \in 1..p : n \in 1..p + 1 /\ n # p + 1
    OBVIOUS
  <2> QED
    BY <2>1
<1>2. \A n \in 1..p : f[n] \in I /\ f[n] \in 1..m
  BY DEF Enum
<1>3. g \in [1..p + 1 -> I \cup {m + 1}]
  BY <1>2
<1> HIDE DEF g
<1>4. ASSUME NEW a \in 1..p + 1, NEW b \in 1..p + 1, a < b PROVE g[a] < g[b]
  <2>1. a \in 1..p
    BY <1>4
  <2>2. CASE b = p + 1
    BY <1>1, <1>2, <2>1, <2>2
  <2>3. CASE b \in 1..p
    BY <1>1, <1>4, <2>1, <2>3 DEF Enum
  <2> QED
    BY <2>2, <2>3
<1>5. ASSUME NEW i \in I \cup {m + 1} PROVE \E a \in 1..p + 1 : g[a] = i
  <2>1. CASE i = m + 1
    BY <1>1, <2>1
  <2>2. CASE i \in I
    <3>1. PICK a \in 1..p : f[a] = i
      BY <2>2 DEF Enum
    <3>2. a \in 1..p + 1 /\ g[a] = i
      BY <1>1, <3>1
    <3> QED
      BY <3>2
  <2> QED
    BY <2>1, <2>2
<1>6. Enum(g, p + 1, I \cup {m + 1})
  BY <1>3, <1>4, <1>5 DEF Enum
<1> QED
  BY <1>6 DEF g, Extended

UpperPart(J, I) == J \in SUBSET I /\ \A i \in I, j \in J : j < i => i \in J

(* J is what f runs through after its first d. *)
AfterFirst(f, p, J, d) ==
  /\ d \in 0..p
  /\ Enum(Shifted(f, p, d), p - d, J)
  /\ \A n \in 1..p : n > d <=> f[n] \in J

(* The upper end of a selection is the end of its enumeration.              *)
LEMMA EnumSuffix ==
  ASSUME NEW m \in Nat, NEW I \in SUBSET (1..m), NEW p \in Nat, NEW f, Enum(f, p, I),
         NEW J, UpperPart(J, I)
  PROVE  \E d : AfterFirst(f, p, J, d)
<1> DEFINE K == {n \in 1..p : f[n] \in J}
<1>1. \A n \in 1..p : f[n] \in I
  BY DEF Enum
<1>0. J \in SUBSET I /\ \A i \in I, j \in J : j < i => i \in J
  BY DEF UpperPart
<1>2. PICK d \in 0..p : \A n \in 1..p : n > d <=> f[n] \in J
  <2>1. CASE K = {}
    <3>1. \A n \in 1..p : n > p <=> f[n] \in J
      BY <2>1
    <3> QED
      BY <3>1
  <2>2. CASE K # {}
    <3>1. PICK k \in K : \A l \in K : k <= l
      <4>1. K \in SUBSET Nat
        OBVIOUS
      <4> QED
        BY <2>2, <4>1, LeastNatural
    <3>2. k \in 1..p /\ f[k] \in J
      BY <3>1
    <3>3. ASSUME NEW n \in 1..p PROVE n > k - 1 <=> f[n] \in J
      <4>1. f[n] \in J => k <= n
        BY <3>1, <3>3
      <4>2. ASSUME k < n PROVE f[n] \in J
        BY <1>0, <1>1, <3>2, <3>3, <4>2 DEF Enum
      <4> QED
        BY <3>2, <4>1, <4>2
    <3>4. k - 1 \in 0..p
      BY <3>2
    <3> QED
      BY <3>3, <3>4
  <2> QED
    BY <2>1, <2>2
<1> DEFINE g == [n \in 1..p - d |-> f[n + d]]
<1>3. ASSUME NEW n \in 1..p - d PROVE n + d \in 1..p /\ g[n] = f[n + d] /\ g[n] \in J
  <2>1. n + d \in 1..p /\ n + d > d
    OBVIOUS
  <2> QED
    BY <1>2, <2>1
<1> HIDE DEF g
<1>4. g \in [1..p - d -> J]
  BY <1>3 DEF g
<1>5. ASSUME NEW a \in 1..p - d, NEW b \in 1..p - d, a < b PROVE g[a] < g[b]
  <2>1. a + d < b + d /\ a + d \in 1..p /\ b + d \in 1..p
    BY <1>3, <1>5
  <2>2. f[a + d] < f[b + d]
    BY <2>1 DEF Enum
  <2> QED
    BY <1>3, <2>2
<1>6. ASSUME NEW j \in J PROVE \E a \in 1..p - d : g[a] = j
  <2>1. PICK n \in 1..p : f[n] = j
    BY <1>0 DEF Enum
  <2>2. n > d
    BY <1>2, <2>1
  <2>3. n - d \in 1..p - d /\ (n - d) + d = n
    BY <2>2
  <2> QED
    BY <1>3, <2>1, <2>3
<1>7. Enum(g, p - d, J)
  BY <1>4, <1>5, <1>6 DEF Enum
<1> QED
  BY <1>2, <1>7 DEF g, Shifted, AfterFirst

(* Positions renamed in their order are enumerated in the same order.       *)
LEMMA EnumMap ==
  ASSUME NEW I, NEW p \in Nat, NEW f, Enum(f, p, I), NEW J, NEW h \in [I -> J],
         \A i, j \in I : i < j => h[i] < h[j],
         \A x \in J : \E i \in I : h[i] = x
  PROVE  Enum(Picked(h, f, p), p, J)
<1> DEFINE g == [n \in 1..p |-> h[f[n]]]
<1>1. \A n \in 1..p : f[n] \in I /\ g[n] = h[f[n]]
  BY DEF Enum
<1>2. g \in [1..p -> J]
  BY <1>1
<1> HIDE DEF g
<1>3. \A a, b \in 1..p : a < b => g[a] < g[b]
  BY <1>1 DEF Enum
<1>4. \A x \in J : \E a \in 1..p : g[a] = x
  <2> SUFFICES ASSUME NEW x \in J PROVE \E a \in 1..p : g[a] = x
    OBVIOUS
  <2>1. PICK i \in I : h[i] = x
    OBVIOUS
  <2>2. PICK a \in 1..p : f[a] = i
    BY DEF Enum
  <2> QED
    BY <1>1, <2>1, <2>2
<1>5. Enum(g, p, J)
  BY <1>2, <1>3, <1>4 DEF Enum
<1> QED
  BY <1>5 DEF g, Picked

-----------------------------------------------------------------------------
(* The entries of selected arrivals. *)

Arrival == [slot : Slots, entry : Entries]

Content(s, I) ==
  LET due == At(s, I)
  IN  [n \in DOMAIN due |-> due[n].entry]

LEMMA ContentBy ==
  ASSUME NEW s \in Seq(Arrival), NEW I \in SUBSET (1..Len(s)),
         NEW p \in Nat, NEW f, Enum(f, p, I)
  PROVE  /\ Content(s, I) \in Seq(Entries) /\ Len(Content(s, I)) = p
         /\ \A n \in 1..p : Content(s, I)[n] = s[f[n]].entry
<1>1. At(s, I) = Picked(s, f, p)
  <2>1. PICK m \in Nat : m = Len(s)
    OBVIOUS
  <2>2. I \in SUBSET (1..m)
    BY <2>1
  <2> QED
    BY <2>2, AtEnum
<1>2. Content(s, I) = [n \in 1..p |-> s[f[n]].entry]
  BY <1>1 DEF Content, Picked
<1>3. ASSUME NEW n \in 1..p PROVE s[f[n]].entry \in Entries
  <2>1. f[n] \in 1..Len(s)
    BY DEF Enum
  <2>2. s[f[n]] \in Arrival
    BY <2>1
  <2> QED
    BY <2>2 DEF Arrival
<1> DEFINE e == [n \in 1..p |-> s[f[n]].entry]
<1>4. e \in [1..p -> Entries] /\ \A n \in 1..p : e[n] = s[f[n]].entry
  BY <1>3
<1> HIDE DEF e
<1>5. e \in Seq(Entries) /\ Len(e) = p
  BY <1>4, Sequence
<1> QED
  BY <1>2, <1>4, <1>5 DEF e

(* f, of length p, tells of every entry of the selected arrivals where it is. *)
Lists(s, I, p, f) ==
  /\ Enum(f, p, I)
  /\ Content(s, I) \in Seq(Entries) /\ Len(Content(s, I)) = p
  /\ \A n \in 1..p : Content(s, I)[n] = s[f[n]].entry

LEMMA ContentType ==
  ASSUME NEW s \in Seq(Arrival), NEW I \in SUBSET (1..Len(s))
  PROVE  \E p \in Nat : \E f :
           /\ Enum(f, p, I)
           /\ Content(s, I) \in Seq(Entries) /\ Len(Content(s, I)) = p
           /\ \A n \in 1..p : Content(s, I)[n] = s[f[n]].entry
<1>1. Len(s) \in Nat
  OBVIOUS
<1>2. PICK p \in Nat : \E f : Enum(f, p, I)
  BY <1>1, EnumExists
<1>3. PICK f : Enum(f, p, I)
  BY <1>2
<1> QED
  BY <1>3, ContentBy

LEMMA ContentEmpty ==
  ASSUME NEW s \in Seq(Arrival), NEW I \in SUBSET (1..Len(s))
  PROVE  Content(s, I) = <<>> <=> I = {}
<1>1. PICK p \in Nat : \E f :
           /\ Enum(f, p, I)
           /\ Content(s, I) \in Seq(Entries) /\ Len(Content(s, I)) = p
  BY ContentType
<1>2. PICK f : Enum(f, p, I)
  BY <1>1
<1>3. p = 0 <=> I = {}
  <2>1. ASSUME p # 0 PROVE I # {}
    <3>1. 1 \in 1..p
      BY <2>1
    <3> QED
      BY <1>2, <3>1 DEF Enum
  <2>2. ASSUME p = 0 PROVE I = {}
    <3>1. 1..p = {}
      BY <2>2
    <3> QED
      BY <1>2, <3>1 DEF Enum
  <2> QED
    BY <2>1, <2>2
<1> QED
  BY <1>1, <1>3

LEMMA ContentAppend ==
  ASSUME NEW P \in Seq(Arrival), NEW a \in Arrival, NEW I \in SUBSET (1..Len(P))
  PROVE  /\ Content(Append(P, a), I) = Content(P, I)
         /\ Content(Append(P, a), I \cup {Len(P) + 1}) = Append(Content(P, I), a.entry)
<1>1. Len(P) \in Nat
  OBVIOUS
<1>p. PICK p \in Nat : \E f : Lists(P, I, p, f)
  BY ContentType DEF Lists
<1>2. PICK f :
         /\ Enum(f, p, I)
         /\ Content(P, I) \in Seq(Entries) /\ Len(Content(P, I)) = p
         /\ \A n \in 1..p : Content(P, I)[n] = P[f[n]].entry
  BY <1>p DEF Lists
<1>3. PICK Q \in Seq(Arrival) : Q = Append(P, a)
  <2>1. Append(P, a) \in Seq(Arrival)
    BY Appended
  <2> QED
    BY <2>1
<1>4. /\ Len(Q) = Len(P) + 1 /\ Q[Len(P) + 1] = a
      /\ \A i \in 1..Len(P) : Q[i] = P[i]
  BY <1>3, Appended
<1>5. \A n \in 1..p : f[n] \in 1..Len(P)
  BY <1>2 DEF Enum
<1>6. Content(Q, I) = Content(P, I)
  <2>1. I \in SUBSET (1..Len(Q))
    <3>1. \A i \in 1..Len(P) : i \in 1..Len(Q)
      BY <1>1, <1>4
    <3> QED
      BY <3>1
  <2>2. /\ Content(Q, I) \in Seq(Entries) /\ Len(Content(Q, I)) = p
        /\ \A n \in 1..p : Content(Q, I)[n] = Q[f[n]].entry
    <3>1. Enum(f, p, I)
      BY <1>2
    <3> QED
      BY <2>1, <3>1, ContentBy
  <2>3. \A n \in 1..p : Content(Q, I)[n] = Content(P, I)[n]
    BY <1>2, <1>4, <1>5, <2>2
  <2> QED
    BY <1>2, <2>2, <2>3, SameSeq
<1>7. Content(Q, I \cup {Len(P) + 1}) = Append(Content(P, I), a.entry)
  <2> DEFINE J == I \cup {Len(P) + 1}
             g == Extended(f, p, Len(P) + 1)
  <2>1. J \in SUBSET (1..Len(Q))
    <3>1. Len(P) + 1 \in 1..Len(Q) /\ \A i \in 1..Len(P) : i \in 1..Len(Q)
      BY <1>1, <1>4
    <3> QED
      BY <3>1
  <2>2. Enum(g, p + 1, J)
    BY <1>1, <1>2, EnumAppend
  <2>3. g[p + 1] = Len(P) + 1 /\ \A n \in 1..p : g[n] = f[n]
    <3>1. p + 1 \in 1..p + 1 /\ \A n \in 1..p : n \in 1..p + 1 /\ n # p + 1
      OBVIOUS
    <3> QED
      BY <3>1 DEF Extended
  <2> HIDE DEF g, J
  <2>4. /\ Content(Q, J) \in Seq(Entries) /\ Len(Content(Q, J)) = p + 1
        /\ \A n \in 1..p + 1 : Content(Q, J)[n] = Q[g[n]].entry
    <3>1. p + 1 \in Nat
      OBVIOUS
    <3> QED
      BY <2>1, <2>2, <3>1, ContentBy
  <2>5. a.entry \in Entries
    BY DEF Arrival
  <2>6. PICK X \in Seq(Entries) : X = Append(Content(P, I), a.entry)
    <3>1. Append(Content(P, I), a.entry) \in Seq(Entries)
      BY <1>2, <2>5, Appended
    <3> QED
      BY <3>1
  <2>7. /\ Len(X) = p + 1 /\ X[p + 1] = a.entry
        /\ \A n \in 1..p : X[n] = Content(P, I)[n]
    BY <1>2, <2>5, <2>6, Appended
  <2>8. \A n \in 1..p + 1 : Content(Q, J)[n] = X[n]
    <3> SUFFICES ASSUME NEW n \in 1..p + 1 PROVE Content(Q, J)[n] = X[n]
      OBVIOUS
    <3>1. CASE n = p + 1
      BY <1>4, <2>3, <2>4, <2>7, <3>1
    <3>2. CASE n \in 1..p
      <4>1. Content(Q, J)[n] = Q[f[n]].entry
        BY <2>3, <2>4, <3>2
      <4>2. Q[f[n]] = P[f[n]]
        BY <1>4, <1>5, <3>2
      <4>3. X[n] = P[f[n]].entry
        BY <1>2, <2>7, <3>2
      <4> QED
        BY <4>1, <4>2, <4>3
    <3> QED
      BY <3>1, <3>2
  <2>9. Content(Q, J) = X
    BY <2>4, <2>6, <2>7, <2>8, SameSeq
  <2> QED
    BY <2>6, <2>9 DEF J
<1> QED
  BY <1>3, <1>6, <1>7

(* Arrivals in the order of their times. *)
Sorted(P) == \A i, j \in 1..Len(P) : i <= j => P[i].entry.t <= P[j].entry.t

LEMMA ContentInOrder ==
  ASSUME NEW P \in Seq(Arrival), Sorted(P), NEW I \in SUBSET (1..Len(P))
  PROVE  InOrderOfTime(Content(P, I))
<1>p. PICK p \in Nat : \E f : Lists(P, I, p, f)
  BY ContentType DEF Lists
<1>1. PICK f :
         /\ Enum(f, p, I)
         /\ Content(P, I) \in Seq(Entries) /\ Len(Content(P, I)) = p
         /\ \A n \in 1..p : Content(P, I)[n] = P[f[n]].entry
  BY <1>p DEF Lists
<1>2. ASSUME NEW i \in 1..p, NEW j \in 1..p, i <= j PROVE P[f[i]].entry.t <= P[f[j]].entry.t
  <2>1. f[i] \in 1..Len(P) /\ f[j] \in 1..Len(P)
    BY <1>1 DEF Enum
  <2>2. f[i] <= f[j]
    <3>1. CASE i = j
      BY <2>1, <3>1
    <3>2. CASE i < j
      BY <1>1, <2>1, <3>2 DEF Enum
    <3> QED
      BY <1>2, <3>1, <3>2
  <2> QED
    BY <2>1, <2>2 DEF Sorted
<1> QED
  BY <1>1, <1>2 DEF InOrderOfTime

(* A cutoff over the selected arrivals selects those that are young enough. *)
LEMMA ContentCut ==
  ASSUME NEW P \in Seq(Arrival), Sorted(P), NEW I \in SUBSET (1..Len(P)), NEW cutoff \in Int
  PROVE  FromFront(Content(P, I), cutoff) = Content(P, {i \in I : P[i].entry.t >= cutoff})
<1> DEFINE J == {i \in I : P[i].entry.t >= cutoff}
<1>p. PICK p \in Nat : \E f : Lists(P, I, p, f)
  BY ContentType DEF Lists
<1>1. PICK f :
         /\ Enum(f, p, I)
         /\ Content(P, I) \in Seq(Entries) /\ Len(Content(P, I)) = p
         /\ \A n \in 1..p : Content(P, I)[n] = P[f[n]].entry
  BY <1>p DEF Lists
<1>2. \A i \in 1..Len(P) : P[i].entry.t \in Int
  <2> SUFFICES ASSUME NEW i \in 1..Len(P) PROVE P[i].entry.t \in Int
    OBVIOUS
  <2>1. P[i] \in Arrival
    OBVIOUS
  <2>2. MaxTime \in Nat
    BY ConstantsAssumption
  <2> QED
    BY <2>1, <2>2 DEF Arrival, Entries
<1>3. J \in SUBSET I /\ \A i \in I, j \in J : j < i => i \in J
  <2> SUFFICES ASSUME NEW i \in I, NEW j \in J, j < i PROVE i \in J
    OBVIOUS
  <2>1. i \in 1..Len(P) /\ j \in 1..Len(P) /\ P[j].entry.t >= cutoff
    OBVIOUS
  <2>2. P[j].entry.t <= P[i].entry.t
    BY <2>1 DEF Sorted
  <2> QED
    BY <1>2, <2>1, <2>2
<1>4. PICK d \in 0..p :
           /\ Enum(Shifted(f, p, d), p - d, J)
           /\ \A n \in 1..p : n > d <=> f[n] \in J
  <2>1. PICK m \in Nat : m = Len(P)
    OBVIOUS
  <2>2. I \in SUBSET (1..m)
    BY <2>1
  <2>3. p \in Nat /\ Enum(f, p, I)
    BY <1>1
  <2> HIDE DEF J
  <2>4. UpperPart(J, I)
    BY <1>3 DEF UpperPart
  <2> QED
    <3>1. PICK d : AfterFirst(f, p, J, d)
      BY <2>2, <2>3, <2>4, EnumSuffix
    <3> QED
      BY <3>1 DEF AfterFirst
<1> DEFINE g == Shifted(f, p, d)
<1>5. /\ Content(P, J) \in Seq(Entries) /\ Len(Content(P, J)) = p - d
      /\ \A n \in 1..p - d : Content(P, J)[n] = P[g[n]].entry
  <2>1. J \in SUBSET (1..Len(P)) /\ p - d \in Nat
    <3>1. J \subseteq I
      OBVIOUS
    <3> HIDE DEF J
    <3> QED
      BY <3>1
  <2> HIDE DEF J, g
  <2>2. Enum(g, p - d, J)
    BY <1>4 DEF g
  <2>3. PICK q \in Nat : q = p - d
    BY <2>1
  <2>4. J \in SUBSET (1..Len(P)) /\ Enum(g, q, J)
    BY <2>1, <2>2, <2>3
  <2>5. /\ Content(P, J) \in Seq(Entries) /\ Len(Content(P, J)) = q
        /\ \A n \in 1..q : Content(P, J)[n] = P[g[n]].entry
    BY <2>4, ContentBy
  <2> QED
    BY <2>3, <2>5
<1>6. PICK b \in 0..p :
           /\ FromFront(Content(P, I), cutoff) \in Seq(Entries)
           /\ Len(FromFront(Content(P, I), cutoff)) = p - b
           /\ \A i \in 1..p - b : FromFront(Content(P, I), cutoff)[i] = Content(P, I)[i + b]
           /\ \A i \in 1..p : i > b <=> Content(P, I)[i].t >= cutoff
  <2>1. PICK E \in Seq(Entries) : E = Content(P, I)
    BY <1>1
  <2>2. InOrderOfTime(E)
    BY <2>1, ContentInOrder
  <2>3. \E b \in 0..Len(E) :
           /\ FromFront(E, cutoff) \in Seq(Entries) /\ Len(FromFront(E, cutoff)) = Len(E) - b
           /\ \A i \in 1..Len(E) - b : FromFront(E, cutoff)[i] = E[i + b]
           /\ \A i \in 1..Len(E) : i > b <=> E[i].t >= cutoff
    BY <2>2, EntriesTimed, CutoffDrops
  <2> QED
    BY <1>1, <2>1, <2>3
<1>7. b = d
  <2>1. ASSUME NEW n \in 1..p PROVE n > d <=> n > b
    <3>1. f[n] \in J <=> P[f[n]].entry.t >= cutoff
      BY <1>1 DEF Enum
    <3> QED
      BY <1>1, <1>4, <1>6, <3>1
  <2>2. ~(b < d)
    <3> SUFFICES ASSUME b < d PROVE FALSE
      OBVIOUS
    <3>1. d \in 1..p /\ d > b /\ ~(d > d)
      OBVIOUS
    <3> QED
      BY <2>1, <3>1
  <2>3. ~(d < b)
    <3> SUFFICES ASSUME d < b PROVE FALSE
      OBVIOUS
    <3>1. b \in 1..p /\ b > d /\ ~(b > b)
      OBVIOUS
    <3> QED
      BY <2>1, <3>1
  <2> QED
    BY <2>2, <2>3
<1>8. \A n \in 1..p - d : FromFront(Content(P, I), cutoff)[n] = Content(P, J)[n]
  <2> SUFFICES ASSUME NEW n \in 1..p - d
               PROVE  FromFront(Content(P, I), cutoff)[n] = Content(P, J)[n]
    OBVIOUS
  <2>1. n + d \in 1..p /\ g[n] = f[n + d]
    BY DEF Shifted
  <2> HIDE DEF g, J
  <2> QED
    BY <1>1, <1>5, <1>6, <1>7, <2>1
<1> HIDE DEF J
<1>9. FromFront(Content(P, I), cutoff) = Content(P, J)
  <2>1. PICK X \in Seq(Entries), Y \in Seq(Entries) :
          X = FromFront(Content(P, I), cutoff) /\ Y = Content(P, J)
    BY <1>5, <1>6
  <2>2. Len(X) = p - d /\ Len(Y) = p - d /\ \A n \in 1..p - d : X[n] = Y[n]
    BY <1>5, <1>6, <1>7, <1>8, <2>1
  <2> QED
    BY <2>1, <2>2, SameSeq
<1> QED
  BY <1>9 DEF J

-----------------------------------------------------------------------------
(* What leaves by age and what leaves by number, in either order.           *)
LEMMA NewestCut ==
  ASSUME NEW E \in Seq(Entries), InOrderOfTime(E), NEW cap \in Nat \ {0}, NEW cutoff \in Int
  PROVE  FromFront(Newest(E, cap, FALSE), cutoff) = Newest(FromFront(E, cutoff), cap, FALSE)
<1> DEFINE n == Len(E)
<1>1. n \in Nat
  OBVIOUS
<1>0. ASSUME NEW q \in Seq(Entries), Len(q) > cap
      PROVE  /\ Newest(q, cap, FALSE) \in Seq(Entries) /\ Len(Newest(q, cap, FALSE)) = cap
             /\ \A i \in 1..cap : Newest(q, cap, FALSE)[i] = q[Len(q) - cap + i]
  <2>1. Newest(q, cap, FALSE) = SubSeq(q, Len(q) - cap + 1, Len(q))
    BY <1>0 DEF Newest
  <2>2. Len(q) \in Nat /\ Len(q) - cap + 1 \in 1..Len(q)
    BY <1>0
  <2>3. /\ SubSeq(q, Len(q) - cap + 1, Len(q)) \in Seq(Entries)
        /\ Len(SubSeq(q, Len(q) - cap + 1, Len(q))) = cap
        /\ \A i \in 1..cap : SubSeq(q, Len(q) - cap + 1, Len(q))[i] = q[Len(q) - cap + i]
    BY <1>0, <2>2
  <2> QED
    BY <2>1, <2>3
<1>2. PICK d \in 0..n :
           /\ FromFront(E, cutoff) \in Seq(Entries) /\ Len(FromFront(E, cutoff)) = n - d
           /\ \A i \in 1..n - d : FromFront(E, cutoff)[i] = E[i + d]
           /\ \A i \in 1..n : i > d <=> E[i].t >= cutoff
  BY EntriesTimed, CutoffDrops
<1>3. PICK F \in Seq(Entries) : F = FromFront(E, cutoff)
  BY <1>2
<1>4. Len(F) = n - d /\ \A i \in 1..n - d : F[i] = E[i + d]
  BY <1>2, <1>3
<1>5. CASE n <= cap
  <2>1. Len(F) <= cap
    BY <1>1, <1>4, <1>5
  <2> QED
    BY <1>3, <1>5, <2>1 DEF Newest
<1>6. CASE n > cap
  <2>1. PICK N \in Seq(Entries) : N = Newest(E, cap, FALSE)
    BY <1>0, <1>6
  <2>2. Len(N) = cap /\ \A i \in 1..cap : N[i] = E[n - cap + i]
    BY <1>0, <1>6, <2>1
  <2>3. \A i \in 1..cap : n - cap + i \in 1..n
    BY <1>1, <1>6
  <2>4. InOrderOfTime(N)
    <3> SUFFICES ASSUME NEW i \in 1..cap, NEW j \in 1..cap, i <= j PROVE N[i].t <= N[j].t
      BY <2>2 DEF InOrderOfTime
    <3>1. n - cap + i <= n - cap + j
      BY <1>1
    <3> QED
      BY <2>2, <2>3, <3>1 DEF InOrderOfTime
  <2>5. PICK b \in 0..cap :
           /\ FromFront(N, cutoff) \in Seq(Entries) /\ Len(FromFront(N, cutoff)) = cap - b
           /\ \A i \in 1..cap - b : FromFront(N, cutoff)[i] = N[i + b]
           /\ \A i \in 1..cap : i > b <=> N[i].t >= cutoff
    <3>1. \E b \in 0..Len(N) :
           /\ FromFront(N, cutoff) \in Seq(Entries) /\ Len(FromFront(N, cutoff)) = Len(N) - b
           /\ \A i \in 1..Len(N) - b : FromFront(N, cutoff)[i] = N[i + b]
           /\ \A i \in 1..Len(N) : i > b <=> N[i].t >= cutoff
      BY <2>4, EntriesTimed, CutoffDrops
    <3> QED
      BY <2>2, <3>1
  <2>6. PICK X \in Seq(Entries) : X = FromFront(N, cutoff)
    BY <2>5
  <2>7. Len(X) = cap - b /\ \A i \in 1..cap - b : X[i] = N[i + b]
    BY <2>5, <2>6
  <2>8. \A i \in 1..cap : i > b <=> n - cap + i > d
    <3> SUFFICES ASSUME NEW i \in 1..cap PROVE i > b <=> n - cap + i > d
      OBVIOUS
    <3>1. n - cap + i \in 1..n /\ N[i] = E[n - cap + i]
      BY <2>2, <2>3
    <3> QED
      BY <1>2, <2>5, <3>1
  <2>9. CASE n - d <= cap
    <3>1. b = d - (n - cap)
      <4>1. ~(b < d - (n - cap))
        <5> SUFFICES ASSUME b < d - (n - cap) PROVE FALSE
          OBVIOUS
        <5>1. d - (n - cap) \in 1..cap /\ ~(n - cap + (d - (n - cap)) > d)
          BY <1>1, <1>6, <2>9
        <5> QED
          BY <2>8, <5>1
      <4>2. ~(b > d - (n - cap))
        <5> SUFFICES ASSUME b > d - (n - cap) PROVE FALSE
          OBVIOUS
        <5>1. b \in 1..cap /\ n - cap + b > d /\ ~(b > b)
          BY <1>1, <1>6, <2>9
        <5> QED
          BY <2>8, <5>1
      <4>3. b \in Int /\ d - (n - cap) \in Int
        BY <1>1
      <4> HIDE DEF n
      <4> QED
        BY <4>1, <4>2, <4>3
    <3>2. Len(X) = Len(F)
      BY <1>1, <1>4, <2>7, <3>1
    <3>3. ASSUME NEW i \in 1..Len(X) PROVE X[i] = F[i]
      <4>1. i \in 1..cap - b /\ i \in 1..n - d /\ i + b \in 1..cap /\ n - cap + (i + b) = i + d
        BY <1>1, <1>4, <2>7, <3>1, <3>2
      <4>2. X[i] = N[i + b]
        BY <2>7, <4>1
      <4>3. N[i + b] = E[i + d]
        BY <2>2, <4>1
      <4> QED
        BY <1>4, <4>1, <4>2, <4>3
    <3>4. X = F
      BY <3>2, <3>3, SameSeq
    <3>5. Newest(F, cap, FALSE) = F
      BY <1>4, <2>9 DEF Newest
    <3> QED
      BY <1>3, <2>1, <2>6, <3>4, <3>5
  <2>10. CASE n - d > cap
    <3>1. b = 0
      <4> SUFFICES ASSUME b # 0 PROVE FALSE
        OBVIOUS
      <4>1. b \in 1..cap /\ n - cap + b > d /\ ~(b > b)
        BY <1>1, <2>10
      <4> QED
        BY <2>8, <4>1
    <3>6. Len(F) > cap
      BY <1>1, <1>4, <2>10
    <3>2. PICK Y \in Seq(Entries) : Y = Newest(F, cap, FALSE)
      BY <1>0, <3>6
    <3>3. Len(Y) = cap /\ \A i \in 1..cap : Y[i] = F[Len(F) - cap + i]
      BY <1>0, <3>2, <3>6
    <3>4. ASSUME NEW i \in 1..cap PROVE X[i] = Y[i]
      <4>1. i \in 1..cap - b /\ i + b = i
        BY <3>1
      <4>2. n - d - cap + i \in 1..n - d /\ (n - d - cap + i) + d = n - cap + i
        BY <1>1, <2>10
      <4>3. X[i] = E[n - cap + i]
        BY <2>2, <2>7, <4>1
      <4>4. Y[i] = F[n - d - cap + i]
        BY <1>4, <3>3
      <4> QED
        BY <1>4, <4>2, <4>3, <4>4
    <3>5. X = Y
      <4>1. Len(X) = cap
        BY <2>7, <3>1
      <4> QED
        BY <3>3, <3>4, <4>1, SameSeq
    <3> QED
      BY <1>3, <2>1, <2>6, <3>2, <3>5
  <2>11. n - d <= cap \/ n - d > cap
    BY <1>1
  <2> QED
    BY <2>9, <2>10, <2>11
<1>7. n <= cap \/ n > cap
  BY <1>1
<1> QED
  BY <1>5, <1>6, <1>7

(* An earlier cutoff takes nothing a later one would keep.                  *)
LEMMA FromFrontTwice ==
  ASSUME NEW E \in Seq(Entries), NEW c1 \in Int, NEW c2 \in Int, c1 <= c2
  PROVE  FromFront(FromFront(E, c1), c2) = FromFront(E, c2)
<1> DEFINE n == Len(E)
<1>1. n \in Nat /\ \A i \in 1..n : E[i].t \in Int
  BY EntriesTimed DEF Timed
<1>2. PICK x \in 0..n :
           /\ FromFront(E, c1) \in Seq(Entries) /\ Len(FromFront(E, c1)) = n - x
           /\ \A i \in 1..n - x : FromFront(E, c1)[i] = E[i + x]
           /\ \A i \in 1..x : ~(E[i].t >= c1)
  BY EntriesTimed, FromFrontExact
<1>3. PICK y \in 0..n :
           /\ FromFront(E, c2) \in Seq(Entries) /\ Len(FromFront(E, c2)) = n - y
           /\ \A i \in 1..n - y : FromFront(E, c2)[i] = E[i + y]
           /\ \A i \in 1..y : ~(E[i].t >= c2)
           /\ y < n => E[y + 1].t >= c2
  BY EntriesTimed, FromFrontExact
<1>4. PICK F \in Seq(Entries) : F = FromFront(E, c1)
  BY <1>2
<1>5. Len(F) = n - x /\ \A i \in 1..n - x : F[i] = E[i + x]
  BY <1>2, <1>4
<1>6. PICK z \in 0..n - x :
           /\ FromFront(F, c2) \in Seq(Entries) /\ Len(FromFront(F, c2)) = n - x - z
           /\ \A i \in 1..n - x - z : FromFront(F, c2)[i] = F[i + z]
           /\ \A i \in 1..z : ~(F[i].t >= c2)
           /\ z < n - x => F[z + 1].t >= c2
  <2>1. \E d \in 0..Len(F) :
           /\ FromFront(F, c2) \in Seq(Entries) /\ Len(FromFront(F, c2)) = Len(F) - d
           /\ \A i \in 1..Len(F) - d : FromFront(F, c2)[i] = F[i + d]
           /\ \A i \in 1..d : ~(F[i].t >= c2)
           /\ d < Len(F) => F[d + 1].t >= c2
    BY EntriesTimed, FromFrontExact
  <2> QED
    BY <1>5, <2>1
<1>7. \A i \in 1..x + z : ~(E[i].t >= c2)
  <2> SUFFICES ASSUME NEW i \in 1..x + z PROVE ~(E[i].t >= c2)
    OBVIOUS
  <2>1. CASE i \in 1..x
    BY <1>1, <1>2, <2>1, SMTT(20)
  <2>2. CASE i > x
    <3>1. i - x \in 1..z /\ i - x \in 1..n - x /\ (i - x) + x = i
      BY <1>1, <2>2
    <3>2. F[i - x] = E[i]
      BY <1>5, <3>1
    <3> QED
      BY <1>6, <3>1, <3>2
  <2> QED
    BY <2>1, <2>2
<1>8. x + z < n => E[x + z + 1].t >= c2
  <2> SUFFICES ASSUME x + z < n PROVE E[x + z + 1].t >= c2
    OBVIOUS
  <2>1. z < n - x /\ z + 1 \in 1..n - x /\ (z + 1) + x = x + z + 1
    BY <1>1
  <2> QED
    BY <1>5, <1>6, <2>1
<1>9. y = x + z
  <2>1. ~(y < x + z)
    <3> SUFFICES ASSUME y < x + z PROVE FALSE
      OBVIOUS
    <3>1. y + 1 \in 1..x + z /\ y < n
      BY <1>1
    <3> QED
      BY <1>3, <1>7, <3>1
  <2>2. ~(x + z < y)
    <3> SUFFICES ASSUME x + z < y PROVE FALSE
      OBVIOUS
    <3>1. x + z + 1 \in 1..y /\ x + z < n
      BY <1>1
    <3> QED
      BY <1>3, <1>8, <3>1
  <2> QED
    BY <2>1, <2>2
<1>10. PICK X \in Seq(Entries), Y \in Seq(Entries) : X = FromFront(F, c2) /\ Y = FromFront(E, c2)
  <2>1. FromFront(F, c2) \in Seq(Entries) /\ FromFront(E, c2) \in Seq(Entries)
    BY <1>3, <1>6
  <2> QED
    BY <2>1
<1>11. Len(X) = n - y /\ Len(Y) = n - y
  <2>1. Len(X) = n - x - z /\ Len(Y) = n - y
    BY <1>3, <1>6, <1>10
  <2> QED
    BY <1>1, <1>9, <2>1
<1>12. ASSUME NEW i \in 1..n - y PROVE X[i] = Y[i]
  <2>1. i \in 1..n - x - z /\ i + z \in 1..n - x /\ (i + z) + x = i + y
    BY <1>1, <1>9
  <2>2. X[i] = F[i + z] /\ F[i + z] = E[i + y]
    BY <1>5, <1>6, <1>10, <2>1
  <2>3. Y[i] = E[i + y]
    BY <1>3, <1>10
  <2> QED
    BY <2>2, <2>3
<1>13. X = Y
  BY <1>11, <1>12, SameSeq
<1> QED
  BY <1>4, <1>10, <1>13

-----------------------------------------------------------------------------
(* Where sessions begin. *)

(* Where the session of the i-th arrival began, p being where the one of    *)
(* the arrival before it did.                                               *)
StartAt(c, P, i, p) ==
  IF \/ P[i].entry.t - P[i - 1].entry.t > c.gap
     \/ P[i].entry.t - P[p].entry.t > c.timespan
  THEN i ELSE p

Starts(c, P, st) ==
  /\ st \in [1..Len(P) -> 1..Len(P)]
  /\ st[1] = 1
  /\ \A i \in 2..Len(P) : st[i] = StartAt(c, P, i, st[i - 1])

StartsUpTo(c, P, st, m) == st[1] = 1 /\ \A i \in 2..m : st[i] = StartAt(c, P, i, st[i - 1])

(* The first m of two sequences of arrivals are the same. *)
Agree(P, Q, m) == \A i \in 1..m : P[i] = Q[i]

LEMMA SameStarts ==
  ASSUME NEW c, NEW P, NEW Q, NEW m \in Nat, Agree(P, Q, m), NEW f \in [1..m -> 1..m], NEW g,
         StartsUpTo(c, P, f, m), StartsUpTo(c, Q, g, m)
  PROVE  Agree(f, g, m)
<1> USE DEF Agree, StartsUpTo
<1> DEFINE D == {i \in 1..m : f[i] # g[i]}
<1> SUFFICES ASSUME D # {} PROVE FALSE
  OBVIOUS
<1>1. PICK i \in D : \A j \in D : i <= j
  <2>1. D \in SUBSET Nat
    OBVIOUS
  <2> QED
    BY <2>1, LeastNatural
<1>2. i \in 2..m /\ i - 1 \in 1..m /\ i - 1 \notin D
  <2>1. f[1] = g[1]
    OBVIOUS
  <2>2. i # 1
    BY <1>1, <2>1
  <2>3. i - 1 \notin D
    BY <1>1, SMTT(20)
  <2> QED
    BY <2>2, <2>3
<1>3. f[i - 1] = g[i - 1] /\ f[i - 1] \in 1..m
  BY <1>2
<1>4. f[i] = StartAt(c, P, i, f[i - 1]) /\ g[i] = StartAt(c, Q, i, f[i - 1])
  BY <1>2, <1>3
<1>5. P[i] = Q[i] /\ P[i - 1] = Q[i - 1] /\ P[f[i - 1]] = Q[f[i - 1]]
  BY <1>2, <1>3
<1>6. f[i] = g[i]
  BY <1>4, <1>5 DEF StartAt
<1> QED
  BY <1>1, <1>6

LEMMA SessionStarts ==
  ASSUME NEW c, NEW P \in Seq(Arrival), P # <<>>
  PROVE  \E st : Starts(c, P, st) /\ SessionStart(c, P) = st[Len(P)]
<1> DEFINE m == Len(P)
           V == 1..m
           next(i, p) == StartAt(c, P, i, p)
           F == [q \in (2..m) \X V |-> next(q[1], q[2])]
<1>0. m \in Nat /\ 1 <= m
  OBVIOUS
<1>1. ASSUME NEW i \in 2..m, NEW p \in V PROVE next(i, p) \in V
  BY <1>0 DEF StartAt
<1>2. F \in [(2..m) \X V -> V]
  <2> HIDE DEF next, V
  <2> QED
    BY <1>1
<1>3. PICK f \in [1..m -> V] : f[1] = 1 /\ \A i \in 2..m : f[i] = F[<<i, f[i - 1]>>]
  <2>1. 1 \in V
    BY <1>0
  <2>0. PICK l \in Nat : l = m
    BY <1>0
  <2> HIDE DEF F, V, m
  <2>2. \E f \in [1..m -> V] : f[1] = 1 /\ \A i \in 1 + 1..m : f[i] = F[<<i, f[i - 1]>>]
    <3>1. PICK a \in Nat : a = 1 /\ a <= l /\ a + 1 = 2
      BY <1>0, <2>0
    <3>2. IsRule(F, a, l, V)
      BY <1>2, <2>0, <3>1 DEF IsRule
    <3>4. \E f : Solution(f, F, a, l, V, 1)
      BY <2>1, <3>1, <3>2, RecursionSolved
    <3>3. PICK f : Solution(f, F, a, l, V, 1)
      BY <3>4
    <3> QED
      BY <2>0, <3>1, <3>3 DEF Solution, Follows
  <2>3. 1 + 1 = 2
    OBVIOUS
  <2> QED
    BY <2>2, <2>3
<1>4. \A i \in 2..m : f[i] = next(i, f[i - 1])
  <2> SUFFICES ASSUME NEW i \in 2..m PROVE f[i] = next(i, f[i - 1])
    OBVIOUS
  <2>1. f[i - 1] \in V
    BY <1>0, <1>3
  <2> HIDE DEF next, V
  <2> QED
    BY <1>3, <2>1
<1> DEFINE Body(g) == [i \in 1..Len(P) |-> IF i = 1 THEN 1 ELSE next(i, g[i - 1])]
<1>5. f = Body(f)
  <2>1. \A i \in 1..m : f[i] = IF i = 1 THEN 1 ELSE next(i, f[i - 1])
    <3>1. \A i \in 1..m : i # 1 => i \in 2..m
      BY <1>0
    <3> HIDE DEF next
    <3> QED
      BY <1>3, <1>4, <3>1
  <2>2. f = [i \in 1..m |-> f[i]]
    BY <1>3
  <2> HIDE DEF next
  <2> QED
    BY <2>1, <2>2
<1>6. ASSUME NEW g, g = Body(g) PROVE g = f
  <2>1. /\ g[1] = 1 /\ \A i \in 2..m : g[i] = next(i, g[i - 1])
        /\ g = [i \in 1..m |-> g[i]] /\ f = [i \in 1..m |-> f[i]]
    <3> HIDE DEF next
    <3>1. \A i \in 1..m : g[i] = IF i = 1 THEN 1 ELSE next(i, g[i - 1])
      BY <1>6
    <3>2. g = [i \in 1..m |-> g[i]]
      BY <1>6
    <3>3. 1 \in 1..m /\ \A i \in 2..m : i \in 1..m /\ i # 1
      BY <1>0
    <3>4. f = [i \in 1..m |-> f[i]]
      BY <1>3
    <3> QED
      BY <3>1, <3>2, <3>3, <3>4
  <2>2. \A i \in 1..m : f[i] = g[i]
    <3>1. PICK l \in Nat : l = m
      BY <1>0
    <3>2. f \in [1..l -> 1..l] /\ Agree(P, P, l)
      BY <1>3, <3>1 DEF Agree
    <3>3. StartsUpTo(c, P, f, l) /\ StartsUpTo(c, P, g, l)
      BY <1>3, <1>4, <2>1, <3>1 DEF StartsUpTo
    <3>4. Agree(f, g, l)
      BY <3>2, <3>3, SameStarts
    <3> QED
      BY <3>1, <3>4 DEF Agree
  <2> QED
    BY <2>1, <2>2
<1>7. (CHOOSE g : g = Body(g)) = f
  <2> HIDE DEF Body
  <2> QED
    BY <1>5, <1>6
<1>8. SessionStart(c, P) = (CHOOSE g : g = Body(g))[Len(P)]
  BY DEF SessionStart, StartAt
<1>9. Starts(c, P, f)
  BY <1>3, <1>4 DEF Starts
<1> HIDE DEF Body
<1> QED
  BY <1>7, <1>8, <1>9

LEMMA SessionStartType ==
  ASSUME NEW c, NEW P \in Seq(Arrival), P # <<>>
  PROVE  SessionStart(c, P) \in 1..Len(P)
<1>1. PICK st : Starts(c, P, st) /\ SessionStart(c, P) = st[Len(P)]
  BY SessionStarts
<1>2. Len(P) \in 1..Len(P)
  OBVIOUS
<1> QED
  BY <1>1, <1>2 DEF Starts

(* An arrival opens a session or joins the one that is open.                *)
LEMMA SessionAppend ==
  ASSUME NEW c, NEW P \in Seq(Arrival), NEW a \in Arrival
  PROVE  SessionStart(c, Append(P, a)) =
           IF \/ P = <<>>
              \/ a.entry.t - P[Len(P)].entry.t > c.gap
              \/ a.entry.t - P[SessionStart(c, P)].entry.t > c.timespan
           THEN Len(P) + 1 ELSE SessionStart(c, P)
<1>1. PICK Q \in Seq(Arrival) : Q = Append(P, a)
  BY Appended
<1>2. /\ Len(Q) = Len(P) + 1 /\ Q[Len(P) + 1] = a
      /\ \A i \in 1..Len(P) : Q[i] = P[i]
  BY <1>1, Appended
<1>3. Len(P) \in Nat /\ Q # <<>>
  BY <1>2
<1>4. PICK su : Starts(c, Q, su) /\ SessionStart(c, Q) = su[Len(Q)]
  BY <1>3, SessionStarts
<1>5. CASE P = <<>>
  <2>1. Len(P) = 0
    BY <1>5
  <2>2. su[1] = 1
    BY <1>4 DEF Starts
  <2>3. SessionStart(c, Q) = 1
    BY <1>2, <1>4, <2>1, <2>2
  <2> QED
    BY <1>1, <1>5, <2>1, <2>3
<1>6. CASE P # <<>>
  <2>1. PICK st : Starts(c, P, st) /\ SessionStart(c, P) = st[Len(P)]
    BY <1>6, SessionStarts
  <2>2. \A i \in 1..Len(P) : st[i] = su[i]
    <3>1. PICK l \in Nat : l = Len(P)
      BY <1>3
    <3>2. st \in [1..l -> 1..l] /\ Agree(P, Q, l)
      BY <1>2, <2>1, <3>1 DEF Agree, Starts
    <3>3. StartsUpTo(c, P, st, l) /\ StartsUpTo(c, Q, su, l)
      <4>1. \A i \in 2..l : i \in 2..Len(P) /\ i \in 2..Len(Q)
        BY <1>2, <1>3, <3>1
      <4> QED
        BY <1>4, <2>1, <4>1 DEF Starts, StartsUpTo
    <3>4. Agree(st, su, l)
      BY <3>2, <3>3, SameStarts
    <3> QED
      BY <3>1, <3>4 DEF Agree
  <2>3. Len(P) \in 1..Len(P) /\ Len(Q) \in 2..Len(Q) /\ Len(Q) - 1 = Len(P)
    BY <1>2, <1>3, <1>6
  <2>4. su[Len(Q)] = StartAt(c, Q, Len(Q), su[Len(P)])
    BY <1>4, <2>3 DEF Starts
  <2>5. su[Len(P)] = SessionStart(c, P) /\ SessionStart(c, P) \in 1..Len(P)
    BY <1>6, <2>1, <2>2, <2>3, SessionStartType
  <2>6. /\ Q[Len(Q)] = a /\ Q[Len(Q) - 1] = P[Len(P)]
        /\ Q[SessionStart(c, P)] = P[SessionStart(c, P)]
    BY <1>2, <2>3, <2>5
  <2>7. SessionStart(c, Q) = StartAt(c, Q, Len(Q), SessionStart(c, P))
    BY <1>4, <2>4, <2>5
  <2> QED
    BY <1>1, <1>2, <1>6, <2>6, <2>7 DEF StartAt
<1> QED
  BY <1>5, <1>6

-----------------------------------------------------------------------------
(* The front and the back of a window. *)

LEMMA EndsOfWindow ==
  ASSUME NEW w \in Windows, ~IsEmpty(w)
  PROVE  /\ Latest(w) \in TimesOf(w) /\ Earliest(w) \in TimesOf(w)
         /\ \A s \in Slots : w.hits[s] # <<>> =>
              /\ w.hits[s][Len(w.hits[s])].t <= Latest(w)
              /\ Earliest(w) <= w.hits[s][1].t
<1> DEFINE L == {Last(w.hits[s]).t : s \in Full(w)}
           H == {Head(w.hits[s]).t : s \in Full(w)}
<1>1. ASSUME NEW s \in Full(w)
      PROVE  /\ Last(w.hits[s]).t \in TimesOf(w) /\ Head(w.hits[s]).t \in TimesOf(w)
             /\ Last(w.hits[s]) = w.hits[s][Len(w.hits[s])] /\ Head(w.hits[s]) = w.hits[s][1]
  <2>1. s \in Slots /\ w.hits[s] # <<>> /\ w.hits[s] \in Seq(Entries)
    BY TimesOfType DEF Full
  <2>2. Len(w.hits[s]) \in 1..Len(w.hits[s]) /\ 1 \in 1..Len(w.hits[s])
    BY <2>1
  <2>3. Last(w.hits[s]) = w.hits[s][Len(w.hits[s])] /\ Head(w.hits[s]) = w.hits[s][1]
    BY <2>1 DEF Last
  <2> QED
    BY <2>1, <2>2, <2>3, TimesOfType
<1>2. /\ L \subseteq TimesOf(w) /\ H \subseteq TimesOf(w) /\ TimesOf(w) \subseteq 0..MaxTime
      /\ L # {} /\ H # {} /\ MaxTime \in Nat
  BY <1>1, TimesOfType, ConstantsAssumption, SMTT(20) DEF IsEmpty
<1>3. Latest(w) \in L /\ \A y \in L : y <= Latest(w)
  <2> DEFINE I == {MaxTime - x : x \in L}
  <2>1. Latest(w) = Max(L)
    BY DEF Latest
  <2> HIDE DEF L
  <2>2. I \in SUBSET Nat /\ I # {}
    <3>1. \A x \in L : MaxTime - x \in Nat
      BY <1>2
    <3>2. PICK x \in L : TRUE
      BY <1>2
    <3>3. MaxTime - x \in I
      BY <3>2
    <3> QED
      BY <3>1, <3>3
  <2> HIDE DEF I
  <2>3. PICK i \in I : \A j \in I : i <= j
    BY <2>2, LeastNatural
  <2>4. PICK x \in L : i = MaxTime - x
    BY DEF I
  <2>5. \A y \in L : MaxTime - y \in I
    BY DEF I
  <2>6. \A y \in L : x >= y
    BY <1>2, <2>3, <2>4, <2>5
  <2>7. Max(L) \in L /\ \A y \in L : Max(L) >= y
    BY <2>6 DEF Max
  <2> QED
    BY <1>2, <2>1, <2>7
<1>4. Earliest(w) \in H /\ \A y \in H : Earliest(w) <= y
  <2>1. Earliest(w) = Min(H)
    BY DEF Earliest
  <2> HIDE DEF H
  <2>2. H \in SUBSET Nat
    BY <1>2
  <2> QED
    BY <1>2, <2>1, <2>2, MinOf
<1>5. ASSUME NEW s \in Slots, w.hits[s] # <<>>
      PROVE  /\ w.hits[s][Len(w.hits[s])].t <= Latest(w)
             /\ Earliest(w) <= w.hits[s][1].t
  <2>1. s \in Full(w)
    BY <1>5 DEF Full
  <2>2. w.hits[s][Len(w.hits[s])].t \in L /\ w.hits[s][1].t \in H
    BY <1>1, <2>1
  <2> HIDE DEF L, H
  <2> QED
    BY <1>3, <1>4, <2>2
<1> QED
  BY <1>2, <1>3, <1>4, <1>5

(* How a window opens depends on its entries only.                          *)
LEMMA OpenedHits ==
  ASSUME NEW w, NEW v, w.hits = v.hits, NEW c, NEW t
  PROVE  /\ Full(w) = Full(v) /\ (IsEmpty(w) <=> IsEmpty(v))
         /\ Latest(w) = Latest(v) /\ Earliest(w) = Earliest(v)
         /\ RollsOver(w, c, t) <=> RollsOver(v, c, t)
<1>1. Full(w) = Full(v)
  BY DEF Full
<1>2. Latest(w) = Latest(v) /\ Earliest(w) = Earliest(v)
  BY <1>1 DEF Latest, Earliest
<1> QED
  BY <1>1, <1>2 DEF IsEmpty, RollsOver

LEMMA OpenedIs ==
  ASSUME NEW w \in Windows, NEW c, NEW t, NEW s \in Slots
  PROVE  Opened(w, c, t).hits[s] =
           IF c.mode = "sliding" THEN FromFront(w.hits[s], t - c.timespan)
           ELSE IF RollsOver(w, c, t) THEN <<>> ELSE w.hits[s]
<1>1. Evict(w, t - c.timespan).hits[s] = FromFront(w.hits[s], t - c.timespan)
  BY DEF Evict, Windows
<1>2. Clear(w).hits[s] = <<>>
  BY DEF Clear, NewWindow
<1> QED
  BY <1>1, <1>2 DEF Opened

-----------------------------------------------------------------------------
(* The cap. *)

Capped(c, E) == IF c.cap = 0 THEN E ELSE Newest(E, c.cap, c.mode = "session")

(* What the cap of a rule is if its windows are to be exact. *)
CapOK(c) == c.mode = "session" => c.cap # 1

LEMMA CappedKeeps ==
  ASSUME NEW c \in CorrelationRule, CapOK(c), NEW E \in Seq(Entries)
  PROVE  /\ Capped(c, E) \in Seq(Entries)
         /\ c.cap # 0 => Len(Capped(c, E)) <= c.cap
         /\ Capped(c, E) = <<>> <=> E = <<>>
         /\ E # <<>> => Capped(c, E)[Len(Capped(c, E))] = E[Len(E)]
         /\ E # <<>> /\ c.mode = "session" => Capped(c, E)[1] = E[1]
         /\ \A i \in 1..Len(Capped(c, E)) : \E j \in 1..Len(E) : Capped(c, E)[i] = E[j]
<1>1. CASE c.cap = 0
  BY <1>1 DEF Capped
<1>2. CASE c.cap # 0
  <2> DEFINE anchored == c.mode = "session"
  <2>1. c.cap \in Nat \ {0}
    BY <1>2 DEF CorrelationRule
  <2>2. PICK cap \in Nat \ {0} : cap = c.cap
    BY <2>1
  <2>3. anchored \in BOOLEAN /\ (anchored => cap # 1)
    BY <2>2 DEF CapOK
  <2>4. Capped(c, E) = Newest(E, cap, anchored)
    BY <1>2, <2>2 DEF Capped
  <2> HIDE DEF anchored
  <2>5. LET N == Newest(E, cap, anchored)
         IN  /\ N \in Seq(Entries) /\ Len(N) <= cap /\ Len(N) <= Len(E)
             /\ N = <<>> <=> E = <<>>
             /\ E # <<>> => N[Len(N)] = E[Len(E)]
             /\ E # <<>> /\ anchored => N[1] = E[1]
    BY <2>3, NewestKeeps
  <2>6. \A i \in 1..Len(Newest(E, cap, anchored)) :
          \E j \in 1..Len(E) : Newest(E, cap, anchored)[i] = E[j]
    BY NewestType
  <2> QED
    BY <2>2, <2>4, <2>5, <2>6 DEF anchored
<1> QED
  BY <1>1, <1>2

LEMMA CappedFits ==
  ASSUME NEW c, NEW E, c.cap # 0 => Len(E) <= c.cap
  PROVE  Capped(c, E) = E
  BY DEF Capped, Newest

LEMMA CappedAppend ==
  ASSUME NEW c \in CorrelationRule, CapOK(c), NEW E \in Seq(Entries), NEW e \in Entries
  PROVE  Capped(c, Append(Capped(c, E), e)) = Capped(c, Append(E, e))
<1>1. CASE c.cap = 0
  BY <1>1 DEF Capped
<1>2. CASE c.cap # 0
  <2> DEFINE anchored == c.mode = "session"
  <2>1. c.cap \in Nat \ {0}
    BY <1>2 DEF CorrelationRule
  <2>2. PICK cap \in Nat \ {0} : cap = c.cap
    BY <2>1
  <2>3. anchored \in BOOLEAN /\ (anchored => cap # 1)
    BY <2>2 DEF CapOK
  <2>4. \A q : Capped(c, q) = Newest(q, cap, anchored)
    BY <1>2, <2>2 DEF Capped
  <2> HIDE DEF anchored
  <2>5. Newest(Append(Newest(E, cap, anchored), e), cap, anchored)
           = Newest(Append(E, e), cap, anchored)
    BY <2>3, NewestAppend
  <2> QED
    BY <2>4, <2>5
<1> QED
  BY <1>1, <1>2

LEMMA CappedCut ==
  ASSUME NEW c \in CorrelationRule, c.mode = "sliding",
         NEW E \in Seq(Entries), InOrderOfTime(E), NEW cutoff \in Int
  PROVE  FromFront(Capped(c, E), cutoff) = Capped(c, FromFront(E, cutoff))
<1>1. CASE c.cap = 0
  BY <1>1 DEF Capped
<1>2. CASE c.cap # 0
  <2>1. c.cap \in Nat \ {0}
    BY <1>2 DEF CorrelationRule
  <2>2. PICK cap \in Nat \ {0} : cap = c.cap
    BY <2>1
  <2>3. (c.mode = "session") = FALSE
    OBVIOUS
  <2>4. \A q : Capped(c, q) = Newest(q, cap, FALSE)
    BY <1>2, <2>2, <2>3 DEF Capped
  <2>5. FromFront(Newest(E, cap, FALSE), cutoff) = Newest(FromFront(E, cutoff), cap, FALSE)
    BY NewestCut
  <2> QED
    BY <2>4, <2>5
<1> QED
  BY <1>1, <1>2

-----------------------------------------------------------------------------
(* Windows by definition and windows as kept. *)

Which(c, P, t, slot) == {i \in InWindow(c, P, t) : P[i].slot = slot}

(* Arrivals in order, the last of them no later than t. *)
Regular(P, t) ==
  /\ P \in Seq(Arrival)
  /\ Sorted(P)
  /\ \A i \in 1..Len(P) : P[i].entry.t <= t

(* The hits of w are those a window of c has at time t after P. *)
Exact(c, w, P, t) == \A s \in Slots : w.hits[s] = Reference(c, P, t, s)

LEMMA ReferenceIs ==
  ASSUME NEW c, NEW P, NEW t, NEW s
  PROVE  Reference(c, P, t, s) = Capped(c, Content(P, Which(c, P, t, s)))
  BY DEF Reference, Capped, Content, Which

LEMMA RuleType ==
  ASSUME NEW c \in CorrelationRule
  PROVE  /\ c.timespan \in Nat /\ c.timespan > 0 /\ c.gap \in Nat /\ c.cap \in Nat
         /\ c.mode \in {"sliding", "tumbling", "session"}
  BY DEF CorrelationRule

LEMMA ArrivalType ==
  ASSUME NEW P \in Seq(Arrival), NEW i \in 1..Len(P)
  PROVE  /\ P[i] \in Arrival /\ P[i].slot \in Slots /\ P[i].entry \in Entries
         /\ P[i].entry.t \in 0..MaxTime /\ P[i].entry.t \in Int
<1>1. P[i] \in Arrival
  OBVIOUS
<1>2. MaxTime \in Nat
  BY ConstantsAssumption
<1> QED
  BY <1>1, <1>2 DEF Arrival, Entries

LEMMA InWindowType ==
  ASSUME NEW c \in CorrelationRule, NEW P \in Seq(Arrival), NEW t
  PROVE  /\ InWindow(c, P, t) \in SUBSET (1..Len(P))
         /\ \A s : Which(c, P, t, s) \in SUBSET (1..Len(P))
<1>1. DOMAIN P = 1..Len(P)
  OBVIOUS
<1>2. CASE c.mode = "sliding"
  BY <1>1, <1>2 DEF InWindow, Which
<1>3. CASE c.mode = "tumbling"
  BY <1>1, <1>3 DEF InWindow, Which
<1>4. CASE c.mode = "session"
  <2>1. P # <<>> => SessionStart(c, P) \in 1..Len(P)
    BY SessionStartType
  <2>2. InWindow(c, P, t) = {} \/ (P # <<>> /\ InWindow(c, P, t) = SessionStart(c, P)..Len(P))
    BY <1>4 DEF InWindow
  <2>3. InWindow(c, P, t) \in SUBSET (1..Len(P))
    BY <2>1, <2>2
  <2> QED
    BY <2>3 DEF Which
<1> QED
  BY <1>2, <1>3, <1>4, RuleType

LEMMA ReferenceType ==
  ASSUME NEW c \in CorrelationRule, CapOK(c), NEW P \in Seq(Arrival), NEW t, NEW s
  PROVE  /\ Reference(c, P, t, s) \in Seq(Entries)
         /\ Reference(c, P, t, s) = <<>> <=> Which(c, P, t, s) = {}
         /\ \A i \in 1..Len(Reference(c, P, t, s)) :
              \E j \in Which(c, P, t, s) : Reference(c, P, t, s)[i] = P[j].entry
<1> DEFINE W == Which(c, P, t, s)
<1>1. W \in SUBSET (1..Len(P))
  BY InWindowType
<1> HIDE DEF W
<1>p. PICK p \in Nat : \E f : Lists(P, W, p, f)
  BY <1>1, ContentType DEF Lists
<1>2. PICK f :
         /\ Enum(f, p, W)
         /\ Content(P, W) \in Seq(Entries) /\ Len(Content(P, W)) = p
         /\ \A n \in 1..p : Content(P, W)[n] = P[f[n]].entry
  BY <1>p DEF Lists
<1>3. Content(P, W) = <<>> <=> W = {}
  BY <1>1, ContentEmpty
<1>4. PICK E \in Seq(Entries) : E = Content(P, W)
  BY <1>2
<1>5. /\ Capped(c, E) \in Seq(Entries)
      /\ Capped(c, E) = <<>> <=> E = <<>>
      /\ \A i \in 1..Len(Capped(c, E)) : \E j \in 1..Len(E) : Capped(c, E)[i] = E[j]
  BY CappedKeeps
<1>6. \A n \in 1..p : f[n] \in W
  BY <1>2 DEF Enum
<1>7. \A i \in 1..Len(Capped(c, E)) : \E j \in W : Capped(c, E)[i] = P[j].entry
  <2> SUFFICES ASSUME NEW i \in 1..Len(Capped(c, E))
               PROVE  \E j \in W : Capped(c, E)[i] = P[j].entry
    OBVIOUS
  <2>1. PICK n \in 1..Len(E) : Capped(c, E)[i] = E[n]
    BY <1>5
  <2>2. n \in 1..p
    BY <1>2, <1>4
  <2> QED
    BY <1>2, <1>4, <1>6, <2>1, <2>2
<1>8. Reference(c, P, t, s) = Capped(c, E)
  BY <1>4, ReferenceIs DEF W
<1> QED
  BY <1>3, <1>4, <1>5, <1>7, <1>8 DEF W

(* Buckets follow time. *)
LEMMA BucketOrder ==
  ASSUME NEW a \in Int, NEW b \in Int, NEW d \in Nat, d > 0, a <= b
  PROVE  /\ BucketStart(a, d) \in Int /\ BucketStart(b, d) \in Int
         /\ BucketStart(a, d) <= BucketStart(b, d)
         /\ BucketStart(a, d) <= a /\ a < BucketStart(a, d) + d
<1> DEFINE x == a \div d
           y == b \div d
<1>1. /\ a = d * x + (a % d) /\ a % d \in 0..d - 1 /\ x \in Int
      /\ b = d * y + (b % d) /\ b % d \in 0..d - 1 /\ y \in Int
  OBVIOUS
<1>2. BucketStart(a, d) = d * x /\ BucketStart(b, d) = d * y
  BY <1>1 DEF BucketStart
<1> DEFINE r == a % d
           q == b % d
<1> HIDE DEF x, y, r, q
<1>3. a = d * x + r /\ b = d * y + q /\ r \in 0..d - 1 /\ q \in 0..d - 1 /\ x \in Int /\ y \in Int
  BY <1>1 DEF r, q
<1>4. x <= y
  <2> SUFFICES ASSUME x >= y + 1 PROVE FALSE
    BY <1>3
  <2>1. d * x >= d * (y + 1)
    BY <1>3
  <2>2. d * (y + 1) = d * y + d
    BY <1>3
  <2>3. d * x \in Int /\ d * y \in Int
    BY <1>3
  <2> QED
    BY <1>3, <2>1, <2>2, <2>3
<1>5. d * x <= d * y /\ d * x \in Int /\ d * y \in Int
  BY <1>3, <1>4
<1> QED
  BY <1>2, <1>3, <1>5

(* With time a tumbling window or a session stays what it is or ends.       *)
LEMMA LaterWindow ==
  ASSUME NEW c \in CorrelationRule, c.mode # "sliding", NEW P, NEW t \in Int, NEW u \in Int,
         Regular(P, t), t <= u
  PROVE  /\ InWindow(c, P, u) = InWindow(c, P, t) \/ InWindow(c, P, u) = {}
         /\ c.mode = "tumbling" =>
              (InWindow(c, P, u) = {} <=>
                 InWindow(c, P, t) = {} \/ BucketStart(u, c.timespan) > BucketStart(t, c.timespan))
<1>0. P \in Seq(Arrival) /\ c.timespan \in Nat /\ c.timespan > 0 /\ c.gap \in Nat
  BY RuleType DEF Regular
<1>1. CASE c.mode = "tumbling"
  <2>1. \A v : InWindow(c, P, v) =
          {i \in 1..Len(P) : BucketStart(P[i].entry.t, c.timespan) = BucketStart(v, c.timespan)}
    BY <1>0, <1>1 DEF InWindow
  <2>2. /\ BucketStart(t, c.timespan) \in Int /\ BucketStart(u, c.timespan) \in Int
        /\ BucketStart(t, c.timespan) <= BucketStart(u, c.timespan)
    BY <1>0, BucketOrder
  <2>3. CASE BucketStart(u, c.timespan) = BucketStart(t, c.timespan)
    <3>1. InWindow(c, P, u) = InWindow(c, P, t)
      BY <2>1, <2>3
    <3>2. ~(BucketStart(u, c.timespan) > BucketStart(t, c.timespan))
      BY <2>2, <2>3
    <3> QED
      BY <3>1, <3>2
  <2>4. CASE BucketStart(u, c.timespan) > BucketStart(t, c.timespan)
    <3>1. ASSUME NEW i \in 1..Len(P)
          PROVE  BucketStart(P[i].entry.t, c.timespan) # BucketStart(u, c.timespan)
      <4>1. P[i].entry.t \in Int /\ P[i].entry.t <= t
        BY <1>0, ArrivalType DEF Regular
      <4>2. /\ BucketStart(P[i].entry.t, c.timespan) \in Int
            /\ BucketStart(P[i].entry.t, c.timespan) <= BucketStart(t, c.timespan)
        BY <1>0, <4>1, BucketOrder
      <4> QED
        BY <2>2, <2>4, <4>2
    <3>2. InWindow(c, P, u) = {}
      BY <2>1, <3>1
    <3> QED
      BY <2>4, <3>2
  <2>5. BucketStart(u, c.timespan) = BucketStart(t, c.timespan) \/ BucketStart(u, c.timespan) > BucketStart(t, c.timespan)
    BY <2>2
  <2> QED
    BY <2>3, <2>4, <2>5
<1>2. CASE c.mode = "session"
  <2>1. CASE P = <<>>
    BY <1>2, <2>1 DEF InWindow
  <2>2. CASE P # <<>>
    <3> DEFINE l == P[Len(P)].entry.t
               f == P[SessionStart(c, P)].entry.t
    <3>1. SessionStart(c, P) \in 1..Len(P) /\ Len(P) \in 1..Len(P)
      BY <1>0, <2>2, SessionStartType
    <3>2. l \in Int /\ f \in Int
      BY <1>0, <3>1, ArrivalType
    <3> HIDE DEF l, f
    <3>3. /\ t - l > c.gap => u - l > c.gap
          /\ t - f > c.timespan => u - f > c.timespan
      BY <1>0, <3>2
    <3> QED
      BY <1>2, <2>2, <3>3 DEF InWindow, l, f
  <2> QED
    BY <1>2, <2>1, <2>2
<1> QED
  BY <1>1, <1>2, RuleType

-----------------------------------------------------------------------------
(* A window that is exact, and is not empty, ends when the definition says. *)

LEMMA ExactTimes ==
  ASSUME NEW c \in CorrelationRule, CapOK(c), NEW o \in Windows, NEW t \in Int, NEW P,
         Regular(P, t), Exact(c, o, P, t)
  PROVE  /\ \A x \in TimesOf(o) : \E i \in InWindow(c, P, t) : P[i].entry.t = x
         /\ ~IsEmpty(o) => InWindow(c, P, t) # {}
<1>1. P \in Seq(Arrival)
  BY DEF Regular
<1>2. ASSUME NEW s \in Slots, NEW i \in 1..Len(o.hits[s])
      PROVE  \E j \in InWindow(c, P, t) : P[j].entry = o.hits[s][i]
  <2>1. o.hits[s] = Reference(c, P, t, s)
    BY DEF Exact
  <2>2. PICK j \in Which(c, P, t, s) : Reference(c, P, t, s)[i] = P[j].entry
    BY <1>1, <1>2, <2>1, ReferenceType
  <2> QED
    BY <2>1, <2>2 DEF Which
<1>3. ASSUME NEW x \in TimesOf(o) PROVE \E i \in InWindow(c, P, t) : P[i].entry.t = x
  <2>1. PICK s \in Slots : \E i \in 1..Len(o.hits[s]) : o.hits[s][i].t = x
    BY TimesOfType
  <2>2. PICK i \in 1..Len(o.hits[s]) : o.hits[s][i].t = x
    BY <2>1
  <2> QED
    BY <1>2, <2>2
<1>4. ASSUME ~IsEmpty(o) PROVE InWindow(c, P, t) # {}
  <2>1. PICK s \in Slots : o.hits[s] # <<>>
    BY <1>4 DEF IsEmpty, Full
  <2>2. o.hits[s] \in Seq(Entries)
    BY TimesOfType
  <2>3. 1 \in 1..Len(o.hits[s])
    BY <2>1, <2>2
  <2> QED
    BY <1>2, <2>3
<1> QED
  BY <1>3, <1>4

(* The first and the last of an exact session. *)
LEMMA ExactSession ==
  ASSUME NEW c \in CorrelationRule, CapOK(c), c.mode = "session",
         NEW o \in Windows, NEW t \in Int, NEW P,
         Regular(P, t), Exact(c, o, P, t), ~IsEmpty(o)
  PROVE  /\ P # <<>> /\ P \in Seq(Arrival)
         /\ InWindow(c, P, t) = SessionStart(c, P)..Len(P)
         /\ Latest(o) = P[Len(P)].entry.t
         /\ Earliest(o) = P[SessionStart(c, P)].entry.t
<1>1. P \in Seq(Arrival)
  BY DEF Regular
<1>2. P # <<>> /\ InWindow(c, P, t) = SessionStart(c, P)..Len(P)
  <2>1. InWindow(c, P, t) # {}
    BY ExactTimes
  <2> QED
    BY <2>1 DEF InWindow
<1> DEFINE l == Len(P)
           f == SessionStart(c, P)
<1>3. f \in 1..l /\ l \in 1..l /\ f \in f..l /\ l \in f..l /\ l \in Nat
  <2>1. f \in 1..l
    BY <1>1, <1>2, SessionStartType
  <2>2. l \in Nat
    BY <1>1
  <2> QED
    BY <2>1, <2>2
<1>4. \A i \in f..l : P[f].entry.t <= P[i].entry.t /\ P[i].entry.t <= P[l].entry.t
  <2> SUFFICES ASSUME NEW i \in f..l
               PROVE  P[f].entry.t <= P[i].entry.t /\ P[i].entry.t <= P[l].entry.t
    OBVIOUS
  <2>1. i \in 1..l /\ f <= i /\ i <= l
    BY <1>3
  <2> QED
    BY <1>3, <2>1 DEF Regular, Sorted
<1>5. P[f].entry.t \in Int /\ P[l].entry.t \in Int /\ P[l].slot \in Slots /\ P[f].slot \in Slots
  BY <1>1, <1>3, ArrivalType
<1>6. \A x \in TimesOf(o) : x \in Int /\ P[f].entry.t <= x /\ x <= P[l].entry.t
  <2>1. \A x \in TimesOf(o) : \E i \in f..l : P[i].entry.t = x
    <3>1. \A x \in TimesOf(o) : \E i \in InWindow(c, P, t) : P[i].entry.t = x
      BY ExactTimes
    <3> QED
      BY <1>2, <3>1
  <2>2. MaxTime \in Nat
    BY ConstantsAssumption
  <2> QED
    BY <1>4, <2>1, <2>2, TimesOfType
<1>7. /\ Latest(o) \in TimesOf(o) /\ Earliest(o) \in TimesOf(o)
      /\ \A s \in Slots : o.hits[s] # <<>> =>
              /\ o.hits[s][Len(o.hits[s])].t <= Latest(o)
              /\ Earliest(o) <= o.hits[s][1].t
  BY EndsOfWindow
<1>8. ASSUME NEW s \in Slots, NEW b \in f..l, P[b].slot = s
      PROVE  LET W == Which(c, P, t, s)
             IN  /\ W \in SUBSET (1..l) /\ b \in W
                 /\ \E p \in Nat : \E g : /\ Enum(g, p, W) /\ p >= 1
                                      /\ o.hits[s] # <<>>
                                      /\ o.hits[s][Len(o.hits[s])] = P[g[p]].entry
                                      /\ o.hits[s][1] = P[g[1]].entry
  <2> DEFINE W == Which(c, P, t, s)
  <2>1. W \in SUBSET (1..l) /\ b \in W
    <3>1. W \in SUBSET (1..l)
      BY <1>1, InWindowType
    <3>2. b \in W
      BY <1>2, <1>8 DEF Which
    <3> QED
      BY <3>1, <3>2
  <2> HIDE DEF W
  <2>p. PICK p \in Nat : \E g : Lists(P, W, p, g)
    BY <1>1, <2>1, ContentType DEF Lists
  <2>2. PICK g :
           /\ Enum(g, p, W)
           /\ Content(P, W) \in Seq(Entries) /\ Len(Content(P, W)) = p
           /\ \A n \in 1..p : Content(P, W)[n] = P[g[n]].entry
    BY <2>p DEF Lists
  <2>3. PICK E \in Seq(Entries) : E = Content(P, W)
    BY <2>2
  <2>4. p >= 1 /\ E # <<>>
    <3>1. PICK n \in 1..p : g[n] = b
      BY <2>1, <2>2 DEF Enum
    <3> QED
      BY <2>2, <2>3, <3>1
  <2>5. o.hits[s] = Capped(c, E)
    BY <2>3, ReferenceIs DEF W, Exact
  <2>6. /\ Capped(c, E) # <<>>
        /\ Capped(c, E)[Len(Capped(c, E))] = E[Len(E)]
        /\ Capped(c, E)[1] = E[1]
    BY <2>4, CappedKeeps
  <2>7. E[Len(E)] = P[g[p]].entry /\ E[1] = P[g[1]].entry
    <3>1. 1 \in 1..p /\ p \in 1..p /\ Len(E) = p
      BY <2>2, <2>3, <2>4
    <3> QED
      BY <2>2, <2>3, <3>1
  <2> QED
    BY <2>1, <2>2, <2>4, <2>5, <2>6, <2>7 DEF W
<1>9. Latest(o) = P[l].entry.t
  <2> DEFINE s == P[l].slot
             W == Which(c, P, t, s)
  <2>1. /\ W \in SUBSET (1..l) /\ l \in W
        /\ \E p \in Nat : \E g : /\ Enum(g, p, W) /\ p >= 1
                             /\ o.hits[s] # <<>>
                             /\ o.hits[s][Len(o.hits[s])] = P[g[p]].entry
    BY <1>3, <1>5, <1>8, SMTT(20)
  <2> HIDE DEF W, s
  <2>p. PICK p \in Nat : \E g :
           /\ Enum(g, p, W) /\ p >= 1
           /\ o.hits[s] # <<>>
           /\ o.hits[s][Len(o.hits[s])] = P[g[p]].entry
    BY <2>1
  <2>2. PICK g :
           /\ Enum(g, p, W) /\ p >= 1
           /\ o.hits[s] # <<>>
           /\ o.hits[s][Len(o.hits[s])] = P[g[p]].entry
    BY <2>p
  <2>3. g[p] = l
    <3>1. PICK n \in 1..p : g[n] = l
      BY <2>1, <2>2 DEF Enum
    <3>2. p \in 1..p /\ g[p] \in W
      BY <2>2 DEF Enum
    <3>3. g[p] \in 1..l
      BY <2>1, <3>2
    <3>4. n < p => g[n] < g[p]
      BY <2>2, <3>2 DEF Enum
    <3>5. n = p
      BY <1>3, <3>1, <3>3, <3>4
    <3> QED
      BY <3>1, <3>5
  <2>4. P[l].entry.t <= Latest(o)
    BY <1>5, <1>7, <2>2, <2>3 DEF s
  <2> QED
    BY <1>5, <1>6, <1>7, <2>4
<1>10. Earliest(o) = P[f].entry.t
  <2> DEFINE s == P[f].slot
             W == Which(c, P, t, s)
  <2>1. /\ W \in SUBSET (1..l) /\ f \in W
        /\ \E p \in Nat : \E g : /\ Enum(g, p, W) /\ p >= 1
                             /\ o.hits[s] # <<>>
                             /\ o.hits[s][1] = P[g[1]].entry
    BY <1>3, <1>5, <1>8
  <2>5. W \subseteq f..l
    BY <1>2 DEF Which
  <2> HIDE DEF W, s
  <2>p. PICK p \in Nat : \E g :
           /\ Enum(g, p, W) /\ p >= 1
           /\ o.hits[s] # <<>>
           /\ o.hits[s][1] = P[g[1]].entry
    BY <2>1
  <2>2. PICK g :
           /\ Enum(g, p, W) /\ p >= 1
           /\ o.hits[s] # <<>>
           /\ o.hits[s][1] = P[g[1]].entry
    BY <2>p
  <2>3. g[1] = f
    <3>1. PICK n \in 1..p : g[n] = f
      BY <2>1, <2>2 DEF Enum
    <3>2. 1 \in 1..p /\ g[1] \in W
      BY <2>2 DEF Enum
    <3>3. g[1] \in f..l
      BY <2>5, <3>2
    <3>4. 1 < n => g[1] < g[n]
      BY <2>2, <3>2 DEF Enum
    <3>5. n = 1
      BY <1>3, <3>1, <3>3, <3>4
    <3> QED
      BY <3>1, <3>5
  <2>4. Earliest(o) <= P[f].entry.t
    BY <1>5, <1>7, <2>2, <2>3 DEF s
  <2> QED
    BY <1>5, <1>6, <1>7, <2>4
<1> QED
  BY <1>1, <1>2, <1>9, <1>10

LEMMA ExactEnds ==
  ASSUME NEW c \in CorrelationRule, CapOK(c), c.mode # "sliding",
         NEW o \in Windows, NEW t \in Int, NEW P,
         Regular(P, t), Exact(c, o, P, t), ~IsEmpty(o), NEW u \in Int, t <= u
  PROVE  /\ InWindow(c, P, t) # {}
         /\ RollsOver(o, c, u) <=> InWindow(c, P, u) = {}
         /\ c.mode = "tumbling" => BucketStart(Latest(o), c.timespan) = BucketStart(t, c.timespan)
<1>0. /\ P \in Seq(Arrival) /\ c.timespan \in Nat /\ c.timespan > 0 /\ c.gap \in Nat
      /\ InWindow(c, P, t) # {}
  BY RuleType, ExactTimes DEF Regular
<1>1. CASE c.mode = "tumbling"
  <2>1. PICK i \in InWindow(c, P, t) : P[i].entry.t = Latest(o)
    BY LatestType, ExactTimes
  <2>2. BucketStart(Latest(o), c.timespan) = BucketStart(t, c.timespan)
    BY <1>1, <2>1 DEF InWindow
  <2>3. InWindow(c, P, u) = {} <=> BucketStart(u, c.timespan) > BucketStart(t, c.timespan)
    BY <1>0, <1>1, LaterWindow
  <2>4. RollsOver(o, c, u) <=> BucketStart(u, c.timespan) > BucketStart(Latest(o), c.timespan)
    BY <1>0, <1>1 DEF RollsOver
  <2> QED
    BY <1>0, <2>2, <2>3, <2>4
<1>2. CASE c.mode = "session"
  <2>1. /\ P # <<>>
        /\ InWindow(c, P, t) = SessionStart(c, P)..Len(P)
        /\ Latest(o) = P[Len(P)].entry.t
        /\ Earliest(o) = P[SessionStart(c, P)].entry.t
    BY <1>2, ExactSession
  <2>2. RollsOver(o, c, u) <=>
           u - P[Len(P)].entry.t > c.gap \/ u - P[SessionStart(c, P)].entry.t > c.timespan
    BY <1>0, <1>2, <2>1 DEF RollsOver
  <2>3. SessionStart(c, P) \in 1..Len(P)
    BY <1>0, <2>1, SessionStartType
  <2>4. SessionStart(c, P) \in SessionStart(c, P)..Len(P)
    BY <2>3
  <2>5. InWindow(c, P, u) = {} <=>
           u - P[Len(P)].entry.t > c.gap \/ u - P[SessionStart(c, P)].entry.t > c.timespan
    BY <1>2, <2>1, <2>4 DEF InWindow
  <2> QED
    BY <1>0, <1>2, <2>2, <2>5
<1> QED
  BY <1>1, <1>2, RuleType

-----------------------------------------------------------------------------
(* What time does to an exact window. *)

LEMMA SlidingCut ==
  ASSUME NEW c \in CorrelationRule, c.mode = "sliding", CapOK(c),
         NEW t \in Int, NEW u \in Int, t <= u, NEW P, Regular(P, t), NEW s
  PROVE  FromFront(Reference(c, P, t, s), u - c.timespan) = Reference(c, P, u, s)
<1> DEFINE W == Which(c, P, t, s)
           V == Which(c, P, u, s)
           cut == u - c.timespan
<1>0. P \in Seq(Arrival) /\ Sorted(P) /\ c.timespan \in Nat /\ cut \in Int
  BY RuleType DEF Regular
<1>1. W \in SUBSET (1..Len(P)) /\ V \in SUBSET (1..Len(P))
  BY <1>0, InWindowType
<1>2. V = {i \in W : P[i].entry.t >= cut}
  <2>1. DOMAIN P = 1..Len(P)
    BY <1>0
  <2>2. \A i \in 1..Len(P) : P[i].entry.t >= cut => P[i].entry.t >= t - c.timespan
    <3> SUFFICES ASSUME NEW i \in 1..Len(P), P[i].entry.t >= cut
                 PROVE  P[i].entry.t >= t - c.timespan
      OBVIOUS
    <3>1. P[i].entry.t \in Int
      BY <1>0, ArrivalType
    <3> QED
      BY <1>0, <3>1
  <2> QED
    BY <2>1, <2>2 DEF Which, InWindow
<1> HIDE DEF W, V, cut
<1>3. FromFront(Content(P, W), cut) = Content(P, V)
  BY <1>0, <1>1, <1>2, ContentCut
<1>4. PICK E \in Seq(Entries) : E = Content(P, W) /\ InOrderOfTime(E)
  <2>1. Content(P, W) \in Seq(Entries)
    BY <1>0, <1>1, ContentType
  <2>2. InOrderOfTime(Content(P, W))
    BY <1>0, <1>1, ContentInOrder
  <2> QED
    BY <2>1, <2>2
<1>5. FromFront(Capped(c, E), cut) = Capped(c, FromFront(E, cut))
  BY <1>0, <1>4, CappedCut
<1>6. /\ Reference(c, P, t, s) = Capped(c, Content(P, W))
      /\ Reference(c, P, u, s) = Capped(c, Content(P, V))
  BY ReferenceIs DEF W, V
<1>7. FromFront(Reference(c, P, t, s), cut) = Reference(c, P, u, s)
  BY <1>3, <1>4, <1>5, <1>6
<1> QED
  BY <1>7 DEF cut

LEMMA EmptyReference ==
  ASSUME NEW c \in CorrelationRule, CapOK(c), NEW P \in Seq(Arrival), NEW t, NEW s,
         InWindow(c, P, t) = {}
  PROVE  Reference(c, P, t, s) = <<>>
<1>1. Which(c, P, t, s) = {}
  BY DEF Which
<1> QED
  BY <1>1, ReferenceType

(* What is exact after it was opened at one time is exact after it was      *)
(* opened at a later one instead.                                           *)
LEMMA ExactLater ==
  ASSUME NEW c \in CorrelationRule, CapOK(c), NEW w \in Windows,
         NEW t \in 0..MaxTime, NEW u \in 0..MaxTime, t <= u, NEW P, Regular(P, t),
         Exact(c, Opened(w, c, t), P, t)
  PROVE  Exact(c, Opened(w, c, u), P, u)
<1>0. t \in Int /\ u \in Int /\ P \in Seq(Arrival) /\ c.timespan \in Nat /\ c.gap \in Nat
      /\ c.timespan > 0
  BY RuleType DEF Regular
<1>1. ASSUME NEW s \in Slots
      PROVE  Opened(w, c, u).hits[s] = Reference(c, P, u, s)
  <2>1. w.hits[s] \in Seq(Entries)
    BY TimesOfType
  <2>2. Opened(w, c, t).hits[s] = Reference(c, P, t, s)
    BY DEF Exact
  <2>3. CASE c.mode = "sliding"
    <3>1. /\ Opened(w, c, t).hits[s] = FromFront(w.hits[s], t - c.timespan)
          /\ Opened(w, c, u).hits[s] = FromFront(w.hits[s], u - c.timespan)
      BY <2>3, OpenedIs
    <3>2. /\ t - c.timespan \in Int /\ u - c.timespan \in Int
          /\ t - c.timespan <= u - c.timespan
      BY <1>0
    <3>3. FromFront(FromFront(w.hits[s], t - c.timespan), u - c.timespan)
            = FromFront(w.hits[s], u - c.timespan)
      BY <2>1, <3>2, FromFrontTwice
    <3>4. FromFront(Reference(c, P, t, s), u - c.timespan) = Reference(c, P, u, s)
      BY <1>0, <2>3, SlidingCut
    <3> QED
      BY <2>2, <3>1, <3>3, <3>4
  <2>4. CASE c.mode # "sliding"
    <3>1. \A v : Opened(w, c, v).hits[s] = IF RollsOver(w, c, v) THEN <<>> ELSE w.hits[s]
      BY <2>4, OpenedIs
    <3>2. InWindow(c, P, u) = InWindow(c, P, t) \/ InWindow(c, P, u) = {}
      BY <1>0, <2>4, LaterWindow
    <3>3. InWindow(c, P, u) = InWindow(c, P, t) => Reference(c, P, u, s) = Reference(c, P, t, s)
      BY DEF Reference
    <3>4. InWindow(c, P, u) = {} => Reference(c, P, u, s) = <<>>
      BY <1>0, EmptyReference
    <3>5. CASE IsEmpty(w)
      <4>1. ~RollsOver(w, c, u) /\ ~RollsOver(w, c, t) /\ w.hits[s] = <<>>
        BY <3>5 DEF RollsOver, IsEmpty, Full
      <4> QED
        BY <2>2, <3>1, <3>2, <3>3, <3>4, <4>1
    <3>6. CASE ~IsEmpty(w) /\ RollsOver(w, c, t)
      <4>1. RollsOver(w, c, u)
        <5> DEFINE l == Latest(w)
                   f == Earliest(w)
        <5>1. l \in 0..MaxTime /\ f \in 0..MaxTime
          BY <3>6, EndsOfWindow, TimesOfType
        <5> HIDE DEF l, f
        <5>2. /\ t - l > c.gap => u - l > c.gap
              /\ t - f > c.timespan => u - f > c.timespan
          BY <1>0, <5>1
        <5>3. /\ BucketStart(t, c.timespan) <= BucketStart(u, c.timespan)
              /\ BucketStart(t, c.timespan) \in Int /\ BucketStart(u, c.timespan) \in Int
          BY <1>0, BucketOrder
        <5>4. BucketStart(l, c.timespan) \in Int
          BY <1>0, <5>1, BucketType
        <5>5. BucketStart(t, c.timespan) > BucketStart(l, c.timespan) =>
                BucketStart(u, c.timespan) > BucketStart(l, c.timespan)
          BY <5>3, <5>4
        <5> QED
          BY <3>6, <5>2, <5>5 DEF RollsOver, l, f
      <4>2. \A r \in Slots : Opened(w, c, t).hits[r] = <<>>
        BY <2>4, <3>6, OpenedIs
      <4>3. Reference(c, P, t, s) = <<>>
        BY <2>2, <4>2
      <4> QED
        BY <3>1, <3>2, <3>3, <3>4, <4>1, <4>3
    <3>7. CASE ~IsEmpty(w) /\ ~RollsOver(w, c, t)
      <4>1. Exact(c, w, P, t)
        <5> SUFFICES ASSUME NEW r \in Slots PROVE w.hits[r] = Reference(c, P, t, r)
          BY DEF Exact
        <5>1. Opened(w, c, t).hits[r] = w.hits[r]
          BY <2>4, <3>7, OpenedIs
        <5> QED
          BY <5>1 DEF Exact
      <4>2. InWindow(c, P, t) # {} /\ (RollsOver(w, c, u) <=> InWindow(c, P, u) = {})
        BY <1>0, <2>4, <3>7, <4>1, ExactEnds
      <4>3. w.hits[s] = Reference(c, P, t, s)
        BY <4>1 DEF Exact
      <4> QED
        BY <3>1, <3>2, <3>3, <3>4, <4>2, <4>3
    <3> QED
      BY <3>5, <3>6, <3>7
  <2> QED
    BY <2>3, <2>4
<1> QED
  BY <1>1 DEF Exact

(* An exact window has nothing left to lose at its time. *)
LEMMA ExactOpened ==
  ASSUME NEW c \in CorrelationRule, CapOK(c), NEW o \in Windows,
         NEW t \in 0..MaxTime, NEW P, Regular(P, t), Exact(c, o, P, t)
  PROVE  Exact(c, Opened(o, c, t), P, t)
<1>0. t \in Int /\ t <= t /\ P \in Seq(Arrival)
  BY DEF Regular
<1>1. ASSUME NEW s \in Slots
      PROVE  Opened(o, c, t).hits[s] = Reference(c, P, t, s)
  <2>1. o.hits[s] = Reference(c, P, t, s)
    BY DEF Exact
  <2>2. CASE c.mode = "sliding"
    <3>1. Opened(o, c, t).hits[s] = FromFront(o.hits[s], t - c.timespan)
      BY <2>2, OpenedIs
    <3>2. FromFront(Reference(c, P, t, s), t - c.timespan) = Reference(c, P, t, s)
      BY <1>0, <2>2, SlidingCut
    <3> QED
      BY <2>1, <3>1, <3>2
  <2>3. CASE c.mode # "sliding"
    <3>1. ~RollsOver(o, c, t)
      <4>1. CASE IsEmpty(o)
        BY <4>1 DEF RollsOver
      <4>2. CASE ~IsEmpty(o)
        BY <1>0, <2>3, <4>2, ExactEnds
      <4> QED
        BY <4>1, <4>2
    <3>2. Opened(o, c, t).hits[s] = o.hits[s]
      BY <2>3, <3>1, OpenedIs
    <3> QED
      BY <2>1, <3>2
  <2> QED
    BY <2>2, <2>3
<1> QED
  BY <1>1 DEF Exact

(* No event that comes in order is late for an exact window.                *)
LEMMA ExactNotLate ==
  ASSUME NEW c \in CorrelationRule, CapOK(c), NEW w \in Windows,
         NEW t \in 0..MaxTime, NEW P, Regular(P, t), Exact(c, Opened(w, c, t), P, t)
  PROVE  ~Late(w, c, t)
<1> SUFFICES ASSUME Late(w, c, t) PROVE FALSE
  OBVIOUS
<1>1. /\ c.mode = "tumbling" /\ ~IsEmpty(w)
      /\ BucketStart(t, c.timespan) < BucketStart(Latest(w), c.timespan)
  BY DEF Late
<1>2. /\ BucketStart(t, c.timespan) \in Int /\ BucketStart(Latest(w), c.timespan) \in Int
  BY <1>1, BucketType, LatestType
<1>3. ~RollsOver(w, c, t)
  BY <1>1, <1>2 DEF RollsOver
<1>4. Exact(c, w, P, t)
  <2> SUFFICES ASSUME NEW r \in Slots PROVE w.hits[r] = Reference(c, P, t, r)
    BY DEF Exact
  <2>1. Opened(w, c, t).hits[r] = w.hits[r]
    BY <1>1, <1>3, OpenedIs
  <2> QED
    BY <2>1 DEF Exact
<1>5. BucketStart(Latest(w), c.timespan) = BucketStart(t, c.timespan)
  <2>1. t \in Int /\ t <= t
    OBVIOUS
  <2> QED
    BY <1>1, <1>4, <2>1, ExactEnds
<1> QED
  BY <1>1, <1>2, <1>5

-----------------------------------------------------------------------------
(* What an arrival does to an exact window. *)

LEMMA RegularAppend ==
  ASSUME NEW t \in Int, NEW P, Regular(P, t), NEW a \in Arrival, a.entry.t = t
  PROVE  Regular(Append(P, a), t)
<1>1. P \in Seq(Arrival)
  BY DEF Regular
<1>2. PICK Q \in Seq(Arrival) : Q = Append(P, a)
  BY <1>1, Appended
<1>3. /\ Len(Q) = Len(P) + 1 /\ Q[Len(P) + 1] = a /\ Len(P) \in Nat
      /\ \A i \in 1..Len(P) : Q[i] = P[i]
  BY <1>1, <1>2, Appended
<1>4. \A i \in 1..Len(Q) : Q[i].entry.t \in Int /\ Q[i].entry.t <= t
  <2> SUFFICES ASSUME NEW i \in 1..Len(Q) PROVE Q[i].entry.t \in Int /\ Q[i].entry.t <= t
    OBVIOUS
  <2>1. Q[i].entry.t \in Int
    BY ArrivalType
  <2>2. CASE i = Len(Q)
    BY <1>3, <2>2
  <2>3. CASE i \in 1..Len(P)
    BY <1>3, <2>1, <2>3 DEF Regular
  <2> QED
    BY <1>3, <2>1, <2>2, <2>3
<1>5. Sorted(Q)
  <2> SUFFICES ASSUME NEW i \in 1..Len(Q), NEW j \in 1..Len(Q), i <= j
               PROVE  Q[i].entry.t <= Q[j].entry.t
    BY DEF Sorted
  <2>1. CASE j = Len(Q)
    BY <1>3, <1>4, <2>1
  <2>2. CASE j # Len(Q)
    <3>1. i \in 1..Len(P) /\ j \in 1..Len(P)
      BY <1>3, <2>2
    <3> QED
      BY <1>3, <3>1 DEF Regular, Sorted
  <2> QED
    BY <2>1, <2>2
<1> QED
  BY <1>2, <1>4, <1>5 DEF Regular

LEMMA InWindowAppend ==
  ASSUME NEW c \in CorrelationRule, NEW t \in Int, NEW P, Regular(P, t),
         NEW a \in Arrival, a.entry.t = t
  PROVE  InWindow(c, Append(P, a), t) = InWindow(c, P, t) \cup {Len(P) + 1}
<1>1. P \in Seq(Arrival) /\ c.timespan \in Nat /\ c.gap \in Nat
  BY RuleType DEF Regular
<1>2. PICK Q \in Seq(Arrival) : Q = Append(P, a)
  BY <1>1, Appended
<1>3. /\ Len(Q) = Len(P) + 1 /\ Q[Len(P) + 1] = a /\ Len(P) \in Nat
      /\ \A i \in 1..Len(P) : Q[i] = P[i]
  BY <1>1, <1>2, Appended
<1>4. DOMAIN P = 1..Len(P) /\ DOMAIN Q = 1..Len(Q)
  BY <1>1
<1>5. \A i : i \in 1..Len(Q) <=> i \in 1..Len(P) \/ i = Len(P) + 1
  BY <1>3
<1>6. CASE c.mode = "sliding"
  <2>1. a.entry.t >= t - c.timespan
    BY <1>1
  <2> QED
    BY <1>2, <1>3, <1>4, <1>5, <1>6, <2>1 DEF InWindow
<1>7. CASE c.mode = "tumbling"
  BY <1>2, <1>3, <1>4, <1>5, <1>7 DEF InWindow
<1>8. CASE c.mode = "session"
  <2> DEFINE closed == \/ P = <<>>
                       \/ t - P[Len(P)].entry.t > c.gap
                       \/ t - P[SessionStart(c, P)].entry.t > c.timespan
  <2>1. SessionStart(c, Q) = IF closed THEN Len(P) + 1 ELSE SessionStart(c, P)
    BY <1>1, <1>2, SessionAppend
  <2>2. InWindow(c, P, t) = IF closed THEN {} ELSE SessionStart(c, P)..Len(P)
    BY <1>8 DEF InWindow
  <2>3. ~closed => /\ SessionStart(c, P) \in 1..Len(P)
                   /\ P[SessionStart(c, P)].entry.t \in Int
                   /\ Q[SessionStart(c, P)].entry.t = P[SessionStart(c, P)].entry.t
                   /\ ~(t - P[SessionStart(c, P)].entry.t > c.timespan)
    <3> SUFFICES ASSUME ~closed PROVE /\ SessionStart(c, P) \in 1..Len(P)
                   /\ P[SessionStart(c, P)].entry.t \in Int
                   /\ Q[SessionStart(c, P)].entry.t = P[SessionStart(c, P)].entry.t
                   /\ ~(t - P[SessionStart(c, P)].entry.t > c.timespan)
      OBVIOUS
    <3>1. SessionStart(c, P) \in 1..Len(P)
      BY <1>1, SessionStartType
    <3> QED
      BY <1>1, <1>3, <3>1, ArrivalType
  <2>4. Q # <<>> /\ Q[Len(Q)].entry.t = t /\ ~(t - t > c.gap) /\ ~(t - t > c.timespan)
    BY <1>1, <1>3
  <2> HIDE DEF closed
  <2>5. ~(t - Q[SessionStart(c, Q)].entry.t > c.timespan)
    <3>1. CASE closed
      BY <1>3, <2>1, <2>4, <3>1
    <3>2. CASE ~closed
      BY <2>1, <2>3, <3>2
    <3> QED
      BY <3>1, <3>2
  <2>6. InWindow(c, Q, t) = SessionStart(c, Q)..Len(Q)
    BY <1>8, <2>4, <2>5 DEF InWindow
  <2>7. CASE closed
    <3>1. SessionStart(c, Q)..Len(Q) = {Len(P) + 1}
      BY <1>3, <2>1, <2>7
    <3> QED
      BY <1>2, <2>2, <2>6, <2>7, <3>1
  <2>8. CASE ~closed
    <3>1. SessionStart(c, Q)..Len(Q) = (SessionStart(c, P)..Len(P)) \cup {Len(P) + 1}
      BY <1>3, <2>1, <2>3, <2>8
    <3> QED
      BY <1>2, <2>2, <2>6, <2>8, <3>1
  <2> QED
    BY <2>7, <2>8
<1> QED
  BY <1>6, <1>7, <1>8, RuleType

LEMMA TruncateIs ==
  ASSUME NEW w \in Windows, NEW c, NEW s \in Slots
  PROVE  Truncate(w, c).hits[s] = Capped(c, w.hits[s])
<1>1. CASE c.cap = 0
  BY <1>1 DEF Truncate, Capped
<1>2. CASE c.cap # 0
  BY <1>2 DEF Truncate, Capped, Windows
<1> QED
  BY <1>1, <1>2

LEMMA ExactTruncate ==
  ASSUME NEW c \in CorrelationRule, CapOK(c), NEW o \in Windows, NEW t, NEW P \in Seq(Arrival),
         Exact(c, o, P, t)
  PROVE  Exact(c, Truncate(o, c), P, t)
<1> SUFFICES ASSUME NEW s \in Slots
             PROVE  Truncate(o, c).hits[s] = Reference(c, P, t, s)
  BY DEF Exact
<1> DEFINE W == Which(c, P, t, s)
<1>1. W \in SUBSET (1..Len(P))
  BY InWindowType
<1> HIDE DEF W
<1>2. PICK E \in Seq(Entries) : E = Content(P, W)
  BY <1>1, ContentType
<1>3. o.hits[s] = Capped(c, E) /\ Reference(c, P, t, s) = Capped(c, E)
  BY <1>2, ReferenceIs DEF Exact, W
<1>4. Capped(c, Capped(c, E)) = Capped(c, E)
  BY CappedKeeps, CappedFits
<1> QED
  BY <1>3, <1>4, TruncateIs

LEMMA ExactPush ==
  ASSUME NEW c \in CorrelationRule, CapOK(c), NEW o \in Windows, NEW t \in Int,
         NEW P, Regular(P, t), Exact(c, o, P, t), NEW a \in Arrival, a.entry.t = t
  PROVE  Exact(c, Truncate(Push(o, a.slot, a.entry), c), Append(P, a), t)
<1> SUFFICES ASSUME NEW s \in Slots
             PROVE  Truncate(Push(o, a.slot, a.entry), c).hits[s]
                      = Reference(c, Append(P, a), t, s)
  BY DEF Exact
<1>0. P \in Seq(Arrival) /\ a.slot \in Slots /\ a.entry \in Entries
  BY DEF Regular, Arrival
<1> DEFINE W == Which(c, P, t, s)
           V == Which(c, Append(P, a), t, s)
<1>1. W \in SUBSET (1..Len(P)) /\ Len(P) \in Nat
  <2>1. W \in SUBSET (1..Len(P))
    BY <1>0, InWindowType
  <2>2. Len(P) \in Nat
    BY <1>0
  <2> QED
    BY <2>1, <2>2
<1>2. V = IF s = a.slot THEN W \cup {Len(P) + 1} ELSE W
  <2>1. InWindow(c, Append(P, a), t) = InWindow(c, P, t) \cup {Len(P) + 1}
    BY InWindowAppend
  <2>2. InWindow(c, P, t) \in SUBSET (1..Len(P))
    BY <1>0, InWindowType
  <2>3. Append(P, a)[Len(P) + 1] = a /\ \A i \in 1..Len(P) : Append(P, a)[i] = P[i]
    BY <1>0, Appended
  <2> QED
    BY <2>1, <2>2, <2>3 DEF Which
<1> HIDE DEF W, V
<1>3. PICK E \in Seq(Entries) : E = Content(P, W)
  BY <1>0, <1>1, ContentType
<1>4. Content(Append(P, a), V) = IF s = a.slot THEN Append(E, a.entry) ELSE E
  BY <1>0, <1>1, <1>2, <1>3, ContentAppend
<1>5. o.hits[s] = Capped(c, E)
  BY <1>3, ReferenceIs DEF Exact, W
<1>6. Reference(c, Append(P, a), t, s) = Capped(c, Content(Append(P, a), V))
  BY ReferenceIs DEF V
<1>7. /\ Push(o, a.slot, a.entry) \in Windows
      /\ Push(o, a.slot, a.entry).hits[s] =
           IF s = a.slot THEN Append(o.hits[s], a.entry) ELSE o.hits[s]
  BY <1>0, PushType DEF Push, Windows
<1>8. Truncate(Push(o, a.slot, a.entry), c).hits[s]
        = Capped(c, Push(o, a.slot, a.entry).hits[s])
  BY <1>7, TruncateIs
<1>9. CASE s = a.slot
  <2>1. Capped(c, Append(Capped(c, E), a.entry)) = Capped(c, Append(E, a.entry))
    BY <1>0, CappedAppend
  <2> QED
    BY <1>4, <1>5, <1>6, <1>7, <1>8, <1>9, <2>1
<1>10. CASE s # a.slot
  <2>1. Capped(c, Capped(c, E)) = Capped(c, E)
    BY CappedKeeps, CappedFits
  <2> QED
    BY <1>4, <1>5, <1>6, <1>7, <1>8, <1>10, <2>1
<1> QED
  BY <1>9, <1>10

-----------------------------------------------------------------------------
(* Windows that are empty, aged, or of a rule that was loaded again.        *)

LEMMA EmptyHits ==
  ASSUME NEW w \in Windows
  PROVE  IsEmpty(w) <=> \A s \in Slots : w.hits[s] = <<>>
  BY DEF IsEmpty, Full

LEMMA FromFrontEmpty ==
  ASSUME NEW cutoff
  PROVE  FromFront(<<>>, cutoff) = <<>>
<1>1. \A i : i \notin DOMAIN <<>>
  OBVIOUS
<1>2. {i \in DOMAIN <<>> : <<>>[i].t >= cutoff} = {}
  BY <1>1
<1> QED
  BY <1>2 DEF FromFront

LEMMA EmptyOpened ==
  ASSUME NEW w \in Windows, IsEmpty(w), NEW c, NEW t, NEW s \in Slots
  PROVE  Opened(w, c, t).hits[s] = <<>>
<1>1. w.hits[s] = <<>>
  BY EmptyHits
<1>2. ~RollsOver(w, c, t)
  BY DEF RollsOver
<1> QED
  BY <1>1, <1>2, OpenedIs, FromFrontEmpty

LEMMA EmptyExact ==
  ASSUME NEW c \in CorrelationRule, CapOK(c), NEW w \in Windows, IsEmpty(w), NEW t \in 0..MaxTime
  PROVE  Regular(<<>>, t) /\ Exact(c, Opened(w, c, t), <<>>, t)
<1>1. PICK P \in Seq(Arrival) : P = <<>>
  <2>1. <<>> \in Seq(Arrival)
    OBVIOUS
  <2> QED
    BY <2>1
<1>2. Len(P) = 0
  BY <1>1
<1>3. Regular(P, t)
  BY <1>2 DEF Regular, Sorted
<1>4. InWindow(c, P, t) = {}
  <2>1. InWindow(c, P, t) \in SUBSET (1..Len(P))
    BY InWindowType
  <2>2. 1..Len(P) = {}
    BY <1>2
  <2> QED
    BY <2>1, <2>2
<1>5. \A s \in Slots : Opened(w, c, t).hits[s] = <<>> /\ Reference(c, P, t, s) = <<>>
  BY <1>4, EmptyOpened, EmptyReference
<1> QED
  BY <1>1, <1>3, <1>5 DEF Exact

(* Evicting by age takes nothing an event of that time would find.          *)
LEMMA AgedOpened ==
  ASSUME TypeOK, NEW k \in DOMAIN state, k[1] \in Loaded, NEW t \in 0..MaxTime, NEW s \in Slots
  PROVE  Opened(AgedWindow(k, t), corr[k[1]], t).hits[s]
           = Opened(state[k], corr[k[1]], t).hits[s]
<1> DEFINE c == corr[k[1]]
           w == state[k]
           v == AgedWindow(k, t)
<1>1. w \in Windows /\ c \in CorrelationRule /\ v \in Windows
  BY RuleOf, AgedWindowType DEF TypeOK
<1>2. CASE c.mode = "sliding"
  <2>1. v = Evict(w, t - c.timespan)
    BY <1>2 DEF AgedWindow
  <2>2. v.hits[s] = FromFront(w.hits[s], t - c.timespan)
    BY <1>1, <2>1 DEF Evict, Windows
  <2>3. t - c.timespan \in Int /\ t - c.timespan <= t - c.timespan /\ w.hits[s] \in Seq(Entries)
    BY <1>1, RuleType, TimesOfType
  <2> HIDE DEF c, w, v
  <2>4. Opened(v, c, t).hits[s] = FromFront(v.hits[s], t - c.timespan)
    BY <1>1, <1>2, OpenedIs
  <2>5. Opened(w, c, t).hits[s] = FromFront(w.hits[s], t - c.timespan)
    BY <1>1, <1>2, OpenedIs
  <2>6. FromFront(FromFront(w.hits[s], t - c.timespan), t - c.timespan)
          = FromFront(w.hits[s], t - c.timespan)
    BY <2>3, FromFrontTwice
  <2> QED
    BY <2>2, <2>4, <2>5, <2>6 DEF c, w, v
<1>3. CASE c.mode # "sliding"
  <2> DEFINE span == IF c.mode = "session" THEN c.gap ELSE c.timespan
  <2>1. CASE ~IsEmpty(w) /\ t - Latest(w) > span
    <3>1. v = Clear(w)
      BY <1>3, <2>1 DEF AgedWindow
    <3>2. IsEmpty(v)
      BY <1>1, <3>1, ClearType
    <3>3. RollsOver(w, c, t)
      <4> HIDE DEF c, w, v
      <4>0. c.timespan \in Nat /\ c.timespan > 0 /\ Latest(w) \in 0..MaxTime
        BY <1>1, <2>1, RuleType, LatestType
      <4>1. CASE c.mode = "session"
        BY <2>1, <4>1 DEF RollsOver
      <4>2. CASE c.mode = "tumbling"
        <5>1. PICK l \in Int : l = Latest(w)
          BY <4>0
        <5>2. t \in Int /\ t - l > c.timespan
          BY <2>1, <4>2, <5>1
        <5>3. l <= l /\ t <= t
          BY <5>1, <5>2
        <5>4. BucketStart(l, c.timespan) \in Int /\ BucketStart(l, c.timespan) <= l
          BY <4>0, <5>1, <5>3, BucketOrder
        <5>5. BucketStart(t, c.timespan) \in Int /\ t < BucketStart(t, c.timespan) + c.timespan
          BY <4>0, <5>2, <5>3, BucketOrder
        <5>6. BucketStart(t, c.timespan) > BucketStart(l, c.timespan)
          BY <4>0, <5>1, <5>2, <5>4, <5>5
        <5> QED
          BY <2>1, <4>0, <4>2, <5>1, <5>6 DEF RollsOver
      <4> QED
        BY <1>1, <1>3, <4>1, <4>2, RuleType
    <3> HIDE DEF c, w, v
    <3>4. Opened(w, c, t).hits[s] = <<>>
      BY <1>1, <1>3, <3>3, OpenedIs
    <3>5. Opened(v, c, t).hits[s] = <<>>
      BY <1>1, <3>2, EmptyOpened
    <3> QED
      BY <3>4, <3>5 DEF c, w, v
  <2>2. CASE ~(~IsEmpty(w) /\ t - Latest(w) > span)
    <3>1. v = w
      BY <1>3, <2>2 DEF AgedWindow
    <3> QED
      BY <3>1
  <2> QED
    BY <2>1, <2>2
<1> QED
  BY <1>2, <1>3

(* What a rule says of its windows. *)
SameWindows(c, d) ==
  c.mode = d.mode /\ c.timespan = d.timespan /\ c.gap = d.gap /\ c.cap = d.cap

LEMMA SameSession ==
  ASSUME NEW c, NEW d, SameWindows(c, d), NEW P \in Seq(Arrival), P # <<>>
  PROVE  SessionStart(c, P) = SessionStart(d, P)
<1>1. PICK st : Starts(c, P, st) /\ SessionStart(c, P) = st[Len(P)]
  BY SessionStarts
<1>2. PICK su : Starts(d, P, su) /\ SessionStart(d, P) = su[Len(P)]
  BY SessionStarts
<1>3. PICK l \in Nat : l = Len(P) /\ l \in 1..l
  <2>1. Len(P) \in Nat /\ Len(P) \in 1..Len(P)
    OBVIOUS
  <2> QED
    BY <2>1
<1>4. \A i, p : StartAt(c, P, i, p) = StartAt(d, P, i, p)
  BY DEF StartAt, SameWindows
<1>5. /\ st \in [1..l -> 1..l] /\ Agree(P, P, l)
      /\ StartsUpTo(c, P, st, l) /\ StartsUpTo(c, P, su, l)
  BY <1>1, <1>2, <1>3, <1>4 DEF Starts, StartsUpTo, Agree
<1>6. Agree(st, su, l)
  BY <1>5, SameStarts
<1>7. st[l] = su[l]
  BY <1>3, <1>6 DEF Agree
<1> QED
  BY <1>1, <1>2, <1>3, <1>7

LEMMA SameExact ==
  ASSUME NEW c \in CorrelationRule, NEW d \in CorrelationRule, SameWindows(c, d),
         NEW w \in Windows, NEW t, NEW P \in Seq(Arrival), Exact(c, Opened(w, c, t), P, t)
  PROVE  Exact(d, Opened(w, d, t), P, t)
<1>1. Opened(w, c, t) = Opened(w, d, t)
  BY DEF Opened, RollsOver, SameWindows
<1>2. InWindow(c, P, t) = InWindow(d, P, t)
  <2>1. CASE c.mode = "session"
    <3>1. d.mode = "session" /\ d.gap = c.gap /\ d.timespan = c.timespan
      BY <2>1 DEF SameWindows
    <3>2. P # <<>> => SessionStart(c, P) = SessionStart(d, P)
      BY SameSession
    <3> QED
      BY <2>1, <3>1, <3>2 DEF InWindow
  <2>2. CASE c.mode # "session"
    <3>1. d.mode = c.mode /\ d.timespan = c.timespan /\ c.mode \in {"sliding", "tumbling"}
      BY <2>2, RuleType DEF SameWindows
    <3> QED
      BY <3>1 DEF InWindow
  <2> QED
    BY <2>1, <2>2
<1>3. \A s : Reference(c, P, t, s) = Reference(d, P, t, s)
  BY <1>2, ReferenceIs DEF Which, Capped, SameWindows
<1> QED
  BY <1>1, <1>3 DEF Exact

-----------------------------------------------------------------------------
(* What a window is due from the updates of a round, one by one.            *)

SameRun(f, p, g, q) == p = q /\ \A n \in 1..p : f[n] = g[n]

(* There is one way to run through a set in order. *)
LEMMA EnumUnique ==
  ASSUME NEW m \in Nat, NEW I \in SUBSET (1..m), NEW p \in Nat, NEW f, Enum(f, p, I),
         NEW q \in Nat, NEW g, Enum(g, q, I)
  PROVE  SameRun(f, p, g, q)
<1>1. Cardinality(I) = p /\ \A n \in 1..p : Rank(I, f[n]) = n
  BY EnumRank
<1>2. Cardinality(I) = q /\ \A n \in 1..q : Rank(I, g[n]) = n
  BY EnumRank
<1>3. ASSUME NEW n \in 1..p PROVE f[n] = g[n]
  <2>1. f[n] \in I
    BY DEF Enum
  <2>2. PICK a \in 1..q : g[a] = f[n]
    BY <2>1 DEF Enum
  <2>3. a = n
    BY <1>1, <1>2, <2>2
  <2> QED
    BY <2>2, <2>3
<1> QED
  BY <1>1, <1>2, <1>3 DEF SameRun

(* What an update brings, as an arrival. *)
Brought(u) == [slot |-> Slot(u), entry |-> Entry(u)]

DuePlaces(k, rest) == {n \in 1..Len(rest) : rest[n].key = k /\ CountsFirings(k[1])}

LEMMA DueFromBy ==
  ASSUME NEW k, NEW rest \in Seq(Updates), NEW p \in Nat, NEW f, Enum(f, p, DuePlaces(k, rest))
  PROVE  DueFrom(k, rest) = [n \in 1..p |-> Brought(rest[f[n]])]
<1>1. PICK m \in Nat : m = Len(rest) /\ DOMAIN rest = 1..m
  BY Elements
<1>2. DuePlaces(k, rest) \in SUBSET (1..m)
  BY <1>1 DEF DuePlaces
<1>3. At(rest, DuePlaces(k, rest)) = Picked(rest, f, p)
  BY <1>2, AtEnum
<1>4. DuePlaces(k, rest) = {n \in DOMAIN rest : rest[n].key = k /\ CountsFirings(k[1])}
  BY <1>1 DEF DuePlaces
<1>5. DueFrom(k, rest) = [n \in DOMAIN Picked(rest, f, p) |-> Brought(Picked(rest, f, p)[n])]
  BY <1>3, <1>4 DEF DueFrom, Brought
<1> QED
  BY <1>5 DEF Picked

LEMMA NothingDue ==
  ASSUME NEW k
  PROVE  DueFrom(k, <<>>) = <<>>
<1>1. PICK r \in Seq(Updates) : r = <<>> /\ Len(r) = 0
  <2>1. <<>> \in Seq(Updates) /\ Len(<<>>) = 0
    OBVIOUS
  <2> QED
    BY <2>1
<1>2. DuePlaces(k, r) = {}
  BY <1>1 DEF DuePlaces
<1> DEFINE f == [n \in 1..0 |-> n]
<1>3. Enum(f, 0, DuePlaces(k, r))
  BY <1>2 DEF Enum
<1> HIDE DEF f
<1>4. PICK z \in Nat : z = 0
  OBVIOUS
<1>5. DueFrom(k, r) = [n \in 1..z |-> Brought(r[f[n]])]
  BY <1>3, <1>4, DueFromBy
<1>6. 1..z = {}
  BY <1>4
<1> QED
  BY <1>1, <1>5, <1>6

(* The first update and then the others. *)
LEMMA DueFromFirst ==
  ASSUME NEW k, NEW rest \in Seq(Updates), rest # <<>>,
         DueFrom(k, rest) \in Seq(Arrival), DueFrom(k, Tail(rest)) \in Seq(Arrival),
         Brought(Head(rest)) \in Arrival
  PROVE  DueFrom(k, rest) = IF Head(rest).key = k /\ CountsFirings(k[1])
                            THEN <<Brought(Head(rest))>> \o DueFrom(k, Tail(rest))
                            ELSE DueFrom(k, Tail(rest))
<1> DEFINE T == Tail(rest)
           I == DuePlaces(k, rest)
           J == DuePlaces(k, T)
<1>1. /\ Head(rest) = rest[1] /\ T \in Seq(Updates)
      /\ Len(T) = Len(rest) - 1 /\ Len(rest) >= 1 /\ Len(rest) \in Nat
      /\ \A i \in 1..Len(T) : T[i] = rest[i + 1]
  BY QueueHead
<1>2. PICK m \in Nat : m = Len(T) /\ Len(rest) = m + 1
  <2> HIDE DEF T
  <2>1. Len(T) \in Nat /\ Len(rest) = Len(T) + 1
    BY <1>1
  <2> QED
    BY <2>1
<1>3. J \in SUBSET (1..m)
  BY <1>2 DEF DuePlaces
<1>4. PICK p \in Nat : \E f : Enum(f, p, J)
  <2> HIDE DEF J
  <2> QED
    BY <1>3, EnumExists
<1>5. PICK f : Enum(f, p, J)
  BY <1>4
<1>6. \A i \in 1..m : i + 1 \in I <=> i \in J
  BY <1>1, <1>2 DEF DuePlaces
<1>7. 1 \in I <=> Head(rest).key = k /\ CountsFirings(k[1])
  BY <1>1 DEF DuePlaces
<1>8. \A i \in I : i = 1 \/ (i - 1 \in J /\ (i - 1) + 1 = i)
  <2> SUFFICES ASSUME NEW i \in I, i # 1 PROVE i - 1 \in J /\ (i - 1) + 1 = i
    OBVIOUS
  <2>1. i \in 1..m + 1
    BY <1>2 DEF DuePlaces
  <2>2. i - 1 \in 1..m /\ (i - 1) + 1 = i
    BY <2>1
  <2> QED
    BY <1>6, <2>2
<1>9. PICK t \in Seq(Updates) : t = T
  BY <1>1
<1>10. DueFrom(k, T) = [n \in 1..p |-> Brought(T[f[n]])]
  <2> HIDE DEF T
  <2>1. Enum(f, p, DuePlaces(k, t))
    BY <1>5, <1>9
  <2>2. DueFrom(k, t) = [n \in 1..p |-> Brought(t[f[n]])]
    BY <2>1, DueFromBy
  <2> QED
    BY <1>9, <2>2
<1>11. PICK D \in Seq(Arrival) : D = DueFrom(k, T)
  <2>1. DueFrom(k, T) \in Seq(Arrival)
    OBVIOUS
  <2> QED
    BY <2>1
<1>12. Len(D) = p /\ \A n \in 1..p : D[n] = Brought(T[f[n]])
  <2> HIDE DEF T
  <2>1. D = [n \in 1..p |-> Brought(T[f[n]])]
    BY <1>10, <1>11
  <2>4. PICK l \in Nat : l = Len(D) /\ DOMAIN D = 1..l
    BY <1>11
  <2>5. 1..p = 1..l
    <3>1. DOMAIN D = 1..p
      BY <2>1
    <3> QED
      BY <2>4, <3>1
  <2>6. l = p
    <3>1. ~(l > p)
      <4>1. l > p => l \in 1..l /\ l \notin 1..p
        OBVIOUS
      <4> QED
        BY <2>5, <4>1
    <3>2. ~(p > l)
      <4>1. p > l => p \in 1..p /\ p \notin 1..l
        OBVIOUS
      <4> QED
        BY <2>5, <4>1
    <3>3. l > p \/ p > l \/ l = p
      OBVIOUS
    <3> QED
      BY <3>1, <3>2, <3>3
  <2> QED
    BY <2>1, <2>4, <2>6
<1>13. \A n \in 1..p : f[n] \in 1..m /\ f[n] \in J /\ T[f[n]] = rest[f[n] + 1]
  <2> SUFFICES ASSUME NEW n \in 1..p
               PROVE  f[n] \in 1..m /\ f[n] \in J /\ T[f[n]] = rest[f[n] + 1]
    OBVIOUS
  <2>1. f[n] \in J
    BY <1>5 DEF Enum
  <2>2. f[n] \in 1..m
    BY <1>3, <2>1
  <2> QED
    BY <1>1, <1>2, <2>1, <2>2
<1> HIDE DEF I, J, T
<1>14. CASE ~(1 \in I)
  <2> DEFINE g == [n \in 1..p |-> f[n] + 1]
  <2>1. g \in [1..p -> I] /\ \A n \in 1..p : g[n] = f[n] + 1
    BY <1>6, <1>13
  <2> HIDE DEF g
  <2>2. Enum(g, p, I)
    <3>1. \A a, b \in 1..p : a < b => g[a] < g[b]
      BY <1>5, <1>13, <2>1 DEF Enum
    <3>2. ASSUME NEW i \in I PROVE \E a \in 1..p : g[a] = i
      <4>1. i - 1 \in J /\ (i - 1) + 1 = i
        BY <1>8, <1>14
      <4>2. PICK a \in 1..p : f[a] = i - 1
        BY <1>5, <4>1 DEF Enum
      <4> QED
        BY <2>1, <4>1, <4>2
    <3> QED
      BY <2>1, <3>1, <3>2 DEF Enum
  <2>3. DueFrom(k, rest) = [n \in 1..p |-> Brought(rest[g[n]])]
    BY <2>2, DueFromBy DEF I
  <2>4. PICK R \in Seq(Arrival) : R = DueFrom(k, rest)
    OBVIOUS
  <2>5. Len(R) = p /\ \A n \in 1..p : R[n] = Brought(rest[g[n]])
    BY <2>3, <2>4
  <2>6. R = D
    BY <1>12, <1>13, <2>1, <2>5, SameSeq
  <2> QED
    BY <1>7, <1>11, <1>14, <2>4, <2>6 DEF T
<1>15. CASE 1 \in I
  <2> DEFINE g == [n \in 1..p + 1 |-> IF n = 1 THEN 1 ELSE f[n - 1] + 1]
  <2>1. g[1] = 1 /\ \A n \in 1..p : g[n + 1] = f[n] + 1
    <3>1. 1 \in 1..p + 1 /\ \A n \in 1..p : n + 1 \in 1..p + 1 /\ n + 1 # 1 /\ (n + 1) - 1 = n
      OBVIOUS
    <3> QED
      BY <3>1
  <2>2. \A n \in 1..p + 1 : n = 1 \/ (n - 1 \in 1..p /\ (n - 1) + 1 = n)
    OBVIOUS
  <2>3. g \in [1..p + 1 -> I]
    <3>1. \A n \in 1..p + 1 : g[n] \in I
      <4> SUFFICES ASSUME NEW n \in 1..p + 1 PROVE g[n] \in I
        OBVIOUS
      <4> HIDE DEF g
      <4>1. CASE n = 1
        BY <1>15, <2>1, <4>1
      <4>2. CASE n # 1
        <5>1. n - 1 \in 1..p /\ g[n] = f[n - 1] + 1
          BY <2>1, <2>2, <4>2
        <5> QED
          BY <1>6, <1>13, <5>1
      <4> QED
        BY <4>1, <4>2
    <3> QED
      BY <3>1
  <2> HIDE DEF g
  <2>4. Enum(g, p + 1, I)
    <3>1. ASSUME NEW a \in 1..p + 1, NEW b \in 1..p + 1, a < b PROVE g[a] < g[b]
      <4>1. b - 1 \in 1..p /\ g[b] = f[b - 1] + 1 /\ f[b - 1] \in 1..m
        <5>1. b # 1
          BY <3>1
        <5> QED
          BY <1>13, <2>1, <2>2, <5>1
      <4>2. CASE a = 1
        BY <2>1, <4>1, <4>2
      <4>3. CASE a # 1
        <5>1. a - 1 \in 1..p /\ g[a] = f[a - 1] + 1 /\ f[a - 1] \in 1..m
          BY <1>13, <2>1, <2>2, <4>3
        <5>2. a - 1 < b - 1
          BY <3>1
        <5>3. f[a - 1] < f[b - 1]
          BY <1>5, <4>1, <5>1, <5>2 DEF Enum
        <5> QED
          BY <4>1, <5>1, <5>3
      <4> QED
        BY <4>2, <4>3
    <3>2. ASSUME NEW i \in I PROVE \E a \in 1..p + 1 : g[a] = i
      <4>1. CASE i = 1
        <5>1. 1 \in 1..p + 1
          OBVIOUS
        <5> QED
          BY <2>1, <4>1, <5>1
      <4>2. CASE i # 1
        <5>1. i - 1 \in J /\ (i - 1) + 1 = i
          BY <1>8, <4>2
        <5>2. PICK a \in 1..p : f[a] = i - 1
          BY <1>5, <5>1 DEF Enum
        <5>3. a + 1 \in 1..p + 1 /\ g[a + 1] = i
          BY <2>1, <5>1, <5>2
        <5> QED
          BY <5>3
      <4> QED
        BY <4>1, <4>2
    <3> QED
      BY <2>3, <3>1, <3>2 DEF Enum
  <2>5. DueFrom(k, rest) = [n \in 1..p + 1 |-> Brought(rest[g[n]])]
    <3>1. PICK q \in Nat : q = p + 1
      OBVIOUS
    <3>2. DueFrom(k, rest) = [n \in 1..q |-> Brought(rest[g[n]])]
      BY <2>4, <3>1, DueFromBy DEF I
    <3> QED
      BY <3>1, <3>2
  <2>6. PICK R \in Seq(Arrival) : R = DueFrom(k, rest)
    OBVIOUS
  <2>7. Len(R) = p + 1 /\ \A n \in 1..p + 1 : R[n] = Brought(rest[g[n]])
    BY <2>5, <2>6
  <2>8. PICK a \in Arrival : a = Brought(Head(rest))
    OBVIOUS
  <2>9. PICK X \in Seq(Arrival) : X = <<a>> \o D
    <3>1. <<a>> \in Seq(Arrival) /\ D \in Seq(Arrival)
      BY <1>11, <2>8
    <3>2. <<a>> \o D \in Seq(Arrival)
      BY <3>1
    <3> QED
      BY <3>2
  <2>10. Len(X) = p + 1 /\ X[1] = a /\ \A n \in 1..p : X[n + 1] = D[n]
    BY <1>12, <2>9
  <2>11. \A n \in 1..p + 1 : R[n] = X[n]
    <3> SUFFICES ASSUME NEW n \in 1..p + 1 PROVE R[n] = X[n]
      OBVIOUS
    <3>1. CASE n = 1
      BY <1>1, <2>1, <2>7, <2>8, <2>10, <3>1
    <3>2. CASE n # 1
      <4>1. n - 1 \in 1..p /\ (n - 1) + 1 = n
        BY <2>2, <3>2
      <4>2. X[n] = D[n - 1] /\ D[n - 1] = Brought(rest[f[n - 1] + 1])
        BY <1>12, <1>13, <2>10, <4>1
      <4>3. g[n] = f[n - 1] + 1
        BY <2>1, <4>1
      <4> QED
        BY <2>7, <4>2, <4>3
    <3> QED
      BY <3>1, <3>2
  <2>12. R = X
    BY <2>7, <2>10, <2>11, SameSeq
  <2> QED
    BY <1>7, <1>11, <1>15, <2>6, <2>8, <2>9, <2>12 DEF T
<1> QED
  BY <1>14, <1>15

-----------------------------------------------------------------------------
(* What a window is due from a whole round of the chain.                    *)

(* Where the pair of the ath and the bth comes, with l of the second.       *)
Place(a, b, l) == (a - 1) * l + b

LEMMA PlaceOrder ==
  ASSUME NEW l \in Nat, NEW a \in Nat, NEW b \in 1..l, NEW c \in Nat, NEW d \in 1..l, a < c
  PROVE  Place(a, b, l) < Place(c, d, l)
<1>1. (c - 1) * l >= a * l
  <2>1. PICK e \in Nat : c - 1 = a + e
    <3>1. (c - 1) - a \in Nat /\ c - 1 = a + ((c - 1) - a)
      OBVIOUS
    <3> QED
      BY <3>1
  <2>2. (a + e) * l = a * l + e * l /\ e * l \in Nat /\ a * l \in Nat
    OBVIOUS
  <2> QED
    BY <2>1, <2>2
<1>2. a * l = (a - 1) * l + l /\ (a - 1) * l \in Int /\ (c - 1) * l \in Int
  OBVIOUS
<1>3. PICK x \in Int : x = (a - 1) * l
  BY <1>2
<1>4. PICK y \in Int : y = (c - 1) * l
  BY <1>2
<1>5. y >= x + l
  BY <1>1, <1>2, <1>3, <1>4
<1>6. x + b < y + d
  BY <1>5
<1> QED
  BY <1>3, <1>4, <1>6 DEF Place

LEMMA PlaceBack ==
  ASSUME NEW l \in Nat, NEW a \in Nat, NEW b \in 1..l, NEW c \in Nat, NEW d \in 1..l,
         Place(a, b, l) < Place(c, d, l), d <= b
  PROVE  a < c
<1>1. Place(a, b, l) \in Int /\ Place(c, d, l) \in Int
  BY DEF Place
<1>2. ~(c < a)
  <2>1. c < a => Place(c, d, l) < Place(a, b, l)
    BY PlaceOrder
  <2> QED
    BY <1>1, <2>1
<1>3. a # c
  <2> SUFFICES ASSUME a = c PROVE FALSE
    OBVIOUS
  <2>1. PICK x \in Int : x = (a - 1) * l
    OBVIOUS
  <2>2. x + b < x + d
    BY <2>1 DEF Place
  <2> QED
    BY <2>2
<1> QED
  BY <1>2, <1>3

(* The place among n times l, which tells a and b again. *)
Placed(a, b, n, l) ==
  /\ Place(a, b, l) \in 1..n * l
  /\ ((Place(a, b, l) - 1) \div l) + 1 = a
  /\ ((Place(a, b, l) - 1) % l) + 1 = b

LEMMA PlaceType ==
  ASSUME NEW l \in Nat, NEW n \in Nat, NEW a \in 1..n, NEW b \in 1..l
  PROVE  Placed(a, b, n, l)
<1>1. PICK p \in Nat : p = a - 1
  <2>1. a - 1 \in Nat
    OBVIOUS
  <2> QED
    BY <2>1
<1>2. PICK x \in Nat : x = p * l
  <2>1. p * l \in Nat
    OBVIOUS
  <2> QED
    BY <2>1
<1>3. Place(a, b, l) = x + b
  BY <1>1, <1>2 DEF Place
<1>4. x + l <= n * l
  <2>1. PICK e \in Nat : n = p + 1 + e
    <3>1. n - (p + 1) \in Nat /\ n = p + 1 + (n - (p + 1))
      BY <1>1
    <3> QED
      BY <3>1
  <2>2. (p + 1 + e) * l = p * l + l + e * l /\ e * l \in Nat
    OBVIOUS
  <2> QED
    BY <1>2, <2>1, <2>2
<1>5. n * l \in Nat
  OBVIOUS
<1>6. Place(a, b, l) \in 1..n * l
  BY <1>3, <1>4, <1>5
<1>7. PICK r \in Nat : r = b - 1 /\ r < l
  <2>1. b - 1 \in Nat /\ b - 1 < l
    OBVIOUS
  <2> QED
    BY <2>1
<1>8. Place(a, b, l) - 1 = l * p + r
  BY <1>2, <1>3, <1>7
<1>9. (l * p + r) \div l = p /\ (l * p + r) % l = r
  <2>1. l > 0
    BY <1>7
  <2>2. PICK y \in Nat : y = l * p + r
    <3>1. l * p \in Nat
      OBVIOUS
    <3>2. l * p + r \in Nat
      BY <3>1
    <3> QED
      BY <3>2
  <2>3. y = l * (y \div l) + (y % l) /\ y % l \in 0..l - 1 /\ y \div l \in Int
    BY <2>1
  <2>4. PICK q \in Int : q = y \div l
    BY <2>3
  <2>5. PICK s \in 0..l - 1 : s = y % l
    BY <2>3
  <2>6. l * q + s = l * p + r
    BY <2>2, <2>3, <2>4, <2>5
  <2>7. ~(q > p)
    <3> SUFFICES ASSUME q > p PROVE FALSE
      OBVIOUS
    <3>1. PICK e \in Nat : q = p + 1 + e
      <4>1. q - (p + 1) \in Nat /\ q = p + 1 + (q - (p + 1))
        OBVIOUS
      <4> QED
        BY <4>1
    <3>2. l * (p + 1 + e) = l * p + l + l * e /\ l * e \in Nat /\ l * p \in Nat
      OBVIOUS
    <3> QED
      BY <1>7, <2>5, <2>6, <3>1, <3>2
  <2>8. ~(q < p)
    <3> SUFFICES ASSUME q < p PROVE FALSE
      OBVIOUS
    <3>1. PICK e \in Nat : p = q + 1 + e
      <4>1. p - (q + 1) \in Nat /\ p = q + 1 + (p - (q + 1))
        OBVIOUS
      <4> QED
        BY <4>1
    <3>2. l * (q + 1 + e) = l * q + l + l * e /\ l * e \in Nat /\ l * q \in Int
      OBVIOUS
    <3> QED
      BY <1>7, <2>5, <2>6, <3>1, <3>2
  <2>9. q = p
    BY <2>7, <2>8
  <2>10. s = r
    <3>1. PICK z \in Int : z = l * p
      OBVIOUS
    <3>2. z + s = z + r
      BY <2>6, <2>9, <3>1
    <3> QED
      BY <3>2
  <2> QED
    BY <2>2, <2>4, <2>5, <2>9, <2>10
<1> QED
  BY <1>1, <1>6, <1>7, <1>8, <1>9 DEF Placed

LEMMA PlaceOf ==
  ASSUME NEW l \in Nat, NEW n \in Nat, NEW x \in 1..n * l
  PROVE  \E a \in 1..n, b \in 1..l : Place(a, b, l) = x
<1>1. n * l \in Nat
  OBVIOUS
<1>2. PICK y \in Nat : y = x - 1 /\ y < n * l
  <2>1. x - 1 \in Nat /\ x - 1 < n * l
    BY <1>1
  <2> QED
    BY <2>1
<1>3. (y \div l) + 1 \in 1..n /\ (y % l) + 1 \in 1..l
  BY <1>2, DivMod
<1>4. l > 0
  BY <1>3
<1>5. y = l * (y \div l) + (y % l) /\ y % l \in Int /\ y \div l \in Int
  BY <1>4
<1>6. PICK q \in Int : q = y \div l
  BY <1>5
<1>7. PICK s \in Int : s = y % l
  BY <1>5
<1>8. y = l * q + s
  BY <1>5, <1>6, <1>7
<1>9. Place(q + 1, s + 1, l) = x
  <2>1. (q + 1) - 1 = q /\ q * l = l * q /\ l * q \in Int
    OBVIOUS
  <2> QED
    BY <1>2, <1>8, <2>1 DEF Place
<1> QED
  BY <1>3, <1>6, <1>7, <1>9

LEMMA PairsAt ==
  ASSUME NEW S, NEW T, NEW s \in Seq(S), NEW t \in Seq(T)
  PROVE  /\ DOMAIN Pairs(s, t) = 1..Len(s) * Len(t)
         /\ \A a \in 1..Len(s), b \in 1..Len(t) :
              /\ Place(a, b, Len(t)) \in DOMAIN Pairs(s, t)
              /\ Pairs(s, t)[Place(a, b, Len(t))] = <<s[a], t[b]>>
         /\ \A n \in DOMAIN Pairs(s, t) :
              \E a \in 1..Len(s), b \in 1..Len(t) : Place(a, b, Len(t)) = n
<1>1. PICK l \in Nat : l = Len(t)
  OBVIOUS
<1>2. PICK m \in Nat : m = Len(s)
  OBVIOUS
<1>3. Pairs(s, t) = [n \in 1..m * l |-> <<s[((n - 1) \div l) + 1], t[((n - 1) % l) + 1]>>]
  BY <1>1, <1>2 DEF Pairs
<1>4. DOMAIN Pairs(s, t) = 1..m * l
  BY <1>3
<1>5. ASSUME NEW a \in 1..m, NEW b \in 1..l
      PROVE  /\ Place(a, b, l) \in 1..m * l
             /\ Pairs(s, t)[Place(a, b, l)] = <<s[a], t[b]>>
  <2>1. Placed(a, b, m, l)
    BY PlaceType
  <2>2. PICK x \in 1..m * l :
          x = Place(a, b, l) /\ ((x - 1) \div l) + 1 = a /\ ((x - 1) % l) + 1 = b
    BY <2>1 DEF Placed
  <2>3. Pairs(s, t)[x] = <<s[((x - 1) \div l) + 1], t[((x - 1) % l) + 1]>>
    BY <1>3
  <2> QED
    BY <2>2, <2>3
<1>6. \A n \in 1..m * l : \E a \in 1..m, b \in 1..l : Place(a, b, l) = n
  BY PlaceOf
<1> QED
  BY <1>1, <1>2, <1>4, <1>5, <1>6

-----------------------------------------------------------------------------
(* A round of the chain as places in the pairs of firings and correlations. *)

ChainPairs(pending) == Pairs(pending, CorrOrder)

Chained(p) == [key |-> <<p[2], ChainGroup(p[2], p[1][2])>>, ref |-> p[1][1]]

ChainAsked(pending) ==
  {n \in DOMAIN ChainPairs(pending) :
     Refers(ChainPairs(pending)[n][2], ChainPairs(pending)[n][1][1])}

ChainFirst(pending) ==
  {n \in ChainAsked(pending) : \A m \in ChainAsked(pending) :
     m < n => \/ ChainPairs(pending)[m][2] # ChainPairs(pending)[n][2]
              \/ ChainPairs(pending)[m][1][1] # ChainPairs(pending)[n][1][1]}

ChainPlaces(pending) ==
  {n \in ChainFirst(pending) :
     ChainGroup(ChainPairs(pending)[n][2], ChainPairs(pending)[n][1][2]) # None}

LEMMA ChainPairsAt ==
  ASSUME NEW pending \in Seq(Keys)
  PROVE  /\ CorrOrder \in Seq(Corrs)
         /\ DOMAIN ChainPairs(pending) = 1..Len(pending) * Len(CorrOrder)
         /\ \A a \in 1..Len(pending), b \in 1..Len(CorrOrder) :
              /\ Place(a, b, Len(CorrOrder)) \in DOMAIN ChainPairs(pending)
              /\ ChainPairs(pending)[Place(a, b, Len(CorrOrder))] = <<pending[a], CorrOrder[b]>>
         /\ \A n \in DOMAIN ChainPairs(pending) :
              \E a \in 1..Len(pending), b \in 1..Len(CorrOrder) :
                Place(a, b, Len(CorrOrder)) = n
<1>1. CorrOrder \in Seq(Corrs)
  BY ConstantsAssumption
<1> QED
  BY <1>1, PairsAt DEF ChainPairs

LEMMA ChainWorkBy ==
  ASSUME NEW pending \in Seq(Keys),
         NEW q \in Nat, NEW f, Enum(f, q, ChainPlaces(pending))
  PROVE  ChainWork(pending) = [n \in 1..q |-> Chained(ChainPairs(pending)[f[n]])]
<1>1. PICK m \in Nat : DOMAIN ChainPairs(pending) = 1..m
  <2>1. Len(pending) * Len(CorrOrder) \in Nat
    <3>1. Len(pending) \in Nat /\ Len(CorrOrder) \in Nat
      BY ChainPairsAt
    <3> QED
      BY <3>1
  <2> QED
    BY <2>1, ChainPairsAt
<1>2. ChainPlaces(pending) \in SUBSET (1..m)
  BY <1>1 DEF ChainPlaces, ChainFirst, ChainAsked
<1>3. At(ChainPairs(pending), ChainPlaces(pending)) = Picked(ChainPairs(pending), f, q)
  BY <1>2, AtEnum
<1>4. ChainWork(pending)
        = [n \in DOMAIN At(ChainPairs(pending), ChainPlaces(pending)) |->
             Chained(At(ChainPairs(pending), ChainPlaces(pending))[n])]
  BY DEF ChainWork, ChainPairs, Chained, ChainPlaces, ChainFirst, ChainAsked
<1>5. ChainWork(pending)
        = [n \in DOMAIN Picked(ChainPairs(pending), f, q) |->
             Chained(Picked(ChainPairs(pending), f, q)[n])]
  BY <1>3, <1>4
<1> QED
  BY <1>5 DEF Picked

(* Where the firings are that k is due. *)
FiringPlaces(k) ==
  {n \in 1..Len(fired) :
     /\ Refers(k[1], fired[n][1]) /\ CountsFirings(k[1])
     /\ ChainGroup(k[1], fired[n][2]) = k[2]
     /\ \A m \in 1..n - 1 : fired[m][1] # fired[n][1]}

Firing(k, j) ==
  [slot |-> IF corr[k[1]].type \in Temporal THEN j[1] ELSE Plain,
   entry |-> [t |-> event.t, v |-> None]]

LEMMA FiringsDueBy ==
  ASSUME fired \in Seq(Keys), NEW k, NEW s \in Nat, NEW e, Enum(e, s, FiringPlaces(k))
  PROVE  FiringsDue(k) = [n \in 1..s |-> Firing(k, fired[e[n]])]
<1>1. PICK m \in Nat : DOMAIN fired = 1..m /\ m = Len(fired)
  OBVIOUS
<1>2. FiringPlaces(k) \in SUBSET (1..m)
  BY <1>1 DEF FiringPlaces
<1>3. At(fired, FiringPlaces(k)) = Picked(fired, e, s)
  BY <1>2, AtEnum
<1>4. FiringsDue(k)
        = [n \in DOMAIN At(fired, FiringPlaces(k)) |-> Firing(k, At(fired, FiringPlaces(k))[n])]
  <2>1. FiringPlaces(k) = {n \in DOMAIN fired :
               /\ Refers(k[1], fired[n][1]) /\ CountsFirings(k[1])
               /\ ChainGroup(k[1], fired[n][2]) = k[2]
               /\ \A h \in 1..n - 1 : fired[h][1] # fired[n][1]}
    BY <1>1 DEF FiringPlaces
  <2> QED
    BY <2>1 DEF FiringsDue, Firing
<1>5. FiringsDue(k)
        = [n \in DOMAIN Picked(fired, e, s) |-> Firing(k, Picked(fired, e, s)[n])]
  BY <1>3, <1>4
<1> QED
  BY <1>5 DEF Picked

(* Where the updates are that k gets. *)
PlacesOf(k) ==
  {x \in ChainPlaces(fired) : Chained(ChainPairs(fired)[x]).key = k /\ CountsFirings(k[1])}

(* h leads from the firings to the updates, in order. *)
Rowwise(h, k) ==
  /\ h \in [FiringPlaces(k) -> PlacesOf(k)]
  /\ \A i, j \in FiringPlaces(k) : i < j => h[i] < h[j]
  /\ \A x \in PlacesOf(k) : \E i \in FiringPlaces(k) : h[i] = x
  /\ \A i \in FiringPlaces(k) : ChainPairs(fired)[h[i]] = <<fired[i], k[1]>>

LEMMA FiringPlacesRowwise ==
  ASSUME IInv, NEW k \in Keys
  PROVE  \E h : Rowwise(h, k)
<1> DEFINE C == ChainPairs(fired)
           c == k[1]
<1>1. fired \in Seq(Keys) /\ c \in Corrs /\ k = <<k[1], k[2]>> /\ k[2] # None
  <2>1. k[1] \in Corrs /\ k[2] \in Groups \cup {All} /\ k = <<k[1], k[2]>>
    BY DEF Keys
  <2>2. None \notin Groups \cup {All}
    BY ConstantsAssumption
  <2> QED
    BY <2>1, <2>2 DEF IInv, TypeOK
<1>2. PICK l \in Nat : l = Len(CorrOrder)
  <2>1. CorrOrder \in Seq(Corrs)
    BY ConstantsAssumption
  <2> QED
    BY <2>1
<1>3. PICK d \in 1..l : CorrOrder[d] = c /\ \A b \in 1..l : CorrOrder[b] = c => d <= b
  <2> DEFINE B == {b \in 1..l : CorrOrder[b] = c}
  <2>1. DOMAIN CorrOrder = 1..l /\ c \in {CorrOrder[i] : i \in DOMAIN CorrOrder}
    <3>1. CorrOrder \in Seq(Corrs)
      BY ConstantsAssumption
    <3>2. c \in ToSet(CorrOrder)
      BY <1>1 DEF Corrs
    <3> QED
      BY <1>2, <3>1, <3>2 DEF ToSet
  <2>2. B # {} /\ B \in SUBSET Nat
    BY <2>1
  <2>3. \E b \in B : \A a \in B : b <= a
    <3> HIDE DEF B
    <3> QED
      BY <2>2, LeastNatural
  <2> QED
    BY <2>3
<1>4. /\ \A a \in 1..Len(fired), b \in 1..l :
           Place(a, b, l) \in DOMAIN C /\ C[Place(a, b, l)] = <<fired[a], CorrOrder[b]>>
      /\ \A n \in DOMAIN C : \E a \in 1..Len(fired), b \in 1..l : Place(a, b, l) = n
  BY <1>1, <1>2, ChainPairsAt
<1> HIDE DEF C, c
<1>7. ASSUME NEW i \in FiringPlaces(k)
      PROVE  /\ i \in 1..Len(fired) /\ i \in Nat
             /\ Place(i, d, l) \in PlacesOf(k) /\ C[Place(i, d, l)] = <<fired[i], c>>
  <2>1. /\ i \in 1..Len(fired) /\ Refers(c, fired[i][1]) /\ CountsFirings(c)
        /\ ChainGroup(c, fired[i][2]) = k[2] /\ \A m \in 1..i - 1 : fired[m][1] # fired[i][1]
    BY DEF FiringPlaces, c
  <2>2. Place(i, d, l) \in DOMAIN C /\ C[Place(i, d, l)] = <<fired[i], c>>
    BY <1>3, <1>4, <2>1
  <2>3. Place(i, d, l) \in ChainAsked(fired)
    BY <2>1, <2>2 DEF ChainAsked, C
  <2>4. ASSUME NEW m \in ChainAsked(fired), m < Place(i, d, l)
        PROVE  C[m][2] # C[Place(i, d, l)][2] \/ C[m][1][1] # C[Place(i, d, l)][1][1]
    <3> SUFFICES ASSUME C[m][2] = c, C[m][1][1] = fired[i][1] PROVE FALSE
      BY <2>2
    <3>1. m \in DOMAIN C
      BY DEF ChainAsked, C
    <3>2. PICK a \in 1..Len(fired), b \in 1..l : Place(a, b, l) = m
      BY <1>4, <3>1
    <3>3. C[m] = <<fired[a], CorrOrder[b]>>
      BY <1>4, <3>2
    <3>4. CorrOrder[b] = c /\ fired[a][1] = fired[i][1]
      BY <3>3
    <3>5. d <= b
      BY <1>3, <3>4
    <3>6. a < i
      <4>1. a \in Nat /\ i \in Nat
        BY <2>1
      <4> QED
        BY <2>4, <3>2, <3>5, <4>1, PlaceBack
    <3>7. a \in 1..i - 1
      BY <2>1, <3>6
    <3> QED
      BY <2>1, <3>4, <3>7
  <2>5. Place(i, d, l) \in ChainFirst(fired)
    BY <2>3, <2>4 DEF ChainFirst, C
  <2>6. Place(i, d, l) \in ChainPlaces(fired)
    BY <1>1, <2>1, <2>2, <2>5 DEF ChainPlaces, C
  <2>7. Chained(C[Place(i, d, l)]).key = k
    BY <1>1, <2>1, <2>2 DEF Chained, c
  <2> QED
    BY <2>1, <2>2, <2>6, <2>7 DEF PlacesOf, C, c
<1>8. ASSUME NEW x \in PlacesOf(k) PROVE \E i \in FiringPlaces(k) : Place(i, d, l) = x
  <2>1. /\ x \in DOMAIN C /\ Refers(C[x][2], C[x][1][1]) /\ CountsFirings(c)
        /\ <<C[x][2], ChainGroup(C[x][2], C[x][1][2])>> = k
        /\ \A m \in ChainAsked(fired) : m < x => C[m][2] # C[x][2] \/ C[m][1][1] # C[x][1][1]
    BY DEF PlacesOf, ChainPlaces, ChainFirst, ChainAsked, Chained, C, c
  <2>2. PICK a \in 1..Len(fired), b \in 1..l : Place(a, b, l) = x
    BY <1>4, <2>1
  <2>3. C[x] = <<fired[a], CorrOrder[b]>>
    BY <1>4, <2>2
  <2>4. CorrOrder[b] = c /\ ChainGroup(c, fired[a][2]) = k[2] /\ Refers(c, fired[a][1])
    BY <1>1, <2>1, <2>3 DEF c
  <2>5. \A h \in 1..Len(fired) :
          fired[h][1] = fired[a][1] => /\ Place(h, d, l) \in ChainAsked(fired)
                                       /\ ~(Place(h, d, l) < x)
    <3> SUFFICES ASSUME NEW h \in 1..Len(fired), fired[h][1] = fired[a][1]
                 PROVE  Place(h, d, l) \in ChainAsked(fired) /\ ~(Place(h, d, l) < x)
      OBVIOUS
    <3>1. Place(h, d, l) \in DOMAIN C /\ C[Place(h, d, l)] = <<fired[h], c>>
      BY <1>3, <1>4
    <3>2. Place(h, d, l) \in ChainAsked(fired)
      BY <2>4, <3>1 DEF ChainAsked, C
    <3> QED
      BY <2>1, <2>3, <2>4, <3>1, <3>2
  <2>6. b = d
    <3>1. d <= b
      BY <1>3, <2>4
    <3>2. ~(d < b)
      <4>1. d < b => Place(a, d, l) < Place(a, b, l)
        BY DEF Place
      <4> QED
        BY <2>2, <2>5, <4>1
    <3> QED
      BY <3>1, <3>2
  <2>7. \A m \in 1..a - 1 : fired[m][1] # fired[a][1]
    <3> SUFFICES ASSUME NEW m \in 1..a - 1, fired[m][1] = fired[a][1] PROVE FALSE
      OBVIOUS
    <3>1. m \in 1..Len(fired) /\ m \in Nat /\ a \in Nat /\ m < a
      <4>1. Len(fired) \in Nat
        BY <1>1
      <4> QED
        BY <4>1
    <3>2. Place(m, d, l) < Place(a, b, l)
      BY <3>1, PlaceOrder
    <3> QED
      BY <2>2, <2>5, <3>1, <3>2
  <2>8. a \in FiringPlaces(k)
    BY <2>1, <2>4, <2>7 DEF FiringPlaces, c
  <2> QED
    BY <2>2, <2>6, <2>8
<1> DEFINE h == [i \in FiringPlaces(k) |-> Place(i, d, l)]
<1>9. /\ h \in [FiringPlaces(k) -> PlacesOf(k)]
      /\ \A i \in FiringPlaces(k) : h[i] = Place(i, d, l)
  BY <1>7
<1> HIDE DEF h
<1>10. \A i, j \in FiringPlaces(k) : i < j => h[i] < h[j]
  <2> SUFFICES ASSUME NEW i \in FiringPlaces(k), NEW j \in FiringPlaces(k), i < j
               PROVE  h[i] < h[j]
    OBVIOUS
  <2>1. i \in Nat /\ j \in Nat
    BY <1>7
  <2>2. Place(i, d, l) < Place(j, d, l)
    BY <2>1, PlaceOrder
  <2> QED
    BY <1>9, <2>2
<1>11. Rowwise(h, k)
  BY <1>7, <1>8, <1>9, <1>10 DEF Rowwise, C, c
<1> QED
  BY <1>11

-----------------------------------------------------------------------------
(* What a window is due of a round is what its updates bring. *)

LEMMA DueChain ==
  ASSUME IInv, event # None, NEW k \in Keys, k[1] \in Loaded
  PROVE  DueFrom(k, ChainWork(fired)) = FiringsDue(k)
<1>1. fired \in Seq(Keys) /\ \A i \in 1..Len(fired) : KeyFor(fired[i], event)
  BY DEF IInv, TypeOK, CallOK
<1>2. PICK m \in Nat : ChainPlaces(fired) \in SUBSET (1..m)
  <2>1. PICK m \in Nat : DOMAIN ChainPairs(fired) = 1..m
    <3>1. Len(fired) * Len(CorrOrder) \in Nat
      <4>1. Len(fired) \in Nat /\ Len(CorrOrder) \in Nat
        BY <1>1, ChainPairsAt
      <4> QED
        BY <4>1
    <3> QED
      BY <1>1, <3>1, ChainPairsAt
  <2> QED
    BY <2>1 DEF ChainPlaces, ChainFirst, ChainAsked
<1>3. PICK q \in Nat : \E f : Enum(f, q, ChainPlaces(fired))
  BY <1>2, EnumExists
<1>4. PICK f : Enum(f, q, ChainPlaces(fired))
  BY <1>3
<1>5. PICK W \in Seq(Updates) :
        W = ChainWork(fired) /\ W = [n \in 1..q |-> Chained(ChainPairs(fired)[f[n]])]
  <2>1. ChainWork(fired) \in Seq(Updates)
    BY <1>1, ChainWorkType
  <2>2. ChainWork(fired) = [n \in 1..q |-> Chained(ChainPairs(fired)[f[n]])]
    BY <1>1, <1>4, ChainWorkBy
  <2> QED
    BY <2>1, <2>2
<1>6. DOMAIN W = 1..q /\ DOMAIN W = 1..Len(W)
  <2>1. DOMAIN W = 1..q
    BY <1>5
  <2> QED
    BY <2>1
<1>7. DuePlaces(k, W) = {n \in 1..q : W[n].key = k /\ CountsFirings(k[1])}
  BY <1>6 DEF DuePlaces
<1>8. PICK r \in Nat : \E g : Enum(g, r, DuePlaces(k, W))
  <2>1. DuePlaces(k, W) \in SUBSET (1..q)
    BY <1>7
  <2> QED
    BY <2>1, EnumExists
<1>9. PICK g : Enum(g, r, DuePlaces(k, W))
  BY <1>8
<1>10. PICK s \in Nat : \E e : Enum(e, s, FiringPlaces(k))
  <2>1. PICK n \in Nat : n = Len(fired)
    BY <1>1
  <2>2. FiringPlaces(k) \in SUBSET (1..n)
    BY <2>1 DEF FiringPlaces
  <2> QED
    BY <2>2, EnumExists
<1>11. PICK e : Enum(e, s, FiringPlaces(k))
  BY <1>10
<1>12. PICK h : Rowwise(h, k)
  BY FiringPlacesRowwise
(* Both enumerate the places of k. *)
<1>13. Enum(Picked(f, g, r), r, PlacesOf(k))
  <2> DEFINE u == [n \in DuePlaces(k, W) |-> f[n]]
  <2>1. \A n \in 1..q : f[n] \in ChainPlaces(fired) /\ W[n] = Chained(ChainPairs(fired)[f[n]])
    BY <1>4, <1>5 DEF Enum
  <2>2. u \in [DuePlaces(k, W) -> PlacesOf(k)] /\ \A n \in DuePlaces(k, W) : u[n] = f[n]
    BY <1>7, <2>1 DEF PlacesOf
  <2> HIDE DEF u
  <2>3. \A i, j \in DuePlaces(k, W) : i < j => u[i] < u[j]
    BY <1>4, <1>7, <2>2 DEF Enum
  <2>4. ASSUME NEW x \in PlacesOf(k) PROVE \E i \in DuePlaces(k, W) : u[i] = x
    <3>1. x \in ChainPlaces(fired) /\ Chained(ChainPairs(fired)[x]).key = k /\ CountsFirings(k[1])
      BY DEF PlacesOf
    <3>2. PICK n \in 1..q : f[n] = x
      BY <1>4, <3>1 DEF Enum
    <3>3. n \in DuePlaces(k, W)
      BY <1>7, <2>1, <3>1, <3>2
    <3> QED
      BY <2>2, <3>2, <3>3
  <2>5. Enum(Picked(u, g, r), r, PlacesOf(k))
    BY <1>9, <2>2, <2>3, <2>4, EnumMap
  <2>6. Picked(u, g, r) = Picked(f, g, r)
    <3>1. \A n \in 1..r : u[g[n]] = f[g[n]]
      BY <1>9, <2>2 DEF Enum
    <3> QED
      BY <3>1 DEF Picked
  <2> QED
    BY <2>5, <2>6
<1>14. Enum(Picked(h, e, s), s, PlacesOf(k))
  BY <1>11, <1>12, EnumMap DEF Rowwise
<1>15. r = s /\ \A n \in 1..r : Picked(f, g, r)[n] = Picked(h, e, s)[n]
  <2>1. PlacesOf(k) \in SUBSET (1..m)
    BY <1>2 DEF PlacesOf
  <2>2. PICK x : x = Picked(f, g, r)
    OBVIOUS
  <2>3. PICK y : y = Picked(h, e, s)
    OBVIOUS
  <2>4. Enum(x, r, PlacesOf(k)) /\ Enum(y, s, PlacesOf(k))
    BY <1>13, <1>14, <2>2, <2>3
  <2>5. SameRun(x, r, y, s)
    BY <2>1, <2>4, EnumUnique
  <2> QED
    BY <2>2, <2>3, <2>5 DEF SameRun
<1>16. \A n \in 1..r : f[g[n]] = h[e[n]]
  BY <1>15 DEF Picked
<1>17. DueFrom(k, W) = [n \in 1..r |-> Brought(W[g[n]])]
  BY <1>9, DueFromBy
<1>18. FiringsDue(k) = [n \in 1..r |-> Firing(k, fired[e[n]])]
  BY <1>1, <1>11, <1>15, FiringsDueBy
<1>19. ASSUME NEW n \in 1..r PROVE Brought(W[g[n]]) = Firing(k, fired[e[n]])
  <2>1. g[n] \in 1..q /\ W[g[n]].key = k /\ CountsFirings(k[1])
    BY <1>7, <1>9 DEF Enum
  <2>2. e[n] \in FiringPlaces(k)
    BY <1>11, <1>15 DEF Enum
  <2>3. ChainPairs(fired)[h[e[n]]] = <<fired[e[n]], k[1]>>
    BY <1>12, <2>2 DEF Rowwise
  <2>4. W[g[n]] = Chained(<<fired[e[n]], k[1]>>)
    <3>1. \A i \in 1..q : W[i] = Chained(ChainPairs(fired)[f[i]])
      BY <1>5
    <3>2. W[g[n]] = Chained(ChainPairs(fired)[f[g[n]]])
      BY <2>1, <3>1
    <3>3. f[g[n]] = h[e[n]]
      BY <1>16
    <3> QED
      BY <2>3, <3>2, <3>3
  <2>5. W[g[n]].ref = fired[e[n]][1]
    BY <2>4 DEF Chained
  <2>6. corr[k[1]].type \notin {"value_count", "value_sum"}
    BY <2>1 DEF CountsFirings, Temporal
  <2> QED
    BY <2>1, <2>5, <2>6 DEF Brought, Firing, Slot, Entry
<1> QED
  BY <1>5, <1>17, <1>18, <1>19

-----------------------------------------------------------------------------
(* What was due to a window explains what is in it.                         *)

(* All of arr but the updates due have come, and w is exact for them. *)
Explains(c, w, t, arr, due) ==
  \E P : arr = P \o due /\ Regular(P, t) /\ Exact(c, Opened(w, c, t), P, t)

LEMMA ExplainsEmpty ==
  ASSUME NEW c \in CorrelationRule, CapOK(c), NEW w \in Windows, IsEmpty(w),
         NEW t \in 0..MaxTime, NEW D \in Seq(Arrival)
  PROVE  Explains(c, w, t, D, D)
<1>1. Regular(<<>>, t) /\ Exact(c, Opened(w, c, t), <<>>, t)
  BY EmptyExact
<1>2. D = <<>> \o D
  OBVIOUS
<1> QED
  BY <1>1, <1>2 DEF Explains

LEMMA ExplainsLater ==
  ASSUME NEW c \in CorrelationRule, CapOK(c), NEW w \in Windows,
         NEW t \in 0..MaxTime, NEW u \in 0..MaxTime, t <= u,
         NEW arr, Explains(c, w, t, arr, <<>>)
  PROVE  Explains(c, w, u, arr, <<>>)
<1>1. PICK P : arr = P \o <<>> /\ Regular(P, t) /\ Exact(c, Opened(w, c, t), P, t)
  BY DEF Explains
<1>2. Exact(c, Opened(w, c, u), P, u)
  BY <1>1, ExactLater
<1>3. Regular(P, u)
  <2>1. \A i \in 1..Len(P) : P[i].entry.t \in Int /\ P[i].entry.t <= t
    BY <1>1, ArrivalType DEF Regular
  <2>2. t \in Int /\ u \in Int
    BY ConstantsAssumption
  <2>3. \A i \in 1..Len(P) : P[i].entry.t <= u
    BY <2>1, <2>2
  <2> QED
    BY <1>1, <2>3 DEF Regular
<1> QED
  BY <1>1, <1>2, <1>3 DEF Explains

LEMMA ExplainsSame ==
  ASSUME NEW c, NEW w, NEW v, NEW t, NEW arr, NEW due,
         \A s \in Slots : Opened(v, c, t).hits[s] = Opened(w, c, t).hits[s],
         Explains(c, w, t, arr, due)
  PROVE  Explains(c, v, t, arr, due)
  BY DEF Explains, Exact

LEMMA ExplainsTruncate ==
  ASSUME NEW c \in CorrelationRule, CapOK(c), NEW w \in Windows, NEW t \in 0..MaxTime,
         NEW arr, NEW due, Explains(c, w, t, arr, due)
  PROVE  Explains(c, Truncate(Opened(w, c, t), c), t, arr, due)
<1>1. PICK P : arr = P \o due /\ Regular(P, t) /\ Exact(c, Opened(w, c, t), P, t)
  BY DEF Explains
<1>2. PICK o \in Windows : o = Opened(w, c, t)
  <2>1. Opened(w, c, t) \in Windows
    BY OpenedType
  <2> QED
    BY <2>1
<1>3. Exact(c, Truncate(o, c), P, t)
  BY <1>1, <1>2, ExactTruncate DEF Regular
<1>4. Truncate(o, c) \in Windows
  BY TruncateType
<1>5. Exact(c, Opened(Truncate(o, c), c, t), P, t)
  BY <1>1, <1>3, <1>4, ExactOpened
<1> QED
  BY <1>1, <1>2, <1>5 DEF Explains

LEMMA Joined ==
  ASSUME NEW S, NEW s \in Seq(S), NEW t \in Seq(S)
  PROVE  /\ s \o t \in Seq(S) /\ Len(s \o t) = Len(s) + Len(t)
         /\ \A i \in 1..Len(s) : (s \o t)[i] = s[i]
         /\ \A i \in 1..Len(t) : (s \o t)[Len(s) + i] = t[i]
<1>1. s \o t \in Seq(S) /\ Len(s \o t) = Len(s) + Len(t)
  OBVIOUS
<1>2. \A i \in 1..Len(s) : (s \o t)[i] = s[i]
  OBVIOUS
<1>3. \A i \in 1..Len(t) : (s \o t)[Len(s) + i] = t[i]
  OBVIOUS
<1> QED
  BY <1>1, <1>2, <1>3

LEMMA MoveFirst ==
  ASSUME NEW P \in Seq(Arrival), NEW a \in Arrival, NEW D \in Seq(Arrival)
  PROVE  P \o (<<a>> \o D) = Append(P, a) \o D
<1>1. PICK X \in Seq(Arrival) : /\ X = <<a>> \o D /\ Len(X) = Len(D) + 1
                                /\ X[1] = a /\ \A i \in 1..Len(D) : X[1 + i] = D[i]
  <2>1. <<a>> \in Seq(Arrival) /\ Len(<<a>>) = 1 /\ <<a>>[1] = a
    OBVIOUS
  <2>2. <<a>> \o D \in Seq(Arrival) /\ Len(<<a>> \o D) = Len(D) + 1
    BY <2>1
  <2>3. (<<a>> \o D)[1] = a /\ \A i \in 1..Len(D) : (<<a>> \o D)[1 + i] = D[i]
    BY <2>1
  <2> QED
    BY <2>2, <2>3
<1>2. PICK Q \in Seq(Arrival) : /\ Q = Append(P, a) /\ Len(Q) = Len(P) + 1
                                /\ Q[Len(P) + 1] = a /\ \A i \in 1..Len(P) : Q[i] = P[i]
  <2>1. Append(P, a) \in Seq(Arrival) /\ Len(Append(P, a)) = Len(P) + 1
    OBVIOUS
  <2>2. Append(P, a)[Len(P) + 1] = a /\ \A i \in 1..Len(P) : Append(P, a)[i] = P[i]
    OBVIOUS
  <2> QED
    BY <2>1, <2>2
<1>3. PICK p \in Nat : p = Len(P)
  OBVIOUS
<1>4. PICK d \in Nat : d = Len(D)
  OBVIOUS
<1>5. PICK Y \in Seq(Arrival) : /\ Y = P \o X /\ Len(Y) = p + (d + 1)
                                /\ \A i \in 1..p : Y[i] = P[i]
                                /\ Y[p + 1] = X[1]
                                /\ \A i \in 1..d + 1 : Y[p + i] = X[i]
  <2>1. Len(X) = d + 1
    BY <1>1, <1>4
  <2>2. /\ P \o X \in Seq(Arrival) /\ Len(P \o X) = Len(P) + Len(X)
        /\ \A i \in 1..Len(P) : (P \o X)[i] = P[i]
        /\ \A i \in 1..Len(X) : (P \o X)[Len(P) + i] = X[i]
    BY Joined
  <2>3. PICK Y \in Seq(Arrival) : Y = P \o X
    BY <2>2
  <2>4. Y[p + 1] = X[1]
    <3>1. 1 \in 1..Len(X)
      BY <2>1
    <3> QED
      BY <1>3, <2>2, <2>3, <3>1
  <2> QED
    BY <1>3, <2>1, <2>2, <2>3, <2>4
<1>6. PICK Z \in Seq(Arrival) : /\ Z = Q \o D /\ Len(Z) = (p + 1) + d
                                /\ \A i \in 1..p + 1 : Z[i] = Q[i]
                                /\ \A i \in 1..d : Z[(p + 1) + i] = D[i]
  <2>1. Len(Q) = p + 1
    BY <1>2, <1>3
  <2>2. /\ Q \o D \in Seq(Arrival) /\ Len(Q \o D) = Len(Q) + Len(D)
        /\ \A i \in 1..Len(Q) : (Q \o D)[i] = Q[i]
        /\ \A i \in 1..Len(D) : (Q \o D)[Len(Q) + i] = D[i]
    BY Joined
  <2>3. PICK Z \in Seq(Arrival) : Z = Q \o D
    BY <2>2
  <2>4. Len(Z) = (p + 1) + d
    BY <1>4, <2>1, <2>2, <2>3
  <2>5. \A i \in 1..p + 1 : Z[i] = Q[i]
    BY <2>1, <2>2, <2>3
  <2>6. \A i \in 1..d : Z[(p + 1) + i] = D[i]
    BY <1>4, <2>1, <2>2, <2>3
  <2> QED
    BY <2>3, <2>4, <2>5, <2>6
<1>7. ASSUME NEW n \in 1..p + (d + 1) PROVE Y[n] = Z[n]
  <2>1. CASE n <= p
    <3>1. n \in 1..p /\ n \in 1..p + 1
      BY <2>1
    <3> QED
      BY <1>2, <1>3, <1>5, <1>6, <3>1
  <2>2. CASE n = p + 1
    <3>1. 1 \in 1..d + 1 /\ p + 1 \in 1..p + 1
      OBVIOUS
    <3>2. Y[p + 1] = a
      <4>1. Y[p + 1] = X[1]
        BY <1>5
      <4> QED
        BY <1>1, <4>1
    <3>3. Z[p + 1] = a
      BY <1>2, <1>3, <1>6, <3>1
    <3> QED
      BY <2>2, <3>2, <3>3
  <2>3. CASE n > p + 1
    <3>1. PICK e \in 1..d : e = n - (p + 1) /\ n = (p + 1) + e /\ n = p + (1 + e)
      <4>1. n - (p + 1) \in 1..d /\ n = (p + 1) + (n - (p + 1)) /\ n = p + (1 + (n - (p + 1)))
        BY <2>3
      <4> QED
        BY <4>1
    <3>2. 1 + e \in 1..d + 1
      OBVIOUS
    <3>3. Y[p + (1 + e)] = D[e]
      BY <1>1, <1>4, <1>5, <3>2
    <3>4. Z[(p + 1) + e] = D[e]
      BY <1>6
    <3> QED
      BY <3>1, <3>3, <3>4
  <2>4. n <= p \/ n = p + 1 \/ n > p + 1
    OBVIOUS
  <2> QED
    BY <2>1, <2>2, <2>3, <2>4
<1>8. Len(Y) = Len(Z) /\ \A i \in 1..Len(Y) : Y[i] = Z[i]
  <2>1. p + (d + 1) = (p + 1) + d
    OBVIOUS
  <2>2. Len(Y) = Len(Z)
    BY <1>5, <1>6, <2>1
  <2>3. 1..Len(Y) = 1..p + (d + 1)
    BY <1>5
  <2> QED
    BY <1>7, <2>2, <2>3
<1>9. Y = Z
  BY <1>8, SameSeq
<1> QED
  BY <1>1, <1>2, <1>5, <1>6, <1>9

LEMMA ExplainsPush ==
  ASSUME NEW c \in CorrelationRule, CapOK(c), NEW w \in Windows, NEW t \in 0..MaxTime,
         NEW arr, NEW a \in Arrival, a.entry.t = t, NEW D \in Seq(Arrival)
  PROVE  LET v == Truncate(Push(Opened(w, c, t), a.slot, a.entry), c)
         IN  /\ Explains(c, w, t, arr, <<a>> \o D) => Explains(c, v, t, arr, D)
             /\ Explains(c, w, t, arr, <<>>) => Explains(c, v, t, Append(arr, a), <<>>)
<1> DEFINE v == Truncate(Push(Opened(w, c, t), a.slot, a.entry), c)
<1>1. PICK o \in Windows : o = Opened(w, c, t)
  <2>1. Opened(w, c, t) \in Windows
    BY OpenedType
  <2> QED
    BY <2>1
<1>2. v \in Windows
  <2>1. a.slot \in Slots /\ a.entry \in Entries
    BY DEF Arrival
  <2>2. Push(o, a.slot, a.entry) \in Windows
    BY <2>1, PushType
  <2> QED
    BY <1>1, <2>2, TruncateType
<1>3. ASSUME NEW P, Regular(P, t), Exact(c, Opened(w, c, t), P, t)
      PROVE  Regular(Append(P, a), t) /\ Exact(c, Opened(v, c, t), Append(P, a), t)
  <2>0. t \in Int
    BY ConstantsAssumption
  <2>1. Regular(Append(P, a), t)
    BY <1>3, <2>0, RegularAppend
  <2>2. Exact(c, v, Append(P, a), t)
    BY <1>1, <1>3, <2>0, ExactPush
  <2>3. Exact(c, Opened(v, c, t), Append(P, a), t)
    <3> HIDE DEF v
    <3> QED
      BY <1>2, <2>1, <2>2, ExactOpened
  <2> QED
    BY <2>1, <2>3
<1> HIDE DEF v
<1>4. ASSUME Explains(c, w, t, arr, <<a>> \o D) PROVE Explains(c, v, t, arr, D)
  <2>1. PICK P : arr = P \o (<<a>> \o D) /\ Regular(P, t) /\ Exact(c, Opened(w, c, t), P, t)
    BY <1>4 DEF Explains
  <2>2. P \in Seq(Arrival)
    BY <2>1 DEF Regular
  <2>3. P \o (<<a>> \o D) = Append(P, a) \o D
    BY <2>2, MoveFirst
  <2> QED
    BY <1>3, <2>1, <2>3 DEF Explains
<1>5. ASSUME Explains(c, w, t, arr, <<>>) PROVE Explains(c, v, t, Append(arr, a), <<>>)
  <2>1. PICK P : arr = P \o <<>> /\ Regular(P, t) /\ Exact(c, Opened(w, c, t), P, t)
    BY <1>5 DEF Explains
  <2>2. P \in Seq(Arrival)
    BY <2>1 DEF Regular
  <2>3. arr = P /\ Append(P, a) = Append(P, a) \o <<>>
    BY <2>1, <2>2
  <2> QED
    BY <1>3, <2>1, <2>3 DEF Explains
<1> QED
  BY <1>4, <1>5 DEF v

LEMMA ExplainsReload ==
  ASSUME NEW c \in CorrelationRule, NEW d \in CorrelationRule, SameWindows(c, d),
         NEW w \in Windows, NEW t, NEW arr, NEW due, Explains(c, w, t, arr, due)
  PROVE  Explains(d, w, t, arr, due)
<1>1. PICK P : arr = P \o due /\ Regular(P, t) /\ Exact(c, Opened(w, c, t), P, t)
  BY DEF Explains
<1>2. Exact(d, Opened(w, d, t), P, t)
  BY <1>1, SameExact DEF Regular
<1> QED
  BY <1>1, <1>2 DEF Explains

-----------------------------------------------------------------------------
(* The windows are faithful to what arrived.  While a round runs, a window  *)
(* is behind by what its updates of that round have yet to bring.           *)

(* What the updates of the round that are still to do bring to k. *)
Pending(k) == IF Direct THEN <<>> ELSE DueFrom(k, work)

(* The window of k is exact for what has come of what it was due. *)
Explained(k) == Explains(corr[k[1]], Window(k), now, arrived[k], Pending(k))

(* The inductive invariant: windows have the variant of their rule, nothing *)
(* is due to a rule that is not loaded, and every window is explained.      *)
Faithful ==
  /\ \A k \in DOMAIN state : state[k].variant = Variant(corr[k[1]].type)
  /\ \A k \in Keys : k[1] \notin Loaded => arrived[k] = <<>>
  /\ ordered => \A k \in Keys : k[1] \in Loaded => Explained(k)

LEMMA RuleKept ==
  ASSUME WindowsKept, corr \in RuleSets, NEW c \in Loaded
  PROVE  corr[c] \in CorrelationRule /\ CapOK(corr[c])
<1>1. c \in Corrs /\ corr[c] # None
  BY DEF Loaded
<1> QED
  BY <1>1, RuleOf DEF WindowsKept, CapOK

LEMMA SameArrivals == Arrivals = Seq(Arrival)
  BY DEF Arrivals, Arrival

(* A window that is not kept, or was never made, is explained by nothing. *)
LEMMA FreshExplained ==
  ASSUME TypeOK, WindowsKept, NEW k \in Keys, k[1] \in Loaded, IsEmpty(Window(k))
  PROVE  \A t \in 0..MaxTime : Explains(corr[k[1]], Window(k), t, <<>>, <<>>)
<1>1. corr[k[1]] \in CorrelationRule /\ CapOK(corr[k[1]]) /\ Window(k) \in Windows
  BY RuleKept, WindowType DEF TypeOK
<1>2. <<>> \in Seq(Arrival)
  OBVIOUS
<1> QED
  BY <1>1, <1>2, ExplainsEmpty

(* While a call runs, what the updates bring stays the same. *)
LEMMA SameDue ==
  ASSUME UNCHANGED <<corr, event>>
  PROVE  \A k : Pending(k)' = IF depth' = 0 THEN <<>> ELSE DueFrom(k, work')
<1>1. \A u : Slot(u)' = Slot(u) /\ Entry(u)' = Entry(u)
  BY DEF Slot, Entry
<1>2. \A c : CountsFirings(c)' = CountsFirings(c)
  BY DEF CountsFirings
<1>3. ASSUME NEW k PROVE DueFrom(k, work)' = DueFrom(k, work')
  <2> DEFINE I == {n \in DOMAIN work' : work'[n].key = k /\ CountsFirings(k[1])}
  <2>1. {n \in DOMAIN work' : work'[n].key = k /\ CountsFirings(k[1])'} = I
    BY <1>2
  <2> HIDE DEF I
  <2>2. DueFrom(k, work)' = [n \in DOMAIN At(work', I) |->
            [slot |-> Slot(At(work', I)[n]), entry |-> Entry(At(work', I)[n])]]
    BY <1>1, <2>1 DEF DueFrom
  <2>3. DueFrom(k, work') = [n \in DOMAIN At(work', I) |->
            [slot |-> Slot(At(work', I)[n]), entry |-> Entry(At(work', I)[n])]]
    BY DEF DueFrom, I
  <2> QED
    BY <2>2, <2>3
<1> QED
  BY <1>3 DEF Pending, Direct

LEMMA SameWindow ==
  ASSUME UNCHANGED <<corr, state>>
  PROVE  /\ \A k : Window(k)' = Window(k)
         /\ Loaded' = Loaded
  BY DEF Window, Loaded

(* Steps that leave the windows, the history and the arrivals to come alone *)
(* leave the windows explained.                                             *)
LEMMA SameFaithful ==
  ASSUME Faithful, UNCHANGED <<corr, state, arrived, now, ordered>>,
         \A k \in Keys : k[1] \in Loaded => Pending(k)' = Pending(k)
  PROVE  Faithful'
<1>1. /\ \A k : Window(k)' = Window(k)
      /\ Loaded' = Loaded
  BY SameWindow
<1>2. \A k \in DOMAIN state' : state'[k].variant = Variant(corr'[k[1]].type)
  BY DEF Faithful
<1>3. \A k \in Keys : k[1] \notin Loaded' => arrived'[k] = <<>>
  BY <1>1 DEF Faithful
<1>4. ASSUME ordered', NEW k \in Keys, k[1] \in Loaded' PROVE Explained(k)'
  <2>1. Explained(k) /\ Pending(k)' = Pending(k)
    BY <1>1, <1>4 DEF Faithful
  <2>2. Explained(k)' <=> Explains(corr'[k[1]], Window(k)', now', arrived'[k], Pending(k)')
    BY DEF Explained
  <2> QED
    BY <1>1, <2>1, <2>2 DEF Explained
<1> QED
  BY <1>2, <1>3, <1>4 DEF Faithful

LEMMA InitFaithful ==
  ASSUME WindowsKept, Init
  PROVE  Faithful
<1>1. IInv
  BY InitType
<1>2. /\ depth = 0 /\ now = 0 /\ DOMAIN state = {} /\ \A k \in Keys : arrived[k] = <<>>
  BY DEF Init
<1>3. ASSUME NEW k \in Keys, k[1] \in Loaded PROVE Explained(k)
  <2>1. IsEmpty(Window(k))
    BY <1>1, <1>2, <1>3, WindowType DEF IInv
  <2>2. now \in 0..MaxTime
    BY <1>1 DEF IInv, TypeOK
  <2>3. Explains(corr[k[1]], Window(k), now, <<>>, <<>>)
    BY <1>1, <1>3, <2>1, <2>2, FreshExplained DEF IInv
  <2>4. Pending(k) = <<>>
    BY <1>2 DEF Pending, Direct
  <2> QED
    BY <1>2, <2>3, <2>4 DEF Explained
<1> QED
  BY <1>2, <1>3 DEF Faithful

LEMMA ReturnFaithful ==
  ASSUME IInv, Faithful, Return
  PROVE  Faithful'
<1>1. /\ work = <<>> /\ depth' = 0
      /\ UNCHANGED <<corr, state, arrived, now, ordered>>
  BY DEF Return, engine, history
<1>2. \A k : Pending(k) = <<>>
  BY <1>1, NothingDue DEF Pending
<1>3. \A k : Pending(k)' = <<>>
  BY <1>1 DEF Pending, Direct
<1> QED
  BY <1>1, <1>2, <1>3, SameFaithful

LEMMA ChainFaithful ==
  ASSUME IInv, Faithful, Chain
  PROVE  Faithful'
<1>1. /\ work = <<>> /\ fired # <<>> /\ depth < MaxDepth
      /\ work' = ChainWork(fired) /\ depth' = depth + 1
      /\ arrived' = [k \in Keys |-> arrived[k] \o FiringsDue(k)]
      /\ UNCHANGED <<corr, state, event, now, ordered>>
  BY DEF Chain, engine
<1>2. event # None
  BY <1>1 DEF IInv, CallOK
<1>3. depth' # 0
  <2>1. depth \in Nat
    BY ConstantsAssumption DEF IInv, TypeOK
  <2> QED
    BY <1>1, <2>1
<1>4. \A k : Pending(k) = <<>>
  BY <1>1, NothingDue DEF Pending
<1>5. \A k : Pending(k)' = DueFrom(k, ChainWork(fired))
  BY <1>1, <1>3, SameDue
<1>6. /\ \A k : Window(k)' = Window(k)
      /\ Loaded' = Loaded
  BY <1>1, SameWindow
<1>7. \A k \in DOMAIN state' : state'[k].variant = Variant(corr'[k[1]].type)
  BY <1>1 DEF Faithful
<1>8. ASSUME NEW k \in Keys, k[1] \notin Loaded PROVE arrived'[k] = <<>>
  <2> DEFINE f == [n \in 1..0 |-> n]
  <2>1. FiringPlaces(k) = {}
    BY <1>8 DEF FiringPlaces, Refers
  <2>2. Enum(f, 0, FiringPlaces(k))
    BY <2>1 DEF Enum
  <2> HIDE DEF f
  <2>3. fired \in Seq(Keys)
    BY DEF IInv, TypeOK
  <2>4. PICK z \in Nat : z = 0 /\ 1..z = {}
    OBVIOUS
  <2>5. FiringsDue(k) = [n \in 1..z |-> Firing(k, fired[f[n]])]
    BY <2>2, <2>3, <2>4, FiringsDueBy
  <2>6. FiringsDue(k) = <<>>
    BY <2>4, <2>5
  <2>7. arrived[k] = <<>>
    BY <1>8 DEF Faithful
  <2>8. arrived'[k] = <<>> \o <<>>
    BY <1>1, <2>6, <2>7
  <2> QED
    BY <2>8
<1>9. ASSUME ordered', NEW k \in Keys, k[1] \in Loaded PROVE Explained(k)'
  <2>1. Explains(corr[k[1]], Window(k), now, arrived[k], <<>>)
    BY <1>1, <1>4, <1>9 DEF Faithful, Explained
  <2>2. PICK P : /\ arrived[k] = P \o <<>> /\ Regular(P, now)
                 /\ Exact(corr[k[1]], Opened(Window(k), corr[k[1]], now), P, now)
    BY <2>1 DEF Explains
  <2>3. arrived[k] = P
    BY <2>2 DEF Regular
  <2>4. arrived'[k] = P \o FiringsDue(k)
    BY <1>1, <2>3
  <2>5. Pending(k)' = FiringsDue(k)
    BY <1>2, <1>5, <1>9, DueChain
  <2>6. Explains(corr[k[1]], Window(k), now, arrived'[k], FiringsDue(k))
    BY <2>2, <2>4 DEF Explains
  <2>7. Explained(k)' <=> Explains(corr'[k[1]], Window(k)', now', arrived'[k], Pending(k)')
    BY DEF Explained
  <2> QED
    BY <1>1, <1>6, <2>5, <2>6, <2>7
<1> QED
  BY <1>6, <1>7, <1>8, <1>9 DEF Faithful

(* Making room takes of a window what an event of that time would not find. *)
LEMMA RoomFaithful ==
  ASSUME WindowsKept, IInv, Faithful, ordered, NEW t \in 0..MaxTime, now <= t,
         MakeRoom(t), corr' = corr, Direct, NEW k \in Keys, k[1] \in Loaded
  PROVE  Explains(corr[k[1]], Window(k)', t, arrived'[k], <<>>)
<1> DEFINE c == corr[k[1]]
<1>1. c \in CorrelationRule /\ CapOK(c) /\ Window(k) \in Windows /\ now \in 0..MaxTime
  BY RuleKept, WindowType DEF IInv, TypeOK
<1>2. Explains(c, Window(k), t, arrived[k], <<>>)
  <2>1. Explains(c, Window(k), now, arrived[k], <<>>)
    BY DEF Faithful, Explained, Pending
  <2> HIDE DEF c
  <2> QED
    BY <1>1, <2>1, ExplainsLater
<1>3. CASE UNCHANGED <<state, buffer, lastAlert, arrived, alerted>>
  BY <1>2, <1>3 DEF Window
<1>4. CASE EvictAll(t)
  <2> DEFINE alive == {j \in DOMAIN state : ~IsEmpty(AgedWindow(j, t))}
             aged == [j \in alive |-> AgedWindow(j, t)]
             fresh == NewWindow(Variant(c.type))
  <2>1. PICK gone \in Stalest(aged) :
          /\ state' = [j \in alive \ gone |-> aged[j]]
          /\ arrived' = [j \in Keys |-> IF j \in gone THEN <<>> ELSE arrived[j]]
    BY <1>4 DEF EvictAll
  <2>2. Window(k)' = IF k \in alive \ gone THEN AgedWindow(k, t) ELSE fresh
    BY <2>1 DEF Window
  <2>3. fresh \in Windows /\ IsEmpty(fresh)
    <3>1. Variant(c.type) \in Variants
      BY <1>1 DEF CorrelationRule, Variant, Variants, Temporal
    <3> QED
      BY <3>1, NewWindowType DEF Variants
  <2>4. arrived'[k] = IF k \in gone THEN <<>> ELSE arrived[k]
    BY <2>1
  <2>5. k \in DOMAIN state =>
          /\ AgedWindow(k, t) \in Windows
          /\ \A s \in Slots : Opened(AgedWindow(k, t), c, t).hits[s]
                                = Opened(Window(k), c, t).hits[s]
    BY AgedWindowType, AgedOpened DEF IInv, Window
  <2>6. k \in alive <=> k \in DOMAIN state /\ ~IsEmpty(AgedWindow(k, t))
    OBVIOUS
  <2>7. k \notin DOMAIN state => IsEmpty(Window(k))
    BY WindowType DEF IInv
  <2> HIDE DEF c, alive, aged, fresh
  <2>8. CASE k \in gone
    <3>1. <<>> \in Seq(Arrival)
      OBVIOUS
    <3>2. Explains(c, fresh, t, <<>>, <<>>)
      BY <1>1, <2>3, <3>1, ExplainsEmpty
    <3> QED
      BY <2>2, <2>4, <2>8, <3>2 DEF c
  <2>9. CASE k \notin gone /\ k \in alive
    <3>1. Explains(c, AgedWindow(k, t), t, arrived[k], <<>>)
      BY <1>2, <2>5, <2>6, <2>9, ExplainsSame
    <3> QED
      BY <2>2, <2>4, <2>9, <3>1 DEF c
  <2>10. CASE k \notin gone /\ k \notin alive
    <3>1. ASSUME NEW s \in Slots PROVE Opened(fresh, c, t).hits[s] = Opened(Window(k), c, t).hits[s]
      <4>1. Opened(fresh, c, t).hits[s] = <<>>
        BY <2>3, EmptyOpened
      <4>2. CASE k \in DOMAIN state
        <5>1. Opened(AgedWindow(k, t), c, t).hits[s] = <<>>
          BY <2>5, <2>6, <2>10, <4>2, EmptyOpened
        <5> QED
          BY <2>5, <4>1, <4>2, <5>1
      <4>3. CASE k \notin DOMAIN state
        <5>1. Opened(Window(k), c, t).hits[s] = <<>>
          BY <1>1, <2>7, <4>3, EmptyOpened
        <5> QED
          BY <4>1, <5>1
      <4> QED
        BY <4>2, <4>3
    <3>2. Explains(c, fresh, t, arrived[k], <<>>)
      BY <1>2, <3>1, ExplainsSame
    <3> QED
      BY <2>2, <2>4, <2>10, <3>2 DEF c
  <2> QED
    BY <2>8, <2>9, <2>10
<1> QED
  BY <1>3, <1>4 DEF MakeRoom

LEMMA ReceiveFaithful ==
  ASSUME WindowsKept, IInv, Faithful, NEW e \in Events, NEW t \in 0..MaxTime, Receive(e, t)
  PROVE  Faithful'
<1>1. /\ MakeRoom(t) /\ corr' = corr /\ now' = t /\ ordered' = (ordered /\ t >= now)
      /\ depth = 0 /\ depth' = 0
  BY DEF Receive, Idle, IInv, CallOK
<1>2. Loaded' = Loaded
  BY <1>1 DEF Loaded
<1>3. \A k \in DOMAIN state' : state'[k].variant = Variant(corr'[k[1]].type)
  <2>1. CASE UNCHANGED <<state, buffer, lastAlert, arrived, alerted>>
    BY <1>1, <2>1 DEF Faithful
  <2>2. CASE EvictAll(t)
    <3> DEFINE alive == {j \in DOMAIN state : ~IsEmpty(AgedWindow(j, t))}
               aged == [j \in alive |-> AgedWindow(j, t)]
    <3>1. PICK gone \in Stalest(aged) : state' = [j \in alive \ gone |-> aged[j]]
      BY <2>2 DEF EvictAll
    <3>2. ASSUME NEW k \in DOMAIN state PROVE AgedWindow(k, t).variant = state[k].variant
      <4>1. state[k] \in Windows
        BY DEF IInv, TypeOK
      <4>2. \/ AgedWindow(k, t) = Evict(state[k], t - corr[k[1]].timespan)
            \/ AgedWindow(k, t) = Clear(state[k])
            \/ AgedWindow(k, t) = state[k]
        BY DEF AgedWindow
      <4> QED
        BY <4>1, <4>2, VariantKept
    <3>3. \A k \in DOMAIN state' : k \in DOMAIN state /\ state'[k] = AgedWindow(k, t)
      BY <3>1
    <3> HIDE DEF alive, aged
    <3> QED
      BY <1>1, <3>2, <3>3 DEF Faithful
  <2> QED
    BY <1>1, <2>1, <2>2 DEF MakeRoom
<1>4. ASSUME NEW k \in Keys, k[1] \notin Loaded PROVE arrived'[k] = <<>>
  <2>1. arrived[k] = <<>>
    BY <1>4 DEF Faithful
  <2>2. CASE UNCHANGED <<state, buffer, lastAlert, arrived, alerted>>
    BY <2>1, <2>2
  <2>3. CASE EvictAll(t)
    BY <2>1, <2>3 DEF EvictAll
  <2> QED
    BY <1>1, <2>2, <2>3 DEF MakeRoom
<1>5. ASSUME ordered', NEW k \in Keys, k[1] \in Loaded PROVE Explained(k)'
  <2>1. ordered /\ now <= t
    <3>1. now \in Int /\ t \in Int
      BY ConstantsAssumption DEF IInv, TypeOK
    <3> QED
      BY <1>1, <1>5, <3>1
  <2>2. Explains(corr[k[1]], Window(k)', t, arrived'[k], <<>>)
    BY <1>1, <1>5, <2>1, RoomFaithful DEF Direct
  <2>3. Pending(k)' = <<>>
    BY <1>1 DEF Pending, Direct
  <2>4. Explained(k)' <=> Explains(corr'[k[1]], Window(k)', now', arrived'[k], Pending(k)')
    BY DEF Explained
  <2> QED
    BY <1>1, <2>2, <2>3, <2>4
<1> QED
  BY <1>2, <1>3, <1>4, <1>5 DEF Faithful

(* What is loaded from now on, was dropped, or was dropped before.          *)
LEMMA ReloadFaithful ==
  ASSUME WindowsKept, IInv, Faithful, NEW R \in RuleSets, Reload(R)
  PROVE  Faithful'
<1>1. /\ corr' = R /\ corr \in RuleSets /\ depth = 0 /\ depth' = 0
      /\ state' = [k \in {j \in DOMAIN state : R[j[1]] # None} |-> state[k]]
      /\ arrived' = [k \in Keys |-> IF R[k[1]] # None THEN arrived[k] ELSE <<>>]
      /\ now' = now /\ ordered' = ordered /\ now \in 0..MaxTime
  BY DEF Reload, IInv, TypeOK, call, Idle, CallOK
<1>2. \A k \in Keys : k[1] \in Corrs /\ (k[1] \in Loaded' <=> R[k[1]] # None)
  BY <1>1 DEF Loaded, Keys
<1>3. ASSUME NEW c \in Loaded, R[c] # None
      PROVE  R[c].type = corr[c].type /\ SameWindows(corr[c], R[c])
  BY <1>1, <1>3 DEF WindowsKept, Loaded, SameWindows
<1>4. \A k \in DOMAIN state' : state'[k].variant = Variant(corr'[k[1]].type)
  <2>1. \A k \in DOMAIN state' : /\ state'[k] = state[k] /\ k \in DOMAIN state
                                 /\ k[1] \in Loaded /\ R[k[1]] # None
    BY <1>1 DEF IInv, Kept
  <2> QED
    BY <1>1, <1>3, <2>1 DEF Faithful
<1>5. \A k \in Keys : k[1] \notin Loaded' => arrived'[k] = <<>>
  BY <1>1, <1>2
<1>6. ASSUME ordered', NEW k \in Keys, k[1] \in Loaded' PROVE Explained(k)'
  <2>1. R[k[1]] # None /\ arrived'[k] = arrived[k]
    BY <1>1, <1>2, <1>6
  <2>2. R[k[1]] \in CorrelationRule /\ CapOK(R[k[1]])
    BY <1>2, <2>1, RulesAssumption DEF WindowsKept, CapOK
  <2>3. Explains(R[k[1]], Window(k)', now, arrived[k], <<>>)
    <3>1. CASE k[1] \in Loaded
      <4>1. Window(k)' = Window(k)
        BY <1>1, <1>3, <2>1, <3>1 DEF Window
      <4>2. Explains(corr[k[1]], Window(k), now, arrived[k], <<>>)
        BY <1>1, <1>6, <3>1 DEF Faithful, Explained, Pending, Direct
      <4>3. corr[k[1]] \in CorrelationRule /\ Window(k) \in Windows
        BY <3>1, WindowType DEF IInv
      <4>4. SameWindows(corr[k[1]], R[k[1]])
        BY <1>3, <2>1, <3>1
      <4> QED
        BY <2>2, <4>1, <4>2, <4>3, <4>4, ExplainsReload
    <3>2. CASE k[1] \notin Loaded
      <4>1. arrived[k] = <<>> /\ k \notin DOMAIN state
        BY <3>2 DEF Faithful, IInv, Kept
      <4>2. Window(k)' = NewWindow(Variant(R[k[1]].type))
        BY <1>1, <4>1 DEF Window
      <4>3. NewWindow(Variant(R[k[1]].type)) \in Windows
            /\ IsEmpty(NewWindow(Variant(R[k[1]].type)))
        <5>1. Variant(R[k[1]].type) \in Variants
          BY <2>2 DEF CorrelationRule, Variant, Variants, Temporal
        <5> QED
          BY <5>1, NewWindowType DEF Variants
      <4>4. <<>> \in Seq(Arrival)
        OBVIOUS
      <4> QED
        BY <1>1, <2>2, <4>1, <4>2, <4>3, <4>4, ExplainsEmpty
    <3> QED
      BY <3>1, <3>2
  <2>4. Pending(k)' = <<>>
    BY <1>1 DEF Pending, Direct
  <2>5. Explained(k)' <=> Explains(corr'[k[1]], Window(k)', now', arrived'[k], Pending(k)')
    BY DEF Explained
  <2> QED
    BY <1>1, <2>1, <2>3, <2>4, <2>5
<1> QED
  BY <1>4, <1>5, <1>6 DEF Faithful

(* An update leaves the rest of its round due. *)
LEMMA PendingStep ==
  ASSUME IInv, work # <<>>, UNCHANGED <<corr, event, depth>>, work' = Tail(work)
  PROVE  /\ Brought(Head(work)) \in Arrival /\ Brought(Head(work)).entry.t = now
         /\ \A k : DueFrom(k, Tail(work)) \in Seq(Arrival)
         /\ \A k : Pending(k)' = IF Direct THEN <<>> ELSE DueFrom(k, Tail(work))
         /\ \A k : ~Direct => Pending(k) =
              IF Head(work).key = k /\ CountsFirings(k[1])
                THEN <<Brought(Head(work))>> \o DueFrom(k, Tail(work))
                ELSE DueFrom(k, Tail(work))
<1> DEFINE u == Head(work)
<1>1. /\ event # None /\ u \in Updates /\ Due(u, event) /\ event.t = now
      /\ work \in Seq(Updates) /\ Tail(work) \in Seq(Updates)
      /\ \A i \in 1..Len(work) : Due(work[i], event)
      /\ \A i \in 1..Len(Tail(work)) : Due(Tail(work)[i], event)
  BY HeadOfWork DEF IInv, CallOK, TypeOK
<1>2. Brought(u) \in Arrival /\ Brought(u).entry.t = now
  <2>1. Slot(u) \in Slots /\ Entry(u) \in Entries /\ Entry(u).t = event.t
    BY <1>1, UpdateType DEF IInv
  <2> HIDE DEF u
  <2> QED
    BY <1>1, <2>1 DEF Brought, Arrival
<1>3. \A k : DueFrom(k, work) \in Seq(Arrival) /\ DueFrom(k, Tail(work)) \in Seq(Arrival)
  BY <1>1, DueFromType, SameArrivals DEF IInv
<1>4. \A k : Pending(k)' = IF Direct THEN <<>> ELSE DueFrom(k, Tail(work))
  BY SameDue DEF Direct
<1>5. ASSUME NEW k
      PROVE  DueFrom(k, work) = IF u.key = k /\ CountsFirings(k[1])
                                  THEN <<Brought(u)>> \o DueFrom(k, Tail(work))
                                  ELSE DueFrom(k, Tail(work))
  BY <1>1, <1>2, <1>3, DueFromFirst
<1>6. \A k : ~Direct => Pending(k) =
        IF u.key = k /\ CountsFirings(k[1])
          THEN <<Brought(u)>> \o DueFrom(k, Tail(work))
          ELSE DueFrom(k, Tail(work))
  BY <1>5 DEF Pending
<1> QED
  BY <1>2, <1>3, <1>4, <1>6

(* The windows an update is not for are as far behind as before. *)
LEMMA OthersPending ==
  ASSUME IInv, work # <<>>, UNCHANGED <<corr, event, depth>>, work' = Tail(work)
  PROVE  \A k : k # Head(work).key => Pending(k)' = Pending(k)
<1>1. ASSUME NEW k, k # Head(work).key PROVE Pending(k)' = Pending(k)
  <2>1. CASE Direct
    BY <2>1, PendingStep DEF Pending
  <2>2. CASE ~Direct
    BY <1>1, <2>2, PendingStep
  <2> QED
    BY <2>1, <2>2
<1> QED
  BY <1>1

(* An event that is not older than the last is never a straggler. *)
LEMMA NeverLate ==
  ASSUME WindowsKept, IInv, Faithful, ordered, NEW k \in Keys, k[1] \in Loaded
  PROVE  ~Late(Window(k), corr[k[1]], now)
<1>1. /\ corr[k[1]] \in CorrelationRule /\ CapOK(corr[k[1]]) /\ Window(k) \in Windows
      /\ now \in 0..MaxTime
  BY RuleKept, WindowType DEF IInv, TypeOK
<1>2. PICK P : Regular(P, now) /\ Exact(corr[k[1]], Opened(Window(k), corr[k[1]], now), P, now)
  BY DEF Faithful, Explained, Explains
<1> QED
  BY <1>1, <1>2, ExactNotLate

LEMMA DiscardFaithful ==
  ASSUME WindowsKept, IInv, Faithful, Discard
  PROVE  Faithful'
<1> DEFINE k == Head(work).key
<1>1. /\ work # <<>> /\ state' = With(k, Window(k)) /\ Late(Window(k), corr[k[1]], event.t)
      /\ UNCHANGED <<corr, event, arrived, now, ordered>>
  BY DEF Discard, history
<1>2. /\ k \in Keys /\ k[1] \in Loaded /\ event.t = now
  BY <1>1, HeadOfWork DEF IInv, Due, KeyFor, CallOK
<1> HIDE DEF k
<1>3. ~ordered
  BY <1>1, <1>2, NeverLate
<1>4. Window(k).variant = Variant(corr[k[1]].type)
  BY DEF Faithful, Window, NewWindow
<1>5. \A j \in DOMAIN state' : state'[j].variant = Variant(corr'[j[1]].type)
  BY <1>1, <1>4 DEF Faithful, With
<1>6. Loaded' = Loaded
  BY <1>1 DEF Loaded
<1> QED
  BY <1>1, <1>3, <1>5, <1>6 DEF Faithful

(* What an update adds of a round is what it brings. *)
LEMMA AddsFiring ==
  ASSUME IInv, Faithful, event # None, NEW u \in Updates, Due(u, event), ~Direct
  PROVE  Adds(u) <=> CountsFirings(u.key[1])
<1> DEFINE c == corr[u.key[1]]
<1>1. c \in CorrelationRule
  BY UpdateType DEF IInv
<1>2. Window(u.key).variant = Variant(c.type)
  BY DEF Faithful, Window, NewWindow
<1>3. Adds(u) <=> Window(u.key).variant = IF c.type \in Temporal THEN Variant(c.type) ELSE "event_count"
  BY DEF Adds, Variant, Temporal
<1>4. CountsFirings(u.key[1]) <=> c.type \in {"event_count"} \cup Temporal
  BY DEF CountsFirings
<1> HIDE DEF c
<1>5. CASE c.type \in Temporal
  BY <1>2, <1>3, <1>4, <1>5
<1>6. CASE c.type \notin Temporal
  <2>1. Variant(c.type) = c.type
    BY <1>6 DEF Variant
  <2> QED
    BY <1>2, <1>3, <1>4, <1>6, <2>1
<1> QED
  BY <1>5, <1>6

LEMMA CountFaithful ==
  ASSUME WindowsKept, IInv, Faithful, Count
  PROVE  Faithful'
<1> DEFINE u == Head(work)
<1>0. PICK k \in Keys : k = u.key
  BY HeadOfWork DEF IInv, Count, Due, KeyFor
<1> DEFINE c == corr[k[1]]
           opened == Opened(Window(k), c, now)
           a == Brought(u)
           D == DueFrom(k, Tail(work))
<1>1. /\ event # None /\ event.t = now /\ u \in Updates /\ Due(u, event) /\ work # <<>>
      /\ UNCHANGED <<corr, event, depth, now, ordered>> /\ work' = Tail(work)
  BY HeadOfWork DEF IInv, Count, CallOK
<1>2. PICK resets \in BOOLEAN :
        /\ state' = With(k, IF resets THEN Clear(Updated(u)) ELSE Updated(u))
        /\ arrived' = [arrived EXCEPT ![k] =
             IF resets THEN StillDue(k)
             ELSE IF Direct /\ Adds(u)
               THEN Append(arrived[k], [slot |-> Slot(u), entry |-> Entry(u)])
             ELSE arrived[k]]
  <2> DEFINE r == (Satisfied(c, Updated(u)) /\ ~Suppressed(k)) /\ c.reset
  <2>1. /\ state' = With(k, IF r THEN Clear(Updated(u)) ELSE Updated(u))
        /\ arrived' = [arrived EXCEPT ![k] =
             IF r THEN StillDue(k)
             ELSE IF Direct /\ Adds(u)
               THEN Append(arrived[k], [slot |-> Slot(u), entry |-> Entry(u)])
             ELSE arrived[k]]
    BY <1>0 DEF Count
  <2> HIDE DEF r
  <2>2. CASE r
    BY <2>1, <2>2
  <2>3. CASE ~r
    BY <2>1, <2>3
  <2> QED
    BY <2>2, <2>3
<1>3. /\ a \in Arrival /\ a.entry.t = now /\ D \in Seq(Arrival)
      /\ \A j : j # k => Pending(j)' = Pending(j)
      /\ Pending(k)' = IF Direct THEN <<>> ELSE D
      /\ ~Direct => Pending(k) = IF CountsFirings(k[1]) THEN <<a>> \o D ELSE D
      /\ Direct => Pending(k) = <<>>
  <2>1. \A j : j # k => Pending(j)' = Pending(j)
    BY <1>0, <1>1, OthersPending
  <2>2. Direct => Pending(k) = <<>>
    BY DEF Pending
  <2> QED
    BY <1>0, <1>1, <2>1, <2>2, PendingStep
<1>4. StillDue(k) = IF Direct THEN <<>> ELSE D
  BY DEF StillDue
<1>5. Updated(u) = Truncate(IF Adds(u) THEN Push(opened, a.slot, a.entry) ELSE opened, c)
  BY <1>0, <1>1 DEF Updated, Brought
<1>6. a = [slot |-> Slot(u), entry |-> Entry(u)]
  BY DEF Brought
<1>7. /\ c \in CorrelationRule /\ CapOK(c) /\ k[1] \in Loaded /\ now \in 0..MaxTime
      /\ Window(k) \in Windows /\ opened \in Windows /\ Updated(u) \in Windows
      /\ Clear(Updated(u)) \in Windows /\ IsEmpty(Clear(Updated(u)))
      /\ arrived \in [Keys -> Arrivals]
  <2>1. k[1] \in Loaded /\ now \in 0..MaxTime /\ arrived \in [Keys -> Arrivals]
    BY <1>0, <1>1, UpdateType DEF IInv, TypeOK, Arrivals
  <2>2. c \in CorrelationRule /\ CapOK(c)
    BY <2>1, RuleKept DEF IInv, TypeOK
  <2>3. Window(k) \in Windows /\ opened \in Windows /\ Updated(u) \in Windows
    BY <1>0, <1>1, <2>1, UpdatedType, WindowType DEF IInv
  <2>4. Clear(Updated(u)) \in Windows /\ IsEmpty(Clear(Updated(u)))
    BY <2>3, ClearType
  <2> QED
    BY <2>1, <2>2, <2>3, <2>4
<1>8. ~Direct => (Adds(u) <=> CountsFirings(k[1]))
  BY <1>0, <1>1, AddsFiring
<1>9. Window(k).variant = Variant(c.type)
  BY DEF Faithful, Window, NewWindow
<1>10. Updated(u).variant = Variant(c.type) /\ Clear(Updated(u)).variant = Variant(c.type)
  <2> HIDE DEF u, c
  <2>1. opened.variant = Variant(c.type)
    BY <1>7, <1>9, VariantKept
  <2>2. Push(opened, a.slot, a.entry) \in Windows
    <3>1. a.slot \in Slots /\ a.entry \in Entries
      BY <1>3 DEF Arrival
    <3> QED
      BY <1>7, <3>1, PushType
  <2> HIDE DEF opened, a
  <2>3. Push(opened, a.slot, a.entry).variant = Variant(c.type)
    BY <1>7, <2>1, VariantKept
  <2>4. Updated(u).variant = Variant(c.type)
    BY <1>5, <1>7, <2>1, <2>2, <2>3, VariantKept
  <2> QED
    BY <1>7, <2>4, VariantKept
<1>11. /\ Window(k)' = IF resets THEN Clear(Updated(u)) ELSE Updated(u)
       /\ \A j : j # k => Window(j)' = Window(j)
  <2> DEFINE stored == IF resets THEN Clear(Updated(u)) ELSE Updated(u)
  <2>1. state' = With(k, stored)
    BY <1>2
  <2> HIDE DEF stored
  <2>2. Window(k)' = stored
    BY <2>1 DEF Window, With
  <2>3. ASSUME NEW j, j # k PROVE Window(j)' = Window(j)
    BY <1>1, <2>1, <2>3 DEF Window, With
  <2> QED
    BY <2>2, <2>3 DEF stored
<1>12. /\ arrived'[k] = IF resets THEN IF Direct THEN <<>> ELSE D
                        ELSE IF Direct /\ Adds(u) THEN Append(arrived[k], a) ELSE arrived[k]
       /\ \A j \in Keys : j # k => arrived'[j] = arrived[j]
  <2> HIDE DEF u, a, D, c, opened
  <2> QED
    BY <1>2, <1>4, <1>6, <1>7
<1>13. \A j \in DOMAIN state' : state'[j].variant = Variant(corr'[j[1]].type)
  BY <1>1, <1>2, <1>10 DEF Faithful, With
<1>14. Loaded' = Loaded
  BY <1>1 DEF Loaded
<1>15. \A j \in Keys : j[1] \notin Loaded => arrived'[j] = <<>>
  BY <1>7, <1>12 DEF Faithful
(* The window the update is for. *)
<1>16. ASSUME ordered PROVE Explains(c, Window(k)', now, arrived'[k], Pending(k)')
  <2>0. <<>> \in Seq(Arrival)
    OBVIOUS
  <2>1. Explains(c, Window(k), now, arrived[k], Pending(k))
    BY <1>7, <1>16 DEF Faithful, Explained
  <2> HIDE DEF u, a, D, c
  <2>2. CASE resets
    <3>1. \A E \in Seq(Arrival) : Explains(c, Clear(Updated(u)), now, E, E)
      BY <1>7, ExplainsEmpty
    <3>2. Window(k)' = Clear(Updated(u)) /\ arrived'[k] = IF Direct THEN <<>> ELSE D
      BY <1>11, <1>12, <2>2
    <3> QED
      BY <1>3, <2>0, <3>1, <3>2
  <2>3. CASE ~resets /\ Adds(u)
    <3>1. Window(k)' = Truncate(Push(opened, a.slot, a.entry), c)
      BY <1>5, <1>11, <2>3
    <3>2. /\ Explains(c, Window(k), now, arrived[k], <<a>> \o D)
               => Explains(c, Window(k)', now, arrived[k], D)
          /\ Explains(c, Window(k), now, arrived[k], <<>>)
               => Explains(c, Window(k)', now, Append(arrived[k], a), <<>>)
      BY <1>3, <1>7, <3>1, ExplainsPush
    <3>3. CASE Direct
      <4>1. /\ arrived'[k] = Append(arrived[k], a) /\ Pending(k)' = <<>> /\ Pending(k) = <<>>
        BY <1>3, <1>12, <2>3, <3>3
      <4> QED
        BY <2>1, <3>2, <4>1
    <3>4. CASE ~Direct
      <4>1. arrived'[k] = arrived[k] /\ Pending(k)' = D /\ Pending(k) = <<a>> \o D
        BY <1>3, <1>8, <1>12, <2>3, <3>4
      <4> QED
        BY <2>1, <3>2, <4>1
    <3> QED
      BY <3>3, <3>4
  <2>4. CASE ~resets /\ ~Adds(u)
    <3>1. Window(k)' = Truncate(opened, c)
      BY <1>5, <1>11, <2>4
    <3>2. arrived'[k] = arrived[k] /\ Pending(k)' = Pending(k)
      BY <1>3, <1>8, <1>12, <2>4
    <3>3. Explains(c, Truncate(opened, c), now, arrived[k], Pending(k))
      BY <1>7, <2>1, ExplainsTruncate
    <3> QED
      BY <3>1, <3>2, <3>3
  <2> QED
    BY <2>2, <2>3, <2>4
<1>17. ASSUME ordered', NEW j \in Keys, j[1] \in Loaded PROVE Explained(j)'
  <2>1. ordered
    BY <1>1, <1>17
  <2>2. Explained(j)' <=> Explains(corr'[j[1]], Window(j)', now', arrived'[j], Pending(j)')
    BY DEF Explained
  <2>3. CASE j = k
    BY <1>1, <1>16, <2>1, <2>2, <2>3
  <2>4. CASE j # k
    <3>1. Explains(corr[j[1]], Window(j), now, arrived[j], Pending(j))
      BY <1>17, <2>1 DEF Faithful, Explained
    <3>2. /\ Window(j)' = Window(j) /\ arrived'[j] = arrived[j] /\ Pending(j)' = Pending(j)
      BY <1>3, <1>11, <1>12, <2>4
    <3> QED
      BY <1>1, <2>2, <3>1, <3>2
  <2> QED
    BY <2>3, <2>4
<1> QED
  BY <1>13, <1>14, <1>15, <1>17 DEF Faithful

LEMMA FaithfulStep ==
  ASSUME WindowsKept
  PROVE  IInv /\ Faithful /\ [Next]_vars => Faithful'
<1> SUFFICES ASSUME IInv, Faithful, [Next]_vars PROVE Faithful'
  OBVIOUS
<1>1. CASE \E e \in Events, t \in 0..MaxTime : Receive(e, t)
  BY <1>1, ReceiveFaithful
<1>2. CASE Discard
  BY <1>2, DiscardFaithful
<1>3. CASE Count
  BY <1>3, CountFaithful
<1>4. CASE Chain
  BY <1>4, ChainFaithful
<1>5. CASE Return
  BY <1>5, ReturnFaithful
<1>6. CASE \E R \in RuleSets : Reload(R)
  BY <1>6, ReloadFaithful
<1>7. CASE UNCHANGED vars
  <2>1. UNCHANGED <<corr, state, event, work, depth, arrived, now, ordered>>
    BY <1>7 DEF vars, engine, call, history
  <2>2. \A k : Pending(k)' = Pending(k)
    BY <2>1, SameDue DEF Pending, Direct
  <2> QED
    BY <2>1, <2>2, SameFaithful
<1> HIDE DEF IInv, Faithful, vars
<1> QED
  BY <1>1, <1>2, <1>3, <1>4, <1>5, <1>6, <1>7 DEF Next

(* Between calls, while events come in order, what an event arriving now    *)
(* would find in a window is what the window's mode says of all that it was *)
(* due since it was loaded, reset or evicted at the limit.  It is about     *)
(* the order in which window.rs evicts, opens, pushes and truncates, about  *)
(* evict_all, and about the rounds of chain_correlations and the windows    *)
(* handed over by a reload.  WindowsKept: a reload leaves alone what a      *)
(* window is read by, and no session keeps one entry only.                  *)
THEOREM WindowsExact == WindowsKept /\ Spec => []WindowIsReference
<1> SUFFICES ASSUME WindowsKept PROVE Spec => []WindowIsReference
  OBVIOUS
<1>1. Init => IInv /\ Faithful
  BY InitType, InitFaithful
<1>2. (IInv /\ Faithful) /\ [Next]_vars => (IInv /\ Faithful)'
  BY TypeStep, FaithfulStep
<1>3. IInv /\ Faithful => WindowIsReference
  <2> SUFFICES ASSUME IInv, Faithful, Idle, ordered, NEW k \in Keys, NEW slot \in Slots,
                      k[1] \in Loaded
               PROVE  Opened(Window(k), corr[k[1]], now).hits[slot]
                        = Reference(corr[k[1]], arrived[k], now, slot)
    BY DEF WindowIsReference
  <2>1. Pending(k) = <<>>
    BY DEF Pending, Direct, Idle, IInv, CallOK
  <2>2. PICK P : /\ arrived[k] = P \o <<>> /\ Regular(P, now)
                 /\ Exact(corr[k[1]], Opened(Window(k), corr[k[1]], now), P, now)
    BY <2>1 DEF Faithful, Explained, Explains
  <2>3. arrived[k] = P
    BY <2>2 DEF Regular
  <2> QED
    BY <2>2, <2>3 DEF Exact
<1> QED
  BY <1>1, <1>2, <1>3, PTL DEF Spec
==============================================================================
