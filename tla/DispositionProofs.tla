-------------------------- MODULE DispositionProofs --------------------------
(***************************************************************************)
(* Proofs about Dispositions, for every set of rules and records, every    *)
(* content of the two sources, window, bucket width and limits, and any    *)
(* number of saves and crashes.                                            *)
(*                                                                         *)
(* TypeOK is inductive.  On it rests Sound: the store, and what was saved  *)
(* of it, remember the key of every verdict that is still in the window,   *)
(* and count the verdicts of each bucket that is wholly inside it.         *)
(***************************************************************************)
EXTENDS Dispositions, FiniteSetTheorems, SequenceTheorems, WellFoundedInduction, TLAPS

-----------------------------------------------------------------------------
(* Time. *)

LEMMA Constants ==
  /\ Window \in Nat /\ Window > 0 /\ Bucket \in Nat /\ Bucket > 0
  /\ MaxSeen \in Nat /\ MaxSeen > 0 /\ MaxCount \in Nat /\ MaxCount > 0
  /\ MaxTime \in Nat /\ MaxSaves \in Nat /\ MaxRestarts \in Nat
BY ConstantsAssumption

LEMMA BucketsRise ==
  ASSUME NEW x \in Int, NEW y \in Int, x <= y
  PROVE  BucketOf(x) \in Int /\ BucketOf(y) \in Int /\ BucketOf(x) <= BucketOf(y)
<1> DEFINE p == x \div Bucket
           q == y \div Bucket
<1>1. Bucket \in Nat /\ Bucket > 0
  BY Constants
<1>2. /\ p \in Int /\ Bucket * p <= x
      /\ q \in Int /\ y < Bucket * (q + 1)
  <2>1. x = Bucket * (x \div Bucket) + (x % Bucket) /\ x % Bucket \in 0..Bucket - 1
    BY <1>1
  <2>2. y = Bucket * (y \div Bucket) + (y % Bucket) /\ y % Bucket \in 0..Bucket - 1
    BY <1>1
  <2>3. p \in Int /\ q \in Int
    BY <1>1
  <2> QED
    BY <1>1, <2>1, <2>2, <2>3
<1> HIDE DEF p, q
<1>3. p >= q + 1 => Bucket * p >= Bucket * (q + 1)
  BY <1>1, <1>2
<1>4. p <= q
  <2> SUFFICES ASSUME p >= q + 1 PROVE FALSE
    BY <1>2
  <2>1. Bucket * p \in Int /\ Bucket * (q + 1) \in Int
    BY <1>1, <1>2
  <2> QED
    BY <1>2, <1>3, <2>1
<1> QED
  BY <1>2, <1>4 DEF p, q, BucketOf

(* What lies in a bucket behind the one where the window begins is fresh,   *)
(* and the window only moves on.                                            *)
LEMMA WindowMoves ==
  ASSUME NEW at \in Int, NEW after \in Int, at <= after
  PROVE  /\ Cutoff(at) \in Int /\ Cutoff(after) \in Int /\ Cutoff(at) <= Cutoff(after)
         /\ \A ts \in Int : ~Stale(ts, after) => ~Stale(ts, at)
         /\ \A ts \in Int : BucketOf(ts) > Cutoff(after) => ~Stale(ts, after)
<1>1. at - Window \in Int /\ after - Window \in Int /\ at - Window <= after - Window
  BY Constants
<1>2. Cutoff(at) \in Int /\ Cutoff(after) \in Int /\ Cutoff(at) <= Cutoff(after)
  BY <1>1, BucketsRise DEF Cutoff
<1>3. \A ts \in Int : ~Stale(ts, after) => ~Stale(ts, at)
  BY <1>1 DEF Stale
<1>4. ASSUME NEW ts \in Int, BucketOf(ts) > Cutoff(after), Stale(ts, after) PROVE FALSE
  <2>1. ts <= after - Window
    BY <1>1, <1>4 DEF Stale
  <2>2. BucketOf(ts) \in Int /\ BucketOf(ts) <= Cutoff(after)
    BY <1>1, <2>1, BucketsRise DEF Cutoff
  <2> QED
    BY <1>2, <1>4, <2>2
<1> QED
  BY <1>2, <1>3, <1>4

-----------------------------------------------------------------------------
(* The queue of keys seen. *)

LEMMA LeastNatural ==
  ASSUME NEW I \in SUBSET Nat, I # {}
  PROVE  \E i \in I : \A j \in I : i <= j
<1> DEFINE R == {ss \in Nat \X Nat : ss[1] < ss[2]}
<1>1. IsWellFoundedOn(R, Nat)
  BY NatLessThanWellFounded DEF OpToRel
<1>2. PICK i \in I : \A j \in I : ~(<<j, i>> \in R)
  <2> HIDE DEF R
  <2> QED
    BY <1>1, WFMin
<1>3. \A j \in I : ~(j < i)
  BY <1>2
<1> QED
  BY <1>3

LEMMA PoppedType ==
  ASSUME NEW S, NEW queue \in Seq(S), NEW at
  PROVE  /\ Popped(queue, at) \in 0..Len(queue)
         /\ Len(queue) - Popped(queue, at) <= MaxSeen
         /\ \A n \in 0..Popped(queue, at) - 1 :
              Stale(queue[n + 1].ts, at) \/ Len(queue) - n > MaxSeen
<1> DEFINE Stop == {n \in 0..Len(queue) :
                      \/ n = Len(queue)
                      \/ ~Stale(queue[n + 1].ts, at) /\ Len(queue) - n <= MaxSeen}
<1>1. Len(queue) \in Nat /\ Len(queue) \in Stop /\ Stop \in SUBSET Nat
  OBVIOUS
<1>2. \E n \in Stop : \A m \in Stop : n <= m
  <2> HIDE DEF Stop
  <2> QED
    BY <1>1, LeastNatural
<1>3. Popped(queue, at) \in Stop /\ \A m \in Stop : Popped(queue, at) <= m
  <2>1. Popped(queue, at) = CHOOSE n \in Stop : \A m \in Stop : n <= m
    BY DEF Popped, Min
  <2> HIDE DEF Stop
  <2> QED
    BY <1>2, <2>1
<1> DEFINE p == Popped(queue, at)
<1>4. p \in 0..Len(queue) /\ (p = Len(queue) \/ Len(queue) - p <= MaxSeen)
  BY <1>3
<1>5. ASSUME NEW n \in 0..p - 1
      PROVE  Stale(queue[n + 1].ts, at) \/ Len(queue) - n > MaxSeen
  <2>1. n \in 0..Len(queue) /\ n # Len(queue) /\ n < p /\ Len(queue) - n \in Int
    BY <1>1, <1>4
  <2>2. n \notin Stop
    <3> HIDE DEF Stop, p
    <3> QED
      BY <1>3, <1>4, <2>1 DEF p
  <2> QED
    BY <2>1, <2>2, Constants
<1> QED
  BY <1>1, <1>4, <1>5, Constants

(* Pruning leaves a queue of entries within max_seen_ids; while the queue   *)
(* is within it, what is fresh stays.                                       *)
LEMMA PruneSeenKeeps ==
  ASSUME NEW S, NEW queue \in Seq(S), NEW at
  PROVE  /\ PruneSeen(queue, at) \in Seq(S)
         /\ Len(PruneSeen(queue, at)) <= MaxSeen
         /\ Len(queue) <= MaxSeen =>
              \A i \in DOMAIN queue : ~Stale(queue[i].ts, at) =>
                \E j \in DOMAIN PruneSeen(queue, at) : PruneSeen(queue, at)[j] = queue[i]
<1> DEFINE p == Popped(queue, at)
           t == PruneSeen(queue, at)
<1>1. /\ p \in 0..Len(queue) /\ Len(queue) - p <= MaxSeen
      /\ \A n \in 0..p - 1 : Stale(queue[n + 1].ts, at) \/ Len(queue) - n > MaxSeen
  BY PoppedType
<1>2. t = SubSeq(queue, p + 1, Len(queue)) /\ Len(queue) \in Nat /\ DOMAIN queue = 1..Len(queue)
  BY DEF PruneSeen
<1> HIDE DEF p, t
<1>3. /\ t \in Seq(S) /\ Len(t) = Len(queue) - p /\ DOMAIN t = 1..Len(t)
      /\ \A j \in 1..Len(t) : t[j] = queue[p + j]
  <2>1. p + 1 \in Int /\ p \in 0..Len(queue) /\ \A i \in p + 1..Len(queue) : queue[i] \in S
    BY <1>1, <1>2
  <2>2. /\ t \in Seq(S)
        /\ Len(t) = IF p + 1 <= Len(queue) THEN Len(queue) - (p + 1) + 1 ELSE 0
        /\ \A j \in 1..Len(queue) - (p + 1) + 1 : t[j] = queue[p + 1 + j - 1]
    BY <1>2, <2>1, SubSeqProperties
  <2>3. p \in Int /\ Len(queue) \in Int /\ 0 <= p /\ p <= Len(queue)
    BY <1>2, <2>1
  <2>4. Len(t) = Len(queue) - p
    BY <2>2, <2>3
  <2>5. DOMAIN t = 1..Len(t)
    BY <2>2
  <2>6. \A j \in 1..Len(t) : t[j] = queue[p + j]
    <3>1. SUFFICES ASSUME NEW j \in 1..Len(t) PROVE t[j] = queue[p + j]
      OBVIOUS
    <3>2. j \in 1..Len(queue) - (p + 1) + 1 /\ p + 1 + j - 1 = p + j
      BY <2>3, <2>4
    <3> QED
      BY <2>2, <3>2
  <2> QED
    BY <2>2, <2>4, <2>5, <2>6
<1>4. ASSUME Len(queue) <= MaxSeen, NEW i \in DOMAIN queue, ~Stale(queue[i].ts, at)
      PROVE  \E j \in DOMAIN t : t[j] = queue[i]
  <2>1. i \in 1..Len(queue)
    BY <1>2
  <2>2. i > p
    <3> SUFFICES ASSUME i <= p PROVE FALSE
      BY <1>1, <2>1
    <3>1. i - 1 \in 0..p - 1 /\ (i - 1) + 1 = i
      BY <1>1, <2>1
    <3>2. Len(queue) - (i - 1) > MaxSeen
      BY <1>1, <1>4, <3>1
    <3> QED
      BY <1>2, <1>4, <2>1, <3>2, Constants
  <2>3. i - p \in 1..Len(t) /\ p + (i - p) = i
    <3>1. p \in Nat /\ Len(t) = Len(queue) - p
      BY <1>1, <1>3
    <3>2. i \in Int /\ i > p /\ i <= Len(queue) /\ Len(queue) \in Nat
      BY <1>2, <2>1, <2>2
    <3> QED
      BY <3>1, <3>2
  <2>4. t[i - p] = queue[p + (i - p)] /\ i - p \in DOMAIN t
    BY <1>3, <2>3
  <2> QED
    BY <2>3, <2>4
<1> QED
  BY <1>1, <1>3, <1>4 DEF t

LEMMA FreshStays ==
  ASSUME NEW S, NEW queue \in Seq(S), NEW at, Len(queue) <= MaxSeen,
         NEW i \in DOMAIN queue, ~Stale(queue[i].ts, at)
  PROVE  \E j \in DOMAIN PruneSeen(queue, at) : PruneSeen(queue, at)[j] = queue[i]
<1>1. Len(queue) <= MaxSeen =>
        \A k \in DOMAIN queue : ~Stale(queue[k].ts, at) =>
          \E j \in DOMAIN PruneSeen(queue, at) : PruneSeen(queue, at)[j] = queue[k]
  BY PruneSeenKeeps
<1> QED
  BY <1>1

(* A selection has what was selected and no more. *)
LEMMA AtKeeps ==
  ASSUME NEW S, NEW s \in Seq(S), NEW I \in SUBSET (1..Len(s)), NEW t \in At(s, I)
  PROVE  /\ t \in Seq(S) /\ Len(t) <= Len(s)
         /\ \A i \in I : \E j \in DOMAIN t : t[j] = s[i]
         /\ \A j \in DOMAIN t : \E i \in I : t[j] = s[i]
<1>1. PICK f \in Surjection(1..Cardinality(I), I) : t = [n \in DOMAIN f |-> s[f[n]]]
  BY DEF At
<1>2. Len(s) \in Nat /\ \A i \in 1..Len(s) : s[i] \in S
  OBVIOUS
<1>3. Cardinality(I) \in Nat /\ Cardinality(I) <= Len(s)
  <2>1. IsFiniteSet(1..Len(s)) /\ Cardinality(1..Len(s)) = Len(s)
    BY <1>2, FS_Interval
  <2> QED
    BY <1>2, <2>1, FS_Subset, FS_CardinalityType
<1>4. f \in [1..Cardinality(I) -> I] /\ \A i \in I : \E n \in 1..Cardinality(I) : f[n] = i
  BY DEF Surjection
<1>5. /\ t \in [1..Cardinality(I) -> S]
      /\ \A n \in 1..Cardinality(I) : t[n] = s[f[n]]
  BY <1>1, <1>2, <1>4
<1>6. t \in Seq(S) /\ Len(t) = Cardinality(I) /\ DOMAIN t = 1..Cardinality(I)
  BY <1>3, <1>5
<1>7. \A i \in I : \E j \in DOMAIN t : t[j] = s[i]
  BY <1>4, <1>5, <1>6
<1>8. \A j \in DOMAIN t : \E i \in I : t[j] = s[i]
  BY <1>4, <1>5, <1>6
<1> QED
  BY <1>3, <1>6, <1>7, <1>8

-----------------------------------------------------------------------------
(* The counts. *)

Tallied(bs, r, v, b) == IF b \in DOMAIN Counts(r, bs) THEN Counts(r, bs)[b][v] ELSE 0

(* The buckets after one more verdict. *)
Added(bs, d, at) ==
  [q \in DOMAIN bs \cup {d.rule} |->
     IF q = d.rule THEN Counted(Counts(q, bs), d, at) ELSE bs[q]]

LEMMA CountsType ==
  ASSUME NEW bs, IsBuckets(bs), NEW r
  PROVE  /\ DOMAIN Counts(r, bs) \subseteq Int
         /\ \A b \in DOMAIN Counts(r, bs) : Counts(r, bs)[b] \in [Verdict -> 0..MaxCount]
         /\ \A v \in Verdict, b \in Int : Tallied(bs, r, v, b) \in 0..MaxCount
<1>1. CASE r \in DOMAIN bs
  BY <1>1, Constants DEF Counts, IsBuckets, Tallied
<1>2. CASE r \notin DOMAIN bs
  <2>1. Counts(r, bs) = <<>> /\ DOMAIN Counts(r, bs) = {}
    BY <1>2 DEF Counts
  <2> QED
    BY <2>1, Constants DEF Tallied
<1> QED
  BY <1>1, <1>2

LEMMA PrunedKeeps ==
  ASSUME NEW bs, IsBuckets(bs), NEW at \in Int
  PROVE  /\ IsBuckets(Pruned(bs, at))
         /\ \A r \in Rules, v \in Verdict, b \in Int :
              b >= Cutoff(at) => Tallied(Pruned(bs, at), r, v, b) = Tallied(bs, r, v, b)
<1> DEFINE new == Pruned(bs, at)
           left == {q \in DOMAIN bs : \E b \in DOMAIN bs[q] : b >= Cutoff(at)}
<1>1. DOMAIN new = left /\ left \subseteq DOMAIN bs /\ DOMAIN bs \subseteq Rules
  BY DEF Pruned, IsBuckets
<1>2. \A r \in left : new[r] = [b \in {k \in DOMAIN bs[r] : k >= Cutoff(at)} |-> bs[r][b]]
  BY DEF Pruned, Retained
<1>3. IsBuckets(new)
  <2>1. ASSUME NEW r \in left
        PROVE  /\ DOMAIN new[r] \subseteq Int
               /\ \A b \in DOMAIN new[r] : new[r][b] \in [Verdict -> 0..MaxCount]
    <3>1. /\ DOMAIN bs[r] \subseteq Int
          /\ \A b \in DOMAIN bs[r] : bs[r][b] \in [Verdict -> 0..MaxCount]
      BY DEF IsBuckets
    <3>2. /\ DOMAIN new[r] \subseteq DOMAIN bs[r]
          /\ \A b \in DOMAIN new[r] : new[r][b] = bs[r][b]
      <4> HIDE DEF new, left
      <4> QED
        BY <1>2, <2>1
    <3> HIDE DEF new, left
    <3> QED
      BY <3>1, <3>2
  <2> HIDE DEF new, left
  <2> QED
    BY <1>1, <2>1 DEF IsBuckets
<1>4. ASSUME NEW r \in Rules, NEW v \in Verdict, NEW b \in Int, b >= Cutoff(at)
      PROVE  Tallied(new, r, v, b) = Tallied(bs, r, v, b)
  <2>1. CASE r \in left
    <3>1. Counts(r, new) = new[r] /\ Counts(r, bs) = bs[r]
      BY <1>1, <2>1 DEF Counts
    <3>2. b \in DOMAIN new[r] <=> b \in DOMAIN bs[r]
      BY <1>2, <1>4, <2>1
    <3>3. b \in DOMAIN new[r] => new[r][b] = bs[r][b]
      BY <1>2, <2>1
    <3> HIDE DEF new
    <3> QED
      BY <3>1, <3>2, <3>3 DEF Tallied
  <2>2. CASE r \notin left
    <3>1. Counts(r, new) = <<>>
      BY <1>1, <2>2 DEF Counts
    <3>2. b \notin DOMAIN Counts(r, bs)
      <4>1. CASE r \in DOMAIN bs
        BY <1>4, <2>2, <4>1 DEF Counts
      <4>2. CASE r \notin DOMAIN bs
        BY <4>2 DEF Counts
      <4> QED
        BY <4>1, <4>2
    <3>3. b \notin DOMAIN Counts(r, new)
      BY <3>1
    <3> HIDE DEF new
    <3> QED
      BY <3>2, <3>3 DEF Tallied
  <2> QED
    BY <2>1, <2>2
<1> QED
  BY <1>3, <1>4

LEMMA AddedCounts ==
  ASSUME NEW bs, IsBuckets(bs), NEW d \in Disposition, NEW at \in Int
  PROVE  /\ IsBuckets(Added(bs, d, at))
         /\ \A r \in Rules, v \in Verdict, b \in Int : b >= Cutoff(at) =>
              LET old == Tallied(bs, r, v, b)
              IN  Tallied(Added(bs, d, at), r, v, b) =
                    IF r = d.rule /\ v = d.verdict /\ b = BucketOf(d.ts) /\ old < MaxCount
                    THEN old + 1 ELSE old
<1> DEFINE new == Added(bs, d, at)
           old == Counts(d.rule, bs)
           idx == BucketOf(d.ts)
           kept == {k \in DOMAIN old \cup {idx} : k >= Cutoff(at)}
           After(b, v) ==
             LET n == Tallied(bs, d.rule, v, b)
             IN  IF b = idx /\ v = d.verdict /\ n < MaxCount THEN n + 1 ELSE n
<1>1. d.rule \in Rules /\ d.verdict \in Verdict /\ d.ts \in Int /\ idx \in Int
  <2>1. d.ts \in Int
    BY DEF Disposition
  <2> QED
    BY <2>1, BucketsRise DEF Disposition
<1>2. /\ DOMAIN old \subseteq Int
      /\ \A b \in DOMAIN old : old[b] \in [Verdict -> 0..MaxCount]
      /\ \A v \in Verdict, b \in Int : Tallied(bs, d.rule, v, b) \in 0..MaxCount
  BY CountsType
<1>3. /\ DOMAIN new = DOMAIN bs \cup {d.rule} /\ new[d.rule] = Counted(old, d, at)
      /\ \A q \in DOMAIN bs : q # d.rule => new[q] = bs[q]
  BY DEF Added
<1>4. Counted(old, d, at) = [b \in kept |-> [v \in Verdict |-> After(b, v)]]
  BY DEF Counted, Tallied
<1>5. kept \subseteq Int /\ \A b \in kept, v \in Verdict : After(b, v) \in 0..MaxCount
  <2>1. kept \subseteq Int
    BY <1>1, <1>2
  <2>2. ASSUME NEW b \in kept, NEW v \in Verdict PROVE After(b, v) \in 0..MaxCount
    <3>1. Tallied(bs, d.rule, v, b) \in 0..MaxCount
      BY <1>2, <2>1
    <3> QED
      BY <3>1, Constants
  <2> QED
    BY <2>1, <2>2
<1>6. /\ DOMAIN new[d.rule] = kept
      /\ \A b \in kept : new[d.rule][b] = [v \in Verdict |-> After(b, v)]
  BY <1>3, <1>4
<1>7. IsBuckets(new)
  <2>1. DOMAIN new \subseteq Rules
    BY <1>1, <1>3 DEF IsBuckets
  <2>2. ASSUME NEW q \in DOMAIN new, q # d.rule
        PROVE  /\ DOMAIN new[q] \subseteq Int
               /\ \A b \in DOMAIN new[q] : new[q][b] \in [Verdict -> 0..MaxCount]
    BY <1>3, <2>2 DEF IsBuckets
  <2>3. /\ DOMAIN new[d.rule] \subseteq Int
        /\ \A b \in DOMAIN new[d.rule] : new[d.rule][b] \in [Verdict -> 0..MaxCount]
    <3>1. ASSUME NEW b \in kept PROVE [v \in Verdict |-> After(b, v)] \in [Verdict -> 0..MaxCount]
      <4>1. \A v \in Verdict : After(b, v) \in 0..MaxCount
        BY <1>5
      <4> HIDE DEF kept, After
      <4> QED
        BY <4>1
    <3> HIDE DEF new, kept, After
    <3> QED
      BY <1>5, <1>6, <3>1
  <2> HIDE DEF new
  <2> QED
    BY <2>1, <2>2, <2>3 DEF IsBuckets
<1>8. ASSUME NEW r \in Rules, NEW v \in Verdict, NEW b \in Int, b >= Cutoff(at)
      PROVE  Tallied(new, r, v, b) =
               IF r = d.rule /\ v = d.verdict /\ b = idx /\ Tallied(bs, r, v, b) < MaxCount
               THEN Tallied(bs, r, v, b) + 1 ELSE Tallied(bs, r, v, b)
  <2>1. CASE r # d.rule
    <3>1. Counts(r, new) = Counts(r, bs)
      <4> HIDE DEF new
      <4> QED
        BY <1>3, <2>1 DEF Counts
    <3> HIDE DEF new
    <3> QED
      BY <2>1, <3>1 DEF Tallied
  <2>2. CASE r = d.rule
    <3>1. Counts(r, new) = new[d.rule]
      <4> HIDE DEF new
      <4> QED
        BY <1>3, <2>2 DEF Counts
    <3>2. CASE b \in kept
      <4>1. Counts(r, new)[b][v] = After(b, v) /\ b \in DOMAIN Counts(r, new)
        <5>1. Counts(r, new)[b] = [u \in Verdict |-> After(b, u)] /\ b \in DOMAIN Counts(r, new)
          <6> HIDE DEF new, kept, After
          <6> QED
            BY <1>6, <3>1, <3>2
        <5>2. [u \in Verdict |-> After(b, u)][v] = After(b, v)
          OBVIOUS
        <5> HIDE DEF new, After
        <5> QED
          BY <5>1, <5>2
      <4>2. Tallied(new, r, v, b) = After(b, v)
        <5> HIDE DEF new, kept, After
        <5> QED
          BY <4>1 DEF Tallied
      <4> HIDE DEF new, kept, idx
      <4> QED
        BY <2>2, <4>2
    <3>3. CASE b \notin kept
      <4>1. b # idx /\ b \notin DOMAIN old
        BY <1>8, <3>3
      <4>2. Tallied(new, r, v, b) = 0
        <5>1. b \notin DOMAIN Counts(r, new)
          <6> HIDE DEF new, kept
          <6> QED
            BY <1>6, <3>1, <3>3
        <5> HIDE DEF new
        <5> QED
          BY <5>1 DEF Tallied
      <4>3. Tallied(bs, r, v, b) = 0
        BY <2>2, <4>1 DEF Tallied
      <4> HIDE DEF new, idx
      <4> QED
        BY <4>1, <4>2, <4>3
    <3> QED
      BY <3>2, <3>3
  <2> QED
    BY <2>1, <2>2
<1> HIDE DEF new
<1> QED
  BY <1>7, <1>8 DEF new

-----------------------------------------------------------------------------
(* Types. *)

Work == [at : 0..now, todo : Seq(SUBSET Disposition)]
Workers == {"api", "source"}

LEMMA KeyType ==
  ASSUME NEW d \in Disposition
  PROVE  DedupKey(d) \in Key /\ d.ts \in Nat /\ d.rule \in Rules /\ d.verdict \in Verdict
<1>1. d.id \in Ids /\ d.verdict \in Verdict /\ d.rule \in Rules /\ d.ts \in Nat
  BY DEF Disposition
<1>2. <<"id", d.id, d.verdict, d.rule>> \in {"id"} \X Ids \X Verdict \X Rules
  BY <1>1
<1>3. <<"rt", d.rule, d.ts>> \in {"rt"} \X Rules \X Nat
  BY <1>1
<1> QED
  BY <1>1, <1>2, <1>3 DEF DedupKey, Key

LEMMA ExpandType ==
  ASSUME NEW r \in Records, now \in Nat
  PROVE  Expand(r) \subseteq SUBSET Disposition
<1> DEFINE ts == IF r.ts = None THEN now ELSE r.ts
           of(rules) == {[rule |-> q, id |-> r.id, verdict |-> r.verdict, ts |-> ts] : q \in rules}
<1>1. r.verdict \in Verdict /\ ts \in Nat /\ r.id \in Ids /\ r.rule \in Rules \cup {None}
  BY ConstantsAssumption DEF Ids
<1> HIDE DEF ts
<1>2. \A rules \in SUBSET Rules : of(rules) \in SUBSET Disposition
  BY <1>1 DEF Disposition
<1>3. Expand(r) = IF r.rule = None THEN {of(rules) : rules \in SUBSET Rules} ELSE {of({r.rule})}
  BY DEF Expand, ts
<1>4. r.rule # None => {r.rule} \in SUBSET Rules
  BY <1>1
<1> HIDE DEF of
<1> QED
  BY <1>2, <1>3, <1>4

LEMMA BeginType ==
  ASSUME TypeOK, NEW w \in Workers, NEW payload \in Seq(Records), Begin(w, payload)
  PROVE  worker' \in [Workers -> Work]
<1>1. now \in Nat /\ now \in 0..now /\ worker \in [Workers -> Work]
  BY Constants DEF TypeOK, Workers, Work
<1>2. PICK todo \in {t \in [DOMAIN payload -> UNION {Expand(r) : r \in Range(payload)}] :
                       \A i \in DOMAIN payload : t[i] \in Expand(payload[i])} :
        \E rest \in At(todo, {i \in DOMAIN todo : todo[i] # {}}) :
          Set(w, Ingestion(now, rest))
  BY DEF Begin
<1>3. PICK rest \in At(todo, {i \in DOMAIN todo : todo[i] # {}}) : Set(w, Ingestion(now, rest))
  BY <1>2
<1>4. Len(payload) \in Nat /\ DOMAIN payload = 1..Len(payload)
      /\ \A i \in 1..Len(payload) : payload[i] \in Records
  OBVIOUS
<1>5. todo \in Seq(SUBSET Disposition)
  <2>1. DOMAIN todo = 1..Len(payload) /\ \A i \in 1..Len(payload) : todo[i] \in Expand(payload[i])
    BY <1>2, <1>4
  <2>2. \A i \in 1..Len(payload) : todo[i] \in SUBSET Disposition
    BY <1>1, <1>4, <2>1, ExpandType
  <2>3. todo = [i \in 1..Len(payload) |-> todo[i]]
    BY <1>2, <1>4
  <2>4. todo \in [1..Len(payload) -> SUBSET Disposition]
    BY <2>2, <2>3
  <2> QED
    BY <1>4, <2>4
<1>6. rest \in Seq(SUBSET Disposition)
  <2>1. {i \in DOMAIN todo : todo[i] # {}} \in SUBSET (1..Len(todo))
    BY <1>5
  <2> QED
    BY <1>3, <1>5, <2>1, AtKeeps
<1>7. Ingestion(now, rest) \in Work
  BY <1>1, <1>6, Constants DEF Ingestion, Idle, Work
<1> QED
  BY <1>1, <1>3, <1>7 DEF Set

LEMMA WithoutType ==
  ASSUME NEW todo \in Seq(SUBSET Disposition), todo # <<>>, NEW d
  PROVE  Without(todo, d) \in Seq(SUBSET Disposition)
<1>1. Tail(todo) \in Seq(SUBSET Disposition) /\ Head(todo) = todo[1] /\ 1 \in DOMAIN todo
      /\ todo[1] \in SUBSET Disposition
  OBVIOUS
<1>2. Head(todo) \ {d} \in SUBSET Disposition
  BY <1>1
<1>3. [todo EXCEPT ![1] = Head(todo) \ {d}] \in Seq(SUBSET Disposition)
  BY <1>1, <1>2, ExceptSeq
<1> QED
  BY <1>1, <1>3 DEF Without

LEMMA InitType == Init => TypeOK
<1> SUFFICES ASSUME Init PROVE TypeOK
  OBVIOUS
<1>1. IsBuckets(<<>>) /\ \A S : <<>> \in Seq(S) /\ Len(<<>>) = 0
  <2>1. DOMAIN <<>> = {}
    OBVIOUS
  <2> QED
    BY <2>1 DEF IsBuckets
<1>2. IsQueue(<<>>)
  BY <1>1, Constants DEF IsQueue
<1>3. IsBuckets(saved.buckets) /\ IsQueue(saved.seen) /\ saved.accepted = {}
  BY <1>1, <1>2 DEF Init, Empty
<1>4. Len(PushRecords) \in Nat
  BY ConstantsAssumption
<1>5. worker \in [{"api", "source"} -> [at : 0..now, todo : Seq(SUBSET Disposition)]]
  <2>1. now = 0 /\ Idle \in [at : 0..0, todo : Seq(SUBSET Disposition)]
    BY <1>1 DEF Idle, Init
  <2> QED
    BY <2>1 DEF Init
<1> QED
  BY <1>1, <1>2, <1>3, <1>4, <1>5, Constants DEF Init, TypeOK

(* What an action leaves alone keeps its type. *)
LEMMA SameStore ==
  ASSUME TypeOK, UNCHANGED <<buckets, seen, accepted, saved, now>>
  PROVE  /\ IsBuckets(buckets') /\ IsBuckets(saved'.buckets)
         /\ IsQueue(seen') /\ IsQueue(saved'.seen)
         /\ accepted' \subseteq Disposition /\ saved'.accepted \subseteq Disposition
         /\ now' \in 0..MaxTime
BY DEF TypeOK

LEMMA SameSource ==
  ASSUME TypeOK, UNCHANGED <<file, pushed, cached, saves, restarts>>
  PROVE  /\ file' \in Seq(Records) /\ pushed' \in 0..Len(PushRecords)
         /\ cached' \in Seq(Records) \cup {None}
         /\ saves' \in 0..MaxSaves /\ restarts' \in 0..MaxRestarts
BY DEF TypeOK

LEMMA PostType ==
  ASSUME TypeOK, NEW r \in Records, Post(r)
  PROVE  TypeOK'
<1>1. <<r>> \in Seq(Records) /\ "api" \in Workers
  BY DEF Workers
<1>2. worker' \in [Workers -> Work]
  BY <1>1, BeginType DEF Post
<1>3. UNCHANGED <<now, buckets, seen, file, cached, pushed, published, saved, accepted, saves,
                  restarts>>
  BY DEF Post, source
<1>4. worker' \in [{"api", "source"} -> [at : 0..now', todo : Seq(SUBSET Disposition)]]
  BY <1>2, <1>3 DEF Workers, Work
<1>5. published' \in Seq(Records) \cup {None}
  BY <1>3 DEF TypeOK
<1> QED
  BY <1>3, <1>4, <1>5, SameStore, SameSource DEF TypeOK

LEMMA TakeType ==
  ASSUME TypeOK, Take
  PROVE  TypeOK'
<1>1. published \in Seq(Records) /\ "source" \in Workers
  BY DEF Take, TypeOK, Workers
<1>2. worker' \in [Workers -> Work]
  BY <1>1, BeginType DEF Take
<1>3. UNCHANGED <<now, buckets, seen, file, cached, pushed, saved, accepted, saves, restarts>>
  BY DEF Take, source
<1>4. worker' \in [{"api", "source"} -> [at : 0..now', todo : Seq(SUBSET Disposition)]]
  BY <1>2, <1>3 DEF Workers, Work
<1>5. published' \in Seq(Records) \cup {None}
  BY DEF Take
<1> QED
  BY <1>3, <1>4, <1>5, SameStore, SameSource DEF TypeOK

(* What a worker applies is a disposition, not dated ahead of the clock; the *)
(* queue takes its key.                                                      *)
LEMMA ApplyFacts ==
  ASSUME TypeOK, NEW w \in DOMAIN worker, NEW d, Apply(w, d)
  PROVE  /\ worker[w] \in Work /\ worker[w].todo # <<>> /\ w \in Workers
         /\ d \in Disposition /\ d \in UNION Range(worker[w].todo)
         /\ worker[w].at \in Nat /\ worker[w].at <= now /\ now \in Nat
         /\ UNCHANGED <<now, file, cached, pushed, published, saved, saves, restarts>>
<1>1. worker[w] \in Work /\ w \in Workers /\ now \in Nat
  BY Constants DEF TypeOK, Work, Workers
<1>2. worker[w].at \in 0..now /\ worker[w].todo \in Seq(SUBSET Disposition)
  BY <1>1 DEF Work
<1>3. worker[w].todo # <<>> /\ d \in Head(worker[w].todo)
  BY DEF Apply, Busy
<1>4. /\ 1 \in DOMAIN worker[w].todo /\ Head(worker[w].todo) = worker[w].todo[1]
      /\ worker[w].todo[1] \in SUBSET Disposition
  BY <1>2, <1>3
<1>5. worker[w].todo[1] \in Range(worker[w].todo)
  BY <1>4 DEF Range
<1>6. UNCHANGED <<now, file, cached, pushed, published, saved, saves, restarts>>
  BY DEF Apply, source
<1> QED
  BY <1>1, <1>2, <1>3, <1>4, <1>5, <1>6

Entry(d) == [key |-> DedupKey(d), ts |-> d.ts]

LEMMA EntryType ==
  ASSUME NEW queue, IsQueue(queue), NEW d \in Disposition
  PROVE  /\ Append(queue, Entry(d)) \in Seq([key : Key, ts : Nat])
         /\ Len(Append(queue, Entry(d))) = Len(queue) + 1
         /\ DOMAIN queue = 1..Len(queue) /\ Len(queue) \in Nat
         /\ \A i \in DOMAIN queue : Append(queue, Entry(d))[i] = queue[i]
         /\ Append(queue, Entry(d))[Len(queue) + 1] = Entry(d)
<1>1. Entry(d) \in [key : Key, ts : Nat]
  BY KeyType DEF Entry
<1>2. queue \in Seq([key : Key, ts : Nat])
  BY DEF IsQueue
<1> QED
  BY <1>1, <1>2

LEMMA ApplyType ==
  ASSUME TypeOK, NEW w \in DOMAIN worker, NEW d, Apply(w, d)
  PROVE  TypeOK'
<1>1. /\ worker[w] \in Work /\ worker[w].todo # <<>> /\ w \in Workers
      /\ d \in Disposition /\ worker[w].at \in Nat /\ worker[w].at <= now /\ now \in Nat
      /\ UNCHANGED <<now, file, cached, pushed, published, saved, saves, restarts>>
  BY ApplyFacts
<1>2. worker' \in [{"api", "source"} -> [at : 0..now', todo : Seq(SUBSET Disposition)]]
  <2>1. worker \in [Workers -> Work]
    BY DEF TypeOK, Workers, Work
  <2>2. Without(worker[w].todo, d) \in Seq(SUBSET Disposition)
    BY <1>1, WithoutType DEF Work
  <2>3. Ingestion(worker[w].at, Without(worker[w].todo, d)) \in Work
    BY <1>1, <2>2 DEF Ingestion, Idle, Work
  <2>4. worker' = [worker EXCEPT ![w] = Ingestion(worker[w].at, Without(worker[w].todo, d))]
    BY DEF Apply, Set
  <2> QED
    BY <1>1, <2>1, <2>3, <2>4 DEF Workers, Work
<1>3. IsBuckets(buckets') /\ IsQueue(seen') /\ accepted' \subseteq Disposition
  <2>1. CASE Remembered(d)
    BY <2>1 DEF Apply, TypeOK
  <2>2. CASE ~Remembered(d)
    <3>1. /\ buckets' = Added(buckets, d, worker[w].at)
          /\ seen' = PruneSeen(Append(seen, Entry(d)), worker[w].at)
          /\ accepted' = accepted \cup {d}
      BY <2>2 DEF Apply, Added, Entry
    <3>2. IsBuckets(buckets) /\ IsQueue(seen) /\ accepted \subseteq Disposition
      BY DEF TypeOK
    <3>3. IsBuckets(buckets')
      BY <1>1, <3>1, <3>2, AddedCounts
    <3>4. IsQueue(seen')
      BY <1>1, <3>1, <3>2, EntryType, PruneSeenKeeps DEF IsQueue
    <3> QED
      BY <1>1, <3>1, <3>2, <3>3, <3>4
  <2> QED
    BY <2>1, <2>2
<1>4. /\ IsBuckets(saved'.buckets) /\ IsQueue(saved'.seen)
      /\ saved'.accepted \subseteq Disposition /\ now' \in 0..MaxTime
      /\ published' \in Seq(Records) \cup {None}
  BY <1>1 DEF TypeOK
<1> QED
  BY <1>1, <1>2, <1>3, <1>4, SameSource DEF TypeOK

LEMMA SourcesType ==
  ASSUME TypeOK, Refresh \/ RefreshFails \/ Push \/ Close
  PROVE  TypeOK'
<1>1. UNCHANGED <<now, buckets, seen, worker, saved, accepted, saves, restarts>>
  BY DEF Refresh, RefreshFails, Push, Close, source
<1>2. /\ file \in Seq(Records) /\ pushed \in 0..Len(PushRecords)
      /\ cached \in Seq(Records) \cup {None} /\ published \in Seq(Records) \cup {None}
  BY DEF TypeOK
<1>3. /\ file' \in Seq(Records) /\ pushed' \in 0..Len(PushRecords)
      /\ cached' \in Seq(Records) \cup {None} /\ published' \in Seq(Records) \cup {None}
  <2>1. CASE Refresh
    BY <1>2, <2>1 DEF Refresh
  <2>2. CASE RefreshFails
    BY <1>2, <2>2 DEF RefreshFails, source
  <2>3. CASE Push
    <3>1. PushRecords \in Seq(Records) /\ pushed \in 0..Len(PushRecords) /\ pushed < Len(PushRecords)
      BY <1>2, <2>3, ConstantsAssumption DEF Push
    <3>2. PushRecords[pushed + 1] \in Records /\ pushed + 1 \in 0..Len(PushRecords)
      BY <3>1
    <3>3. <<PushRecords[pushed + 1]>> \in Seq(Records)
      BY <3>2
    <3>4. /\ published' = <<PushRecords[pushed + 1]>> /\ pushed' = pushed + 1
          /\ file' = file /\ cached' = cached
      BY <2>3 DEF Push
    <3> QED
      BY <1>2, <3>2, <3>3, <3>4
  <2>4. CASE Close
    <3>1. FileRecords \in Seq(Records) /\ Len(file) \in Nat /\ Len(file) < Len(FileRecords)
      BY <1>2, <2>4, ConstantsAssumption DEF Close
    <3>2. FileRecords[Len(file) + 1] \in Records
      BY <3>1
    <3>3. Append(file, FileRecords[Len(file) + 1]) \in Seq(Records)
      BY <1>2, <3>2
    <3>4. /\ file' = Append(file, FileRecords[Len(file) + 1])
          /\ pushed' = pushed /\ cached' = cached /\ published' = published
      BY <2>4 DEF Close
    <3> QED
      BY <1>2, <3>3, <3>4
  <2> QED
    BY <2>1, <2>2, <2>3, <2>4
<1>4. worker' \in [{"api", "source"} -> [at : 0..now', todo : Seq(SUBSET Disposition)]]
  BY <1>1 DEF TypeOK
<1>5. saves' \in 0..MaxSaves /\ restarts' \in 0..MaxRestarts
  BY <1>1 DEF TypeOK
<1> QED
  BY <1>1, <1>3, <1>4, <1>5, SameStore DEF TypeOK

LEMMA TickType ==
  ASSUME TypeOK, Tick
  PROVE  TypeOK'
<1>1. now \in 0..MaxTime /\ now' = now + 1 /\ now < MaxTime
  BY DEF Tick, TypeOK
<1>2. now' \in 0..MaxTime /\ 0..now \subseteq 0..now'
  BY <1>1, Constants
<1>3. UNCHANGED <<buckets, seen, file, cached, pushed, published, worker, saved, accepted, saves,
                  restarts>>
  BY DEF Tick, source
<1>4. worker' \in [{"api", "source"} -> [at : 0..now', todo : Seq(SUBSET Disposition)]]
  <2>1. worker \in [{"api", "source"} -> [at : 0..now, todo : Seq(SUBSET Disposition)]]
    BY DEF TypeOK
  <2>2. [at : 0..now, todo : Seq(SUBSET Disposition)]
          \subseteq [at : 0..now', todo : Seq(SUBSET Disposition)]
    BY <1>2
  <2> QED
    BY <1>3, <2>1, <2>2
<1>5. /\ IsBuckets(buckets') /\ IsBuckets(saved'.buckets)
      /\ IsQueue(seen') /\ IsQueue(saved'.seen)
      /\ accepted' \subseteq Disposition /\ saved'.accepted \subseteq Disposition
      /\ published' \in Seq(Records) \cup {None}
  BY <1>3 DEF TypeOK
<1> QED
  BY <1>2, <1>3, <1>4, <1>5, SameSource DEF TypeOK

LEMMA PruneType ==
  ASSUME TypeOK, Prune
  PROVE  TypeOK'
<1>1. now \in 0..MaxTime /\ now \in Int
  BY Constants DEF TypeOK
<1>2. IsBuckets(buckets')
  BY <1>1, PrunedKeeps DEF Prune, TypeOK
<1>3. IsQueue(seen')
  <2>1. seen \in Seq([key : Key, ts : Nat]) /\ seen' = PruneSeen(seen, now)
    BY DEF Prune, TypeOK, IsQueue
  <2> QED
    BY <2>1, PruneSeenKeeps DEF IsQueue
<1>4. UNCHANGED <<now, file, cached, pushed, published, worker, saved, accepted, saves, restarts>>
  BY DEF Prune, source
<1>5. /\ IsBuckets(saved'.buckets) /\ IsQueue(saved'.seen)
      /\ accepted' \subseteq Disposition /\ saved'.accepted \subseteq Disposition
      /\ published' \in Seq(Records) \cup {None} /\ now' \in 0..MaxTime
      /\ worker' \in [{"api", "source"} -> [at : 0..now', todo : Seq(SUBSET Disposition)]]
  BY <1>4 DEF TypeOK
<1> QED
  BY <1>2, <1>3, <1>4, <1>5, SameSource DEF TypeOK

LEMMA SaveType ==
  ASSUME TypeOK, Save
  PROVE  TypeOK'
<1>1. UNCHANGED <<now, buckets, seen, file, cached, pushed, published, worker, accepted, restarts>>
  BY DEF Save, source
<1>2. saved' = [buckets |-> buckets, seen |-> seen, accepted |-> accepted]
  BY DEF Save
<1>3. saved'.buckets = buckets /\ saved'.seen = seen /\ saved'.accepted = accepted
  BY <1>2
<1>4. /\ IsBuckets(buckets') /\ IsBuckets(saved'.buckets)
      /\ IsQueue(seen') /\ IsQueue(saved'.seen)
      /\ accepted' \subseteq Disposition /\ saved'.accepted \subseteq Disposition
      /\ published' \in Seq(Records) \cup {None} /\ now' \in 0..MaxTime
      /\ worker' \in [{"api", "source"} -> [at : 0..now', todo : Seq(SUBSET Disposition)]]
  BY <1>1, <1>3 DEF TypeOK
<1>5. saves' \in 0..MaxSaves /\ restarts' \in 0..MaxRestarts
  BY <1>1, Constants DEF Save, TypeOK
<1>6. /\ file' \in Seq(Records) /\ pushed' \in 0..Len(PushRecords)
      /\ cached' \in Seq(Records) \cup {None}
  BY <1>1 DEF TypeOK
<1> QED
  BY <1>4, <1>5, <1>6 DEF TypeOK

(* What a restore keeps of a queue. *)
LEMMA RestoreKeeps ==
  ASSUME NEW queue, IsQueue(queue), now \in Int, NEW kept \in At(queue, Restorable(queue))
  PROVE  /\ IsQueue(PruneSeen(kept, now))
         /\ \A i \in DOMAIN queue : ~Stale(queue[i].ts, now) =>
              \E j \in DOMAIN PruneSeen(kept, now) : PruneSeen(kept, now)[j] = queue[i]
<1> DEFINE E == [key : Key, ts : Nat]
<1>1. /\ queue \in Seq(E) /\ Len(queue) <= MaxSeen /\ Len(queue) \in Nat
      /\ DOMAIN queue = 1..Len(queue)
      /\ Restorable(queue) \in SUBSET (1..Len(queue))
  BY DEF IsQueue, Restorable
<1>2. /\ kept \in Seq(E) /\ Len(kept) <= Len(queue) /\ Len(kept) \in Nat
      /\ \A i \in Restorable(queue) : \E j \in DOMAIN kept : kept[j] = queue[i]
  <2> HIDE DEF E
  <2>1. /\ kept \in Seq(E) /\ Len(kept) <= Len(queue)
        /\ \A i \in Restorable(queue) : \E j \in DOMAIN kept : kept[j] = queue[i]
    BY <1>1, AtKeeps
  <2> QED
    BY <2>1
<1>3. Len(kept) <= MaxSeen
  BY <1>1, <1>2, Constants
<1>4. /\ PruneSeen(kept, now) \in Seq(E) /\ Len(PruneSeen(kept, now)) <= MaxSeen
      /\ \A i \in DOMAIN kept : ~Stale(kept[i].ts, now) =>
           \E j \in DOMAIN PruneSeen(kept, now) : PruneSeen(kept, now)[j] = kept[i]
  <2> HIDE DEF E
  <2>1. kept \in Seq(E)
    BY <1>2
  <2>2. PruneSeen(kept, now) \in Seq(E) /\ Len(PruneSeen(kept, now)) <= MaxSeen
    BY <2>1, PruneSeenKeeps
  <2>3. \A i \in DOMAIN kept : ~Stale(kept[i].ts, now) =>
          \E j \in DOMAIN PruneSeen(kept, now) : PruneSeen(kept, now)[j] = kept[i]
    BY <1>3, <2>1, FreshStays
  <2> QED
    BY <2>2, <2>3
<1>5. ASSUME NEW i \in DOMAIN queue, ~Stale(queue[i].ts, now)
      PROVE  \E j \in DOMAIN PruneSeen(kept, now) : PruneSeen(kept, now)[j] = queue[i]
  <2>1. i \in Restorable(queue)
    BY <1>5 DEF Restorable
  <2>2. PICK n \in DOMAIN kept : kept[n] = queue[i]
    BY <1>2, <2>1
  <2> QED
    BY <1>4, <1>5, <2>2
<1> QED
  BY <1>4, <1>5 DEF IsQueue

LEMMA RestartType ==
  ASSUME TypeOK, Restart
  PROVE  TypeOK'
<1>1. now \in 0..MaxTime /\ now \in Int /\ 0 \in 0..now
  BY Constants DEF TypeOK
<1>2. IsBuckets(buckets')
  BY <1>1, PrunedKeeps DEF Restart, TypeOK
<1>3. IsQueue(seen')
  BY <1>1, RestoreKeeps DEF Restart, TypeOK
<1>4. UNCHANGED <<now, file, pushed, saved, saves>>
  BY DEF Restart
<1>5. worker' \in [{"api", "source"} -> [at : 0..now', todo : Seq(SUBSET Disposition)]]
  <2>1. DOMAIN worker = {"api", "source"}
    BY DEF TypeOK
  <2>2. Idle \in [at : 0..now, todo : Seq(SUBSET Disposition)]
    BY <1>1 DEF Idle
  <2> QED
    BY <1>4, <2>1, <2>2 DEF Restart
<1>6. /\ IsBuckets(saved'.buckets) /\ IsQueue(saved'.seen)
      /\ accepted' \subseteq Disposition /\ saved'.accepted \subseteq Disposition
      /\ now' \in 0..MaxTime /\ file' \in Seq(Records) /\ pushed' \in 0..Len(PushRecords)
      /\ saves' \in 0..MaxSaves
  BY <1>4 DEF Restart, TypeOK
<1>7. cached' = None /\ published' = None
  BY DEF Restart
<1>8. restarts' \in 0..MaxRestarts
  BY Constants DEF Restart, TypeOK
<1> QED
  BY <1>2, <1>3, <1>5, <1>6, <1>7, <1>8 DEF TypeOK

LEMMA StutterType ==
  ASSUME TypeOK, UNCHANGED vars
  PROVE  TypeOK'
<1>1. UNCHANGED <<now, buckets, seen, file, cached, pushed, published, worker, saved, accepted,
                  saves, restarts>>
  BY DEF vars, source
<1> QED
  BY <1>1 DEF TypeOK

LEMMA TypeStep == TypeOK /\ [Next]_vars => TypeOK'
<1> SUFFICES ASSUME TypeOK, [Next]_vars PROVE TypeOK'
  OBVIOUS
<1>1. CASE \E r \in Records : Post(r)
  BY <1>1, PostType
<1>2. CASE Take
  BY <1>2, TakeType
<1>3. CASE \E w \in DOMAIN worker : Worker(w)
  BY <1>3, ApplyType DEF Worker
<1>4. CASE Refresh \/ RefreshFails \/ Push \/ Close
  BY <1>4, SourcesType
<1>5. CASE Tick
  BY <1>5, TickType
<1>6. CASE Prune
  BY <1>6, PruneType
<1>7. CASE Save
  BY <1>7, SaveType
<1>8. CASE Restart
  BY <1>8, RestartType
<1>9. CASE UNCHANGED vars
  BY <1>9, StutterType
<1> HIDE DEF TypeOK, vars
<1> QED
  BY <1>1, <1>2, <1>3, <1>4, <1>5, <1>6, <1>7, <1>8, <1>9 DEF Next

(* Neither the store nor what was saved of it counts for a rule or holds a  *)
(* key that no verdict has, and both keep within max_seen_ids, through any  *)
(* mix of ingestions, prunes, saves and crashes (apply, prune_seen,         *)
(* restore); no payload is ingested with a time ahead of the clock.         *)
THEOREM TypeCorrect == Spec => []TypeOK
BY InitType, TypeStep, PTL DEF Spec

-----------------------------------------------------------------------------
(* The counts are exact.  A verdict counted is remembered for as long as it *)
(* is in the window, so no second one with its key is counted meanwhile.    *)

Known(acc, queue, at) ==
  \A d \in acc : ~Stale(d.ts, at) => \E i \in DOMAIN queue : queue[i] = Entry(d)

Once(acc, at) ==
  \A d, e \in acc :
    DedupKey(d) = DedupKey(e) /\ ~Stale(d.ts, at) /\ ~Stale(e.ts, at) => d = e

Of(acc, r, v, b) == {d \in acc : d.rule = r /\ d.verdict = v /\ BucketOf(d.ts) = b}

Exact(acc, bs, at) ==
  \A r \in Rules, v \in Verdict, b \in Int :
    b > Cutoff(at) => Tallied(bs, r, v, b) = Cardinality(Of(acc, r, v, b))

Sound(acc, bs, queue, at) ==
  IsFiniteSet(acc) /\ Known(acc, queue, at) /\ Once(acc, at) /\ Exact(acc, bs, at)

AllSound ==
  /\ Sound(accepted, buckets, seen, now)
  /\ Sound(saved.accepted, saved.buckets, saved.seen, now)

LEMMA SoundLater ==
  ASSUME NEW acc \in SUBSET Disposition, NEW bs, NEW queue,
         NEW at \in Int, NEW after \in Int, at <= after, Sound(acc, bs, queue, at)
  PROVE  Sound(acc, bs, queue, after)
<1>1. /\ Cutoff(at) \in Int /\ Cutoff(after) \in Int /\ Cutoff(at) <= Cutoff(after)
      /\ \A ts \in Int : ~Stale(ts, after) => ~Stale(ts, at)
  BY WindowMoves
<1>2. \A d \in acc : d.ts \in Int
  BY KeyType
<1>3. Known(acc, queue, after)
  BY <1>1, <1>2 DEF Sound, Known
<1>4. Once(acc, after)
  BY <1>1, <1>2 DEF Sound, Once
<1>5. Exact(acc, bs, after)
  <2>1. \A b \in Int : b > Cutoff(after) => b > Cutoff(at)
    BY <1>1
  <2> QED
    BY <2>1 DEF Sound, Exact
<1> QED
  BY <1>3, <1>4, <1>5 DEF Sound

LEMMA SoundPruned ==
  ASSUME NEW acc \in SUBSET Disposition, NEW bs, IsBuckets(bs), NEW queue, NEW left,
         NEW at \in Int, Sound(acc, bs, queue, at),
         \A i \in DOMAIN queue : ~Stale(queue[i].ts, at) =>
           \E j \in DOMAIN left : left[j] = queue[i]
  PROVE  Sound(acc, Pruned(bs, at), left, at)
<1>1. Known(acc, left, at)
  <2> SUFFICES ASSUME NEW d \in acc, ~Stale(d.ts, at)
               PROVE  \E j \in DOMAIN left : left[j] = Entry(d)
    BY DEF Known
  <2>1. PICK i \in DOMAIN queue : queue[i] = Entry(d)
    BY DEF Sound, Known
  <2>2. queue[i].ts = d.ts
    BY <2>1 DEF Entry
  <2> QED
    BY <2>1, <2>2
<1>2. Exact(acc, Pruned(bs, at), at)
  <2> SUFFICES ASSUME NEW r \in Rules, NEW v \in Verdict, NEW b \in Int, b > Cutoff(at)
               PROVE  Tallied(Pruned(bs, at), r, v, b) = Cardinality(Of(acc, r, v, b))
    BY DEF Exact
  <2>1. Cutoff(at) \in Int
    BY WindowMoves
  <2>2. Tallied(Pruned(bs, at), r, v, b) = Tallied(bs, r, v, b)
    BY <2>1, PrunedKeeps
  <2> QED
    BY <2>2 DEF Sound, Exact
<1> QED
  BY <1>1, <1>2 DEF Sound

LEMMA SoundAdded ==
  ASSUME TypeOK, RoomLeft, AllSound, NEW w \in DOMAIN worker, NEW d, Apply(w, d),
         ~Remembered(d)
  PROVE  Sound(accepted \cup {d}, Added(buckets, d, worker[w].at),
               PruneSeen(Append(seen, Entry(d)), worker[w].at), now)
<1> DEFINE at == worker[w].at
           queue == Append(seen, Entry(d))
           acc == accepted \cup {d}
<1>1. /\ d \in Disposition /\ at \in Int /\ at <= now /\ now \in Int
      /\ d \in UNION Range(worker[w].todo)
  BY ApplyFacts
<1>2. IsBuckets(buckets) /\ IsQueue(seen) /\ accepted \subseteq Disposition
  BY DEF TypeOK
<1>3. Len(seen) < MaxSeen
  BY <1>1 DEF RoomLeft
<1>4. /\ Cutoff(at) \in Int /\ Cutoff(now) \in Int /\ Cutoff(at) <= Cutoff(now)
      /\ \A ts \in Int : ~Stale(ts, now) => ~Stale(ts, at)
      /\ \A ts \in Int : BucketOf(ts) > Cutoff(now) => ~Stale(ts, now)
  BY <1>1, WindowMoves
<1>5. \A e \in acc : e.ts \in Int /\ e \in Disposition
  BY <1>1, <1>2, KeyType
<1>6. ASSUME NEW e \in accepted, ~Stale(e.ts, now) PROVE DedupKey(e) # DedupKey(d)
  <2>1. PICK i \in DOMAIN seen : seen[i] = Entry(e)
    BY <1>6 DEF AllSound, Sound, Known
  <2>2. seen[i].key = DedupKey(e)
    BY <2>1 DEF Entry
  <2> QED
    BY <2>2 DEF Remembered
<1>7. Known(acc, PruneSeen(queue, at), now)
  <2> SUFFICES ASSUME NEW e \in acc, ~Stale(e.ts, now)
               PROVE  \E j \in DOMAIN PruneSeen(queue, at) : PruneSeen(queue, at)[j] = Entry(e)
    BY DEF Known
  <2>1. /\ queue \in Seq([key : Key, ts : Nat]) /\ Len(queue) = Len(seen) + 1
        /\ Len(seen) \in Nat /\ DOMAIN seen = 1..Len(seen)
        /\ \A i \in DOMAIN seen : queue[i] = seen[i]
        /\ queue[Len(seen) + 1] = Entry(d)
    BY <1>1, <1>2, EntryType
  <2>2. DOMAIN queue = 1..Len(seen) + 1 /\ Len(queue) <= MaxSeen
    <3> HIDE DEF queue
    <3> QED
      BY <1>3, <2>1, Constants
  <2>3. \E i \in DOMAIN queue : queue[i] = Entry(e)
    <3>1. CASE e = d
      BY <2>1, <2>2, <3>1
    <3>2. CASE e # d
      <4>1. PICK i \in DOMAIN seen : seen[i] = Entry(e)
        BY <3>2 DEF AllSound, Sound, Known
      <4> HIDE DEF queue
      <4> QED
        BY <2>1, <2>2, <4>1
    <3> QED
      BY <3>1, <3>2
  <2>4. PICK i \in DOMAIN queue : queue[i] = Entry(e)
    BY <2>3
  <2>5. ~Stale(queue[i].ts, at)
    <3>1. queue[i].ts = e.ts
      BY <2>4 DEF Entry
    <3> QED
      BY <1>4, <1>5, <3>1
  <2>6. \E j \in DOMAIN PruneSeen(queue, at) : PruneSeen(queue, at)[j] = queue[i]
    <3> DEFINE E == [key : Key, ts : Nat]
    <3>1. queue \in Seq(E) /\ Len(queue) <= MaxSeen
      BY <2>1, <2>2
    <3> HIDE DEF queue, at, E
    <3> QED
      BY <2>4, <2>5, <3>1, FreshStays
  <2> QED
    BY <2>4, <2>6
<1>8. Once(acc, now)
  BY <1>6 DEF Once, AllSound, Sound
<1>9. Exact(acc, Added(buckets, d, at), now)
  <2> SUFFICES ASSUME NEW r \in Rules, NEW v \in Verdict, NEW b \in Int, b > Cutoff(now)
               PROVE  Tallied(Added(buckets, d, at), r, v, b) = Cardinality(Of(acc, r, v, b))
    BY DEF Exact
  <2> DEFINE old == Tallied(buckets, r, v, b)
             hit == r = d.rule /\ v = d.verdict /\ b = BucketOf(d.ts)
  <2>1. b >= Cutoff(at)
    BY <1>4
  <2>2. Tallied(Added(buckets, d, at), r, v, b) = IF hit /\ old < MaxCount THEN old + 1 ELSE old
    BY <1>1, <1>2, <2>1, AddedCounts
  <2>3. old = Cardinality(Of(accepted, r, v, b))
    BY DEF AllSound, Sound, Exact
  <2>4. old < MaxCount
    <3>1. CASE b \in DOMAIN Counts(r, buckets)
      <4>1. r \in DOMAIN buckets /\ Counts(r, buckets) = buckets[r]
        BY <3>1 DEF Counts
      <4> QED
        BY <3>1, <4>1 DEF RoomLeft, Tallied
    <3>2. CASE b \notin DOMAIN Counts(r, buckets)
      BY <3>2, Constants DEF Tallied
    <3> QED
      BY <3>1, <3>2
  <2>5. CASE hit
    <3>1. ~Stale(d.ts, now)
      BY <1>4, <1>5, <2>5
    <3>2. d \notin Of(accepted, r, v, b)
      BY <1>6, <3>1 DEF Of
    <3>3. Of(acc, r, v, b) = Of(accepted, r, v, b) \cup {d}
      BY <2>5 DEF Of
    <3>4. IsFiniteSet(Of(accepted, r, v, b))
      <4>1. Of(accepted, r, v, b) \in SUBSET accepted /\ IsFiniteSet(accepted)
        BY DEF Of, AllSound, Sound
      <4> QED
        BY <4>1, FS_Subset
    <3>5. Cardinality(Of(acc, r, v, b)) = Cardinality(Of(accepted, r, v, b)) + 1
      BY <3>2, <3>3, <3>4, FS_AddElement
    <3> HIDE DEF old, acc
    <3> QED
      BY <2>2, <2>3, <2>4, <2>5, <3>5
  <2>6. CASE ~hit
    <3>1. Of(acc, r, v, b) = Of(accepted, r, v, b)
      BY <2>6 DEF Of
    <3> HIDE DEF old, acc
    <3> QED
      BY <2>2, <2>3, <2>6, <3>1
  <2> QED
    BY <2>5, <2>6
<1>10. IsFiniteSet(acc)
  BY FS_AddElement DEF AllSound, Sound
<1> QED
  BY <1>7, <1>8, <1>9, <1>10 DEF Sound

LEMMA SoundInit == Init => AllSound
<1> SUFFICES ASSUME Init PROVE AllSound
  OBVIOUS
<1>1. /\ buckets = <<>> /\ accepted = {} /\ saved.buckets = <<>> /\ saved.accepted = {}
  BY DEF Init, Empty
<1>2. \A r, v, b : Tallied(<<>>, r, v, b) = 0 /\ Of({}, r, v, b) = {}
  <2>1. \A r : DOMAIN Counts(r, <<>>) = {}
    BY DEF Counts
  <2> QED
    BY <2>1 DEF Tallied, Of
<1>3. Cardinality({}) = 0 /\ IsFiniteSet({})
  BY FS_EmptySet
<1>4. \A queue, at : Sound({}, <<>>, queue, at)
  BY <1>2, <1>3 DEF Sound, Known, Once, Exact
<1> QED
  BY <1>1, <1>4 DEF AllSound

LEMMA SoundSame ==
  ASSUME AllSound, UNCHANGED <<buckets, seen, accepted, saved, now>>
  PROVE  AllSound'
BY DEF AllSound

LEMMA SoundStep ==
  TypeOK /\ RoomLeft /\ AllSound /\ [Next]_vars => AllSound'
<1> SUFFICES ASSUME TypeOK, RoomLeft, AllSound, [Next]_vars PROVE AllSound'
  OBVIOUS
<1>1. /\ now \in Nat /\ IsBuckets(buckets) /\ IsQueue(seen) /\ accepted \in SUBSET Disposition
      /\ IsBuckets(saved.buckets) /\ IsQueue(saved.seen)
      /\ saved.accepted \in SUBSET Disposition
  BY Constants DEF TypeOK
<1>2. CASE \E r \in Records : Post(r)
  BY <1>2, SoundSame DEF Post
<1>3. CASE Take
  BY <1>3, SoundSame DEF Take
<1>4. CASE \E w \in DOMAIN worker : Worker(w)
  <2>1. PICK w \in DOMAIN worker : \E d \in UNION Range(worker[w].todo) : Apply(w, d)
    BY <1>4 DEF Worker
  <2>2. PICK d \in UNION Range(worker[w].todo) : Apply(w, d)
    BY <2>1
  <2>3. UNCHANGED <<saved, now>>
    BY <2>2, ApplyFacts
  <2>4. CASE Remembered(d)
    BY <2>2, <2>3, <2>4, SoundSame DEF Apply
  <2>5. CASE ~Remembered(d)
    <3>1. /\ buckets' = Added(buckets, d, worker[w].at)
          /\ seen' = PruneSeen(Append(seen, Entry(d)), worker[w].at)
          /\ accepted' = accepted \cup {d}
      BY <2>2, <2>5 DEF Apply, Added, Entry
    <3>2. Sound(accepted', buckets', seen', now)
      BY <2>2, <2>5, <3>1, SoundAdded
    <3> QED
      BY <2>3, <3>2 DEF AllSound
  <2> QED
    BY <2>4, <2>5
<1>5. CASE Refresh \/ RefreshFails \/ Push \/ Close
  BY <1>5, SoundSame DEF Refresh, RefreshFails, Push, Close
<1>6. CASE Tick
  <2>1. now' = now + 1 /\ UNCHANGED <<buckets, seen, saved, accepted>>
    BY <1>6 DEF Tick
  <2>2. now \in Int /\ now' \in Int /\ now <= now'
    BY <1>1, <2>1
  <2>3. Sound(accepted, buckets, seen, now')
    BY <1>1, <2>2, SoundLater DEF AllSound
  <2>4. Sound(saved.accepted, saved.buckets, saved.seen, now')
    BY <1>1, <2>2, SoundLater DEF AllSound
  <2> QED
    BY <2>1, <2>3, <2>4 DEF AllSound
<1>7. CASE Prune
  <2>1. /\ buckets' = Pruned(buckets, now) /\ seen' = PruneSeen(seen, now)
        /\ UNCHANGED <<now, saved, accepted>>
    BY <1>7 DEF Prune
  <2>2. \A i \in DOMAIN seen : ~Stale(seen[i].ts, now) =>
          \E j \in DOMAIN PruneSeen(seen, now) : PruneSeen(seen, now)[j] = seen[i]
    <3> DEFINE E == [key : Key, ts : Nat]
    <3>1. seen \in Seq(E) /\ Len(seen) <= MaxSeen
      BY <1>1 DEF IsQueue
    <3> HIDE DEF E
    <3> QED
      BY <3>1, FreshStays
  <2>3. Sound(accepted, Pruned(buckets, now), PruneSeen(seen, now), now)
    BY <1>1, <2>2, SoundPruned DEF AllSound
  <2> QED
    BY <2>1, <2>3 DEF AllSound
<1>8. CASE Save
  <2>1. /\ saved' = [buckets |-> buckets, seen |-> seen, accepted |-> accepted]
        /\ UNCHANGED <<now, buckets, seen, accepted>>
    BY <1>8 DEF Save
  <2>2. saved'.buckets = buckets /\ saved'.seen = seen /\ saved'.accepted = accepted
    BY <2>1
  <2> QED
    BY <2>1, <2>2 DEF AllSound
<1>9. CASE Restart
  <2>1. PICK kept \in At(saved.seen, Restorable(saved.seen)) : seen' = PruneSeen(kept, now)
    BY <1>9 DEF Restart
  <2>2. /\ buckets' = Pruned(saved.buckets, now) /\ accepted' = saved.accepted
        /\ UNCHANGED <<now, saved>>
    BY <1>9 DEF Restart
  <2>3. \A i \in DOMAIN saved.seen : ~Stale(saved.seen[i].ts, now) =>
          \E j \in DOMAIN PruneSeen(kept, now) : PruneSeen(kept, now)[j] = saved.seen[i]
    BY <1>1, <2>1, RestoreKeeps
  <2>4. Sound(saved.accepted, Pruned(saved.buckets, now), PruneSeen(kept, now), now)
    BY <1>1, <2>3, SoundPruned DEF AllSound
  <2> QED
    BY <2>1, <2>2, <2>4 DEF AllSound
<1>10. CASE UNCHANGED vars
  BY <1>10, SoundSame DEF vars
<1> HIDE DEF TypeOK, AllSound, RoomLeft, vars
<1> QED
  BY <1>2, <1>3, <1>4, <1>5, <1>6, <1>7, <1>8, <1>9, <1>10 DEF Next

LEMMA SoundIsExact ==
  ASSUME TypeOK, AllSound
  PROVE  CountsAreExact
<1>1. ASSUME NEW d \in accepted, NEW e \in accepted,
             DedupKey(d) = DedupKey(e), ~Stale(d.ts, now), ~Stale(e.ts, now)
      PROVE  d = e
  BY <1>1 DEF AllSound, Sound, Once
<1>2. ASSUME NEW r \in Rules, NEW v \in Verdict, NEW b \in Cutoff(now) + 1 .. BucketOf(now)
      PROVE  Tally(r, v, b) = Cardinality(In(r, v, b))
  <2>1. now \in Int
    BY Constants DEF TypeOK
  <2>2. Cutoff(now) \in Int /\ BucketOf(now) \in Int
    BY <2>1, WindowMoves, BucketsRise
  <2>3. b \in Int /\ b > Cutoff(now)
    BY <2>2
  <2>4. Tallied(buckets, r, v, b) = Cardinality(Of(accepted, r, v, b))
    BY <2>3 DEF AllSound, Sound, Exact
  <2>5. Tally(r, v, b) = Tallied(buckets, r, v, b)
    <3>1. CASE r \in DOMAIN buckets
      BY <3>1 DEF Tally, Tallied, Counts
    <3>2. CASE r \notin DOMAIN buckets
      <4>1. DOMAIN Counts(r, buckets) = {}
        BY <3>2 DEF Counts
      <4> QED
        BY <4>1 DEF Tally, Tallied
    <3> QED
      BY <3>1, <3>2
  <2>6. In(r, v, b) = Of(accepted, r, v, b)
    BY DEF In, Of
  <2> QED
    BY <2>4, <2>5, <2>6
<1> QED
  BY <1>1, <1>2 DEF CountsAreExact

(* However often a verdict is read again, by both paths, across prunes and  *)
(* restarts (apply, prune_seen, prune, restore), its key is counted at most *)
(* once while it is in the window, and every bucket wholly inside the       *)
(* window holds exactly the verdicts counted, for as long as the limits     *)
(* have left room.                                                          *)
THEOREM CountsCorrect == Spec /\ []RoomLeft => []CountsAreExact
<1>1. Init => TypeOK /\ AllSound
  BY InitType, SoundInit
<1>2. (TypeOK /\ AllSound) /\ RoomLeft /\ [Next]_vars => (TypeOK /\ AllSound)'
  BY TypeStep, SoundStep
<1>3. TypeOK /\ AllSound => CountsAreExact
  BY SoundIsExact
<1> QED
  BY <1>1, <1>2, <1>3, PTL DEF Spec
==============================================================================
