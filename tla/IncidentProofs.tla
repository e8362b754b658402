--------------------------- MODULE IncidentProofs ---------------------------
(***************************************************************************)
(* Proofs about IncidentStore, for any ids, values, results, caps, timers  *)
(* and number of restarts.                                                 *)
(*                                                                         *)
(* TypeOK says that no index entry names a closed incident, and that needs *)
(* IndexAgrees: what leaves an incident leaves the index because the index *)
(* attributed it to that incident.  The two are inductive together.        *)
(***************************************************************************)
EXTENDS IncidentStore, FiniteSetTheorems, TLAPS

IInv == TypeOK /\ IndexAgrees

LEMMA NewTimerType == NewTimer \in Timer
  BY ConstantsAssumption DEF NewTimer, Timer, SinceCap, Larger

LEMMA OlderType ==
  ASSUME NEW t \in Timer, NEW d \in Nat
  PROVE  Older(t, d) \in Timer
<1>1. {GroupWait, Resolve, SinceCap} \subseteq Nat
  BY ConstantsAssumption DEF SinceCap, Larger
<1>2. \A n, cap \in Nat : Aged(n, d, cap) \in 0..cap
  BY DEF Aged
<1>3. t.age \in Nat /\ t.idle \in Nat /\ t.since \in Nat
  BY <1>1 DEF Timer
<1>4. \A x \in 0..GroupWait, y \in 0..Resolve, z \in 0..SinceCap :
        [t EXCEPT !.age = x, !.idle = y, !.since = z] \in Timer
  BY DEF Timer
<1> QED
  BY <1>1, <1>2, <1>3, <1>4 DEF Older

(* Merging and absorbing. *)

LEMMA AbsorbTypes ==
  ASSUME TypeOK, NEW i \in Ids, NEW T \in SUBSET open, Absorb(i, T)
  PROVE  /\ open' = (open \ T) \cup {i}
         /\ open' \subseteq Ids
         /\ timer' \in [Ids -> Timer]
         /\ owed' \subseteq open'
         /\ \A j \in Ids \ open' : timer'[j] = NewTimer
<1>1. PICK a \in 0..GroupWait : timer' = [j \in Ids |->
            IF j = i THEN [timer[i] EXCEPT !.age = a, !.idle = 0, !.dirty = TRUE]
            ELSE IF j \in T THEN NewTimer ELSE timer[j]]
  BY DEF Absorb
<1>2. [timer[i] EXCEPT !.age = a, !.idle = 0, !.dirty = TRUE] \in Timer
  <2>1. timer[i] \in Timer
    BY DEF TypeOK
  <2>2. 0 \in 0..Resolve
    BY ConstantsAssumption
  <2>3. \A t \in Timer, y \in 0..Resolve :
          [t EXCEPT !.age = a, !.idle = y, !.dirty = TRUE] \in Timer
    BY DEF Timer
  <2> QED
    BY <2>1, <2>2, <2>3
<1>3. timer' \in [Ids -> Timer]
  BY <1>1, <1>2, NewTimerType DEF TypeOK
<1>4. open' = (open \ T) \cup {i} /\ owed' = (owed \ T) \cup {i}
  BY DEF Absorb
<1>5. \A j \in Ids \ open' : timer'[j] = NewTimer
  BY <1>1, <1>4 DEF TypeOK
<1> QED
  BY <1>3, <1>4, <1>5 DEF TypeOK

(* By the index, what shares a value with W is what is touched. *)
LEMMA TouchedIsSharing ==
  ASSUME IInv, NEW W \in SUBSET Values
  PROVE  /\ Touched(W) = {j \in open : entities[j] \cap W # {}}
         /\ Stale(W) = {}
<1>1. \A v \in W, j \in open : index[v] = j <=> v \in entities[j]
  BY DEF IInv, IndexAgrees, TypeOK
<1>2. \A j \in open : j \in Touched(W) <=> \E v \in W : index[v] = j
  BY DEF Touched
<1>3. Touched(W) \subseteq open
  BY DEF Touched
<1>4. Stale(W) = {}
  BY DEF Stale, IInv, TypeOK
<1> QED
  BY <1>1, <1>2, <1>3, <1>4

LEMMA MergeAgrees ==
  ASSUME IInv, NEW W \in SUBSET Values, NEW i \in Ids, NEW stored \in SUBSET W,
         i \in Touched(W) \/ Touched(W) = {}, Merge(i, W, stored),
         open' = (open \ Touched(W)) \cup {i}
  PROVE  /\ entities' \in [Ids -> SUBSET Values]
         /\ index' \in [Values -> open' \cup {None}]
         /\ \A v \in Values, j \in Ids : index'[v] = j <=> v \in entities'[j]
         /\ \A j \in Ids \ open' : entities'[j] = {}
         /\ \A v \in Values : index[v] # None \/ v \in stored => index'[v] # None
<1> DEFINE T == Touched(W)
<1> DEFINE taken == UNION {entities[k] : k \in T \cup {i}}
<1>1. /\ entities' = [j \in Ids |-> IF j = i THEN taken \cup stored
                                   ELSE IF j \in T THEN {} ELSE entities[j]]
      /\ index' = [v \in Values |-> IF v \in taken \cup stored THEN i
                                    ELSE IF v \in Stale(W) THEN None ELSE index[v]]
  BY DEF Merge
<1>2. T \subseteq open /\ Stale(W) = {}
  BY TouchedIsSharing DEF Touched
<1>3. \A v \in Values : v \in taken <=> \E k \in T \cup {i} : v \in entities[k]
  BY DEF taken
<1>4. taken \subseteq Values
  BY <1>2 DEF IInv, TypeOK
<1> HIDE DEF taken, T
<1>5. \A v \in Values, k \in Ids : index[v] = k <=> v \in entities[k]
  BY DEF IInv, IndexAgrees
<1>6. None \notin Ids
  BY ConstantsAssumption
<1>7. entities' \in [Ids -> SUBSET Values]
  BY <1>1, <1>4 DEF IInv, TypeOK
<1>8. \A v \in Values, j \in Ids \ (T \cup {i}) : v \in entities[j] => v \notin taken \cup stored
  <2> SUFFICES ASSUME NEW v \in Values, NEW j \in Ids \ (T \cup {i}), v \in entities[j],
                      v \in taken \cup stored
               PROVE  FALSE
    OBVIOUS
  <2>1. index[v] = j /\ j \in open
    BY <1>5 DEF IInv, TypeOK
  <2>2. v \notin taken
    BY <1>3, <1>5, <1>2, <2>1 DEF IInv, TypeOK
  <2>3. v \in W
    BY <2>2
  <2> QED
    BY <2>1, <2>3 DEF T, Touched
<1>9. ASSUME NEW v \in Values, NEW j \in Ids
      PROVE  index'[v] = j <=> v \in entities'[j]
  <2>1. CASE v \in taken \cup stored
    BY <1>1, <1>8, <2>1
  <2>2. CASE v \notin taken \cup stored
    <3>1. index'[v] = index[v]
      BY <1>1, <1>2, <2>2
    <3>2. j \in T \cup {i} => v \notin entities[j]
      BY <1>3, <2>2
    <3> QED
      BY <1>1, <1>5, <2>2, <3>1, <3>2
  <2> QED
    BY <2>1, <2>2
<1>10. open' = (open \ T) \cup {i}
  BY DEF T
<1>11. \A j \in Ids \ open' : entities'[j] = {}
  BY <1>1, <1>10 DEF IInv, TypeOK
<1>12. index' \in [Values -> open' \cup {None}]
  <2> SUFFICES ASSUME NEW v \in Values PROVE index'[v] \in open' \cup {None}
    BY <1>1
  <2>1. index'[v] \in Ids \cup {None}
    BY <1>1 DEF IInv, TypeOK
  <2> QED
    BY <1>9, <1>11, <2>1
<1> QED
  BY <1>1, <1>2, <1>6, <1>7, <1>9, <1>11, <1>12

-----------------------------------------------------------------------------
(* What leaves: resolution, eviction, cut values. *)

(* A step that removes values from incidents, and from the index exactly    *)
(* the values so removed, keeps the agreement.                              *)
LEMMA ShrinkAgrees ==
  ASSUME IInv,
         open' \subseteq open,
         entities' \in [Ids -> SUBSET Values],
         \A i \in Ids : entities'[i] \subseteq entities[i],
         \A i \in Ids \ open' : entities'[i] = {},
         NEW gone \in SUBSET Values,
         \A v \in Values : v \in gone <=> \E i \in Ids : v \in entities[i] \ entities'[i],
         index' = [v \in Values |-> IF v \in gone THEN None ELSE index[v]],
         counts' = [v \in Values |-> IF v \in gone THEN 0 ELSE counts[v]]
  PROVE  /\ IndexAgrees'
         /\ index' \in [Values -> open' \cup {None}]
         /\ counts' \in [Values -> Nat]
<1>1. \A v \in Values, k \in Ids : index[v] = k <=> v \in entities[k]
  BY DEF IInv, IndexAgrees
<1>2. None \notin Ids
  BY ConstantsAssumption
<1>3. ASSUME NEW v \in Values, NEW j \in Ids
      PROVE  index'[v] = j <=> v \in entities'[j]
  <2>1. CASE v \in gone
    <3>1. PICK i \in Ids : v \in entities[i] \ entities'[i]
      BY <2>1
    <3>2. v \in entities[j] => j = i
      BY <1>1, <3>1
    <3> QED
      BY <1>2, <2>1, <3>1, <3>2
  <2>2. CASE v \notin gone
    BY <1>1, <2>2
  <2> QED
    BY <2>1, <2>2
<1>4. \A v \in Values : counts'[v] > 0 => index'[v] # None
  BY DEF IInv, IndexAgrees, TypeOK
<1>5. index' \in [Values -> open' \cup {None}]
  <2> SUFFICES ASSUME NEW v \in Values PROVE index'[v] \in open' \cup {None}
    OBVIOUS
  <2>1. index'[v] \in Ids \cup {None}
    BY DEF IInv, TypeOK
  <2> QED
    BY <1>3, <2>1
<1> QED
  BY <1>3, <1>4, <1>5 DEF IndexAgrees, IInv, TypeOK

(* enforce_caps only removes. *)
LEMMA TrimShrinks ==
  ASSUME TypeOK, NEW c \in Configs, NEW present \in SUBSET open, Trim(c, present)
  PROVE  /\ open' \subseteq present
         /\ entities' \in [Ids -> SUBSET Values]
         /\ \A i \in Ids : entities'[i] \subseteq entities[i]
         /\ \A i \in Ids \ open' : entities'[i] = {}
<1>1. PICK gone \in Excess(present, c.maxOpen) :
        \E K \in SUBSET UNION {entities[i] : i \in present \ gone} :
          /\ open' = present \ gone
          /\ entities' = [i \in Ids |-> IF i \in present \ gone THEN entities[i] \cap K ELSE {}]
  BY DEF Trim
<1> QED
  BY <1>1 DEF TypeOK

LEMMA EvictAgrees ==
  ASSUME IInv, NEW R \in SUBSET open, Evict(R)
  PROVE  /\ open' \subseteq open
         /\ entities' \in [Ids -> SUBSET Values]
         /\ \A i \in Ids : entities'[i] \subseteq IF i \in open' THEN entities[i] ELSE {}
         /\ IndexAgrees'
         /\ index' \in [Values -> open' \cup {None}]
         /\ counts' \in [Values -> Nat]
<1> DEFINE gone == UNION {entities[i] : i \in R}
<1>1. /\ open' = open \ R
      /\ entities' = [i \in Ids |-> IF i \in R THEN {} ELSE entities[i]]
      /\ index' = [v \in Values |-> IF v \in gone THEN None ELSE index[v]]
      /\ counts' = [v \in Values |-> IF v \in gone THEN 0 ELSE counts[v]]
  BY DEF Evict
<1>2. gone \subseteq Values
  BY DEF IInv, TypeOK
<1>3. \A v \in Values : v \in gone <=> \E i \in R : v \in entities[i]
  OBVIOUS
<1> HIDE DEF gone
<1>4. \A v \in Values : v \in gone <=> \E i \in Ids : v \in entities[i] \ entities'[i]
  BY <1>1, <1>3 DEF IInv, TypeOK
<1>5. /\ entities' \in [Ids -> SUBSET Values]
      /\ \A i \in Ids : entities'[i] \subseteq entities[i]
      /\ \A i \in Ids \ open' : entities'[i] = {}
  BY <1>1 DEF IInv, TypeOK
<1> QED
  BY <1>1, <1>2, <1>4, <1>5, ShrinkAgrees

LEMMA ReloadAgrees ==
  ASSUME IInv, NEW c \in Configs, Reload(c)
  PROVE  /\ open' \subseteq open
         /\ entities' \in [Ids -> SUBSET Values]
         /\ \A i \in Ids : entities'[i] \subseteq IF i \in open' THEN entities[i] ELSE {}
         /\ IndexAgrees'
         /\ index' \in [Values -> open' \cup {None}]
         /\ counts' \in [Values -> Nat]
<1>1. /\ open' \subseteq open
      /\ entities' \in [Ids -> SUBSET Values]
      /\ \A i \in Ids : entities'[i] \subseteq entities[i]
      /\ \A i \in Ids \ open' : entities'[i] = {}
  BY TrimShrinks DEF Reload, IInv
<1>2. \A v \in Values : v \in Forgotten <=> \E i \in Ids : v \in entities[i] \ entities'[i]
  BY DEF Forgotten, IInv, IndexAgrees
<1>3. Forgotten \subseteq Values
  BY DEF Forgotten
<1>4. /\ index' = [v \in Values |-> IF v \in Forgotten THEN None ELSE index[v]]
      /\ counts' = [v \in Values |-> IF v \in Forgotten THEN 0 ELSE counts[v]]
  BY DEF Reload
<1> HIDE DEF Forgotten
<1> QED
  BY <1>1, <1>2, <1>3, <1>4, ShrinkAgrees

(* The rebuilt index: no value is in two of the incidents that are left.    *)
LEMMA RestartAgrees ==
  ASSUME IInv, NEW c \in Configs, NEW d \in 0..Resolve, Restart(c, d)
  PROVE  /\ open' \subseteq open
         /\ entities' \in [Ids -> SUBSET Values]
         /\ \A i \in Ids : entities'[i] \subseteq IF i \in open' THEN entities[i] ELSE {}
         /\ IndexAgrees'
         /\ index' \in [Values -> open' \cup {None}]
         /\ counts' \in [Values -> Nat]
<1> DEFINE present == {i \in open : Aged(timer[i].idle, d, Resolve) < Resolve}
<1>1. /\ open' \subseteq open
      /\ entities' \in [Ids -> SUBSET Values]
      /\ \A i \in Ids : entities'[i] \subseteq entities[i]
      /\ \A i \in Ids \ open' : entities'[i] = {}
  <2>1. Trim(c, present) /\ present \subseteq open
    BY DEF Restart
  <2> HIDE DEF present
  <2> QED
    BY <2>1, TrimShrinks DEF IInv
<1>2. /\ index' = [v \in Values |-> IF \E i \in Ids : v \in entities'[i]
                                   THEN CHOOSE i \in Ids : v \in entities'[i] ELSE None]
      /\ counts' = [v \in Values |-> 0]
  BY DEF Restart
<1>3. None \notin Ids
  BY ConstantsAssumption
<1>4. \A v \in Values, i, j \in Ids : v \in entities'[i] /\ v \in entities'[j] => i = j
  <2>1. \A v \in Values, i \in Ids : v \in entities'[i] => index[v] = i
    BY <1>1 DEF IInv, IndexAgrees
  <2> QED
    BY <2>1
<1>5. ASSUME NEW v \in Values, NEW i \in Ids
      PROVE  index'[v] = i <=> v \in entities'[i]
  BY <1>2, <1>3, <1>4
<1>6. index' \in [Values -> open' \cup {None}]
  <2> SUFFICES ASSUME NEW v \in Values PROVE index'[v] \in open' \cup {None}
    BY <1>2
  <2>1. index'[v] \in Ids \cup {None}
    BY <1>2
  <2> QED
    BY <1>1, <1>5, <2>1
<1>7. counts' \in [Values -> Nat] /\ \A v \in Values : counts'[v] = 0
  BY <1>2
<1> QED
  BY <1>1, <1>5, <1>6, <1>7 DEF IndexAgrees

-----------------------------------------------------------------------------
(* The invariant. *)

LEMMA InitIInv == Init => IInv
  BY NewTimerType, ConstantsAssumption DEF Init, IInv, TypeOK, IndexAgrees

(* The outcome of assign_entity_graph when the result is accepted. *)
LEMMA AssignStep ==
  ASSUME IInv, NEW r \in Results, AssignEntityGraph(r)
  PROVE  \E i \in Ids, stored \in SUBSET Joinable(r) :
           /\ i \in Touched(Joinable(r))
                \/ (/\ Touched(Joinable(r)) = {} /\ i \notin open
                    /\ Cardinality(open) < cfg.maxOpen)
           /\ Merge(i, Joinable(r), stored)
           /\ Absorb(i, Touched(Joinable(r)))
           /\ counts' = [v \in Values |->
                IF v \in stored THEN (IF v \in Stale(Joinable(r)) THEN 0 ELSE counts[v]) + 1
                ELSE IF v \in Stale(Joinable(r)) THEN 0 ELSE counts[v]]
           /\ UNCHANGED <<cfg, restarts>>
<1> DEFINE W == Joinable(r)
<1> DEFINE S(i) == Stored(W, UNION {entities[k] : k \in Touched(W) \cup {i}})
<1>1. PICK i \in IF Touched(W) # {} THEN Touched(W)
                 ELSE IF Cardinality(open) < cfg.maxOpen THEN Surrogates \ open ELSE {} :
         /\ Merge(i, W, S(i))
         /\ Absorb(i, Touched(W))
         /\ counts' = [v \in Values |->
              IF v \in S(i) THEN (IF v \in Stale(W) THEN 0 ELSE counts[v]) + 1
              ELSE IF v \in Stale(W) THEN 0 ELSE counts[v]]
  BY DEF AssignEntityGraph
<1>2. S(i) \subseteq W
  BY DEF Stored
<1>3. Touched(W) \subseteq open /\ open \subseteq Ids /\ Surrogates \subseteq Ids
  BY DEF Touched, IInv, TypeOK, Ids
<1>4. UNCHANGED <<cfg, restarts>>
  BY DEF AssignEntityGraph
<1> HIDE DEF W, S
<1>5. i \in Ids /\ (i \in Touched(W) \/ (/\ Touched(W) = {} /\ i \notin open
                                        /\ Cardinality(open) < cfg.maxOpen))
  BY <1>1, <1>3
<1> QED
  BY <1>1, <1>2, <1>4, <1>5 DEF W

LEMMA AssignKeepsIInv ==
  ASSUME IInv, NEW r \in Results, AssignEntityGraph(r)
  PROVE  IInv'
<1> DEFINE W == Joinable(r)
<1>1. PICK i \in Ids, stored \in SUBSET W :
           /\ i \in Touched(W) \/ (Touched(W) = {} /\ i \notin open)
           /\ Merge(i, W, stored)
           /\ Absorb(i, Touched(W))
           /\ counts' = [v \in Values |->
                IF v \in stored THEN (IF v \in Stale(W) THEN 0 ELSE counts[v]) + 1
                ELSE IF v \in Stale(W) THEN 0 ELSE counts[v]]
           /\ UNCHANGED <<cfg, restarts>>
  BY AssignStep
<1>2. W \subseteq Values
  BY ConstantsAssumption DEF Joinable
<1> HIDE DEF W
<1>3. Stale(W) = {} /\ Touched(W) \subseteq open
  BY <1>2, TouchedIsSharing
<1>4. /\ open' = (open \ Touched(W)) \cup {i}
      /\ open' \subseteq Ids
      /\ timer' \in [Ids -> Timer]
      /\ owed' \subseteq open'
      /\ \A j \in Ids \ open' : timer'[j] = NewTimer
  BY <1>1, <1>3, AbsorbTypes DEF IInv
<1>5. /\ entities' \in [Ids -> SUBSET Values]
      /\ index' \in [Values -> open' \cup {None}]
      /\ \A v \in Values, j \in Ids : index'[v] = j <=> v \in entities'[j]
      /\ \A j \in Ids \ open' : entities'[j] = {}
      /\ \A v \in Values : index[v] # None \/ v \in stored => index'[v] # None
  BY <1>1, <1>2, <1>4, MergeAgrees
<1>6. counts' \in [Values -> Nat]
      /\ \A v \in Values : counts'[v] > 0 => counts[v] > 0 \/ v \in stored
  BY <1>1, <1>3 DEF IInv, TypeOK
<1>7. IndexAgrees'
  BY <1>5, <1>6 DEF IInv, IndexAgrees
<1>8. TypeOK'
  BY <1>1, <1>4, <1>5, <1>6 DEF IInv, TypeOK
<1> QED
  BY <1>7, <1>8 DEF IInv

LEMMA TickKeepsIInv == IInv /\ Tick => IInv'
<1> SUFFICES ASSUME IInv, Tick PROVE IInv'
  OBVIOUS
<1> DEFINE resolved == {i \in open : ResolveDue(i)}
<1>1. Evict(resolved) /\ resolved \subseteq open
  BY DEF Tick
<1>2. /\ timer' = [i \in Ids |->
           IF i \in resolved THEN NewTimer
           ELSE IF i \in open /\ (FirstDue(i) \/ UpdateDue(i))
             THEN [timer[i] EXCEPT !.opened = TRUE, !.dirty = FALSE, !.since = 0]
           ELSE IF i \in open /\ RepeatDue(i) THEN [timer[i] EXCEPT !.since = 0]
           ELSE timer[i]]
      /\ owed' = owed \ Due
      /\ UNCHANGED <<cfg, restarts>>
  BY DEF Tick
<1>3. resolved \subseteq Due
  BY DEF Due
<1> HIDE DEF resolved
<1>4. open' = open \ resolved
  BY <1>1 DEF Evict
<1>5. \A t \in Timer : /\ [t EXCEPT !.opened = TRUE, !.dirty = FALSE, !.since = 0] \in Timer
                       /\ [t EXCEPT !.since = 0] \in Timer
  <2>1. 0 \in 0..SinceCap
    BY ConstantsAssumption DEF SinceCap, Larger
  <2> QED
    BY <2>1 DEF Timer
<1>6. timer' \in [Ids -> Timer]
  BY <1>2, <1>5, NewTimerType DEF IInv, TypeOK
<1>7. \A i \in Ids \ open' : timer'[i] = NewTimer
  BY <1>2, <1>4 DEF IInv, TypeOK
<1>8. owed' \subseteq open'
  BY <1>2, <1>3, <1>4 DEF IInv, TypeOK
<1>9. /\ entities' \in [Ids -> SUBSET Values]
      /\ \A i \in Ids : entities'[i] \subseteq IF i \in open' THEN entities[i] ELSE {}
      /\ IndexAgrees'
      /\ index' \in [Values -> open' \cup {None}]
      /\ counts' \in [Values -> Nat]
  BY <1>1, EvictAgrees
<1>10. TypeOK'
  BY <1>2, <1>4, <1>6, <1>7, <1>8, <1>9 DEF IInv, TypeOK
<1> QED
  BY <1>9, <1>10 DEF IInv

LEMMA ReloadKeepsIInv ==
  ASSUME IInv, NEW c \in Configs, Reload(c)
  PROVE  IInv'
<1>1. /\ open' \subseteq open
      /\ entities' \in [Ids -> SUBSET Values]
      /\ \A i \in Ids : entities'[i] \subseteq IF i \in open' THEN entities[i] ELSE {}
      /\ IndexAgrees'
      /\ index' \in [Values -> open' \cup {None}]
      /\ counts' \in [Values -> Nat]
  BY ReloadAgrees
<1>2. /\ timer' = [i \in Ids |-> IF i \in open' THEN timer[i] ELSE NewTimer]
      /\ owed' = owed \cap open' /\ cfg' = c /\ UNCHANGED restarts
  BY DEF Reload
<1>3. timer' \in [Ids -> Timer] /\ \A i \in Ids \ open' : timer'[i] = NewTimer
  BY <1>2, NewTimerType DEF IInv, TypeOK
<1> QED
  BY <1>1, <1>2, <1>3 DEF IInv, TypeOK

LEMMA RestartKeepsIInv ==
  ASSUME IInv, NEW c \in Configs, NEW d \in 0..Resolve, Restart(c, d)
  PROVE  IInv'
<1>1. /\ open' \subseteq open
      /\ entities' \in [Ids -> SUBSET Values]
      /\ \A i \in Ids : entities'[i] \subseteq IF i \in open' THEN entities[i] ELSE {}
      /\ IndexAgrees'
      /\ index' \in [Values -> open' \cup {None}]
      /\ counts' \in [Values -> Nat]
  BY RestartAgrees
<1>2. /\ timer' = [i \in Ids |-> IF i \in open' THEN Older(timer[i], d) ELSE NewTimer]
      /\ owed' = owed \cap open' /\ cfg' = c
      /\ restarts < MaxRestarts /\ restarts' = restarts + 1
  BY DEF Restart
<1>3. timer' \in [Ids -> Timer] /\ \A i \in Ids \ open' : timer'[i] = NewTimer
  BY <1>2, NewTimerType, OlderType DEF IInv, TypeOK
<1>4. restarts' \in 0..MaxRestarts
  BY <1>2, ConstantsAssumption DEF IInv, TypeOK
<1> QED
  BY <1>1, <1>2, <1>3, <1>4 DEF IInv, TypeOK

LEMMA NextKeepsIInv == IInv /\ [Next]_vars => IInv'
<1> SUFFICES ASSUME IInv, [Next]_vars PROVE IInv'
  OBVIOUS
<1>1. CASE \E r \in Results : AssignEntityGraph(r)
  BY <1>1, AssignKeepsIInv
<1>2. ASSUME NEW r \in Results, Refuse(r) PROVE IInv'
  <2>1. Joinable(r) \subseteq Values
    BY ConstantsAssumption DEF Joinable
  <2>2. Stale(Joinable(r)) = {}
    BY <2>1, TouchedIsSharing
  <2>3. index' = index /\ counts' = counts
    BY <1>2, <2>2 DEF Refuse, IInv, TypeOK
  <2> QED
    BY <1>2, <2>3 DEF Refuse, IInv, TypeOK, IndexAgrees
<1>3. ASSUME NEW k \in Keys, AssignGroupBy(k) PROVE IInv'
  <2>1. k \in Ids /\ Absorb(k, {}) /\ UNCHANGED <<cfg, entities, index, counts, restarts>>
    BY <1>3 DEF AssignGroupBy, Ids
  <2>2. /\ open' = open \cup {k} /\ open' \subseteq Ids
        /\ timer' \in [Ids -> Timer] /\ owed' \subseteq open'
        /\ \A j \in Ids \ open' : timer'[j] = NewTimer
    BY <2>1, AbsorbTypes DEF IInv
  <2> QED
    BY <2>1, <2>2 DEF IInv, TypeOK, IndexAgrees
<1>4. CASE Tick
  BY <1>4, TickKeepsIInv
<1>5. CASE Advance
  <2>1. timer' = [i \in Ids |-> IF i \in open THEN Older(timer[i], 1) ELSE timer[i]]
    BY <1>5 DEF Advance
  <2>2. timer' \in [Ids -> Timer]
    BY <2>1, OlderType DEF IInv, TypeOK
  <2> QED
    BY <1>5, <2>1, <2>2 DEF Advance, graphVars, IInv, TypeOK, IndexAgrees
<1>6. CASE \E c \in Configs : Reload(c)
  BY <1>6, ReloadKeepsIInv
<1>7. CASE \E c \in Configs, d \in 0..Resolve : Restart(c, d)
  BY <1>7, RestartKeepsIInv
<1>8. CASE UNCHANGED vars
  BY <1>8 DEF vars, graphVars, IInv, TypeOK, IndexAgrees
<1> QED
  BY <1>1, <1>2, <1>3, <1>4, <1>5, <1>6, <1>7, <1>8 DEF Next

LEMMA Invariant == Spec => []IInv
  BY InitIInv, NextKeepsIInv, PTL DEF Spec

(* Types hold, and no index entry ever names a closed incident. *)
THEOREM TypeCorrect == Spec => []TypeOK
  BY Invariant, PTL DEF IInv

(* The entity index is the inverse of the incidents' value sets, so the     *)
(* branch of assign_entity_graph for stale entries is never taken.          *)
THEOREM IndexCorrect == Spec => []IndexAgrees
  BY Invariant, PTL DEF IInv

-----------------------------------------------------------------------------
(* The cap on open incidents. *)

LEMMA OpenIsFinite == TypeOK => IsFiniteSet(open) /\ cfg.maxOpen \in Nat
  BY ConstantsAssumption, FS_Subset DEF TypeOK, Config

(* A subset is no larger, and one more is at most one more. *)
LEMMA Sizes ==
  ASSUME NEW S, IsFiniteSet(S)
  PROVE  /\ Cardinality(S) \in Nat
         /\ \A T \in SUBSET S : Cardinality(T) \in Nat /\ Cardinality(T) <= Cardinality(S)
         /\ \A x : Cardinality(S \cup {x}) <= Cardinality(S) + 1
  BY FS_CardinalityType, FS_Subset, FS_AddElement

LEMMA TrimBounds ==
  ASSUME TypeOK, NEW c \in Configs, NEW present \in SUBSET open, Trim(c, present)
  PROVE  Cardinality(open') <= c.maxOpen
<1>1. PICK gone \in Excess(present, c.maxOpen) : open' = present \ gone
  BY DEF Trim
<1>2. Cardinality(present \ gone) = c.maxOpen
        \/ (gone = {} /\ Cardinality(present) <= c.maxOpen)
  BY <1>1 DEF Excess
<1>3. c.maxOpen \in Nat
  BY ConstantsAssumption DEF Config
<1>4. gone = {} => present \ gone = present
  OBVIOUS
<1> QED
  BY <1>1, <1>2, <1>3, <1>4

LEMMA CapStep == IInv /\ WithinMaxOpen /\ [Next]_vars => WithinMaxOpen'
<1> SUFFICES ASSUME IInv, WithinMaxOpen, [Next]_vars PROVE WithinMaxOpen'
  OBVIOUS
<1>1. IsFiniteSet(open) /\ cfg.maxOpen \in Nat
  BY OpenIsFinite DEF IInv
<1>2. ASSUME open' \subseteq open, cfg' = cfg PROVE WithinMaxOpen'
  BY <1>1, <1>2, Sizes DEF WithinMaxOpen
<1>3. ASSUME NEW r \in Results, AssignEntityGraph(r) PROVE WithinMaxOpen'
  <2> DEFINE T == Touched(Joinable(r))
  <2>1. PICK i \in Ids : /\ i \in T \/ (T = {} /\ Cardinality(open) < cfg.maxOpen)
                         /\ Absorb(i, T) /\ cfg' = cfg
    BY <1>3, AssignStep
  <2>2. open' = (open \ T) \cup {i} /\ T \subseteq open
    BY <2>1 DEF Absorb, Touched
  <2> HIDE DEF T
  <2>3. CASE i \in T
    BY <1>2, <2>1, <2>2, <2>3
  <2>4. CASE T = {} /\ Cardinality(open) < cfg.maxOpen
    <3>1. open' = open \cup {i}
      BY <2>2, <2>4
    <3>2. /\ Cardinality(open) \in Nat /\ Cardinality(open \cup {i}) <= Cardinality(open) + 1
          /\ Cardinality(open \cup {i}) \in Nat
      BY <1>1, Sizes, FS_AddElement, FS_CardinalityType
    <3> QED
      BY <1>1, <2>1, <2>4, <3>1, <3>2 DEF WithinMaxOpen
  <2> QED
    BY <2>1, <2>3, <2>4
<1>4. ASSUME NEW k \in Keys, AssignGroupBy(k) PROVE WithinMaxOpen'
  <2>1. /\ k \in open \/ Cardinality(open) < cfg.maxOpen
        /\ open' = open \cup {k} /\ cfg' = cfg
    BY <1>4 DEF AssignGroupBy, Absorb
  <2>2. CASE k \in open
    BY <1>2, <2>1, <2>2
  <2>3. CASE Cardinality(open) < cfg.maxOpen
    <3>1. /\ Cardinality(open) \in Nat /\ Cardinality(open \cup {k}) <= Cardinality(open) + 1
          /\ Cardinality(open \cup {k}) \in Nat
      BY <1>1, Sizes, FS_AddElement, FS_CardinalityType
    <3> QED
      BY <1>1, <2>1, <2>3, <3>1 DEF WithinMaxOpen
  <2> QED
    BY <2>1, <2>2, <2>3
<1>5. CASE Tick
  BY <1>2, <1>5 DEF Tick, Evict
<1>6. ASSUME NEW c \in Configs, Reload(c) PROVE WithinMaxOpen'
  <2>1. Trim(c, open) /\ cfg' = c
    BY <1>6 DEF Reload
  <2>2. Cardinality(open') <= c.maxOpen
    BY <2>1, TrimBounds DEF IInv
  <2> QED
    BY <2>1, <2>2 DEF WithinMaxOpen
<1>7. ASSUME NEW c \in Configs, NEW d \in 0..Resolve, Restart(c, d) PROVE WithinMaxOpen'
  <2> DEFINE present == {i \in open : Aged(timer[i].idle, d, Resolve) < Resolve}
  <2>1. Trim(c, present) /\ cfg' = c /\ present \subseteq open
    BY <1>7 DEF Restart
  <2> HIDE DEF present
  <2>2. Cardinality(open') <= c.maxOpen
    BY <2>1, TrimBounds DEF IInv
  <2> QED
    BY <2>1, <2>2 DEF WithinMaxOpen
<1>8. CASE (\E r \in Results : Refuse(r)) \/ Advance \/ UNCHANGED vars
  BY <1>8, <1>2 DEF Refuse, Advance, graphVars, vars
<1> QED
  BY <1>3, <1>4, <1>5, <1>6, <1>7, <1>8 DEF Next

(* max_open_incidents bounds the store at all times, merges, reloads that   *)
(* lower it and restores included.                                          *)
THEOREM CapHolds == Spec => []WithinMaxOpen
<1>1. Init => WithinMaxOpen
  <2> SUFFICES ASSUME Init PROVE WithinMaxOpen
    OBVIOUS
  <2>1. open = {} /\ cfg.maxOpen \in Nat
    BY ConstantsAssumption DEF Init, Config
  <2> QED
    BY <2>1, FS_EmptySet DEF WithinMaxOpen
<1> QED
  BY <1>1, CapStep, Invariant, PTL DEF Spec

-----------------------------------------------------------------------------
(* Refinement of IncidentGroups. *)

LEMMA AssignIsJoin ==
  ASSUME IInv, NEW r \in Results, AssignEntityGraph(r)
  PROVE  Groups!Next
<1> DEFINE W == Joinable(r)
<1>1. PICK i \in Ids, stored \in SUBSET W :
           /\ i \in Touched(W) \/ (Touched(W) = {} /\ i \notin open)
           /\ Merge(i, W, stored)
           /\ Absorb(i, Touched(W))
  BY AssignStep
<1>2. W \subseteq Values
  BY ConstantsAssumption DEF Joinable
<1> HIDE DEF W
<1>3. Touched(W) = Groups!Sharing(W) /\ Touched(W) \subseteq open
  BY <1>2, TouchedIsSharing DEF Groups!Sharing
<1>4. open' = (open \ Touched(W)) \cup {i}
  BY <1>1 DEF Absorb
<1> DEFINE T == Touched(W)
<1> DEFINE shared == UNION {entities[j] : j \in T}
<1>5. UNION {entities[k] : k \in T \cup {i}} = shared
  <2>1. i \notin T => entities[i] = {}
    BY <1>1 DEF IInv, TypeOK
  <2> QED
    BY <2>1
<1>6. entities' = [j \in Ids |-> IF j = i THEN shared \cup stored
                                ELSE IF j \in T THEN {} ELSE entities[j]]
  BY <1>1, <1>5 DEF Merge
<1>7. entities' \in [Ids -> SUBSET Values]
  BY <1>1, <1>2, <1>4, MergeAgrees
<1>8. T = Groups!Sharing(W) /\ open' = (open \ T) \cup {i}
  BY <1>3, <1>4
<1>9. i \in T \/ (T = {} /\ i \notin open)
  BY <1>1
<1>10. shared = Groups!Taken(W)
  BY <1>8 DEF Groups!Taken
<1> HIDE DEF T, shared
<1>11. Groups!Join(i, W)
  <2>1. IF Groups!Sharing(W) = {} THEN i \notin open ELSE i \in Groups!Sharing(W)
    BY <1>8, <1>9
  <2>2. open' = (open \ Groups!Sharing(W)) \cup {i}
    BY <1>8
  <2>3. shared \subseteq entities'[i] /\ entities'[i] \subseteq shared \cup W
    BY <1>6
  <2>4. \A j \in Ids \ {i} :
          entities'[j] = IF j \in Groups!Sharing(W) THEN {} ELSE entities[j]
    BY <1>6, <1>8
  <2> QED
    BY <1>7, <1>10, <2>1, <2>2, <2>3, <2>4 DEF Groups!Join
<1> QED
  BY <1>2, <1>11 DEF Groups!Next

LEMMA GroupsStep == IInv /\ [Next]_vars => [Groups!Next]_(Groups!vars)
<1> SUFFICES ASSUME IInv, [Next]_vars PROVE Groups!Next \/ UNCHANGED Groups!vars
  OBVIOUS
<1> USE DEF Groups!vars
<1>1. CASE \E r \in Results : AssignEntityGraph(r)
  BY <1>1, AssignIsJoin
<1>2. ASSUME NEW k \in Keys, AssignGroupBy(k) PROVE Groups!Next \/ UNCHANGED Groups!vars
  <2>1. k \in Ids /\ open' = open \cup {k} /\ UNCHANGED entities
    BY <1>2 DEF AssignGroupBy, Absorb, Ids
  <2>2. CASE k \in open
    BY <2>1, <2>2
  <2>3. CASE k \notin open
    <3>1. Groups!Sharing({}) = {}
      BY DEF Groups!Sharing
    <3>2. entities[k] = {} /\ entities \in [Ids -> SUBSET Values]
      BY <2>1, <2>3 DEF IInv, TypeOK
    <3>3. Groups!Taken({}) = {}
      BY <3>1 DEF Groups!Taken
    <3>4. Groups!Join(k, {})
      BY <2>1, <2>3, <3>1, <3>2, <3>3 DEF Groups!Join
    <3> QED
      BY <2>1, <3>4 DEF Groups!Next
  <2> QED
    BY <2>2, <2>3
<1>3. ASSUME open' \subseteq open, entities' \in [Ids -> SUBSET Values],
             \A i \in Ids : entities'[i] \subseteq IF i \in open' THEN entities[i] ELSE {}
      PROVE  Groups!Next
  BY <1>3 DEF Groups!Next, Groups!Shrink
<1>4. CASE Tick
  <2>1. PICK R \in SUBSET open : Evict(R)
    BY <1>4 DEF Tick
  <2> QED
    BY <1>3, <2>1, EvictAgrees
<1>5. CASE \E c \in Configs : Reload(c)
  BY <1>3, <1>5, ReloadAgrees
<1>6. CASE \E c \in Configs, d \in 0..Resolve : Restart(c, d)
  BY <1>3, <1>6, RestartAgrees
<1>7. CASE (\E r \in Results : Refuse(r)) \/ Advance \/ UNCHANGED vars
  BY <1>7 DEF Refuse, Advance, graphVars, vars
<1> QED
  BY <1>1, <1>2, <1>4, <1>5, <1>6, <1>7 DEF Next

(* The store implements grouping by a scan: incidents fuse exactly when a   *)
(* result shares a value with each of them.                                 *)
THEOREM Refinement == Spec => ImplementsGroups
<1>1. Init => Groups!Init
  BY DEF Init, Groups!Init
<1> QED
  BY <1>1, GroupsStep, Invariant, PTL DEF Spec, ImplementsGroups, Groups!Spec
=============================================================================
