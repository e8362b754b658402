---------------------------- MODULE AlertProofs ----------------------------
(***************************************************************************)
(* Proofs about AlertPipeline, for any results, rules, caps, timers and    *)
(* number of reloads and restarts.                                         *)
(*                                                                         *)
(* The sources are compared with the history `through` from both sides: a  *)
(* source is no younger than a result that caused it (Caused), and, for a  *)
(* rule that missed nothing, no older than any result it would look back   *)
(* to (Complete).                                                          *)
(***************************************************************************)
EXTENDS AlertPipeline, FiniteSetTheorems, TLAPS

(* One name is one rule, in all pipelines there may be. *)
OneNameOneRule ==
  \A c, d \in Configs : \A n \in Names(c) \cap Names(d) : c.rules[n] = d.rules[n]

Alert == [idle : 0..Resolve, since : 0..Repeat, ahead : BOOLEAN]
SilenceTime == [wait : 0..MaxLife, left : 0..MaxLife]

-----------------------------------------------------------------------------
(* Configurations and ages. *)

LEMMA Bounds == Repeat \in Nat /\ Resolve \in Nat /\ Forever \in Nat /\ MaxLife \in Nat
  BY ConstantsAssumption

LEMMA RuleType ==
  ASSUME NEW c \in Configs, NEW n \in Names(c)
  PROVE  /\ n \in Rules
         /\ c.rules[n].source \subseteq Results
         /\ c.rules[n].duration \in Nat /\ c.rules[n].duration <= Forever
         /\ \A r \in Results : SourceKey(c, n, r) \in SourceKeys
<1>1. n \in Rules /\ c.rules[n] \in InhibitRule /\ c.rules[n].duration <= Forever
  BY ConstantsAssumption
<1>2. /\ c.rules[n].source \subseteq Results
      /\ c.rules[n].duration \in Nat
      /\ c.rules[n].key \in [Results -> EqualKeys]
  BY <1>1 DEF InhibitRule
<1> QED
  BY <1>1, <1>2 DEF SourceKey, SourceKeys

LEMMA SourceAges ==
  ASSUME NEW d \in Nat
  PROVE  /\ \A x \in 0..Forever : OlderSource(x, d) \in 0..Forever /\ x <= OlderSource(x, d)
         /\ \A x, y \in 0..Forever : x <= y => OlderSource(x, d) <= OlderSource(y, d)
  BY Bounds DEF OlderSource, Smaller

LEMMA AlertAges ==
  ASSUME NEW a \in Alert, NEW d \in Nat
  PROVE  OlderAlert(a, d) \in Alert
<1>1. \A x \in 0..Resolve, y \in 0..Repeat :
        [a EXCEPT !.idle = x, !.since = y] \in Alert
  BY DEF Alert
<1>2. a.idle \in 0..Resolve /\ a.since \in 0..Repeat
  BY DEF Alert
<1>3. Smaller(a.idle + d, Resolve) \in 0..Resolve /\ Smaller(a.since + d, Repeat) \in 0..Repeat
  BY <1>2, Bounds DEF Smaller
<1> QED
  BY <1>1, <1>3 DEF OlderAlert

LEMMA SilenceAges ==
  ASSUME NEW s \in SilenceTime, NEW d \in Nat
  PROVE  OlderSilence(s, d) \in SilenceTime
  BY Bounds DEF OlderSilence, SilenceTime, Minus

LEMMA OpeningType == Opening \in Alert
  BY Bounds DEF Opening, Alert

LEMMA AlertChanges ==
  ASSUME NEW a \in Alert
  PROVE  /\ [a EXCEPT !.idle = 0, !.ahead = TRUE] \in Alert
         /\ [a EXCEPT !.since = 0, !.ahead = FALSE] \in Alert
<1>1. \A x \in 0..Resolve, b \in BOOLEAN : [a EXCEPT !.idle = x, !.ahead = b] \in Alert
  BY DEF Alert
<1>2. \A x \in 0..Repeat, b \in BOOLEAN : [a EXCEPT !.since = x, !.ahead = b] \in Alert
  BY DEF Alert
<1>3. 0 \in 0..Resolve /\ 0 \in 0..Repeat
  BY Bounds
<1> QED
  BY <1>1, <1>2, <1>3

(* The stores are finite. *)
LEMMA Finite ==
  ASSUME TypeOK
  PROVE  IsFiniteSet(DOMAIN alerts) /\ IsFiniteSet(DOMAIN sources)
  BY ConstantsAssumption, FS_Subset DEF TypeOK

(* What a cap leaves of a store. *)
LEMMA TrimmedStore ==
  ASSUME NEW store, IsFiniteSet(DOMAIN store), NEW max \in Nat, NEW age,
         NEW t \in Trimmed(store, max, age)
  PROVE  /\ DOMAIN t \subseteq DOMAIN store
         /\ \A k \in DOMAIN t : t[k] = store[k]
         /\ Cardinality(DOMAIN t) <= max
<1>1. PICK S \in SUBSET DOMAIN store :
        /\ Cardinality(S) = Smaller(Cardinality(DOMAIN store), max)
        /\ t = [k \in S |-> store[k]]
  BY DEF Trimmed
<1>2. Cardinality(DOMAIN store) \in Nat
  BY FS_CardinalityType
<1> QED
  BY <1>1, <1>2 DEF Smaller

-----------------------------------------------------------------------------
(* The sources after each of the steps that change them. *)

Keys(r) ==
  {SourceKey(pipeline, n, r) : n \in {m \in Names(pipeline) : r \in pipeline.rules[m].source}}

LEMMA RecordEffect ==
  ASSUME TypeOK, NEW r \in Results, Record(r)
  PROVE  /\ DOMAIN sources \subseteq DOMAIN sources'
         /\ DOMAIN sources' \subseteq SourceKeys
         /\ \A k \in DOMAIN sources' :
              IF k \in Keys(r) THEN sources'[k] = 0
              ELSE k \in DOMAIN sources /\ sources'[k] = sources[k]
         /\ through' = [through EXCEPT ![r] = 0]
         /\ missed \subseteq missed' /\ missed' \subseteq Rules
         /\ \A k \in Keys(r) : k \in DOMAIN sources' \/ k[1] \in missed'
         /\ \/ Keys(r) = {} /\ DOMAIN sources' = DOMAIN sources
            \/ Cardinality(DOMAIN sources) <= pipeline.maxSources
                 => Cardinality(DOMAIN sources') <= pipeline.maxSources
<1> DEFINE new == Keys(r) \ DOMAIN sources
           room == Minus(pipeline.maxSources, Cardinality(DOMAIN sources))
<1>1. PICK refused \in SUBSET new :
        /\ Cardinality(new \ refused) = Smaller(Cardinality(new), room)
        /\ sources' = [k \in DOMAIN sources \cup (new \ refused) |->
                         IF k \in Keys(r) THEN 0 ELSE sources[k]]
        /\ through' = [through EXCEPT ![r] = 0]
        /\ missed' = missed \cup {k[1] : k \in refused}
  BY DEF Record, Keys
<1>2. Keys(r) \subseteq SourceKeys
  BY RuleType DEF Keys, TypeOK
<1>3. \A k \in SourceKeys : k[1] \in Rules
  BY DEF SourceKeys
<1>4. DOMAIN sources' = DOMAIN sources \cup (new \ refused)
  BY <1>1
<1>5. missed' \subseteq Rules
  BY <1>1, <1>2, <1>3 DEF TypeOK
<1>6. IsFiniteSet(DOMAIN sources) /\ IsFiniteSet(new) /\ IsFiniteSet(new \ refused)
  <2>1. IsFiniteSet(Keys(r))
    BY <1>2, ConstantsAssumption, FS_Subset
  <2> QED
    BY <2>1, Finite, FS_Subset
<1>7. ASSUME Cardinality(DOMAIN sources) <= pipeline.maxSources
      PROVE  Cardinality(DOMAIN sources') <= pipeline.maxSources
  <2>1. /\ Cardinality(DOMAIN sources) \in Nat /\ Cardinality(new) \in Nat
        /\ Cardinality(new \ refused) \in Nat
        /\ pipeline.maxSources \in Nat
    BY <1>6, FS_CardinalityType, ConstantsAssumption DEF TypeOK
  <2>2. DOMAIN sources \cap (new \ refused) = {}
    OBVIOUS
  <2>3. Cardinality(DOMAIN sources') = Cardinality(DOMAIN sources) + Cardinality(new \ refused)
    <3>1. Cardinality(DOMAIN sources \cap (new \ refused)) = 0
      BY <2>2, FS_EmptySet
    <3>2. \A S, T : IsFiniteSet(S) /\ IsFiniteSet(T) =>
            Cardinality(S \cup T) = Cardinality(S) + Cardinality(T) - Cardinality(S \cap T)
      BY FS_Union
    <3>3. Cardinality(DOMAIN sources') =
            Cardinality(DOMAIN sources) + Cardinality(new \ refused)
              - Cardinality(DOMAIN sources \cap (new \ refused))
      BY <1>4, <1>6, <3>2
    <3> QED
      BY <2>1, <3>1, <3>3
  <2>4. Cardinality(new \ refused) <= pipeline.maxSources - Cardinality(DOMAIN sources)
    BY <1>1, <1>7, <2>1 DEF Smaller, Minus
  <2> QED
    BY <2>1, <2>3, <2>4
<1>8. \A k \in Keys(r) : k \in DOMAIN sources' \/ k[1] \in missed'
  BY <1>1, <1>4
<1> QED
  BY <1>1, <1>2, <1>4, <1>5, <1>7, <1>8 DEF TypeOK

LEMMA CapsEffect ==
  ASSUME TypeOK, NEW c \in Configs,
         NEW found, IsFiniteSet(DOMAIN found),
         NEW active, IsFiniteSet(DOMAIN active), DOMAIN active \subseteq SourceKeys,
         EnforceCaps(c, found, active)
  PROVE  /\ DOMAIN alerts' \subseteq DOMAIN found
         /\ \A f \in DOMAIN alerts' : alerts'[f] = found[f]
         /\ DOMAIN sources' \subseteq DOMAIN active
         /\ \A k \in DOMAIN sources' : sources'[k] = active[k]
         /\ missed \subseteq missed' /\ missed' \subseteq Rules
         /\ \A n \in Rules \ missed' : n \in Names(c) \cap Names(pipeline)
         /\ \A k \in DOMAIN active : k \in DOMAIN sources' \/ k[1] \in missed'
         /\ c.dedup => Cardinality(DOMAIN alerts') <= c.maxAlerts
         /\ Names(c) # {} => Cardinality(DOMAIN sources') <= c.maxSources
<1> DEFINE idle == [f \in DOMAIN found |-> found[f].idle]
<1>1. c.maxAlerts \in Nat /\ c.maxSources \in Nat /\ c.dedup \in BOOLEAN
  BY ConstantsAssumption
<1>2. /\ alerts' \in IF c.dedup THEN Trimmed(found, c.maxAlerts, idle) ELSE {found}
      /\ sources' \in IF Names(c) = {} THEN {active} ELSE Trimmed(active, c.maxSources, active)
      /\ missed' = missed \cup {n \in Rules : n \notin Names(c) \/ n \notin Names(pipeline)
                                            \/ c.rules[n] # pipeline.rules[n]}
                          \cup {k[1] : k \in DOMAIN active \ DOMAIN sources'}
  BY DEF EnforceCaps
<1> HIDE DEF idle
<1>3. /\ DOMAIN alerts' \subseteq DOMAIN found
      /\ \A f \in DOMAIN alerts' : alerts'[f] = found[f]
      /\ c.dedup => Cardinality(DOMAIN alerts') <= c.maxAlerts
  <2>1. CASE c.dedup
    BY <1>1, <1>2, <2>1, TrimmedStore
  <2>2. CASE ~c.dedup
    BY <1>2, <2>2
  <2> QED
    BY <2>1, <2>2
<1>4. /\ DOMAIN sources' \subseteq DOMAIN active
      /\ \A k \in DOMAIN sources' : sources'[k] = active[k]
      /\ Names(c) # {} => Cardinality(DOMAIN sources') <= c.maxSources
  <2>1. CASE Names(c) = {}
    BY <1>2, <2>1
  <2>2. CASE Names(c) # {}
    BY <1>1, <1>2, <2>2, TrimmedStore
  <2> QED
    BY <2>1, <2>2
<1>5. missed' \subseteq Rules
  <2>1. \A k \in SourceKeys : k[1] \in Rules
    BY DEF SourceKeys
  <2> QED
    BY <1>2, <2>1 DEF TypeOK
<1>6. \A n \in Rules \ missed' : n \in Names(c) \cap Names(pipeline)
  BY <1>2
<1>7. \A k \in DOMAIN active : k \in DOMAIN sources' \/ k[1] \in missed'
  BY <1>2
<1> QED
  BY <1>2, <1>3, <1>4, <1>5, <1>6, <1>7

LEMMA ReloadEffect ==
  ASSUME TypeOK, NEW c \in Configs, Reload(c)
  PROVE  /\ pipeline' = c /\ static' = c.static
         /\ UNCHANGED <<loaded, api, creating, through>>
         /\ DOMAIN alerts' \subseteq DOMAIN alerts
         /\ \A f \in DOMAIN alerts' : alerts'[f] = alerts[f]
         /\ DOMAIN sources' \subseteq DOMAIN sources
         /\ \A k \in DOMAIN sources' : sources'[k] = sources[k]
         /\ missed \subseteq missed' /\ missed' \subseteq Rules
         /\ \A n \in Rules \ missed' : n \in Names(c) \cap Names(pipeline)
         /\ \A k \in DOMAIN sources : k \in DOMAIN sources' \/ k[1] \in missed'
         /\ c.dedup => Cardinality(DOMAIN alerts') <= c.maxAlerts
         /\ Names(c) # {} => Cardinality(DOMAIN sources') <= c.maxSources
<1>1. EnforceCaps(c, alerts, sources)
  BY DEF Reload
<1>2. DOMAIN sources \subseteq SourceKeys
  BY DEF TypeOK
<1>3. /\ pipeline' = c /\ static' = c.static
      /\ UNCHANGED <<loaded, api, creating, through>>
  BY DEF Reload
<1> QED
  BY <1>1, <1>2, <1>3, Finite, CapsEffect

LEMMA RestartEffect ==
  ASSUME TypeOK, NEW c \in Configs, NEW d \in 0..Resolve, Restart(c, d)
  PROVE  /\ pipeline' = c /\ static' = c.static /\ loaded' = None /\ creating' = None
         /\ DOMAIN api' \subseteq DOMAIN api
         /\ \A s \in DOMAIN api' : api'[s] = OlderSilence(api[s], d)
         /\ through' = [r \in Results |-> OlderSource(through[r], d)]
         /\ DOMAIN alerts' \subseteq DOMAIN alerts
         /\ \A f \in DOMAIN alerts' : alerts'[f] = OlderAlert(alerts[f], d)
         /\ DOMAIN sources' \subseteq DOMAIN sources
         /\ \A k \in DOMAIN sources' : sources'[k] = OlderSource(sources[k], d)
         /\ missed \subseteq missed' /\ missed' \subseteq Rules
         /\ \A n \in Rules \ missed' : n \in Names(c) \cap Names(pipeline)
         /\ \A k \in DOMAIN sources :
              LiveSource(c, OlderSource(sources[k], d), k)
                => k \in DOMAIN sources' \/ k[1] \in missed'
         /\ c.dedup => Cardinality(DOMAIN alerts') <= c.maxAlerts
         /\ Names(c) # {} => Cardinality(DOMAIN sources') <= c.maxSources
<1> DEFINE oldAlerts == [f \in DOMAIN alerts |-> OlderAlert(alerts[f], d)]
           oldSources == [k \in DOMAIN sources |-> OlderSource(sources[k], d)]
           oldSilences == [s \in DOMAIN api |-> OlderSilence(api[s], d)]
           stay == {f \in DOMAIN alerts : c.dedup /\ oldAlerts[f].idle < Resolve}
           live == {k \in DOMAIN sources : LiveSource(c, oldSources[k], k)}
           found == [f \in stay |-> oldAlerts[f]]
           active == [k \in live |-> oldSources[k]]
<1>1. /\ pipeline' = c /\ static' = c.static /\ loaded' = None /\ creating' = None
      /\ api' = [s \in {i \in DOMAIN api : oldSilences[i].left > 0} |-> oldSilences[s]]
      /\ through' = [r \in Results |-> OlderSource(through[r], d)]
      /\ EnforceCaps(c, found, active)
  BY DEF Restart
<1>2. /\ DOMAIN found \subseteq DOMAIN alerts
      /\ \A f \in DOMAIN found : found[f] = OlderAlert(alerts[f], d)
  OBVIOUS
<1>3. /\ DOMAIN active \subseteq DOMAIN sources
      /\ \A k \in DOMAIN active : active[k] = OlderSource(sources[k], d)
      /\ \A k \in DOMAIN sources :
           LiveSource(c, OlderSource(sources[k], d), k) => k \in DOMAIN active
  OBVIOUS
<1>4. /\ DOMAIN api' \subseteq DOMAIN api
      /\ \A s \in DOMAIN api' : api'[s] = OlderSilence(api[s], d)
  BY <1>1
<1> HIDE DEF found, active
<1>5. /\ IsFiniteSet(DOMAIN found) /\ IsFiniteSet(DOMAIN active)
      /\ DOMAIN active \subseteq SourceKeys
  BY <1>2, <1>3, Finite, FS_Subset DEF TypeOK
<1>6. /\ DOMAIN alerts' \subseteq DOMAIN found
      /\ \A f \in DOMAIN alerts' : alerts'[f] = found[f]
      /\ DOMAIN sources' \subseteq DOMAIN active
      /\ \A k \in DOMAIN sources' : sources'[k] = active[k]
      /\ missed \subseteq missed' /\ missed' \subseteq Rules
      /\ \A n \in Rules \ missed' : n \in Names(c) \cap Names(pipeline)
      /\ \A k \in DOMAIN active : k \in DOMAIN sources' \/ k[1] \in missed'
      /\ c.dedup => Cardinality(DOMAIN alerts') <= c.maxAlerts
      /\ Names(c) # {} => Cardinality(DOMAIN sources') <= c.maxSources
  BY <1>1, <1>5, CapsEffect
<1> QED
  BY <1>1, <1>2, <1>3, <1>4, <1>6

-----------------------------------------------------------------------------
(* Types. *)

AlertsType == DOMAIN alerts \subseteq Alerts /\ \A f \in DOMAIN alerts : alerts[f] \in Alert
SourcesType ==
  DOMAIN sources \subseteq SourceKeys /\ \A k \in DOMAIN sources : sources[k] \in 0..Forever
ApiType == DOMAIN api \subseteq Silences /\ \A s \in DOMAIN api : api[s] \in SilenceTime

LEMMA InitType == Init => TypeOK
<1> SUFFICES ASSUME Init PROVE TypeOK
  OBVIOUS
<1>1. DOMAIN alerts = {} /\ DOMAIN sources = {} /\ DOMAIN api = {}
  BY DEF Init
<1> QED
  BY <1>1, ConstantsAssumption DEF Init, TypeOK

LEMMA EmitType ==
  ASSUME TypeOK, NEW r \in Results, Emit(r)
  PROVE  AlertsType'
<1> DEFINE f == FingerprintOf[r]
<1>1. alerts' = IF Opens(f)
                THEN [g \in DOMAIN alerts \cup {f} |-> IF g = f THEN Opening ELSE alerts[g]]
                ELSE alerts
  BY DEF Emit
<1>2. f \in Alerts
  BY ConstantsAssumption
<1> QED
  BY <1>1, <1>2, OpeningType DEF TypeOK, AlertsType, Alert

LEMMA FoldType ==
  ASSUME TypeOK, NEW r \in Results, Fold(r)
  PROVE  AlertsType' /\ DOMAIN alerts' = DOMAIN alerts
<1> DEFINE f == FingerprintOf[r]
<1>1. f \in DOMAIN alerts /\ alerts' = [alerts EXCEPT ![f].idle = 0, ![f].ahead = TRUE]
  BY DEF Fold
<1> DEFINE seen == [alerts[f] EXCEPT !.idle = 0, !.ahead = TRUE]
<1>2. AlertsType
  BY DEF TypeOK, AlertsType, Alert
<1>3. seen \in Alert
  BY <1>1, <1>2, AlertChanges DEF AlertsType
<1>4. alerts' = [g \in DOMAIN alerts |-> IF g = f THEN seen ELSE alerts[g]]
  BY <1>1
<1> HIDE DEF seen
<1> QED
  BY <1>2, <1>3, <1>4 DEF AlertsType

LEMMA TickType ==
  ASSUME TypeOK, Tick
  PROVE  AlertsType' /\ DOMAIN alerts' \subseteq DOMAIN alerts
<1>1. alerts' = TickAlerts(loaded)
  BY DEF Tick
<1> DEFINE repeated(f) == [alerts[f] EXCEPT !.since = 0, !.ahead = FALSE]
<1>2. AlertsType
  BY DEF TypeOK, AlertsType, Alert
<1>3. \A f \in DOMAIN alerts : repeated(f) \in Alert
  BY <1>2, AlertChanges DEF AlertsType
<1>4. \/ alerts' = alerts
      \/ alerts' = [f \in {g \in DOMAIN alerts : ~ResolveDue(alerts[g])} |->
                      IF RepeatDue(alerts[f]) THEN repeated(f) ELSE alerts[f]]
  BY <1>1 DEF TickAlerts
<1> HIDE DEF repeated
<1> QED
  BY <1>2, <1>3, <1>4 DEF AlertsType

LEMMA FinishCreateType ==
  ASSUME TypeOK, NEW s \in Silences, NEW left \in 1..MaxLife, NEW wait \in 0..left - 1,
         FinishCreate(s, wait, left)
  PROVE  ApiType'
<1>1. [wait |-> wait, left |-> left] \in SilenceTime
  BY Bounds DEF SilenceTime
<1>2. \/ api' = api
      \/ api' = [i \in DOMAIN api \cup {s} |->
                   IF i = s THEN [wait |-> wait, left |-> left] ELSE api[i]]
  BY DEF FinishCreate
<1> QED
  BY <1>1, <1>2 DEF TypeOK, ApiType, SilenceTime

(* What TypeOK says, store by store. *)
Parts ==
  /\ pipeline \in Configs /\ loaded \in Configs \cup {None}
  /\ AlertsType /\ SourcesType /\ ApiType
  /\ static \subseteq pipeline.static
  /\ creating \in Nat \cup {None}
  /\ through \in [Results -> 0..Forever]
  /\ missed \subseteq Rules

LEMMA TypeParts == (TypeOK => Parts) /\ (Parts' => TypeOK')
  BY DEF TypeOK, Parts, AlertsType, SourcesType, ApiType, Alert, SilenceTime

LEMMA RecordType ==
  ASSUME TypeOK, NEW r \in Results, Record(r)
  PROVE  SourcesType' /\ through' \in [Results -> 0..Forever] /\ missed' \subseteq Rules
<1>1. 0 \in 0..Forever
  BY Bounds
<1>2. through' \in [Results -> 0..Forever]
  BY <1>1, RecordEffect DEF TypeOK
<1>3. SourcesType'
  BY <1>1, RecordEffect DEF TypeOK, SourcesType
<1> QED
  BY <1>2, <1>3, RecordEffect

LEMMA TypeStep ==
  ASSUME TypeOK, [Next]_vars
  PROVE  TypeOK'
<1>0. Parts
  BY TypeParts
<1> SUFFICES Parts'
  BY TypeParts
<1> USE DEF Parts
<1>1. CASE Load
  BY <1>0, <1>1 DEF Load, stores, AlertsType, SourcesType, ApiType
<1>2. ASSUME NEW r \in Results, Inhibit(r) PROVE Parts'
  BY <1>0, <1>2 DEF Inhibit, stores, AlertsType, SourcesType, ApiType
<1>3. ASSUME NEW r \in Results, Silence(r) PROVE Parts'
  <2>1. SourcesType' /\ through' \in [Results -> 0..Forever] /\ missed' \subseteq Rules
    BY <1>3, RecordType DEF Silence
  <2> QED
    BY <1>0, <1>3, <2>1 DEF Silence, AlertsType, ApiType
<1>4. ASSUME NEW r \in Results, Fold(r) PROVE Parts'
  <2>1. SourcesType' /\ through' \in [Results -> 0..Forever] /\ missed' \subseteq Rules
    BY <1>4, RecordType DEF Fold
  <2>2. AlertsType'
    BY <1>4, FoldType
  <2> QED
    BY <1>0, <1>4, <2>1, <2>2 DEF Fold, ApiType
<1>5. ASSUME NEW r \in Results, Emit(r) PROVE Parts'
  <2>1. SourcesType' /\ through' \in [Results -> 0..Forever] /\ missed' \subseteq Rules
    BY <1>5, RecordType DEF Emit
  <2>2. AlertsType'
    BY <1>5, EmitType
  <2> QED
    BY <1>0, <1>5, <2>1, <2>2 DEF Emit, ApiType
<1>6. CASE Tick
  <2>1. AlertsType'
    BY <1>6, TickType
  <2>2. SourcesType' /\ ApiType'
    BY <1>0, <1>6 DEF Tick, SourcesType, ApiType
  <2> QED
    BY <1>0, <1>6, <2>1, <2>2 DEF Tick
<1>7. CASE Advance
  <2>1. AlertsType'
    BY <1>0, <1>7, AlertAges DEF Advance, AlertsType
  <2>2. SourcesType' /\ through' \in [Results -> 0..Forever]
    BY <1>0, <1>7, SourceAges DEF Advance, SourcesType
  <2>3. ApiType'
    BY <1>0, <1>7, SilenceAges DEF Advance, ApiType
  <2> QED
    BY <1>0, <1>7, <2>1, <2>2, <2>3 DEF Advance
<1>8. CASE StartCreate
  <2>1. pipeline.maxSilences \in Nat
    BY <1>0, ConstantsAssumption
  <2> QED
    BY <1>0, <1>8, <2>1 DEF StartCreate, stores, AlertsType, SourcesType, ApiType
<1>9. ASSUME NEW s \in Silences, NEW left \in 1..MaxLife, NEW wait \in 0..left - 1,
             FinishCreate(s, wait, left)
      PROVE  Parts'
  <2>1. ApiType'
    BY <1>9, FinishCreateType
  <2> QED
    BY <1>0, <1>9, <2>1 DEF FinishCreate, AlertsType, SourcesType
<1>10. ASSUME NEW s \in Silences, Delete(s) PROVE Parts'
  BY <1>0, <1>10 DEF Delete, AlertsType, SourcesType, ApiType
<1>11. ASSUME NEW c \in Configs, Reload(c) PROVE Parts'
  <2>1. AlertsType' /\ SourcesType' /\ missed' \subseteq Rules
    BY <1>0, <1>11, ReloadEffect DEF AlertsType, SourcesType
  <2> QED
    BY <1>0, <1>11, <2>1, ReloadEffect DEF ApiType
<1>12. ASSUME NEW c \in Configs, NEW d \in 0..Resolve, Restart(c, d) PROVE Parts'
  <2>1. d \in Nat
    BY Bounds
  <2>2. AlertsType'
    BY <1>0, <1>12, <2>1, RestartEffect, AlertAges DEF AlertsType
  <2>3. SourcesType' /\ through' \in [Results -> 0..Forever]
    <3>1. \A x \in 0..Forever : OlderSource(x, d) \in 0..Forever
      BY <2>1, SourceAges
    <3>2. /\ through' = [r \in Results |-> OlderSource(through[r], d)]
          /\ DOMAIN sources' \subseteq DOMAIN sources
          /\ \A k \in DOMAIN sources' : sources'[k] = OlderSource(sources[k], d)
      BY <1>12, RestartEffect
    <3> QED
      BY <1>0, <3>1, <3>2 DEF SourcesType
  <2>4. ApiType'
    BY <1>0, <1>12, <2>1, RestartEffect, SilenceAges DEF ApiType
  <2> QED
    BY <1>12, <2>2, <2>3, <2>4, RestartEffect
<1>13. CASE UNCHANGED vars
  BY <1>0, <1>13 DEF vars, stores, AlertsType, SourcesType, ApiType
<1> QED
  BY <1>1, <1>2, <1>3, <1>4, <1>5, <1>6, <1>7, <1>8, <1>9, <1>10, <1>11, <1>12, <1>13 DEF Next

(* The types of the stores, for any pipelines, caps and restarts. *)
THEOREM TypeCorrect == Spec => []TypeOK
  BY InitType, TypeStep, PTL DEF Spec

-----------------------------------------------------------------------------
(* Caps. *)

LEMMA CapsRecord ==
  ASSUME TypeOK, WithinCaps, NEW r \in Results, Record(r), pipeline' = pipeline
  PROVE  Names(pipeline') # {} => Cardinality(DOMAIN sources') <= pipeline'.maxSources
  BY RecordEffect DEF WithinCaps

LEMMA CapsEmit ==
  ASSUME TypeOK, WithinCaps, NEW r \in Results, Emit(r)
  PROVE  pipeline.dedup => Cardinality(DOMAIN alerts') <= pipeline.maxAlerts
<1> DEFINE f == FingerprintOf[r]
<1>1. alerts' = IF Opens(f)
                THEN [g \in DOMAIN alerts \cup {f} |-> IF g = f THEN Opening ELSE alerts[g]]
                ELSE alerts
  BY DEF Emit
<1>2. CASE Opens(f)
  <2>1. f \notin DOMAIN alerts /\ Cardinality(DOMAIN alerts) < pipeline.maxAlerts
    BY <1>2 DEF Opens
  <2>2. DOMAIN alerts' = DOMAIN alerts \cup {f}
    BY <1>1, <1>2
  <2>3. Cardinality(DOMAIN alerts') = Cardinality(DOMAIN alerts) + 1
    BY <2>1, <2>2, Finite, FS_AddElement
  <2>4. Cardinality(DOMAIN alerts) \in Nat /\ pipeline.maxAlerts \in Nat
    BY Finite, FS_CardinalityType, ConstantsAssumption DEF TypeOK
  <2> QED
    BY <2>1, <2>3, <2>4
<1>3. CASE ~Opens(f)
  BY <1>1, <1>3 DEF WithinCaps
<1> QED
  BY <1>2, <1>3

(* Stores that shrink stay within the caps of the same pipeline. *)
LEMMA CapsShrink ==
  ASSUME TypeOK, WithinCaps, pipeline' = pipeline,
         DOMAIN alerts' \subseteq DOMAIN alerts, DOMAIN sources' \subseteq DOMAIN sources
  PROVE  WithinCaps'
<1>1. /\ Cardinality(DOMAIN alerts') \in Nat /\ Cardinality(DOMAIN alerts) \in Nat
      /\ Cardinality(DOMAIN alerts') <= Cardinality(DOMAIN alerts)
  BY Finite, FS_Subset, FS_CardinalityType
<1>2. /\ Cardinality(DOMAIN sources') \in Nat /\ Cardinality(DOMAIN sources) \in Nat
      /\ Cardinality(DOMAIN sources') <= Cardinality(DOMAIN sources)
  BY Finite, FS_Subset, FS_CardinalityType
<1>3. pipeline.maxAlerts \in Nat /\ pipeline.maxSources \in Nat
  BY ConstantsAssumption DEF TypeOK
<1> QED
  BY <1>1, <1>2, <1>3 DEF WithinCaps

LEMMA CapsStep ==
  ASSUME TypeOK, WithinCaps, [Next]_vars
  PROVE  WithinCaps'
<1>1. ASSUME \/ Load \/ StartCreate \/ UNCHANGED vars
             \/ \E r \in Results : Inhibit(r)
             \/ \E s \in Silences : Delete(s)
             \/ \E s \in Silences, left \in 1..MaxLife :
                  \E wait \in 0..left - 1 : FinishCreate(s, wait, left)
      PROVE  WithinCaps'
  BY <1>1 DEF Load, StartCreate, Inhibit, Delete, FinishCreate, vars, stores, WithinCaps
<1>2. ASSUME NEW r \in Results, Silence(r) PROVE WithinCaps'
  BY <1>2, CapsRecord DEF Silence, WithinCaps
<1>3. ASSUME NEW r \in Results, Fold(r) PROVE WithinCaps'
  BY <1>3, CapsRecord, FoldType DEF Fold, WithinCaps
<1>4. ASSUME NEW r \in Results, Emit(r) PROVE WithinCaps'
  BY <1>4, CapsRecord, CapsEmit DEF Emit, WithinCaps
<1>5. CASE Tick
  <2>1. pipeline' = pipeline /\ DOMAIN sources' \subseteq DOMAIN sources
    BY <1>5 DEF Tick
  <2> QED
    BY <1>5, <2>1, TickType, CapsShrink
<1>6. CASE Advance
  BY <1>6, CapsShrink DEF Advance
<1>7. ASSUME NEW c \in Configs, Reload(c) PROVE WithinCaps'
  BY <1>7, ReloadEffect DEF WithinCaps
<1>8. ASSUME NEW c \in Configs, NEW d \in 0..Resolve, Restart(c, d) PROVE WithinCaps'
  BY <1>8, RestartEffect DEF WithinCaps
<1> QED
  BY <1>1, <1>2, <1>3, <1>4, <1>5, <1>6, <1>7, <1>8 DEF Next

(* The caps of the pipeline in force hold, also when it is replaced while a *)
(* batch or a tick that took the one before waits for the lock.             *)
THEOREM CapsHold == Spec => []WithinCaps
<1>1. Init => WithinCaps
  <2> SUFFICES ASSUME Init PROVE WithinCaps
    OBVIOUS
  <2>1. DOMAIN alerts = {} /\ DOMAIN sources = {} /\ pipeline \in Configs
    BY DEF Init
  <2>2. Cardinality(DOMAIN alerts) = 0 /\ Cardinality(DOMAIN sources) = 0
    BY <2>1, FS_EmptySet
  <2>3. pipeline.maxAlerts \in Nat /\ pipeline.maxSources \in Nat
    BY <2>1, ConstantsAssumption
  <2> QED
    BY <2>2, <2>3 DEF WithinCaps
<1> QED
  BY <1>1, CapsStep, TypeCorrect, PTL DEF Spec

-----------------------------------------------------------------------------
(* Inhibition. *)

(* Every source stands for a result of its rule and key that got through    *)
(* no longer ago.                                                           *)
Caused ==
  \A k \in DOMAIN sources, c \in Configs :
    k[1] \in Names(c) =>
      \E r \in c.rules[k[1]].source : c.rules[k[1]].key[r] = k[2] /\ through[r] <= sources[k]

(* Every result a rule would look back to has its source, unless the rule   *)
(* missed some.                                                             *)
Complete ==
  \A n \in Names(pipeline) \ missed : \A r \in pipeline.rules[n].source :
    through[r] < pipeline.rules[n].duration =>
      /\ SourceKey(pipeline, n, r) \in DOMAIN sources
      /\ sources[SourceKey(pipeline, n, r)] <= through[r]

(* A rule that missed nothing has been loaded all the time. *)
Kept ==
  \A n \in Rules \ missed : n \in Names(pipeline) /\ (loaded # None => n \in Names(loaded))

InhibitInv == TypeOK /\ Caused /\ Complete /\ Kept

LEMMA InhibitInit == Init => InhibitInv
<1> SUFFICES ASSUME Init PROVE InhibitInv
  OBVIOUS
<1>1. TypeOK
  BY InitType
<1>2. DOMAIN sources = {} /\ loaded = None /\ missed = Rules \ Names(pipeline)
      /\ through = [r \in Results |-> Forever] /\ pipeline \in Configs
  BY DEF Init
<1>3. Caused
  BY <1>2 DEF Caused
<1>4. Complete
  BY <1>2, RuleType, Bounds DEF Complete
<1>5. Kept
  BY <1>2 DEF Kept
<1> QED
  BY <1>1, <1>3, <1>4, <1>5 DEF InhibitInv

(* A result that is not inhibited gets through and becomes a source. *)
LEMMA InhibitRecord ==
  ASSUME InhibitInv, OneNameOneRule,
         NEW r \in Results, Record(r), pipeline' = pipeline, loaded' = None
  PROVE  Caused' /\ Complete' /\ Kept'
<1>0. TypeOK /\ pipeline \in Configs /\ missed \subseteq Rules
      /\ through \in [Results -> 0..Forever]
      /\ \A k \in DOMAIN sources : sources[k] \in 0..Forever
  BY DEF InhibitInv, TypeOK
<1>1. /\ DOMAIN sources \subseteq DOMAIN sources'
      /\ \A k \in DOMAIN sources' :
           IF k \in Keys(r) THEN sources'[k] = 0
           ELSE k \in DOMAIN sources /\ sources'[k] = sources[k]
      /\ through' = [through EXCEPT ![r] = 0]
      /\ missed \subseteq missed'
      /\ \A k \in Keys(r) : k \in DOMAIN sources' \/ k[1] \in missed'
  BY <1>0, RecordEffect
<1>2. \A s \in Results : through'[s] <= through[s] /\ through'[s] \in 0..Forever
  BY <1>0, <1>1, Bounds
<1>3. Caused'
  <2> SUFFICES ASSUME NEW k \in DOMAIN sources', NEW c \in Configs, k[1] \in Names(c)
               PROVE  \E s \in c.rules[k[1]].source :
                        c.rules[k[1]].key[s] = k[2] /\ through'[s] <= sources'[k]
    BY DEF Caused
  <2>1. CASE k \in Keys(r)
    <3>1. PICK n \in Names(pipeline) :
            r \in pipeline.rules[n].source /\ k = SourceKey(pipeline, n, r)
      BY <2>1 DEF Keys
    <3>2. k[1] = n /\ k[2] = pipeline.rules[n].key[r]
      BY <3>1 DEF SourceKey
    <3>3. c.rules[n] = pipeline.rules[n]
      BY <1>0, <3>2 DEF OneNameOneRule
    <3>4. sources'[k] = 0 /\ through'[r] = 0
      BY <1>0, <1>1, <2>1
    <3> QED
      BY <3>1, <3>2, <3>3, <3>4
  <2>2. CASE k \notin Keys(r)
    <3>1. k \in DOMAIN sources /\ sources'[k] = sources[k]
      BY <1>1, <2>2
    <3>2. PICK s \in c.rules[k[1]].source :
            c.rules[k[1]].key[s] = k[2] /\ through[s] <= sources[k]
      BY <3>1 DEF InhibitInv, Caused
    <3>3. s \in Results
      BY <3>2, RuleType
    <3> QED
      BY <1>0, <1>2, <3>1, <3>2, <3>3
  <2> QED
    BY <2>1, <2>2
<1>4. Complete'
  <2> SUFFICES ASSUME NEW n \in Names(pipeline) \ missed', NEW s \in pipeline.rules[n].source,
                      through'[s] < pipeline.rules[n].duration
               PROVE  /\ SourceKey(pipeline, n, s) \in DOMAIN sources'
                      /\ sources'[SourceKey(pipeline, n, s)] <= through'[s]
    BY DEF Complete, SourceKey
  <2> DEFINE k == SourceKey(pipeline, n, s)
  <2>1. s \in Results /\ k[1] = n
    BY <1>0, RuleType DEF SourceKey
  <2>2. CASE s = r
    <3>1. k \in Keys(r)
      BY <2>2 DEF Keys
    <3>2. k \in DOMAIN sources'
      BY <1>1, <2>1, <3>1
    <3> QED
      BY <1>1, <1>2, <2>1, <3>1, <3>2
  <2>3. CASE s # r
    <3>1. through'[s] = through[s] /\ n \notin missed
      BY <1>0, <1>1, <2>1, <2>3
    <3>2. k \in DOMAIN sources /\ sources[k] <= through[s]
      BY <3>1 DEF InhibitInv, Complete
    <3> HIDE DEF k
    <3>3. k \in DOMAIN sources' /\ sources'[k] \in {0, sources[k]}
      BY <1>1, <3>2
    <3>4. sources'[k] <= through'[s]
      BY <1>0, <1>2, <2>1, <3>1, <3>2, <3>3
    <3> QED
      BY <3>3, <3>4 DEF k
  <2> QED
    BY <2>2, <2>3
<1>5. Kept'
  BY <1>1 DEF InhibitInv, Kept
<1> QED
  BY <1>3, <1>4, <1>5

(* A tick forgets only what is too old for the rules of its pipeline, and   *)
(* those of the rules in force that missed nothing are among them.          *)
LEMMA InhibitTick ==
  ASSUME InhibitInv, OneNameOneRule, Tick
  PROVE  Caused' /\ Complete' /\ Kept'
<1>0. TypeOK /\ pipeline \in Configs /\ loaded \in Configs
      /\ through \in [Results -> 0..Forever]
      /\ \A k \in DOMAIN sources : sources[k] \in 0..Forever
  BY DEF InhibitInv, TypeOK, Tick
<1>1. /\ pipeline' = pipeline /\ loaded' = None /\ through' = through /\ missed' = missed
      /\ sources' = IF Names(loaded) = {} THEN sources
                    ELSE [k \in {j \in DOMAIN sources : LiveSource(loaded, sources[j], j)} |->
                            sources[k]]
  BY DEF Tick
<1>2. /\ DOMAIN sources' \subseteq DOMAIN sources
      /\ \A k \in DOMAIN sources' : sources'[k] = sources[k]
      /\ \A k \in DOMAIN sources : LiveSource(loaded, sources[k], k) => k \in DOMAIN sources'
  BY <1>1
<1>3. Caused'
  BY <1>1, <1>2 DEF InhibitInv, Caused
<1>4. Complete'
  <2> SUFFICES ASSUME NEW n \in Names(pipeline) \ missed, NEW s \in pipeline.rules[n].source,
                      through[s] < pipeline.rules[n].duration
               PROVE  /\ SourceKey(pipeline, n, s) \in DOMAIN sources'
                      /\ sources'[SourceKey(pipeline, n, s)] <= through[s]
    BY <1>1 DEF Complete, SourceKey
  <2> DEFINE k == SourceKey(pipeline, n, s)
  <2>1. /\ n \in Rules /\ s \in Results /\ pipeline.rules[n].duration \in Nat
        /\ k[1] = n
    BY <1>0, RuleType DEF SourceKey
  <2>2. k \in DOMAIN sources /\ sources[k] <= through[s]
    BY DEF InhibitInv, Complete
  <2> HIDE DEF k
  <2>3. n \in Names(loaded)
    BY <1>0, <2>1, ConstantsAssumption DEF InhibitInv, Kept
  <2>4. loaded.rules[n] = pipeline.rules[n]
    BY <1>0, <2>3 DEF OneNameOneRule
  <2>5. sources[k] < pipeline.rules[n].duration
    BY <1>0, <2>1, <2>2
  <2>6. LiveSource(loaded, sources[k], k)
    BY <2>1, <2>3, <2>4, <2>5 DEF LiveSource
  <2> QED
    BY <1>2, <2>2, <2>6 DEF k
<1>5. Kept'
  BY <1>1 DEF InhibitInv, Kept
<1> QED
  BY <1>3, <1>4, <1>5

(* Sources and results age alike. *)
LEMMA InhibitOlder ==
  ASSUME InhibitInv, OneNameOneRule, NEW c \in Configs, NEW d \in Nat,
         pipeline' = c, loaded' \in {None, loaded},
         through' = [r \in Results |-> OlderSource(through[r], d)],
         DOMAIN sources' \subseteq DOMAIN sources,
         \A k \in DOMAIN sources' : sources'[k] = OlderSource(sources[k], d),
         missed \subseteq missed',
         \A n \in Rules \ missed' : n \in Names(c) \cap Names(pipeline),
         \A k \in DOMAIN sources :
           LiveSource(c, OlderSource(sources[k], d), k)
             => k \in DOMAIN sources' \/ k[1] \in missed'
  PROVE  Caused' /\ Complete' /\ Kept'
<1>0. /\ pipeline \in Configs
      /\ through \in [Results -> 0..Forever]
      /\ \A k \in DOMAIN sources : sources[k] \in 0..Forever
  BY DEF InhibitInv, TypeOK
<1>1. \A x, y \in 0..Forever : x <= y => OlderSource(x, d) <= OlderSource(y, d)
  BY SourceAges
<1>2. \A x \in 0..Forever : OlderSource(x, d) \in 0..Forever /\ x <= OlderSource(x, d)
  BY SourceAges
<1>3. Caused'
  <2> SUFFICES ASSUME NEW k \in DOMAIN sources', NEW b \in Configs, k[1] \in Names(b)
               PROVE  \E s \in b.rules[k[1]].source :
                        b.rules[k[1]].key[s] = k[2] /\ through'[s] <= sources'[k]
    BY DEF Caused
  <2>1. PICK s \in b.rules[k[1]].source :
          b.rules[k[1]].key[s] = k[2] /\ through[s] <= sources[k]
    BY DEF InhibitInv, Caused
  <2>2. s \in Results
    BY <2>1, RuleType
  <2>3. through'[s] <= sources'[k]
    BY <1>0, <1>1, <2>1, <2>2
  <2> QED
    BY <2>1, <2>3
<1>4. Complete'
  <2> SUFFICES ASSUME NEW n \in Names(c) \ missed', NEW s \in c.rules[n].source,
                      through'[s] < c.rules[n].duration
               PROVE  /\ SourceKey(c, n, s) \in DOMAIN sources'
                      /\ sources'[SourceKey(c, n, s)] <= through'[s]
    BY DEF Complete, SourceKey
  <2> DEFINE k == SourceKey(c, n, s)
  <2>1. /\ n \in Rules /\ s \in Results /\ c.rules[n].duration \in Nat
        /\ k[1] = n
    BY RuleType DEF SourceKey
  <2>2. n \in Names(pipeline) \ missed
    BY <2>1
  <2>3. pipeline.rules[n] = c.rules[n]
    BY <1>0, <2>2 DEF OneNameOneRule
  <2>4. through'[s] = OlderSource(through[s], d) /\ through[s] < c.rules[n].duration
    BY <1>0, <1>2, <2>1
  <2>5. k \in DOMAIN sources /\ sources[k] <= through[s]
    BY <2>2, <2>3, <2>4 DEF InhibitInv, Complete, SourceKey
  <2> HIDE DEF k
  <2>6. OlderSource(sources[k], d) <= OlderSource(through[s], d)
    BY <1>0, <1>1, <2>1, <2>5
  <2>7. OlderSource(sources[k], d) < c.rules[n].duration
    BY <1>0, <1>2, <2>1, <2>4, <2>5, <2>6
  <2>8. LiveSource(c, OlderSource(sources[k], d), k)
    BY <2>1, <2>7 DEF LiveSource
  <2>9. k \in DOMAIN sources'
    BY <2>1, <2>5, <2>8
  <2> QED
    BY <2>4, <2>6, <2>9 DEF k
<1>5. Kept'
  BY DEF InhibitInv, Kept
<1> QED
  BY <1>3, <1>4, <1>5

LEMMA NoAge ==
  ASSUME NEW x \in 0..Forever
  PROVE  OlderSource(x, 0) = x
  BY Bounds DEF OlderSource, Smaller

LEMMA InhibitStep ==
  ASSUME InhibitInv, OneNameOneRule, [Next]_vars
  PROVE  InhibitInv'
<1>0. TypeOK /\ TypeOK'
  BY TypeStep DEF InhibitInv
<1> SUFFICES Caused' /\ Complete' /\ Kept'
  BY <1>0 DEF InhibitInv
<1>1. ASSUME \/ StartCreate \/ UNCHANGED vars
             \/ \E r \in Results : Inhibit(r)
             \/ \E s \in Silences : Delete(s)
             \/ \E s \in Silences, left \in 1..MaxLife :
                  \E wait \in 0..left - 1 : FinishCreate(s, wait, left)
      PROVE  Caused' /\ Complete' /\ Kept'
  <2>1. /\ UNCHANGED <<pipeline, sources, through, missed>>
        /\ loaded' \in {loaded, None}
    BY <1>1 DEF StartCreate, Inhibit, Delete, FinishCreate, vars, stores
  <2> QED
    BY <2>1 DEF InhibitInv, Caused, Complete, Kept, SourceKey
<1>2. CASE Load
  <2>1. UNCHANGED <<pipeline, sources, through, missed>> /\ loaded' = pipeline
    BY <1>2 DEF Load, stores
  <2> QED
    BY <2>1 DEF InhibitInv, Caused, Complete, Kept, SourceKey
<1>3. ASSUME NEW r \in Results, Silence(r) \/ Fold(r) \/ Emit(r)
      PROVE  Caused' /\ Complete' /\ Kept'
  <2>1. Record(r) /\ pipeline' = pipeline /\ loaded' = None
    BY <1>3 DEF Silence, Fold, Emit
  <2> QED
    BY <2>1, InhibitRecord
<1>4. CASE Tick
  BY <1>4, InhibitTick
<1>5. CASE Advance
  <2>1. /\ pipeline' = pipeline /\ loaded' = loaded /\ missed' = missed
        /\ through' = [r \in Results |-> OlderSource(through[r], 1)]
        /\ DOMAIN sources' = DOMAIN sources
        /\ \A k \in DOMAIN sources' : sources'[k] = OlderSource(sources[k], 1)
    BY <1>5 DEF Advance
  <2>2. \A n \in Rules \ missed' : n \in Names(pipeline)
    BY <2>1 DEF InhibitInv, Kept
  <2>3. pipeline \in Configs
    BY <1>0 DEF TypeOK
  <2> QED
    BY <2>1, <2>2, <2>3, InhibitOlder
<1>6. ASSUME NEW c \in Configs, Reload(c)
      PROVE  Caused' /\ Complete' /\ Kept'
  <2>1. /\ pipeline' = c /\ loaded' = loaded /\ through' = through
        /\ DOMAIN sources' \subseteq DOMAIN sources
        /\ \A k \in DOMAIN sources' : sources'[k] = sources[k]
        /\ missed \subseteq missed'
        /\ \A n \in Rules \ missed' : n \in Names(c) \cap Names(pipeline)
        /\ \A k \in DOMAIN sources : k \in DOMAIN sources' \/ k[1] \in missed'
    BY <1>0, <1>6, ReloadEffect
  <2>2. through' = [r \in Results |-> OlderSource(through[r], 0)]
    BY <1>0, <2>1, NoAge DEF TypeOK
  <2>3. \A k \in DOMAIN sources' : sources'[k] = OlderSource(sources[k], 0)
    BY <1>0, <2>1, NoAge DEF TypeOK
  <2> QED
    BY <2>1, <2>2, <2>3, InhibitOlder
<1>7. ASSUME NEW c \in Configs, NEW d \in 0..Resolve, Restart(c, d)
      PROVE  Caused' /\ Complete' /\ Kept'
  <2>1. d \in Nat
    BY Bounds
  <2>2. /\ pipeline' = c /\ loaded' = None
        /\ through' = [r \in Results |-> OlderSource(through[r], d)]
        /\ DOMAIN sources' \subseteq DOMAIN sources
        /\ \A k \in DOMAIN sources' : sources'[k] = OlderSource(sources[k], d)
        /\ missed \subseteq missed'
        /\ \A n \in Rules \ missed' : n \in Names(c) \cap Names(pipeline)
        /\ \A k \in DOMAIN sources :
             LiveSource(c, OlderSource(sources[k], d), k)
               => k \in DOMAIN sources' \/ k[1] \in missed'
    BY <1>0, <1>7, RestartEffect
  <2> QED
    BY <2>1, <2>2, InhibitOlder
<1> QED
  BY <1>1, <1>2, <1>3, <1>4, <1>5, <1>6, <1>7 DEF Next

LEMMA InhibitExact ==
  ASSUME InhibitInv
  PROVE  InhibitionIsExact
<1> SUFFICES ASSUME NEW r \in Results, NEW n \in Names(pipeline)
             PROVE  /\ n \in Inhibiting(r) => HasCause(n, r)
                    /\ n \notin missed /\ HasCause(n, r) => n \in Inhibiting(r)
  BY DEF InhibitionIsExact
<1> DEFINE rule == pipeline.rules[n]
           k == SourceKey(pipeline, n, r)
<1>0. /\ pipeline \in Configs
      /\ through \in [Results -> 0..Forever]
      /\ \A j \in DOMAIN sources : sources[j] \in 0..Forever
      /\ rule.source \subseteq Results /\ rule.duration \in Nat
  BY RuleType DEF InhibitInv, TypeOK
<1>1. k[1] = n /\ k[2] = rule.key[r]
  BY DEF SourceKey
<1>2. ASSUME n \in Inhibiting(r) PROVE HasCause(n, r)
  <2>1. /\ r \in rule.target \ rule.source
        /\ k \in DOMAIN sources /\ sources[k] < rule.duration
    BY <1>2 DEF Inhibiting
  <2>2. PICK s \in rule.source : rule.key[s] = rule.key[r] /\ through[s] <= sources[k]
    BY <1>0, <1>1, <2>1 DEF InhibitInv, Caused
  <2>3. through[s] < rule.duration
    BY <1>0, <2>1, <2>2
  <2> QED
    BY <2>1, <2>2, <2>3 DEF HasCause
<1>3. ASSUME n \notin missed, HasCause(n, r) PROVE n \in Inhibiting(r)
  <2>1. PICK s \in rule.source : rule.key[s] = rule.key[r] /\ through[s] < rule.duration
    BY <1>3 DEF HasCause
  <2>2. SourceKey(pipeline, n, s) = k
    BY <2>1 DEF SourceKey
  <2>3. k \in DOMAIN sources /\ sources[k] <= through[s]
    BY <1>3, <2>1, <2>2 DEF InhibitInv, Complete
  <2>4. sources[k] < rule.duration
    BY <1>0, <2>1, <2>3
  <2> QED
    BY <1>3, <2>3, <2>4 DEF HasCause, Inhibiting
<1> QED
  BY <1>2, <1>3

(* Where one name is one rule, a rule inhibits a result exactly when a      *)
(* source of it with the same key got through within the duration, for any  *)
(* rules, also such that inhibit each other or themselves, over ticks under *)
(* retired pipelines, reloads and restarts; only a rule that found no room  *)
(* or was not loaded all the time may let a target pass.                    *)
THEOREM InhibitionCorrect == OneNameOneRule /\ Spec => []InhibitionIsExact
<1>1. Init => InhibitInv
  BY InhibitInit
<1>2. OneNameOneRule /\ InhibitInv /\ [Next]_vars => InhibitInv'
  BY InhibitStep
<1>3. InhibitInv => InhibitionIsExact
  BY InhibitExact
<1> QED
  <2>1. OneNameOneRule => [](OneNameOneRule)
    OBVIOUS
  <2> QED
    BY <1>1, <1>2, <1>3, <2>1, PTL DEF Spec
=============================================================================
