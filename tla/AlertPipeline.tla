---------------------------- MODULE AlertPipeline ----------------------------
(***************************************************************************)
(* The alert pipeline in front of the sinks                                *)
(* (rsigma-runtime/src/alert_pipeline, rsigma-cli/src/daemon/server.rs):   *)
(* inhibition, silences and dedup, with the tick, the reload of the file,  *)
(* the silence API and a restart.  What gets through them all is grouped   *)
(* into incidents by IncidentStore.                                        *)
(*                                                                         *)
(* The results of one batch are processed under one lock; here each is a   *)
(* step of its own.  Results out of scope pass untouched and are left out. *)
(*                                                                         *)
(* Time.  As in IncidentStore, ages stand for the differences to now and   *)
(* stop at the largest threshold they are compared with.  A restart finds  *)
(* the stores as of the last save, older by the time since.                *)
(***************************************************************************)
EXTENDS Integers, FiniteSets

CONSTANTS
  Results,       (* kinds of results                                        *)
  Alerts,        (* dedup fingerprints                                      *)
  FingerprintOf, (* [Results -> Alerts]                                     *)
  Rules,         (* names of inhibition rules: where the file gives none,   *)
                 (* the place in its list                                   *)
  EqualKeys,     (* values of the `equal` selectors                         *)
  Silences,      (* ids of silences                                         *)
  Mutes,         (* what each matches                                       *)
  Configs,       (* the pipelines a reload or a restart may load            *)
  None,
  Repeat,        (* repeat_interval, 0: no repeats                          *)
  Resolve,       (* resolve_timeout                                         *)
  Forever,       (* the longest any rule looks back                         *)
  MaxLife        (* the longest time from creating a silence to its end     *)

InhibitRule == [source : SUBSET Results, target : SUBSET Results,
                key : [Results -> EqualKeys], duration : Nat]

(* AlertPipeline: its inhibition rules by name (none: no such stage),       *)
(* whether it has a dedup stage, its static silences and its ceilings.      *)
Config == [rules : UNION {[N -> InhibitRule] : N \in SUBSET Rules},
           dedup : BOOLEAN, static : SUBSET Silences,
           maxAlerts : Nat, maxSources : Nat, maxSilences : Nat]

Names(c) == DOMAIN c.rules

(* What a result is known by to rule n of pipeline c: name and equal key. *)
SourceKey(c, n, r) == <<n, c.rules[n].key[r]>>
SourceKeys == Rules \X EqualKeys

ASSUME ConstantsAssumption ==
  /\ FingerprintOf \in [Results -> Alerts]
  /\ IsFiniteSet(SourceKeys) /\ IsFiniteSet(Alerts)
  /\ Mutes \in [Silences -> SUBSET Results]
  /\ \A c \in Configs :
       /\ Names(c) \subseteq Rules /\ c.rules \in [Names(c) -> InhibitRule]
       /\ \A n \in Names(c) : c.rules[n].duration <= Forever
       /\ c.static \subseteq Silences /\ c.dedup \in BOOLEAN
       /\ {c.maxAlerts, c.maxSources, c.maxSilences} \subseteq Nat
  /\ None \notin Configs \cup Nat
  /\ {Repeat, Resolve, Forever, MaxLife} \subseteq Nat

VARIABLES
  pipeline,   (* the published pipeline                                     *)
  loaded,     (* what the sink task has loaded ahead of the lock, or None   *)
  alerts,     (* DedupStore: per active fingerprint its ages and whether    *)
              (* fire_count is ahead of emitted_count                       *)
  sources,    (* InhibitStore: per active key the age of last_seen          *)
  static,     (* static silences in the store                               *)
  api,        (* API silences: ticks until they start and end               *)
  creating,   (* the limit a POST in progress has read, or None             *)
  through,    (* history: age of the last result of each kind that was not  *)
              (* inhibited                                                  *)
  missed      (* history: rules that may lack a source, for the lack of     *)
              (* room or because they were not loaded                       *)

stores == <<alerts, sources, static, api>>
vars == <<pipeline, loaded, stores, creating, through, missed>>

-----------------------------------------------------------------------------
Smaller(m, n) == IF m <= n THEN m ELSE n
Minus(m, n) == IF m >= n THEN m - n ELSE 0

Opening == [idle |-> 0, since |-> 0, ahead |-> FALSE]

OlderAlert(a, d) == [a EXCEPT !.idle = Smaller(@ + d, Resolve), !.since = Smaller(@ + d, Repeat)]

OlderSource(age, d) == Smaller(age + d, Forever)

OlderSilence(s, d) == [wait |-> Minus(s.wait, d), left |-> Minus(s.left, d)]

Active(s) == s.wait = 0 /\ s.left > 0

(* What a store may look like when all but `max` of its entries, the least  *)
(* recently seen by `age`, are evicted (enforce_cap).                     *)
Trimmed(store, max, age) ==
  {[k \in kept |-> store[k]] : kept \in
     {S \in SUBSET DOMAIN store :
        /\ Cardinality(S) = Smaller(Cardinality(DOMAIN store), max)
        /\ \A j \in S, k \in DOMAIN store \ S : age[k] >= age[j]}}

-----------------------------------------------------------------------------
(* The rules that inhibit r: InhibitStore::evaluate, first half. *)
Inhibiting(r) ==
  {n \in Names(pipeline) :
     LET rule == pipeline.rules[n]
         k == SourceKey(pipeline, n, r)
     IN  /\ r \in rule.target \ rule.source
         /\ k \in DOMAIN sources /\ sources[k] < rule.duration}

(* Second half: r becomes a source of the rules it is one of, the new ones  *)
(* as far as there is room, in the order of the configuration.              *)
Record(r) ==
  LET keys == {SourceKey(pipeline, n, r) :
                 n \in {m \in Names(pipeline) : r \in pipeline.rules[m].source}}
      new == keys \ DOMAIN sources
      room == Minus(pipeline.maxSources, Cardinality(DOMAIN sources))
  IN  \E refused \in SUBSET new :
        /\ Cardinality(new \ refused) = Smaller(Cardinality(new), room)
        /\ sources' = [k \in DOMAIN sources \cup (new \ refused) |->
                         IF k \in keys THEN 0 ELSE sources[k]]
        /\ through' = [through EXCEPT ![r] = 0]
        /\ missed' = missed \cup {k[1] : k \in refused}

Silenced(r) ==
  \/ \E s \in static : r \in Mutes[s]
  \/ \E s \in DOMAIN api : Active(api[s]) /\ r \in Mutes[s]

(* The sink task takes the pipeline, before it waits for the state lock. *)
Load ==
  /\ loaded = None
  /\ loaded' = pipeline
  /\ UNCHANGED <<pipeline, stores, creating, through, missed>>

(* process, under the pipeline read again under the lock.  An inhibited     *)
(* result is dropped before it can become a source.                         *)
Inhibit(r) ==
  /\ loaded # None
  /\ Inhibiting(r) # {}
  /\ loaded' = None
  /\ UNCHANGED <<pipeline, stores, creating, through, missed>>

(* Mutant: silences come before inhibition. *)
SilenceMutant(r) ==
  /\ loaded # None
  /\ Inhibiting(r) = {}
  /\ Silenced(r)
  /\ through' = [through EXCEPT ![r] = 0]
  /\ loaded' = None
  /\ UNCHANGED <<pipeline, stores, creating, missed>>

(* A silenced one is dropped after. *)
Silence(r) ==
  /\ loaded # None
  /\ Inhibiting(r) = {}
  /\ Silenced(r)
  /\ Record(r)
  /\ loaded' = None
  /\ UNCHANGED <<pipeline, alerts, static, api, creating>>

(* A duplicate is folded into its active alert. *)
Fold(r) ==
  LET f == FingerprintOf[r]
  IN  /\ loaded # None
      /\ Inhibiting(r) = {} /\ ~Silenced(r)
      /\ pipeline.dedup /\ f \in DOMAIN alerts
      /\ Record(r)
      /\ alerts' = [alerts EXCEPT ![f].idle = 0, ![f].ahead = TRUE]
      /\ loaded' = None
      /\ UNCHANGED <<pipeline, static, api, creating>>

(* Mutant: the batch goes by the pipeline it loaded ahead of the lock. *)
OpensMutant(f) ==
  loaded.dedup /\ f \notin DOMAIN alerts /\ Cardinality(DOMAIN alerts) < loaded.maxAlerts

Opens(f) ==
  pipeline.dedup /\ f \notin DOMAIN alerts /\ Cardinality(DOMAIN alerts) < pipeline.maxAlerts

(* Every other result goes on, and opens an alert if there is room. *)
Emit(r) ==
  LET f == FingerprintOf[r]
  IN  /\ loaded # None
      /\ Inhibiting(r) = {} /\ ~Silenced(r)
      /\ ~(pipeline.dedup /\ f \in DOMAIN alerts)
      /\ Record(r)
      /\ alerts' = IF Opens(f)
                   THEN [g \in DOMAIN alerts \cup {f} |-> IF g = f THEN Opening ELSE alerts[g]]
                   ELSE alerts
      /\ loaded' = None
      /\ UNCHANGED <<pipeline, static, api, creating>>

-----------------------------------------------------------------------------
ResolveDue(a) == a.idle >= Resolve

(* Mutant: repeat_interval counts from the last fire. *)
RepeatDueMutant(a) == ~ResolveDue(a) /\ Repeat > 0 /\ a.idle >= Repeat /\ a.ahead

RepeatDue(a) == ~ResolveDue(a) /\ Repeat > 0 /\ a.since >= Repeat /\ a.ahead

(* DedupStore::tick: idle alerts resolve and leave, due ones are repeated. *)
TickAlerts(c) ==
  IF ~c.dedup THEN alerts
  ELSE [f \in {g \in DOMAIN alerts : ~ResolveDue(alerts[g])} |->
          IF RepeatDue(alerts[f]) THEN [alerts[f] EXCEPT !.since = 0, !.ahead = FALSE]
          ELSE alerts[f]]

(* InhibitStore::gc and restore: a source of a rule c has, by name, and in  *)
(* its duration.                                                            *)
LiveSource(c, age, k) == k[1] \in Names(c) /\ age < c.rules[k[1]].duration

(* tick, under the pipeline loaded ahead of the lock: unlike the batch, it  *)
(* does not read it again.                                                  *)
Tick ==
  /\ loaded # None
  /\ alerts' = TickAlerts(loaded)
  /\ api' = [s \in {i \in DOMAIN api : api[i].left > 0} |-> api[s]]
  /\ sources' = IF Names(loaded) = {} THEN sources
                ELSE [k \in {j \in DOMAIN sources : LiveSource(loaded, sources[j], j)} |->
                        sources[k]]
  /\ loaded' = None
  /\ UNCHANGED <<pipeline, static, creating, through, missed>>

(* A second passes. *)
Advance ==
  /\ alerts' = [f \in DOMAIN alerts |-> OlderAlert(alerts[f], 1)]
  /\ sources' = [k \in DOMAIN sources |-> OlderSource(sources[k], 1)]
  /\ api' = [s \in DOMAIN api |-> OlderSilence(api[s], 1)]
  /\ through' = [r \in Results |-> OlderSource(through[r], 1)]
  /\ UNCHANGED <<pipeline, loaded, static, creating, missed>>

-----------------------------------------------------------------------------
(* POST /api/v1/silences: the limit is read, ... *)
StartCreate ==
  /\ creating = None
  /\ creating' = pipeline.maxSilences
  /\ UNCHANGED <<pipeline, loaded, stores, through, missed>>

(* ... and the silence is added under the lock if that leaves room.  An id  *)
(* the client gives twice is kept as one silence here, of the later time.   *)
FinishCreate(s, wait, left) ==
  /\ creating # None
  /\ api' = IF Cardinality(DOMAIN api) >= creating THEN api
            ELSE [i \in DOMAIN api \cup {s} |->
                    IF i = s THEN [wait |-> wait, left |-> left] ELSE api[i]]
  /\ creating' = None
  /\ UNCHANGED <<pipeline, loaded, alerts, sources, static, through, missed>>

(* DELETE /api/v1/silences/{id}: of either origin. *)
Delete(s) ==
  /\ s \in static \cup DOMAIN api
  /\ static' = static \ {s}
  /\ api' = [i \in DOMAIN api \ {s} |-> api[i]]
  /\ UNCHANGED <<pipeline, loaded, alerts, sources, creating, through, missed>>

(* enforce_caps, on the alerts and sources found; the API silences are left *)
(* to expire.                                                               *)
EnforceCaps(c, found, active) ==
  /\ alerts' \in IF c.dedup
                 THEN Trimmed(found, c.maxAlerts, [f \in DOMAIN found |-> found[f].idle])
                 ELSE {found}
  /\ sources' \in IF Names(c) = {} THEN {active} ELSE Trimmed(active, c.maxSources, active)
  /\ missed' = missed \cup {n \in Rules : n \notin Names(c) \/ n \notin Names(pipeline)
                                        \/ c.rules[n] # pipeline.rules[n]}
                      \cup {k[1] : k \in DOMAIN active \ DOMAIN sources'}

(* A reload of the pipeline file, under the state lock. *)
Reload(c) ==
  /\ pipeline' = c
  /\ static' = c.static
  /\ EnforceCaps(c, alerts, sources)
  /\ UNCHANGED <<loaded, api, creating, through>>

(* A restart d ticks after the last save, with configuration c: a stage     *)
(* that is not configured restores nothing, the others what is in its       *)
(* window.                                                                  *)
Restart(c, d) ==
  LET oldAlerts == [f \in DOMAIN alerts |-> OlderAlert(alerts[f], d)]
      oldSources == [k \in DOMAIN sources |-> OlderSource(sources[k], d)]
      oldSilences == [s \in DOMAIN api |-> OlderSilence(api[s], d)]
      found == {f \in DOMAIN alerts : c.dedup /\ oldAlerts[f].idle < Resolve}
      active == {k \in DOMAIN sources : LiveSource(c, oldSources[k], k)}
  IN  /\ pipeline' = c
      /\ loaded' = None
      /\ creating' = None
      /\ static' = c.static
      /\ api' = [s \in {i \in DOMAIN api : oldSilences[i].left > 0} |-> oldSilences[s]]
      /\ EnforceCaps(c, [f \in found |-> oldAlerts[f]], [k \in active |-> oldSources[k]])
      /\ through' = [r \in Results |-> OlderSource(through[r], d)]

-----------------------------------------------------------------------------
Init ==
  /\ pipeline \in Configs
  /\ loaded = None
  /\ alerts = <<>>
  /\ sources = <<>>
  /\ static = pipeline.static
  /\ api = <<>>
  /\ creating = None
  /\ through = [r \in Results |-> Forever]
  /\ missed = Rules \ Names(pipeline)

Next ==
  \/ Load
  \/ \E r \in Results : Inhibit(r)
  \/ \E r \in Results : Silence(r)
  \/ \E r \in Results : Fold(r)
  \/ \E r \in Results : Emit(r)
  \/ Tick
  \/ Advance
  \/ StartCreate
  \/ \E s \in Silences, left \in 1..MaxLife : \E wait \in 0..left - 1 : FinishCreate(s, wait, left)
  \/ \E s \in Silences : Delete(s)
  \/ \E c \in Configs : Reload(c)
  \/ \E c \in Configs, d \in 0..Resolve : Restart(c, d)

Spec == Init /\ [][Next]_vars

(* The clock runs, and the sink task keeps coming to its tick however many  *)
(* batches it also takes: tokio::select! polls its branches in random       *)
(* order.  Nothing is assumed of results, requests, reloads and restarts.   *)
FairSpec == Spec /\ WF_vars(Load) /\ SF_vars(Tick) /\ WF_vars(Advance)

-----------------------------------------------------------------------------
(* Types; only silences of the pipeline in force are static. *)
TypeOK ==
  /\ pipeline \in Configs
  /\ loaded \in Configs \cup {None}
  /\ DOMAIN alerts \subseteq Alerts
  /\ \A f \in DOMAIN alerts :
       alerts[f] \in [idle : 0..Resolve, since : 0..Repeat, ahead : BOOLEAN]
  /\ DOMAIN sources \subseteq SourceKeys
  /\ \A k \in DOMAIN sources : sources[k] \in 0..Forever
  /\ static \subseteq pipeline.static
  /\ DOMAIN api \subseteq Silences
  /\ \A s \in DOMAIN api : api[s] \in [wait : 0..MaxLife, left : 0..MaxLife]
  /\ creating \in Nat \cup {None}
  /\ through \in [Results -> 0..Forever]
  /\ missed \subseteq Rules

(* The caps of the pipeline in force hold for the stores of its stages: a   *)
(* batch that took the old pipeline before a reload does not fill them up   *)
(* again, nor does what a stage that was off has kept.                      *)
WithinCaps ==
  /\ pipeline.dedup => Cardinality(DOMAIN alerts) <= pipeline.maxAlerts
  /\ Names(pipeline) # {} => Cardinality(DOMAIN sources) <= pipeline.maxSources

(* A result that matches the source of rule n, was itself not inhibited and *)
(* shares the equal key of r, its target, was seen within the duration.     *)
HasCause(n, r) ==
  LET rule == pipeline.rules[n]
  IN  /\ r \in rule.target \ rule.source
      /\ \E s \in rule.source : rule.key[s] = rule.key[r] /\ through[s] < rule.duration

(* A rule inhibits a result exactly when it has such a cause, silenced or   *)
(* folded as that may have been: through the collection of sources, the     *)
(* refresh of old ones, restarts, and a tick under a retired pipeline.  So  *)
(* rules that inhibit each other's sources cannot mute both for ever.  Only *)
(* the cap and a time out of the configuration may cost a rule a source.    *)
(* Pipelines are assumed to give one name to one rule.                      *)
InhibitionIsExact ==
  \A r \in Results, n \in Names(pipeline) :
    /\ n \in Inhibiting(r) => HasCause(n, r)
    /\ n \notin missed /\ HasCause(n, r) => n \in Inhibiting(r)

(* What was folded into an alert is reported, in a repeat or the resolved   *)
(* record, however often more is folded in and the file reloaded: unless    *)
(* the alert is evicted, or the dedup stage configured away.                *)
FoldsReported ==
  \A f \in Alerts :
    (Repeat > 0 /\ f \in DOMAIN alerts /\ alerts[f].ahead)
      ~> (f \notin DOMAIN alerts \/ ~alerts[f].ahead \/ ~pipeline.dedup)
=============================================================================
