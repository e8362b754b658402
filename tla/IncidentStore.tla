---------------------------- MODULE IncidentStore ----------------------------
(***************************************************************************)
(* The incident store of the alert pipeline, in both grouping modes        *)
(* (rsigma-runtime/src/alert_pipeline/grouping.rs), driven by the sink     *)
(* task: results are assigned, a tick every second emits and resolves, a   *)
(* reload brings new caps, a restart restores a snapshot.                  *)
(*                                                                         *)
(* Time.  The code compares now with first_seen, last_seen and             *)
(* last_emitted; the model keeps the three differences and stops counting  *)
(* each at the largest threshold it is compared with, so that time has no  *)
(* horizon.                                                                *)
(*                                                                         *)
(* Restart.  What a process does after its last save is lost with it, so   *)
(* the store a restart finds is the state at that save, older by the time  *)
(* since.  Restart therefore starts from the current state and ages it.    *)
(***************************************************************************)
EXTENDS Naturals, FiniteSets

CONSTANTS
  Surrogates,     (* entity_graph ids: UUIDs                                *)
  Keys,           (* group_by ids: fingerprints of the group key            *)
  Values,         (* the (selector, value) pairs of entity_graph            *)
  None,           (* "not in the entity index"                              *)
  SelectorOf,     (* the selector of each value                             *)
  StopValues,     (* values that never join                                 *)
  Results,        (* results, each the set of values its selectors resolve  *)
  Configs,        (* the configurations a reload or a restart may load      *)
  GroupWait, GroupInterval, Repeat, Resolve,  (* the timers, in ticks       *)
  MaxRestarts     (* bound on the restarts explored                         *)

Ids == Surrogates \cup Keys

(* GroupMode and the Caps of a GroupConfig. *)
Config == [mode : {"group_by", "entity_graph"}, maxOpen : Nat,
           maxEntities : Nat, maxCardinality : Nat]

ASSUME ConstantsAssumption ==
  /\ None \notin Ids
  /\ Surrogates \cap Keys = {}
  /\ IsFiniteSet(Ids)
  /\ StopValues \subseteq Values
  /\ Results \subseteq SUBSET Values
  /\ \A r \in Results : \A v, w \in r : SelectorOf[v] = SelectorOf[w] => v = w
  /\ Configs \subseteq Config
  /\ {GroupWait, GroupInterval, Repeat, Resolve} \subseteq Nat
  /\ MaxRestarts \in Nat

VARIABLES
  cfg,        (* the GroupConfig in force                                   *)
  open,       (* the ids in `incidents`                                     *)
  entities,   (* per incident, Incident.entities                            *)
  timer,      (* per incident, its times and flags                          *)
  index,      (* entity_index, None where it has no entry                   *)
  counts,     (* value_counts, 0 where it has no entry                      *)
  owed,       (* history: incidents with results no emission has reported   *)
  restarts

graphVars == <<open, entities, index, counts>>
vars == <<cfg, graphVars, timer, owed, restarts>>

-----------------------------------------------------------------------------
Larger(m, n) == IF m >= n THEN m ELSE n

(* min(n + d, cap): a time difference counted no further than it matters. *)
Aged(n, d, cap) == IF n + d >= cap THEN cap ELSE n + d

SinceCap == Larger(GroupInterval, Repeat)

(* Incident::new: all times are now. *)
NewTimer == [age |-> 0, idle |-> 0, since |-> 0, opened |-> FALSE, dirty |-> TRUE]

Older(t, d) == [t EXCEPT !.age = Aged(@, d, GroupWait),
                         !.idle = Aged(@, d, Resolve),
                         !.since = Aged(@, d, SinceCap)]

(* The values of S under selector s: one BTreeSet of Incident.entities. *)
Under(S, s) == {v \in S : SelectorOf[v] = s}

(* The pairs of a result that may join: no stop value, none at the ceiling. *)
Joinable(r) ==
  {v \in r \ StopValues : counts[v] < cfg.maxCardinality}

(* Index entries of W that name an incident no longer open. *)
Stale(W) == {v \in W : index[v] # None /\ index[v] \notin open}

Touched(W) == {index[v] : v \in W} \cap open

(* The values an incident with the values E stores of the pairs W. *)
Stored(W, E) ==
  {v \in W : v \in E \/ Cardinality(Under(E, SelectorOf[v])) < cfg.maxEntities}

-----------------------------------------------------------------------------
(* Mutant: the victims' entries are not repointed to the survivor. *)
MergeMutant(i, W, stored) ==
  LET taken == UNION {entities[k] : k \in Touched(W) \cup {i}}
  IN  /\ entities' = [j \in Ids |->
           IF j = i THEN taken \cup stored
           ELSE IF j \in Touched(W) THEN {} ELSE entities[j]]
      /\ index' = [v \in Values |->
           IF v \in stored THEN i ELSE IF v \in Stale(W) THEN None ELSE index[v]]

(* Mutant: a pair the incident has no room for is indexed all the same. *)
MergeUncappedMutant(i, W, stored) ==
  LET taken == UNION {entities[k] : k \in Touched(W) \cup {i}}
  IN  /\ entities' = [j \in Ids |->
           IF j = i THEN taken \cup stored
           ELSE IF j \in Touched(W) THEN {} ELSE entities[j]]
      /\ index' = [v \in Values |-> IF v \in taken \cup W THEN i ELSE index[v]]

(* The incidents sharing a pair of W are merged into i, which takes over    *)
(* their values, and i stores more of W; the index follows.                 *)
Merge(i, W, stored) ==
  LET taken == UNION {entities[k] : k \in Touched(W) \cup {i}}
  IN  /\ entities' = [j \in Ids |->
           IF j = i THEN taken \cup stored
           ELSE IF j \in Touched(W) THEN {} ELSE entities[j]]
      /\ index' = [v \in Values |->
           IF v \in taken \cup stored THEN i
           ELSE IF v \in Stale(W) THEN None ELSE index[v]]

(* Incident i absorbs the result, after the incidents in T were merged into *)
(* it: first_seen is the oldest, last_seen is now, the rest stays i's own.  *)
Absorb(i, T) ==
  /\ open' = (open \ T) \cup {i}
  /\ \E a \in 0..GroupWait :
       /\ \A j \in T \cup {i} : timer[j].age <= a
       /\ \E j \in T \cup {i} : timer[j].age = a
       /\ timer' = [j \in Ids |->
            IF j = i THEN [timer[i] EXCEPT !.age = a, !.idle = 0, !.dirty = TRUE]
            ELSE IF j \in T THEN NewTimer ELSE timer[j]]
  /\ owed' = (owed \ T) \cup {i}

(* assign_entity_graph: with no open incident touched, a new one is opened  *)
(* if there is room; otherwise the first touched one survives, which is any *)
(* of them, for the order of the selectors is the configuration's.  A       *)
(* result that finds no room changes nothing but stale entries.             *)
AssignEntityGraph(r) ==
  LET W == Joinable(r)
  IN  /\ cfg.mode = "entity_graph"
      /\ \E i \in IF Touched(W) # {} THEN Touched(W)
                  ELSE IF Cardinality(open) < cfg.maxOpen THEN Surrogates \ open
                  ELSE {} :
           LET stored == Stored(W, UNION {entities[k] : k \in Touched(W) \cup {i}})
           IN  /\ Merge(i, W, stored)
               /\ Absorb(i, Touched(W))
               /\ counts' = [v \in Values |->
                    IF v \in stored THEN (IF v \in Stale(W) THEN 0 ELSE counts[v]) + 1
                    ELSE IF v \in Stale(W) THEN 0 ELSE counts[v]]
      /\ UNCHANGED <<cfg, restarts>>

(* The same when it is refused. *)
Refuse(r) ==
  LET W == Joinable(r)
  IN  /\ cfg.mode = "entity_graph"
      /\ Touched(W) = {}
      /\ Cardinality(open) >= cfg.maxOpen
      /\ index' = [v \in Values |-> IF v \in Stale(W) THEN None ELSE index[v]]
      /\ counts' = [v \in Values |-> IF v \in Stale(W) THEN 0 ELSE counts[v]]
      /\ UNCHANGED <<cfg, open, entities, timer, owed, restarts>>

(* assign_group_by: the id is the fingerprint of the group key. *)
AssignGroupBy(k) ==
  /\ cfg.mode = "group_by"
  /\ k \in open \/ Cardinality(open) < cfg.maxOpen
  /\ Absorb(k, {})
  /\ UNCHANGED <<cfg, entities, index, counts, restarts>>

-----------------------------------------------------------------------------
(* Mutant: group_wait counts from the last result. *)
FirstDueMutant(i) == ~timer[i].opened /\ timer[i].idle >= GroupWait

(* Mutant: resolve_timeout counts from the last emission. *)
ResolveDueMutant(i) == timer[i].opened /\ timer[i].since >= Resolve

(* The chain of conditions of tick. *)
FirstDue(i) == ~timer[i].opened /\ timer[i].age >= GroupWait
ResolveDue(i) == timer[i].opened /\ timer[i].idle >= Resolve
UpdateDue(i) == /\ timer[i].opened /\ ~ResolveDue(i)
                /\ timer[i].dirty /\ timer[i].since >= GroupInterval
RepeatDue(i) == /\ timer[i].opened /\ ~ResolveDue(i) /\ ~UpdateDue(i)
                /\ Repeat > 0 /\ timer[i].since >= Repeat

Due == {i \in open : FirstDue(i) \/ ResolveDue(i) \/ UpdateDue(i) \/ RepeatDue(i)}

(* Mutant: resolving leaves the index entries. *)
EvictMutant(R) ==
  /\ open' = open \ R
  /\ entities' = [i \in Ids |-> IF i \in R THEN {} ELSE entities[i]]
  /\ UNCHANGED <<index, counts>>

(* Resolved incidents leave with their values, index entries and counters. *)
Evict(R) ==
  LET gone == UNION {entities[i] : i \in R}
  IN  /\ open' = open \ R
      /\ entities' = [i \in Ids |-> IF i \in R THEN {} ELSE entities[i]]
      /\ index' = [v \in Values |-> IF v \in gone THEN None ELSE index[v]]
      /\ counts' = [v \in Values |-> IF v \in gone THEN 0 ELSE counts[v]]

(* tick: every incident is looked at once.  A repeat keeps dirty. *)
Tick ==
  LET resolved == {i \in open : ResolveDue(i)}
  IN  /\ Due # {}
      /\ Evict(resolved)
      /\ timer' = [i \in Ids |->
           IF i \in resolved THEN NewTimer
           ELSE IF i \in open /\ (FirstDue(i) \/ UpdateDue(i))
             THEN [timer[i] EXCEPT !.opened = TRUE, !.dirty = FALSE, !.since = 0]
           ELSE IF i \in open /\ RepeatDue(i) THEN [timer[i] EXCEPT !.since = 0]
           ELSE timer[i]]
      /\ owed' = owed \ Due
      /\ UNCHANGED <<cfg, restarts>>

(* A second passes. *)
Advance ==
  /\ timer' = [i \in Ids |-> IF i \in open THEN Older(timer[i], 1) ELSE timer[i]]
  /\ UNCHANGED <<cfg, graphVars, owed, restarts>>

-----------------------------------------------------------------------------
(* Which incidents enforce_caps may evict: as many as exceed the cap, none  *)
(* seen more recently than one that stays.                                  *)
Excess(present, max) ==
  {gone \in SUBSET present :
     /\ Cardinality(present \ gone) = max \/ (gone = {} /\ Cardinality(present) <= max)
     /\ \A i \in gone, j \in present \ gone : timer[i].idle >= timer[j].idle}

(* What an incident may keep of its values: per selector, the cap's worth.  *)
(* Which ones go, the last in order, is left open.                          *)
WithinCap(E, max) ==
  {K \in SUBSET E : \A v \in E :
     LET size == Cardinality(Under(E, SelectorOf[v]))
     IN  Cardinality(Under(K, SelectorOf[v])) = IF size <= max THEN size ELSE max}

(* Mutant: the incidents beyond the cap stay. *)
TrimMutant(c, present) ==
  \E K \in SUBSET UNION {entities[i] : i \in present} :
    /\ \A i \in present : entities[i] \cap K \in WithinCap(entities[i], c.maxEntities)
    /\ open' = present
    /\ entities' = [i \in Ids |-> IF i \in present THEN entities[i] \cap K ELSE {}]

(* enforce_caps on the incidents `present`; K is what stays of the values. *)
Trim(c, present) ==
  \E gone \in Excess(present, c.maxOpen) :
    \E K \in SUBSET UNION {entities[i] : i \in present \ gone} :
      /\ \A i \in present \ gone : entities[i] \cap K \in WithinCap(entities[i], c.maxEntities)
      /\ open' = present \ gone
      /\ entities' = [i \in Ids |-> IF i \in present \ gone THEN entities[i] \cap K ELSE {}]

(* forget_value, for each value that left its incident. *)
Forgotten == {v \in Values : \E i \in Ids : /\ v \in entities[i] \ entities'[i]
                                            /\ index[v] = i}

(* A reload swaps the pipeline and trims the store under the state lock. *)
Reload(c) ==
  /\ cfg' = c
  /\ Trim(c, open)
  /\ index' = [v \in Values |-> IF v \in Forgotten THEN None ELSE index[v]]
  /\ counts' = [v \in Values |-> IF v \in Forgotten THEN 0 ELSE counts[v]]
  /\ timer' = [i \in Ids |-> IF i \in open' THEN timer[i] ELSE NewTimer]
  /\ owed' = owed \cap open'
  /\ UNCHANGED restarts

(* A restart d ticks after the snapshot was taken, with configuration c:    *)
(* incidents past resolve_timeout are dropped, the rest trimmed, the index  *)
(* rebuilt, and the counters, which no snapshot holds, start over.          *)
Restart(c, d) ==
  /\ restarts < MaxRestarts
  /\ restarts' = restarts + 1
  /\ cfg' = c
  /\ Trim(c, {i \in open : Aged(timer[i].idle, d, Resolve) < Resolve})
  /\ index' = [v \in Values |-> IF \E i \in Ids : v \in entities'[i]
                                THEN CHOOSE i \in Ids : v \in entities'[i] ELSE None]
  /\ counts' = [v \in Values |-> 0]
  /\ timer' = [i \in Ids |-> IF i \in open' THEN Older(timer[i], d) ELSE NewTimer]
  /\ owed' = owed \cap open'

-----------------------------------------------------------------------------
Init ==
  /\ cfg \in Configs
  /\ open = {}
  /\ entities = [i \in Ids |-> {}]
  /\ timer = [i \in Ids |-> NewTimer]
  /\ index = [v \in Values |-> None]
  /\ counts = [v \in Values |-> 0]
  /\ owed = {}
  /\ restarts = 0

Next ==
  \/ \E r \in Results : AssignEntityGraph(r)
  \/ \E r \in Results : Refuse(r)
  \/ \E k \in Keys : AssignGroupBy(k)
  \/ Tick
  \/ Advance
  \/ \E c \in Configs : Reload(c)
  \/ \E c \in Configs, d \in 0..Resolve : Restart(c, d)

Spec == Init /\ [][Next]_vars

(* The clock runs and the sink task's tick is polled.  Nothing is assumed   *)
(* of results, reloads and restarts.                                        *)
FairSpec == Spec /\ WF_vars(Tick) /\ WF_vars(Advance)

-----------------------------------------------------------------------------
Timer == [age : 0..GroupWait, idle : 0..Resolve, since : 0..SinceCap,
          opened : BOOLEAN, dirty : BOOLEAN]

(* Types; what is closed keeps nothing, and no index entry names it. *)
TypeOK ==
  /\ cfg \in Configs
  /\ open \subseteq Ids
  /\ entities \in [Ids -> SUBSET Values]
  /\ timer \in [Ids -> Timer]
  /\ index \in [Values -> open \cup {None}]
  /\ counts \in [Values -> Nat]
  /\ owed \subseteq open
  /\ restarts \in 0..MaxRestarts
  /\ \A i \in Ids \ open : entities[i] = {} /\ timer[i] = NewTimer

(* The entity index is exactly the inverse of the incidents' value sets,    *)
(* through merges, caps, resolution, reloads and restarts, and a counter    *)
(* exists only for an indexed value: no entry goes stale and none leaks.    *)
IndexAgrees ==
  /\ \A v \in Values, i \in Ids : index[v] = i <=> v \in entities[i]
  /\ \A v \in Values : counts[v] > 0 => index[v] # None

(* max_open_incidents holds on the live path and after every reload and     *)
(* restart, under the caps then in force.                                   *)
WithinMaxOpen == Cardinality(open) <= cfg.maxOpen

(* Grouping by the index, with its merges, repointing and evictions,        *)
(* implements grouping by a scan of the open incidents.                     *)
Groups == INSTANCE IncidentGroups WITH Id <- Ids, Value <- Values, members <- entities
ImplementsGroups == Groups!Spec

(* Every result that was given an incident is reported in an emission of    *)
(* it, or of the one it is merged into, unless the incident is evicted:     *)
(* however often later results, merges and reloads touch the timers.        *)
EveryResultReported == \A i \in Ids : i \in owed ~> i \notin owed

(* An incident that no result has joined for resolve_timeout is closed, or  *)
(* one joins it after all.                                                  *)
IdleResolves ==
  \A i \in Ids : (i \in open /\ timer[i].idle = Resolve)
                   ~> (i \notin open \/ timer[i].idle < Resolve)
=============================================================================
