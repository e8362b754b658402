--------------------------- MODULE RiskAccumulator ---------------------------
(***************************************************************************)
(* The risk accumulator (rsigma-runtime/src/risk), driven by the sink task: *)
(* each firing adds to the sliding window of its entities, an entity that  *)
(* crosses a threshold raises an incident unless it is cooling down, a     *)
(* tick ages entities out, and a reload or a restart replaces the layer.   *)
(*                                                                         *)
(* A step records one contribution; a batch is one of them.  Scoring and   *)
(* the extraction of entities are left out: a contribution has a kind.     *)
(*                                                                         *)
(* Time.  Ages stand for the differences to now and stop at the largest    *)
(* threshold they are compared with; the clock does not step back, so a    *)
(* window is in order of age.  A restart finds the state of the last save, *)
(* older by the time since.                                                *)
(***************************************************************************)
EXTENDS Integers, Sequences, FiniteSets

CONSTANTS
  Entities,
  Kinds,        (* kinds of contributions                                   *)
  Score,        (* the score of each                                        *)
  Tactics,      (* the tactics it touches                                   *)
  Layers,       (* the risk layers a reload or a restart may load           *)
  None,
  Window,       (* incident.window, in ticks                                *)
  Cooldown,     (* incident.cooldown                                        *)
  MaxResults,   (* max_results_per_incident                                 *)
  MaxRecords    (* bound: contributions                                     *)

(* RiskLayer: whether it has an `incident` block, and its thresholds.  A    *)
(* threshold that is not configured is one no window reaches.               *)
Layer == [accumulates : BOOLEAN, score : Nat, tactics : Nat, maxOpen : Nat]

ASSUME ConstantsAssumption ==
  /\ IsFiniteSet(Entities)
  /\ Score \in [Kinds -> Nat]
  /\ \A k \in Kinds : IsFiniteSet(Tactics[k])
  /\ Layers \subseteq Layer
  /\ None \notin Layers \cup Nat
  /\ {Window, MaxResults} \subseteq Nat \ {0}
  /\ {Cooldown, MaxRecords} \subseteq Nat

VARIABLES
  layer,        (* the published risk layer                                 *)
  loaded,       (* what the sink task has loaded ahead of the lock, or None *)
  reloading,    (* the layer a reload is about to publish, or None          *)
  hits,         (* per tracked entity, its contributions, oldest first      *)
  fired,        (* per tracked entity, the age of last_fired, or None       *)
  alarm,        (* the entities the last step raised an incident for        *)
  seen,         (* history: per entity, what was recorded in its window     *)
  since,        (* history: per entity, the age of its last incident        *)
  records

store == <<hits, fired>>
vars == <<layer, loaded, reloading, store, alarm, seen, since, records>>

-----------------------------------------------------------------------------
Tracked == DOMAIN hits

Longest == IF Cooldown >= Window THEN Cooldown ELSE Window

Aged(age, d) == IF age + d >= Longest THEN Longest ELSE age + d

Older(window, d) == [i \in DOMAIN window |-> [window[i] EXCEPT !.age = Aged(@, d)]]

(* How many contributions have left the window. *)
Gone(window) == Cardinality({i \in DOMAIN window : window[i].age >= Window})

(* EntityWindow::prune. *)
Prune(window) == SubSeq(window, Gone(window) + 1, Len(window))

(* The contributions kept of a window that has grown by one. *)
Newest(window) ==
  IF Len(window) <= MaxResults THEN window
  ELSE SubSeq(window, Len(window) - MaxResults + 1, Len(window))

Total(window) ==
  LET sum[i \in 0..Len(window)] == IF i = 0 THEN 0 ELSE sum[i - 1] + Score[window[i].kind]
  IN  sum[Len(window)]

TacticCount(window) == Cardinality(UNION {Tactics[window[i].kind] : i \in DOMAIN window})

Crosses(c, window) == Total(window) >= c.score \/ TacticCount(window) >= c.tactics

(* Mutant: the cooldown ends a second late. *)
CoolingMutant(e) == e \in Tracked /\ fired[e] # None /\ fired[e] <= Cooldown

Cooling(e) == e \in Tracked /\ fired[e] # None /\ fired[e] < Cooldown

-----------------------------------------------------------------------------
(* The sink task takes the layer, before it waits for the state lock. *)
Load ==
  /\ loaded = None
  /\ loaded' = layer
  /\ alarm' = {}
  /\ UNCHANGED <<layer, reloading, store, seen, since, records>>

(* A batch with no entity, or for a layer that does not accumulate. *)
Pass ==
  /\ loaded # None
  /\ loaded' = None
  /\ alarm' = {}
  /\ UNCHANGED <<layer, reloading, store, seen, since, records>>

HasRoom(e) == e \in Tracked \/ Cardinality(Tracked) < loaded.maxOpen

(* record: the window slides, grows and is cut to the cap, and the entity   *)
(* raises an incident if it crosses a threshold and is not cooling down.    *)
Record(e, kind) ==
  LET hit == [age |-> 0, kind |-> kind]
      window == Newest(Append(IF e \in Tracked THEN Prune(hits[e]) ELSE <<>>, hit))
      fires == Crosses(loaded, window) /\ ~Cooling(e)
      last == IF fires THEN 0 ELSE IF e \in Tracked THEN fired[e] ELSE None
  IN  /\ records < MaxRecords
      /\ loaded # None /\ loaded.accumulates
      /\ HasRoom(e)
      /\ hits' = [f \in Tracked \cup {e} |-> IF f = e THEN window ELSE hits[f]]
      /\ fired' = [f \in Tracked \cup {e} |-> IF f = e THEN last ELSE fired[f]]
      /\ alarm' = IF fires THEN {e} ELSE {}
      /\ since' = IF fires THEN [since EXCEPT ![e] = 0] ELSE since
      /\ seen' = [seen EXCEPT ![e] = Append(@, hit)]
      /\ records' = records + 1
      /\ loaded' = None
      /\ UNCHANGED <<layer, reloading>>

(* A new entity that finds no room is not tracked. *)
Refuse(e) ==
  /\ loaded # None /\ loaded.accumulates
  /\ ~HasRoom(e)
  /\ loaded' = None
  /\ alarm' = {}
  /\ UNCHANGED <<layer, reloading, store, seen, since, records>>

(* Mutant: an entity leaves when its oldest contribution does. *)
LiveMutant(e) == Gone(hits[e]) = 0

(* An entity with something left in its window. *)
Live(e) == Prune(hits[e]) # <<>>

(* Mutant: empty entities stay. *)
SlideMutant ==
  /\ hits' = [e \in Tracked |-> Prune(hits[e])]
  /\ UNCHANGED fired

(* RiskState::tick: windows slide, and empty entities leave with their      *)
(* last_fired.                                                              *)
Slide ==
  LET live == {e \in Tracked : Live(e)}
  IN  /\ hits' = [e \in live |-> Prune(hits[e])]
      /\ fired' = [e \in live |-> fired[e]]

(* The sink task's tick, for a layer that does not accumulate a no-op. *)
Tick ==
  /\ loaded # None
  /\ IF loaded.accumulates THEN Slide ELSE UNCHANGED store
  /\ loaded' = None
  /\ alarm' = {}
  /\ UNCHANGED <<layer, reloading, seen, since, records>>

(* A second passes. *)
Advance ==
  /\ hits' = [e \in Tracked |-> Older(hits[e], 1)]
  /\ fired' = [e \in Tracked |-> IF fired[e] = None THEN None ELSE Aged(fired[e], 1)]
  /\ seen' = [e \in Entities |-> Prune(Older(seen[e], 1))]
  /\ since' = [e \in Entities |-> Aged(since[e], 1)]
  /\ alarm' = {}
  /\ UNCHANGED <<layer, loaded, reloading, records>>

-----------------------------------------------------------------------------
(* A reload: the store is cleared if the new layer does not accumulate, ... *)
StartReload(c) ==
  /\ reloading = None
  /\ reloading' = c
  /\ alarm' = {}
  /\ IF c.accumulates THEN UNCHANGED <<store, seen, since>>
     ELSE /\ hits' = <<>> /\ fired' = <<>>
          /\ seen' = [e \in Entities |-> <<>>]
          /\ since' = [e \in Entities |-> Longest]
  /\ UNCHANGED <<layer, loaded, records>>

(* ... and the layer is published after the lock is released. *)
FinishReload ==
  /\ reloading # None
  /\ layer' = reloading
  /\ reloading' = None
  /\ alarm' = {}
  /\ UNCHANGED <<loaded, store, seen, since, records>>

(* An entity with something left in its window after d more ticks. *)
Restorable(e, d) == Prune(Older(hits[e], d)) # <<>>

(* A restart d ticks after the last save, with layer c: entities with       *)
(* anything in the window come back, in no order, until there is no room.   *)
Restart(c, d) ==
  LET found == IF c.accumulates THEN {e \in Tracked : Restorable(e, d)} ELSE {}
  IN  \E kept \in SUBSET found :
        /\ Cardinality(kept) <= c.maxOpen
        /\ kept = found \/ Cardinality(kept) = c.maxOpen
        /\ layer' = c
        /\ loaded' = None
        /\ reloading' = None
        /\ hits' = [e \in kept |-> Prune(Older(hits[e], d))]
        /\ fired' = [e \in kept |-> IF fired[e] = None THEN None ELSE Aged(fired[e], d)]
        /\ seen' = [e \in Entities |->
             IF e \in kept THEN Prune(Older(seen[e], d)) ELSE <<>>]
        /\ since' = [e \in Entities |->
             IF e \in Tracked \ kept THEN Longest ELSE Aged(since[e], d)]
        /\ alarm' = {}
        /\ UNCHANGED records

-----------------------------------------------------------------------------
Init ==
  /\ layer \in Layers
  /\ loaded = None
  /\ reloading = None
  /\ hits = <<>>
  /\ fired = <<>>
  /\ alarm = {}
  /\ seen = [e \in Entities |-> <<>>]
  /\ since = [e \in Entities |-> Longest]
  /\ records = 0

Next ==
  \/ Load
  \/ Pass
  \/ \E e \in Entities, k \in Kinds : Record(e, k)
  \/ \E e \in Entities : Refuse(e)
  \/ Tick
  \/ Advance
  \/ \E c \in Layers : StartReload(c)
  \/ FinishReload
  \/ \E c \in Layers, d \in 0..Longest : Restart(c, d)

Spec == Init /\ [][Next]_vars

(* The clock runs, the sink task keeps coming to its tick, a reload ends.   *)
(* Nothing is assumed of results and restarts.                              *)
FairSpec == Spec /\ WF_vars(Load) /\ SF_vars(Tick) /\ WF_vars(Advance) /\ WF_vars(FinishReload)

-----------------------------------------------------------------------------
Contribution == [age : 0..Longest, kind : Kinds]

(* Types; at most max_results_per_incident contributions are kept. *)
TypeOK ==
  /\ layer \in Layers
  /\ loaded \in Layers \cup {None}
  /\ reloading \in Layers \cup {None}
  /\ Tracked \subseteq Entities
  /\ DOMAIN fired = Tracked
  /\ \A e \in Tracked : /\ hits[e] \in Seq(Contribution)
                        /\ Len(hits[e]) \in 1..MaxResults
                        /\ fired[e] \in 0..Longest \cup {None}
  /\ alarm \subseteq Entities
  /\ seen \in [Entities -> Seq(Contribution)]
  /\ since \in [Entities -> 0..Longest]
  /\ records \in 0..MaxRecords

(* An entity's window holds exactly what was recorded for it within the     *)
(* window, newest first up to the cap, whether it is tracked without pause, *)
(* aged out and tracked again, or restored.                                 *)
WindowIsReference ==
  \A e \in Entities :
    (IF e \in Tracked THEN Prune(hits[e]) ELSE <<>>) = Newest(seen[e])

Least(m, n) == IF m <= n THEN m ELSE n

(* Two incidents of one entity are at least the cooldown apart, or the      *)
(* window where that is shorter: then the tick drops an entity that has     *)
(* been silent for a window together with its last_fired.  It holds over    *)
(* eviction and restarts, as long as the store is not cleared by a reload   *)
(* or the entity left behind by a restart for lack of room.                 *)
CooldownHolds ==
  [][\A e \in alarm' : since[e] >= Least(Cooldown, Window)]_vars

(* A contribution raises an incident whenever the window it completes       *)
(* crosses a threshold and no incident of the entity is within the cooldown *)
(* and it never does when the window does not cross one.                    *)
IncidentWhenDue ==
  [][\A e \in Entities :
       (records' > records /\ seen'[e] # seen[e]) =>
         /\ Crosses(loaded, Newest(seen'[e])) /\ since[e] >= Cooldown => e \in alarm'
         /\ e \in alarm' => Crosses(loaded, Newest(seen'[e]))]_vars

(* An entity all of whose contributions have left the window is dropped, or *)
(* hears of another, or the accumulator is configured away.                 *)
EntitiesAgeOut ==
  \A e \in Entities :
    (e \in Tracked /\ ~Live(e)) ~> (e \notin Tracked \/ Live(e) \/ ~layer.accumulates)
=============================================================================
