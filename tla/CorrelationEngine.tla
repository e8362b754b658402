-------------------------- MODULE CorrelationEngine --------------------------
(***************************************************************************)
(* The correlation engine (rsigma-eval/src/correlation_engine/mod.rs): an  *)
(* event that matched detection rules updates every correlation that       *)
(* refers to them, group by group; firings update the correlations that    *)
(* refer to those, round by round; state is evicted when a new event finds *)
(* the engine at its limit; a reload carries the state over.               *)
(*                                                                         *)
(* One event is one call in the code.  Here it is a step per window it     *)
(* updates, taken in the code's order, and the properties about finished   *)
(* events are stated between calls (Idle).                                 *)
(*                                                                         *)
(* Detection, event-mode `refs` (kept like `full`) and the aggregates over *)
(* floating-point values other than the sum are left out.                  *)
(***************************************************************************)
EXTENDS CorrelationWindow

CONSTANTS
  RuleOrder,     (* the detection rules, in the order they report           *)
  CorrOrder,     (* the correlations, in index order                        *)
  Fields,        (* what an event can be grouped by: the fields that a      *)
                 (* correlation's group-by names, or its aliases resolve to *)
  Groups,        (* values of those fields                                  *)
  All,           (* the group of a correlation without group-by             *)
  RuleSets,      (* what a reload may load: [Corrs -> rule or None]         *)
  Events,        (* what may arrive: [rules, group, value], value or the    *)
                 (* group of a field None where the event lacks it          *)
  MaxState,      (* max_state_entries                                       *)
  MaxBuffered,   (* max_correlation_events                                  *)
  MaxDepth,      (* MAX_CHAIN_DEPTH                                         *)
  MaxTime,       (* bound: the latest timestamp                             *)
  MaxLate,       (* bound: how much older than the last an event may be     *)
  MaxEvents,     (* bound: events processed                                 *)
  MaxReloads     (* bound: reloads                                          *)

Rules == ToSet(RuleOrder)
Corrs == ToSet(CorrOrder)
Keys == Corrs \X (Groups \cup {All})

(* What an event has in the fields. *)
Grouping == [Fields -> Groups \cup {None}]

(* A compiled correlation; the parser rejects a timespan of zero.  An alias *)
(* among the group-by fields stands for another field of the event with     *)
(* each rule: by says which.                                                *)
CorrelationRule ==
  [type : {"event_count", "value_count", "value_sum"} \cup Temporal,
   mode : {"sliding", "tumbling", "session"},
   timespan : Nat \ {0}, gap : Nat,
   refs : Seq(Rules \cup Corrs), grouped : BOOLEAN, by : [Rules -> Fields],
   threshold : Int, suppress : Nat, reset : BOOLEAN, cap : Nat, buffered : BOOLEAN]

Call == [rules : SUBSET Rules, group : Grouping, value : Int \cup {None}, t : 0..MaxTime]

ASSUME ConstantsAssumption ==
  /\ RuleOrder \in Seq(Rules) /\ CorrOrder \in Seq(Corrs)
  /\ Names \subseteq Rules \cup Corrs /\ Rules \cap Corrs = {} /\ Plain \notin Names
  /\ IsFiniteSet(Fields) /\ Fields # {}
  /\ None \notin Groups \cup {All} /\ All \notin Groups /\ None \notin Call
  /\ {MaxState, MaxBuffered, MaxDepth} \subseteq Nat \ {0}
  /\ {MaxTime, MaxLate, MaxEvents, MaxReloads} \subseteq Nat
  /\ Events \subseteq [rules : SUBSET Rules, group : Grouping, value : Int \cup {None}]

ASSUME RulesAssumption ==
  /\ RuleSets \subseteq [Corrs -> CorrelationRule \cup {None}]
  /\ \A R \in RuleSets : \A c \in Corrs :
       R[c] # None /\ R[c].type \in Temporal => ToSet(R[c].refs) \subseteq Names

(* Reloads may drop correlations and bring them back, and change those they *)
(* keep in everything but their window and their suppression.  The code     *)
(* does not ask for this, the properties that compare what was done under   *)
(* one rule set with what another says do.                                  *)
RulesKept ==
  \A Q, R \in RuleSets : \A c \in Corrs :
    Q[c] # None /\ R[c] # None =>
      /\ Q[c].mode = R[c].mode /\ Q[c].timespan = R[c].timespan
      /\ Q[c].suppress = R[c].suppress

(* Those that keep an event buffer also keep what decides over it, and no   *)
(* other correlation feeds them: a firing counts in the window, but is no   *)
(* event the buffer could take.                                             *)
BuffersKept ==
  /\ \A Q, R \in RuleSets : \A c \in Corrs :
       Q[c] # None /\ R[c] # None =>
         /\ Q[c].type = R[c].type /\ Q[c].cap = R[c].cap
         /\ Q[c].buffered = R[c].buffered
  /\ \A R \in RuleSets : \A c \in Corrs :
       R[c] # None /\ R[c].buffered => ToSet(R[c].refs) \subseteq Rules

(* Those that windows are handed to keep what the window is read by.  The   *)
(* cap of a session is not 1: truncation would keep its first entry only,   *)
(* and the gap be measured from that one.                                   *)
WindowsKept ==
  /\ \A Q, R \in RuleSets : \A c \in Corrs :
       Q[c] # None /\ R[c] # None =>
         /\ Q[c].type = R[c].type /\ Q[c].mode = R[c].mode /\ Q[c].cap = R[c].cap
         /\ Q[c].timespan = R[c].timespan /\ Q[c].gap = R[c].gap
  /\ \A R \in RuleSets : \A c \in Corrs :
       R[c] # None /\ R[c].mode = "session" => R[c].cap # 1

VARIABLES
  corr,        (* the loaded correlations                                   *)
  state,       (* the windows, for the keys that have one                   *)
  buffer,      (* per key, the timestamps of its event buffer               *)
  lastAlert,   (* per key, when it last fired, or None                      *)
  event,       (* the event being processed, with its time t, or None       *)
  work,        (* updates of this round still to do                         *)
  fired,       (* keys that fired in this round: `pending`                  *)
  depth,       (* chain rounds begun                                        *)
  received, reloads,
  now,         (* history: timestamp of the last event                      *)
  ordered,     (* history: no event was older than one before it            *)
  arrived,     (* history: per key, every entry it was due since it was     *)
               (* last reset by its own firing or evicted at the limit      *)
  alerted      (* history: lastAlert, forgotten only at the limit           *)

engine == <<corr, state, buffer, lastAlert>>
call == <<event, work, fired, depth>>
history == <<now, ordered, arrived, alerted>>
vars == <<engine, call, received, reloads, history>>

-----------------------------------------------------------------------------
Idle == event = None

Loaded == {c \in Corrs : corr[c] # None}

(* Selected positions of a sequence, in order. *)
At(s, I) ==
  LET Rank(i) == Cardinality({j \in I : j <= i})
  IN  [n \in 1..Cardinality(I) |-> s[CHOOSE i \in I : Rank(i) = n]]

(* All pairs of s and t, those with the first of s first. *)
Pairs(s, t) ==
  [n \in 1..Len(s) * Len(t) |->
     <<s[((n - 1) \div Len(t)) + 1], t[((n - 1) % Len(t)) + 1]>>]

(* GroupKey::extract: the group of an event under c, None if it has none.   *)
(* With aliases it depends on the rule the event matched, so that one event *)
(* may update c in several groups.                                          *)
EventGroup(c, r, e) == IF corr[c].grouped THEN e.group[corr[c].by[r]] ELSE All

(* GroupKey::from_pairs: the group of a firing with group g under c. *)
ChainGroup(c, g) == IF ~corr[c].grouped THEN All ELSE IF g = All THEN None ELSE g

Refers(c, name) == c \in Loaded /\ name \in ToSet(corr[c].refs)

(* feed_detections: which updates an event asks for.  Those without a group *)
(* return at once and are left out.                                         *)
DirectWork(e) ==
  LET pairs == Pairs(RuleOrder, CorrOrder)
      asked == {n \in DOMAIN pairs :
                  /\ pairs[n][1] \in e.rules
                  /\ Refers(pairs[n][2], pairs[n][1])
                  /\ EventGroup(pairs[n][2], pairs[n][1], e) # None}
      updates == At(pairs, asked)
  IN  [n \in DOMAIN updates |->
         [key |-> <<updates[n][2], EventGroup(updates[n][2], updates[n][1], e)>>,
          ref |-> updates[n][1]]]

(* One round of chain_correlations: each correlation once for each child    *)
(* that fired, for the group of the first firing of that child.  A child    *)
(* that fired for a second group is not heard for it.                       *)
ChainWork(pending) ==
  LET pairs == Pairs(pending, CorrOrder)
      asked == {n \in DOMAIN pairs : Refers(pairs[n][2], pairs[n][1][1])}
      first == {n \in asked : \A m \in asked :
                  m < n => pairs[m][2] # pairs[n][2] \/ pairs[m][1][1] # pairs[n][1][1]}
      updates == At(pairs, {n \in first : ChainGroup(pairs[n][2], pairs[n][1][2]) # None})
  IN  [n \in DOMAIN updates |->
         [key |-> <<updates[n][2], ChainGroup(updates[n][2], updates[n][1][2])>>,
          ref |-> updates[n][1][1]]]

-----------------------------------------------------------------------------
(* Mutant: tumbling and session windows are trimmed from the front too. *)
AgedWindowMutant(k, t) == Evict(state[k], t - corr[k[1]].timespan)

(* A window after the time-based phase of evict_all: a tumbling or session  *)
(* window goes as a whole, when the next event would start it over anyway.  *)
AgedWindow(k, t) ==
  LET c == corr[k[1]]
      w == state[k]
  IN  IF c.mode = "sliding" THEN Evict(w, t - c.timespan)
      ELSE IF ~IsEmpty(w) /\ t - Latest(w) > (IF c.mode = "session" THEN c.gap ELSE c.timespan)
        THEN Clear(w)
      ELSE w

(* What the hard cap takes of the windows W: the stalest, so that nine      *)
(* tenths of the limit are left.                                            *)
Stalest(W) ==
  LET target == (MaxState * 9) \div 10
  IN  IF Cardinality(DOMAIN W) < MaxState THEN {{}}
      ELSE {gone \in SUBSET DOMAIN W :
              /\ Cardinality(gone) = Cardinality(DOMAIN W) - target
              /\ \A k \in gone, j \in DOMAIN W \ gone : Latest(W[k]) <= Latest(W[j])}

(* Mutant: the buffers of windows that aged out stay. *)
AgedBufferMutant(k, alive, t) ==
  IF corr[k[1]].mode = "sliding" THEN FromFront(buffer[k], t - corr[k[1]].timespan)
  ELSE buffer[k]

(* A buffer after the same phase, the windows in alive having stayed. *)
AgedBuffer(k, alive, t) ==
  IF corr[k[1]].mode = "sliding" THEN FromFront(buffer[k], t - corr[k[1]].timespan)
  ELSE IF k \in alive THEN buffer[k] ELSE <<>>

(* Mutant: an alert is forgotten with the window it was raised for. *)
AgedAlertMutant(k, alive, t) == IF k \in alive THEN lastAlert[k] ELSE None

(* An alert is remembered while it suppresses, whatever became of the window. *)
AgedAlert(k, alive, t) ==
  IF lastAlert[k] # None /\ t - lastAlert[k] < corr[k[1]].suppress THEN lastAlert[k] ELSE None

(* evict_all, at the time of the event that found the engine full. *)
EvictAll(t) ==
  LET alive == {k \in DOMAIN state : ~IsEmpty(AgedWindow(k, t))}
      aged == [k \in alive |-> AgedWindow(k, t)]
  IN  \E gone \in Stalest(aged) :
        /\ state' = [k \in alive \ gone |-> aged[k]]
        /\ buffer' = [k \in Keys |->
             IF k \in gone \/ k[1] \notin Loaded THEN <<>> ELSE AgedBuffer(k, alive, t)]
        /\ lastAlert' = [k \in Keys |->
             IF k \in gone \/ k[1] \notin Loaded THEN None ELSE AgedAlert(k, alive, t)]
        /\ arrived' = [k \in Keys |-> IF k \in gone THEN <<>> ELSE arrived[k]]
        /\ alerted' = [k \in Keys |-> IF k \in gone THEN None ELSE alerted[k]]

(* Mutant: the limit is checked one too late. *)
MakeRoomMutant(t) ==
  IF Cardinality(DOMAIN state) > MaxState THEN EvictAll(t)
  ELSE UNCHANGED <<state, buffer, lastAlert, arrived, alerted>>

MakeRoom(t) ==
  IF Cardinality(DOMAIN state) >= MaxState THEN EvictAll(t)
  ELSE UNCHANGED <<state, buffer, lastAlert, arrived, alerted>>

(* process_with_detection_identities: a call begins. *)
Receive(e, t) ==
  /\ Idle
  /\ received < MaxEvents
  /\ t + MaxLate >= now
  /\ MakeRoom(t)
  /\ event' = [rules |-> e.rules, group |-> e.group, value |-> e.value, t |-> t]
  /\ work' = DirectWork(e)
  /\ received' = received + 1
  /\ now' = t
  /\ ordered' = (ordered /\ t >= now)
  /\ UNCHANGED <<corr, fired, depth, reloads>>

-----------------------------------------------------------------------------
Window(k) == IF k \in DOMAIN state THEN state[k] ELSE NewWindow(Variant(corr[k[1]].type))

(* The windows with w as that of k. *)
With(k, w) == [j \in {k} \cup DOMAIN state |-> IF j = k THEN w ELSE state[j]]

Direct == depth = 0

(* What update u adds to its window: nothing when a direct event lacks the  *)
(* aggregated value, or when the window has another variant.                *)
Adds(u) ==
  LET c == corr[u.key[1]]
      variant == IF Direct \/ c.type \in Temporal THEN Variant(c.type) ELSE "event_count"
  IN  /\ Window(u.key).variant = variant
      /\ variant \in {"value_count", "value_sum"} => event.value # None

Slot(u) == IF corr[u.key[1]].type \in Temporal THEN u.ref ELSE Plain

Entry(u) ==
  [t |-> event.t,
   v |-> IF corr[u.key[1]].type \in {"value_count", "value_sum"} THEN event.value ELSE None]

(* The window after an update that is not discarded. *)
Updated(u) ==
  LET c == corr[u.key[1]]
      opened == Opened(Window(u.key), c, event.t)
  IN  Truncate(IF Adds(u) THEN Push(opened, Slot(u), Entry(u)) ELSE opened, c)

(* Its event buffer: every direct event goes in, counted or not. *)
UpdatedBuffer(u) ==
  LET k == u.key
      c == corr[k[1]]
      kept == IF c.mode = "sliding" THEN FromFront(buffer[k], event.t - c.timespan)
              ELSE IF RollsOver(Window(k), c, event.t) THEN <<>> ELSE buffer[k]
  IN  IF ~Direct \/ ~c.buffered THEN buffer[k]
      ELSE Append(IF Len(kept) >= MaxBuffered THEN Tail(kept) ELSE kept, [t |-> event.t])

Suppressed(k) ==
  /\ corr[k[1]].suppress > 0
  /\ lastAlert[k] # None
  /\ event.t - lastAlert[k] < corr[k[1]].suppress

(* update_correlation and the body of chain_correlations, for an event of a *)
(* bucket that has passed: the window is created if need be, and that is    *)
(* all.                                                                     *)
Discard ==
  /\ work # <<>>
  /\ LET k == Head(work).key
     IN  /\ Late(Window(k), corr[k[1]], event.t)
         /\ state' = With(k, Window(k))
  /\ work' = Tail(work)
  /\ UNCHANGED <<corr, buffer, lastAlert, event, fired, depth, received, reloads, history>>

(* A firing is a hit, and no value that could be aggregated. *)
CountsFirings(c) == corr[c].type \in {"event_count"} \cup Temporal

(* What k is due from the updates `rest` of a chain round. *)
DueFrom(k, rest) ==
  LET due == At(rest, {n \in DOMAIN rest : rest[n].key = k /\ CountsFirings(k[1])})
  IN  [n \in DOMAIN due |-> [slot |-> Slot(due[n]), entry |-> Entry(due[n])]]

(* What k is still due in this round, after the update at hand. *)
StillDue(k) == IF Direct THEN <<>> ELSE DueFrom(k, Tail(work))

(* The same for every other event: it is counted, and the condition checked. *)
Count ==
  /\ work # <<>>
  /\ LET u == Head(work)
         k == u.key
         c == corr[k[1]]
         w == Updated(u)
         fires == Satisfied(c, w) /\ ~Suppressed(k)
         resets == fires /\ c.reset
     IN  /\ ~Late(Window(k), c, event.t)
         /\ state' = With(k, IF resets THEN Clear(w) ELSE w)
         /\ buffer' = [buffer EXCEPT ![k] =
              IF resets /\ Direct THEN <<>> ELSE UpdatedBuffer(u)]
         /\ lastAlert' = IF fires THEN [lastAlert EXCEPT ![k] = event.t] ELSE lastAlert
         /\ alerted' = IF fires THEN [alerted EXCEPT ![k] = event.t] ELSE alerted
         /\ fired' = IF fires THEN Append(fired, k) ELSE fired
         /\ arrived' = [arrived EXCEPT ![k] =
              IF resets THEN StillDue(k)
              ELSE IF Direct /\ Adds(u)
                THEN Append(@, [slot |-> Slot(u), entry |-> Entry(u)])
              ELSE @]
  /\ work' = Tail(work)
  /\ UNCHANGED <<corr, event, depth, received, reloads, now, ordered>>

(* History: a window is due the first firing of the round of each child its *)
(* correlation refers to, when that is of its group.  A child fires twice   *)
(* when the event matched two of its rules, and for two groups when these   *)
(* resolve its aliases to two fields.                                       *)
FiringsDue(k) ==
  LET due == At(fired, {n \in DOMAIN fired :
               /\ Refers(k[1], fired[n][1]) /\ CountsFirings(k[1])
               /\ ChainGroup(k[1], fired[n][2]) = k[2]
               /\ \A m \in 1..n - 1 : fired[m][1] # fired[n][1]})
  IN  [n \in DOMAIN due |->
         [slot |-> IF corr[k[1]].type \in Temporal THEN due[n][1] ELSE Plain,
          entry |-> [t |-> event.t, v |-> None]]]

(* The next round of chain_correlations. *)
Chain ==
  /\ work = <<>>
  /\ fired # <<>>
  /\ depth < MaxDepth
  /\ work' = ChainWork(fired)
  /\ fired' = <<>>
  /\ depth' = depth + 1
  /\ arrived' = [k \in Keys |-> arrived[k] \o FiringsDue(k)]
  /\ UNCHANGED <<engine, event, received, reloads, now, ordered, alerted>>

(* The call returns: no round has work left, or the chain is cut off. *)
Return ==
  /\ event # None
  /\ work = <<>>
  /\ fired = <<>> \/ depth = MaxDepth
  /\ event' = None
  /\ fired' = <<>>
  /\ depth' = 0
  /\ UNCHANGED <<engine, work, received, reloads, history>>

(* A reload: export_state from the old engine, import_state into the new,   *)
(* by the correlations' identifiers, whatever else became of the rule.      *)
Reload(R) ==
  LET Stays(k) == R[k[1]] # None
  IN  /\ Idle
      /\ reloads < MaxReloads
      /\ reloads' = reloads + 1
      /\ corr' = R
      /\ state' = [k \in {j \in DOMAIN state : Stays(j)} |-> state[k]]
      /\ buffer' = [k \in Keys |-> IF Stays(k) THEN buffer[k] ELSE <<>>]
      /\ lastAlert' = [k \in Keys |-> IF Stays(k) THEN lastAlert[k] ELSE None]
      /\ arrived' = [k \in Keys |-> IF Stays(k) THEN arrived[k] ELSE <<>>]
      /\ alerted' = [k \in Keys |-> IF Stays(k) THEN alerted[k] ELSE None]
      /\ UNCHANGED <<call, received, now, ordered>>

-----------------------------------------------------------------------------
Init ==
  /\ corr \in RuleSets
  /\ state = <<>>
  /\ buffer = [k \in Keys |-> <<>>]
  /\ lastAlert = [k \in Keys |-> None]
  /\ event = None
  /\ work = <<>>
  /\ fired = <<>>
  /\ depth = 0
  /\ received = 0
  /\ reloads = 0
  /\ now = 0
  /\ ordered = TRUE
  /\ arrived = [k \in Keys |-> <<>>]
  /\ alerted = [k \in Keys |-> None]

Next ==
  \/ \E e \in Events, t \in 0..MaxTime : Receive(e, t)
  \/ Discard
  \/ Count
  \/ Chain
  \/ Return
  \/ \E R \in RuleSets : Reload(R)

Spec == Init /\ [][Next]_vars

-----------------------------------------------------------------------------
(* Types. *)
Entries == [t : 0..MaxTime, v : Int \cup {None}]

Windows ==
  [variant : {"event_count", "value_count", "value_sum", "temporal"},
   hits : [Slots -> Seq(Entries)]]

Updates == [key : Keys, ref : Rules \cup Corrs]

Alerts == [Keys -> 0..MaxTime \cup {None}]

(* The state of the engine and of a call is well formed. *)
TypeOK ==
  /\ corr \in RuleSets
  /\ DOMAIN state \subseteq Keys /\ state \in [DOMAIN state -> Windows]
  /\ buffer \in [Keys -> Seq([t : 0..MaxTime])]
  /\ lastAlert \in Alerts /\ alerted \in Alerts
  /\ event \in Call \cup {None}
  /\ work \in Seq(Updates) /\ fired \in Seq(Keys)
  /\ depth \in 0..MaxDepth /\ received \in 0..MaxEvents /\ reloads \in 0..MaxReloads
  /\ now \in 0..MaxTime /\ ordered \in BOOLEAN
  /\ arrived \in [Keys -> Seq([slot : Slots, entry : Entries])]

(* Where the session that is open after the entries s began: the reference  *)
(* segmentation of a sequence of arrivals into sessions.                    *)
SessionStart(c, s) ==
  LET start[i \in 1..Len(s)] ==
        IF i = 1 THEN 1
        ELSE IF \/ s[i].entry.t - s[i - 1].entry.t > c.gap
                \/ s[i].entry.t - s[start[i - 1]].entry.t > c.timespan
          THEN i ELSE start[i - 1]
  IN  start[Len(s)]

(* Which of the entries s are in a window of c at time t, by definition of  *)
(* the mode and of nothing that happened in between.                        *)
InWindow(c, s, t) ==
  CASE c.mode = "sliding" -> {i \in DOMAIN s : s[i].entry.t >= t - c.timespan}
    [] c.mode = "tumbling" ->
         {i \in DOMAIN s : BucketStart(s[i].entry.t, c.timespan) = BucketStart(t, c.timespan)}
    [] c.mode = "session" ->
         IF \/ s = <<>>
            \/ t - s[Len(s)].entry.t > c.gap
            \/ t - s[SessionStart(c, s)].entry.t > c.timespan
         THEN {} ELSE SessionStart(c, s)..Len(s)

(* Those of one slot, the newest up to the cap. *)
Reference(c, s, t, slot) ==
  LET due == At(s, {i \in InWindow(c, s, t) : s[i].slot = slot})
      entries == [n \in DOMAIN due |-> due[n].entry]
  IN  IF c.cap = 0 THEN entries ELSE Newest(entries, c.cap, c.mode = "session")

(* As long as events come in the order of their timestamps, what an event   *)
(* arriving now would find in a window is exactly what the window's mode    *)
(* says of all that arrived: eviction at the limit by age, the rollover of  *)
(* buckets and sessions, the per-group cap, the chain rounds and reloads    *)
(* neither add nor lose an entry, given WindowsKept.  What arrived is what  *)
(* a window was due: of a chain round, the first firing of each child.      *)
WindowIsReference ==
  (Idle /\ ordered) =>
     \A k \in Keys, slot \in Slots :
       k[1] \in Loaded =>
         LET c == corr[k[1]]
         IN  Opened(Window(k), c, now).hits[slot] = Reference(c, arrived[k], now, slot)

(* A tumbling window never mixes two buckets, in whatever order events come *)
(* and whatever the limits have taken from it, given RulesKept.             *)
OneBucket ==
  \A k \in DOMAIN state :
    corr[k[1]].mode = "tumbling" =>
      \A s, r \in Full(state[k]) :
        \A x \in Times(state[k].hits[s]), y \in Times(state[k].hits[r]) :
          BucketStart(x, corr[k[1]].timespan) = BucketStart(y, corr[k[1]].timespan)

(* The events an alert would carry are the newest of those its window       *)
(* counts, in whatever order they come: for an event_count without a cap,   *)
(* whose buffer is evicted, cleared and dropped apart from the window,      *)
(* given BuffersKept.                                                       *)
BufferIsSuffix ==
  \A k \in Keys :
    (k[1] \in Loaded /\ corr[k[1]].type = "event_count" /\ corr[k[1]].cap = 0) =>
      LET times == [i \in DOMAIN Window(k).hits[Plain] |-> [t |-> Window(k).hits[Plain][i].t]]
      IN  IsSuffix(buffer[k], times)

(* Two alerts of one group are at least the suppression window apart, as    *)
(* long as events come in order and the limit has not taken the group:      *)
(* however often eviction forgets windows and alerts in between, given      *)
(* RulesKept.                                                               *)
SuppressionHolds ==
  [][\A k \in Keys :
       (ordered /\ alerted[k] # None /\ Len(fired') > Len(fired) /\ Last(fired') = k)
         => event.t - alerted[k] >= corr[k[1]].suppress]_vars

(* The greedy check of temporal_ordered finds an ordered choice of hits     *)
(* whenever there is one, also in deques that are out of order.             *)
OrderIsExistential ==
  \A k \in DOMAIN state :
    corr[k[1]].type = "temporal_ordered" =>
      LET refs == corr[k[1]].refs
          hits == state[k].hits
      IN  InOrder(refs, hits) <=>
            \E f \in [DOMAIN refs -> 0..MaxTime] :
              /\ \A i \in DOMAIN refs : f[i] \in Times(hits[refs[i]])
              /\ \A i, j \in DOMAIN refs : i < j => f[i] <= f[j]

(* The windows that event e may touch: of each loaded correlation, those of *)
(* the groups that the fields of e name.                                    *)
KeyFor(k, e) ==
  /\ k \in Keys /\ k[1] \in Loaded
  /\ IF corr[k[1]].grouped THEN \E f \in Fields : k[2] = e.group[f] ELSE k[2] = All

(* max_state_entries is exceeded by no more than what one event adds: while *)
(* a call runs, fewer windows than that are of other groups than those of   *)
(* its event, and between calls there is no more over it than a window per  *)
(* correlation and field.  A buffer keeps its own limit, and nothing is     *)
(* kept for a correlation that is gone.                                     *)
StateBounded ==
  /\ event # None => Cardinality({k \in DOMAIN state : ~KeyFor(k, event)}) < MaxState
  /\ Cardinality(DOMAIN state) < MaxState + Cardinality(Loaded) * Cardinality(Fields)
  /\ \A k \in DOMAIN state : k[1] \in Loaded
  /\ \A k \in Keys :
       /\ Len(buffer[k]) <= MaxBuffered
       /\ k[1] \notin Loaded => buffer[k] = <<>> /\ lastAlert[k] = None
=============================================================================
