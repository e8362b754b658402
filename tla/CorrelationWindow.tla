-------------------------- MODULE CorrelationWindow --------------------------
(***************************************************************************)
(* The window of one group of one correlation rule                         *)
(* (rsigma-eval/src/correlation/window.rs): what an arriving event evicts, *)
(* when a tumbling or session window starts over, the per-group cap, and   *)
(* the aggregate the condition is checked against.                         *)
(*                                                                         *)
(* A window is its variant, fixed when it is created, and per slot the     *)
(* deque of its entries in the order they arrived.  The variants of        *)
(* `event_count`, `value_count` and the numeric aggregates use the one     *)
(* slot Plain; a temporal window has a slot per referenced rule.           *)
(*                                                                         *)
(* A rule is a record: type, mode, timespan, gap, threshold (the condition *)
(* is "at least"), refs, and the fields CorrelationEngine uses.            *)
(***************************************************************************)
EXTENDS Integers, Sequences, FiniteSets, SequencesExt, FiniteSetsExt

CONSTANTS
  Names,    (* what a temporal rule refers to                               *)
  Plain,    (* the slot of the variants that have one deque                 *)
  None      (* no value                                                     *)

Slots == Names \cup {Plain}

Temporal == {"temporal", "temporal_ordered"}

(* WindowState::new_for: the variant a type is aggregated in. *)
Variant(type) == IF type \in Temporal THEN "temporal" ELSE type

NewWindow(variant) == [variant |-> variant, hits |-> [s \in Slots |-> <<>>]]

Full(w) == {s \in Slots : w.hits[s] # <<>>}

IsEmpty(w) == Full(w) = {}

(* Front and back of the deques, not least and greatest timestamp. *)
Earliest(w) == Min({Head(w.hits[s]).t : s \in Full(w)})
Latest(w) == Max({Last(w.hits[s]).t : s \in Full(w)})

Clear(w) == NewWindow(w.variant)

-----------------------------------------------------------------------------
(* Entries leave from the front while they are older than the cutoff: one   *)
(* that arrived behind a newer one stays as long as that one does.          *)
FromFront(entries, cutoff) ==
  LET kept == {i \in DOMAIN entries : entries[i].t >= cutoff}
  IN  IF kept = {} THEN <<>> ELSE SubSeq(entries, Min(kept), Len(entries))

Evict(w, cutoff) == [w EXCEPT !.hits = [s \in Slots |-> FromFront(@[s], cutoff)]]

BucketStart(t, timespan) == t - (t % timespan)

(* Mutant: an event of an earlier bucket joins the active one. *)
LateMutant(w, c, t) == FALSE

(* A straggler of a bucket that has passed (WindowDecision::Discard). *)
Late(w, c, t) ==
  /\ c.mode = "tumbling"
  /\ c.timespan > 0
  /\ ~IsEmpty(w)
  /\ BucketStart(t, c.timespan) < BucketStart(Latest(w), c.timespan)

(* The window starts over with this event (WindowDecision::Reset). *)
RollsOver(w, c, t) ==
  /\ ~IsEmpty(w)
  /\ \/ /\ c.mode = "tumbling"
        /\ c.timespan > 0
        /\ BucketStart(t, c.timespan) > BucketStart(Latest(w), c.timespan)
     \/ /\ c.mode = "session"
        /\ \/ t - Latest(w) > c.gap
           \/ c.timespan > 0 /\ t - Earliest(w) > c.timespan

(* apply_window_open, for an event that is not discarded. *)
Opened(w, c, t) ==
  IF c.mode = "sliding" THEN Evict(w, t - c.timespan)
  ELSE IF RollsOver(w, c, t) THEN Clear(w) ELSE w

Push(w, slot, entry) == [w EXCEPT !.hits[slot] = Append(@, entry)]

(* The newest entries up to the cap; a session keeps its first one, which   *)
(* its total span is measured from, in place of the oldest of them.         *)
Newest(entries, cap, anchored) ==
  IF Len(entries) <= cap THEN entries
  ELSE IF anchored
    THEN <<Head(entries)>> \o SubSeq(entries, Len(entries) - cap + 2, Len(entries))
  ELSE SubSeq(entries, Len(entries) - cap + 1, Len(entries))

(* truncate_oldest; cap 0 stands for no cap configured. *)
Truncate(w, c) ==
  IF c.cap = 0 THEN w
  ELSE [w EXCEPT !.hits = [s \in Slots |-> Newest(@[s], c.cap, c.mode = "session")]]

-----------------------------------------------------------------------------
Times(entries) == {entries[i].t : i \in DOMAIN entries}

Never == -1

(* Mutant: each rule's newest hit is taken. *)
InOrderMutant(refs, hits) ==
  LET taken[i \in 0..Len(refs)] ==
        IF i = 0 THEN 0
        ELSE LET later == {t \in Times(hits[refs[i]]) : t >= taken[i - 1]}
             IN  IF taken[i - 1] = Never \/ later = {} THEN Never ELSE Max(later)
  IN  taken[Len(refs)] # Never

(* check_temporal_ordered: rule by rule, the earliest hit not before the    *)
(* one taken for the rule before it.  Timestamps are never negative.        *)
InOrder(refs, hits) ==
  LET taken[i \in 0..Len(refs)] ==
        IF i = 0 THEN 0
        ELSE LET later == {t \in Times(hits[refs[i]]) : t >= taken[i - 1]}
             IN  IF taken[i - 1] = Never \/ later = {} THEN Never ELSE Min(later)
  IN  taken[Len(refs)] # Never

Aggregate(c, w) ==
  CASE c.type = "event_count" -> Len(w.hits[Plain])
    [] c.type = "value_count" -> Cardinality({e.v : e \in ToSet(w.hits[Plain])})
    [] c.type = "value_sum" -> FoldLeft(LAMBDA sum, e : sum + e.v, 0, w.hits[Plain])
    [] c.type = "temporal" -> Cardinality(ToSet(c.refs) \cap Full(w))
    [] c.type = "temporal_ordered" ->
         IF InOrder(c.refs, w.hits) THEN Cardinality(ToSet(c.refs)) ELSE 0

(* check_condition: a window of another variant never satisfies it. *)
Satisfied(c, w) == w.variant = Variant(c.type) /\ Aggregate(c, w) >= c.threshold
=============================================================================
