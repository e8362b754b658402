---------------------------- MODULE MCCorrelation ----------------------------
(* Instances of CorrelationEngine: a tumbling count whose group-by has an   *)
(* alias, so that one event updates it in two groups; a sliding value       *)
(* count; a parent of these, which a reload may change into one without a   *)
(* group-by; and a session that wants two rules in order.                   *)
EXTENDS CorrelationEngine, TLC

MCRuleOrder == <<"r1", "r2">>
MCCorrOrder == <<"burst", "spread", "session", "parent">>
MCNames == {"r1", "r2"}

Rule(type, mode, timespan, gap, threshold, refs) ==
  [type |-> type, mode |-> mode, timespan |-> timespan, gap |-> gap,
   threshold |-> threshold, refs |-> refs, grouped |-> TRUE,
   by |-> [r \in MCNames |-> "src"], suppress |-> 0, reset |-> FALSE, cap |-> 0,
   buffered |-> FALSE]

Burst == [Rule("event_count", "tumbling", 2, 0, 2, <<"r1", "r2">>) EXCEPT
            !.by["r2"] = "dst", !.buffered = TRUE]
Spread == [Rule("value_count", "sliding", 1, 0, 2, <<"r1">>) EXCEPT
             !.suppress = 3, !.reset = TRUE]
Chained == [Rule("temporal_ordered", "session", 2, 2, 2, <<"r1", "r2">>) EXCEPT
              !.by = [r \in MCNames |-> "dst"], !.cap = 2]
Parent == Rule("event_count", "sliding", 2, 0, 2, <<"burst", "spread">>)

MCAll == "burst" :> Burst @@ "spread" :> Spread @@ "session" :> Chained @@ "parent" :> Parent
MCFew == [MCAll EXCEPT !["burst"] = None, !["session"] = None, !["parent"].grouped = FALSE]
MCRuleSets == {MCAll, MCFew}

(* The rule sets meet the hypotheses of the properties that name one. *)
ASSUME Hypotheses == RulesKept /\ BuffersKept /\ WindowsKept

Ev(rules, src, dst, value) ==
  [rules |-> rules, group |-> "src" :> src @@ "dst" :> dst, value |-> value]
MCEvents == {Ev({"r1"}, "g", None, 1), Ev({"r2"}, None, "h", None),
             Ev({"r1", "r2"}, "g", "h", 2)}
=============================================================================
