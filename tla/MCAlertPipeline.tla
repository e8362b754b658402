--------------------------- MODULE MCAlertPipeline ---------------------------
(* Instances of AlertPipeline: two rules that inhibit each other's sources, *)
(* one of them with a result that is its source and its target.             *)
EXTENDS AlertPipeline

MCFingerprintOf == [r \in Results |-> IF r = "low" THEN "low" ELSE "high"]
MCMutes == [s \in Silences |-> {"crit"}]

OneHost == [r \in Results |-> "host"]
Down == [source |-> {"crit", "both"}, target |-> {"low", "both"}, key |-> OneHost, duration |-> 2]
Up == [source |-> {"low"}, target |-> {"crit"}, key |-> OneHost, duration |-> 1]

Pipe(rules, dedup, silences, max) ==
  [rules |-> rules, dedup |-> dedup, static |-> silences,
   maxAlerts |-> max, maxSources |-> max, maxSilences |-> IF max = 0 THEN 0 ELSE 1]

(* Reloads that drop a rule or a stage, lower the caps, bring a silence. *)
MCConfigs == {Pipe([n \in Rules |-> IF n = "0" THEN Down ELSE Up], TRUE, {}, 2),
              Pipe([n \in {"0"} |-> Down], TRUE, {"s"}, 1),
              Pipe([n \in {} |-> Down], FALSE, {}, 0)}
=============================================================================
