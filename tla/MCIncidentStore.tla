--------------------------- MODULE MCIncidentStore ---------------------------
(* Two selectors; a has two values, b two, of which "-" is a stop value.    *)
EXTENDS IncidentStore

MCValues == {"a1", "a2", "b1", "-"}
MCSelectorOf == [v \in MCValues |-> IF v \in {"a1", "a2"} THEN "a" ELSE "b"]
MCResults == {{"a1"}, {"a1", "b1"}, {"a2", "b1"}, {"a2", "-"}}

Caps(m, o, e, n) == [mode |-> m, maxOpen |-> o, maxEntities |-> e, maxCardinality |-> n]
MCConfigs == {Caps("entity_graph", 2, 2, 2), Caps("entity_graph", 1, 1, 1),
              Caps("group_by", 2, 1, 1)}
=============================================================================
