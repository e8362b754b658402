--------------------------- MODULE IncidentGroups ---------------------------
(***************************************************************************)
(* What entity_graph grouping promises, by a scan of the open incidents    *)
(* and without an index: a result joins every open incident that shares    *)
(* one of its join values and fuses them, it opens an incident of its own  *)
(* only if no open one shares any, and an incident never takes over a      *)
(* value that it was not offered.  Incidents and values may leave.         *)
(***************************************************************************)
EXTENDS Naturals

CONSTANTS
  Id,      (* incident ids             *)
  Value    (* (selector, value) pairs  *)

VARIABLES
  open,    (* the open incidents       *)
  members  (* the values of each       *)

vars == <<open, members>>

(* The open incidents that share a value with W. *)
Sharing(W) == {j \in open : members[j] \cap W # {}}

Taken(W) == UNION {members[j] : j \in Sharing(W)}

Init ==
  /\ open = {}
  /\ members = [i \in Id |-> {}]

(* A result with the join values W ends up in i. *)
Join(i, W) ==
  /\ IF Sharing(W) = {} THEN i \notin open ELSE i \in Sharing(W)
  /\ open' = (open \ Sharing(W)) \cup {i}
  /\ members' \in [Id -> SUBSET Value]
  /\ Taken(W) \subseteq members'[i]
  /\ members'[i] \subseteq Taken(W) \cup W
  /\ \A j \in Id \ {i} : members'[j] = IF j \in Sharing(W) THEN {} ELSE members[j]

(* Incidents resolve or are evicted, values are cut. *)
Shrink ==
  /\ open' \subseteq open
  /\ members' \in [Id -> SUBSET Value]
  /\ \A i \in Id : members'[i] \subseteq IF i \in open' THEN members[i] ELSE {}

Next ==
  \/ \E i \in Id : \E W \in SUBSET Value : Join(i, W)
  \/ Shrink

Spec == Init /\ [][Next]_vars
=============================================================================
