------------------------------ MODULE AckJoin -------------------------------
(***************************************************************************)
(* What the delivery layer promises the event source: a result's tokens    *)
(* are released only once every sink has settled it (delivered it, handed  *)
(* the failure to the DLQ, or, for a best-effort sink, dropped it), and    *)
(* only a released token is acknowledged.  A restart forgets what was      *)
(* released and not yet acknowledged, never what a sink has settled.       *)
(***************************************************************************)
EXTENDS Naturals

CONSTANTS
  Event,  (* results that carry the tokens of an input event *)
  Party   (* the sinks that must settle each of them         *)

VARIABLES
  settled,   (* per sink, the results it has settled          *)
  released,  (* results whose tokens are on their way back    *)
  acked      (* results acknowledged to the source            *)

vars == <<settled, released, acked>>

Init ==
  /\ settled = [p \in Party |-> {}]
  /\ released = {}
  /\ acked = {}

Settle(p) ==
  /\ \E r \in Event : settled' = [settled EXCEPT ![p] = @ \cup {r}]
  /\ UNCHANGED <<released, acked>>

(* A worker commits a whole batch at a time. *)
Release(R) ==
  /\ \A r \in R : \A p \in Party : r \in settled[p]
  /\ released' = released \cup R
  /\ UNCHANGED <<settled, acked>>

Acknowledge(r) ==
  /\ r \in released
  /\ released' = released \ {r}
  /\ acked' = acked \cup {r}
  /\ UNCHANGED settled

Restart ==
  /\ released' = {}
  /\ UNCHANGED <<settled, acked>>

Next ==
  \/ \E p \in Party : Settle(p)
  \/ \E R \in SUBSET Event : Release(R)
  \/ \E r \in Event : Acknowledge(r)
  \/ Restart

Spec == Init /\ [][Next]_vars
=============================================================================
