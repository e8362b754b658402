--------------------------- MODULE MCDispositions ---------------------------
(* Instances of Dispositions: a verdict with its own time in the polled     *)
(* source, and one on an incident, pushed, which gets the time it is read.  *)
EXTENDS Dispositions

Verdict1 == [rule |-> "r1", id |-> None, verdict |-> "fp", ts |-> 0]
Verdict2 == [rule |-> None, id |-> "i", verdict |-> "tp", ts |-> None]

MCRecords == {Verdict1, Verdict2}
MCFileRecords == <<Verdict1>>
MCPushRecords == <<Verdict2>>
=============================================================================
