----------------------------- MODULE MCRecovery -----------------------------
(* Instances of Recovery: two or three events, the second published a       *)
(* second after the first.                                                  *)
EXTENDS Recovery

MCTimeOf == [e \in 1..NEvents |-> IF e = 1 THEN 1 ELSE 2]

Start(m, p, n) == [mode |-> m, policy |-> p, from |-> n]

Replays == {Start("auto", "sequence", n) : n \in 1..NEvents}
             \cup {Start("auto", "time", 2), Start("auto", "latest", 0)}

(* A replay forward or backward, as the stored position is before its start *)
(* or not; starts without one; and one that is told to keep the state.      *)
MCStarts == {Start("auto", "sequence", 2), Start("auto", "time", 2),
             Start("auto", "latest", 0), Resume, Start("keep", "sequence", 1)}
MCReplays == Replays \cup {Resume}
MCClear == {Start("clear", "resume", 0)}
=============================================================================
