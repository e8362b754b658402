------------------------------ MODULE Recovery ------------------------------
(***************************************************************************)
(* What the daemon remembers across restarts: the NATS source and its      *)
(* acknowledgements, the ack task's high-water position, the saver that    *)
(* writes one cut of all state to SQLite, and the restore decision at the  *)
(* next start (rsigma-cli/src/daemon/server.rs and store.rs,               *)
(* rsigma-runtime/src/io/nats_source.rs).                                  *)
(*                                                                         *)
(* State is counted per event: `counted` is how often the correlation      *)
(* windows have seen it, `scored` how often the stores of the sink task    *)
(* (risk accumulator and alert pipeline) have.  The stages in between are  *)
(* those of modules Evaluation (in order) and Delivery (acks in any order).*)
(***************************************************************************)
EXTENDS Naturals, Sequences

CONSTANTS
  NEvents,       (* events, numbered by their stream sequence               *)
  TimeOf,        (* per event, the time it was published                    *)
  Hits,          (* the events with a result that enrichment keeps          *)
  Blank,         (* the events whose payload is blank                       *)
  Correlating,   (* whether the engine has correlation rules                *)
  Starts,        (* the ways a restart is configured: restore mode, policy  *)
  Savers,        (* subset of {"periodic", "final"}                         *)
  MaxRestarts,   (* bound on the restarts explored                          *)
  MaxRedeliver,  (* bound on the redeliveries to a running daemon           *)
  None           (* no position, no snapshot                                *)

Event == 1..NEvents

ASSUME ConstantsAssumption ==
  /\ NEvents \in Nat
  /\ TimeOf \in [Event -> Nat]
  /\ \A d, e \in Event : d <= e => TimeOf[d] <= TimeOf[e]
  /\ Hits \subseteq Event
  /\ Blank \subseteq Event /\ Blank \cap Hits = {}
  /\ Correlating \in BOOLEAN
  /\ Starts \subseteq
       [mode : {"auto", "keep", "clear"},
        policy : {"resume", "latest", "sequence", "time"}, from : Nat]
  /\ Savers \subseteq {"periodic", "final"}
  /\ MaxRestarts \in Nat
  /\ MaxRedeliver \in Nat
  /\ None \notin Nat /\ None \notin [Event -> Nat]
  /\ None \notin [seq : Event, time : Nat]

VARIABLES
  published,  (* events in the stream                                      *)
  todo,       (* events the consumer will hand out                         *)
  seen,       (* events the consumer has handed out                        *)
  acked,      (* events acknowledged at the consumer                       *)
  redelivered,(* number of redeliveries so far                             *)
  drain,      (* shutdown: not yet, draining, or past the drain timeout    *)
  inq,        (* received, not evaluated                                   *)
  counted,    (* correlation windows                                       *)
  sinkq,      (* results on their way to the sink task                     *)
  scored,     (* risk and alert stores                                     *)
  delivering, (* results the sinks have not all settled                    *)
  ackq,       (* tokens on their way to the ack task                       *)
  hw,         (* the high-water position, or None                          *)
  settled,    (* history: events whose token the ack task has taken, here  *)
              (* or in the process whose windows, or stores, were restored *)
  save,       (* per saver, the phase of its save and what it has captured *)
  db,         (* the state database                                        *)
  start,      (* history: what this process restored, and `twice`, what a  *)
              (* replay compared with the stored position hands out of it  *)
  restarts

sourceVars == <<published, todo, seen, acked, redelivered>>
flowVars   == <<drain, inq, sinkq, delivering, ackq>>
stateVars  == <<counted, scored, hw, settled>>
diskVars   == <<save, db>>
startVars  == <<start, restarts>>
vars == <<sourceVars, flowVars, stateVars, diskVars, startVars>>

Zero == [e \in Event |-> 0]

Nothing == [windows |-> {}, stores |-> {}]
NoRows  == [counted |-> None, scored |-> None]

(* The rows of the database; the stores of the sink task share one here.    *)
Rows == [counted |-> db.counted, scored |-> db.scored]

(* A cut that has captured nothing.  Its base is history: the rows that     *)
(* were stored when its capture began.                                      *)
NoCut == [phase |-> "idle", pos |-> None, counted |-> None, scored |-> None,
          settled |-> Nothing, base |-> NoRows]

(* The latest of the high-water position and event e (fetch_max, twice). *)
Advance(e) ==
  IF hw = None THEN [seq |-> e, time |-> TimeOf[e]]
  ELSE [seq  |-> IF e > hw.seq THEN e ELSE hw.seq,
        time |-> IF TimeOf[e] > hw.time THEN TimeOf[e] ELSE hw.time]

-----------------------------------------------------------------------------
(* Somebody publishes the next event. *)
Publish ==
  /\ published < NEvents
  /\ published' = published + 1
  /\ todo' = todo \cup {published + 1}
  /\ UNCHANGED <<seen, acked, redelivered, flowVars, stateVars, diskVars,
                 startVars>>

(* Unacknowledged for ack_wait: the consumer hands the event out again. *)
Redeliver(e) ==
  /\ redelivered < MaxRedeliver
  /\ e \in seen \ (acked \cup todo)
  /\ todo' = todo \cup {e}
  /\ redelivered' = redelivered + 1
  /\ UNCHANGED <<published, seen, acked, flowVars, stateVars, diskVars,
                 startVars>>

(* The consumer hands out new events in order, redeliveries at any time. *)
HandOut(e) ==
  /\ drain = "no"
  /\ e \in todo
  /\ e \in seen \/ \A d \in todo \ seen : e <= d
  /\ todo' = todo \ {e}
  /\ seen' = seen \cup {e}

(* NatsSource::recv returns an event, which goes to the event channel. *)
Receive(e) ==
  /\ HandOut(e)
  /\ e \notin Blank
  /\ inq' = Append(inq, e)
  /\ UNCHANGED <<published, acked, redelivered, drain, sinkq, delivering,
                 ackq, stateVars, diskVars, startVars>>

(* NatsSource::recv skips a blank payload: the message is dropped. *)
SkipBlank(e) ==
  /\ HandOut(e)
  /\ e \in Blank
  /\ UNCHANGED <<published, acked, redelivered, flowVars, stateVars, diskVars,
                 startVars>>

-----------------------------------------------------------------------------
(* The engine counts an event and the dispatch task passes it on: with an   *)
(* empty result it is acknowledged at once.                                 *)
Evaluate(empty) ==
  /\ inq # <<>>
  /\ LET e == Head(inq) IN
       /\ e \in Hits => ~empty
       /\ counted' = IF Correlating THEN [counted EXCEPT ![e] = @ + 1]
                     ELSE counted
       /\ IF empty THEN ackq' = ackq \cup {e} /\ UNCHANGED sinkq
                   ELSE sinkq' = Append(sinkq, e) /\ UNCHANGED ackq
  /\ inq' = Tail(inq)
  /\ UNCHANGED <<sourceVars, drain, delivering, scored, hw, settled,
                 diskVars, startVars>>

(* Mutant: a folded result is dropped with its tokens. *)
SinkScoreMutant(folded) ==
  /\ sinkq # <<>>
  /\ LET e == Head(sinkq) IN
       /\ e \in Hits
       /\ scored' = [scored EXCEPT ![e] = @ + 1]
       /\ IF folded THEN UNCHANGED <<ackq, delivering>>
          ELSE delivering' = delivering \cup {e} /\ UNCHANGED ackq
  /\ sinkq' = Tail(sinkq)
  /\ UNCHANGED <<sourceVars, drain, inq, counted, hw, settled, diskVars,
                 startVars>>

(* The sink task scores a result in the risk and alert stores, then         *)
(* acknowledges it if the alert pipeline folded it away, or dispatches it.  *)
SinkScore(folded) ==
  /\ sinkq # <<>>
  /\ LET e == Head(sinkq) IN
       /\ e \in Hits
       /\ scored' = [scored EXCEPT ![e] = @ + 1]
       /\ IF folded THEN ackq' = ackq \cup {e} /\ UNCHANGED delivering
          ELSE delivering' = delivering \cup {e} /\ UNCHANGED ackq
  /\ sinkq' = Tail(sinkq)
  /\ UNCHANGED <<sourceVars, drain, inq, counted, hw, settled, diskVars,
                 startVars>>

(* Enrichment suppressed the whole result: acknowledged, never scored. *)
SinkSuppress ==
  /\ sinkq # <<>>
  /\ Head(sinkq) \notin Hits
  /\ ackq' = ackq \cup {Head(sinkq)}
  /\ sinkq' = Tail(sinkq)
  /\ UNCHANGED <<sourceVars, drain, inq, delivering, stateVars, diskVars,
                 startVars>>

(* Every sink has settled the result (module Delivery). *)
Deliver(e) ==
  /\ e \in delivering
  /\ delivering' = delivering \ {e}
  /\ ackq' = ackq \cup {e}
  /\ UNCHANGED <<sourceVars, drain, inq, sinkq, stateVars, diskVars,
                 startVars>>

(* The ack task raises the high-water position, then acknowledges; the ack  *)
(* may not reach the server.                                                *)
AckToken(e, sent) ==
  /\ e \in ackq
  /\ ackq' = ackq \ {e}
  /\ hw' = Advance(e)
  /\ settled' = [windows |-> settled.windows \cup {e},
                 stores  |-> settled.stores \cup {e}]
  /\ acked' = IF sent THEN acked \cup {e} ELSE acked
  /\ UNCHANGED <<published, todo, seen, redelivered, drain, inq, sinkq,
                 delivering, counted, scored, diskVars, startVars>>

-----------------------------------------------------------------------------
Quiet == inq = <<>> /\ sinkq = <<>> /\ delivering = {} /\ ackq = {}

(* Mutant: the last save does not wait for the drain. *)
CapturePositionMutant(s) ==
  /\ s \in Savers
  /\ save[s].phase = "idle"
  /\ s = "final" => drain # "no"
  /\ save' = [save EXCEPT ![s] =
       [NoCut EXCEPT !.phase = "position", !.pos = hw, !.settled = settled,
                     !.base = Rows]]
  /\ UNCHANGED <<sourceVars, flowVars, stateVars, db, startVars>>

(* StateSources::capture, one step per state it reads: the position first. *)
CapturePosition(s) ==
  /\ s \in Savers
  /\ save[s].phase = "idle"
  /\ s = "final" => drain = "timeout" \/ (drain = "draining" /\ Quiet)
  /\ save' = [save EXCEPT ![s] =
       [NoCut EXCEPT !.phase = "position", !.pos = hw, !.settled = settled,
                     !.base = Rows]]
  /\ UNCHANGED <<sourceVars, flowVars, stateVars, db, startVars>>

(* LogProcessor::export_state; a detection-only engine has no snapshot. *)
CaptureWindows(s) ==
  /\ save[s].phase = "position"
  /\ save' = [save EXCEPT ![s] =
       [@ EXCEPT !.phase = "windows",
                 !.counted = IF Correlating THEN counted ELSE None]]
  /\ UNCHANGED <<sourceVars, flowVars, stateVars, db, startVars>>

(* The alert-pipeline and risk snapshots. *)
CaptureStores(s) ==
  /\ save[s].phase = "windows"
  /\ save' = [save EXCEPT ![s] =
       [@ EXCEPT !.phase = "captured", !.scored = scored]]
  /\ UNCHANGED <<sourceVars, flowVars, stateVars, db, startVars>>

(* The periodic saver waits for its next tick, the final save was the last. *)
AfterSave(s, outcome) ==
  [NoCut EXCEPT !.phase = IF s = "final" THEN outcome ELSE "idle"]

(* Mutant: the position is read when the cut is written. *)
SaveAllMutant(s) ==
  /\ save[s].phase = "captured"
  /\ db' = [counted |-> IF save[s].counted = None THEN db.counted
                        ELSE save[s].counted,
            pos     |-> IF save[s].counted = None THEN db.pos ELSE hw,
            scored  |-> save[s].scored,
            settled |-> settled,
            by      |-> s]
  /\ save' = [save EXCEPT ![s] = AfterSave(s, "done")]
  /\ UNCHANGED <<sourceVars, flowVars, stateVars, startVars>>

(* save_all: one transaction; a snapshot that is None leaves its row as it  *)
(* is, and the position is a column of the correlation row.  Two saves that *)
(* overlap commit in either order; `by` is history, the last to commit.     *)
SaveAll(s) ==
  /\ save[s].phase = "captured"
  /\ db' = [counted |-> IF save[s].counted = None THEN db.counted
                        ELSE save[s].counted,
            pos     |-> IF save[s].counted = None THEN db.pos ELSE save[s].pos,
            scored  |-> save[s].scored,
            settled |-> [windows |-> IF save[s].counted = None
                                     THEN db.settled.windows
                                     ELSE save[s].settled.windows,
                         stores  |-> save[s].settled.stores],
            by      |-> s]
  /\ save' = [save EXCEPT ![s] = AfterSave(s, "done")]
  /\ UNCHANGED <<sourceVars, flowVars, stateVars, startVars>>

(* save_all fails and is rolled back. *)
SaveFails(s) ==
  /\ save[s].phase = "captured"
  /\ save' = [save EXCEPT ![s] = AfterSave(s, "failed")]
  /\ UNCHANGED <<sourceVars, flowVars, stateVars, db, startVars>>

(* SIGTERM: the source task is aborted, what was received drains. *)
Shutdown ==
  /\ drain = "no"
  /\ "final" \in Savers
  /\ drain' = "draining"
  /\ UNCHANGED <<sourceVars, inq, sinkq, delivering, ackq, stateVars, diskVars,
                 startVars>>

(* The drain takes longer than drain_timeout; the tasks are still running.  *)
DrainTimeout ==
  /\ drain = "draining"
  /\ save["final"].phase = "idle"
  /\ drain' = "timeout"
  /\ UNCHANGED <<sourceVars, inq, sinkq, delivering, ackq, stateVars, diskVars,
                 startVars>>

-----------------------------------------------------------------------------
(* Mutant: a replay from the stored position itself counts as forward. *)
DecideMutant(how, pos) ==
  \/ how.mode = "keep"
  \/ how.mode = "auto" /\ how.policy = "resume"
  \/ how.mode = "auto" /\ how.policy = "sequence" /\ pos # None
     /\ how.from >= pos.seq
  \/ how.mode = "auto" /\ how.policy = "time" /\ pos # None
     /\ how.from > pos.time

(* decide_state_restore. *)
Decide(how, pos) ==
  \/ how.mode = "keep"
  \/ how.mode = "auto" /\ how.policy = "resume"
  \/ how.mode = "auto" /\ how.policy = "sequence" /\ pos # None
     /\ how.from > pos.seq
  \/ how.mode = "auto" /\ how.policy = "time" /\ pos # None
     /\ how.from > pos.time

(* How the rows are read at a start.  The correlation row is read, or the   *)
(* read fails, or its snapshot is of a version import_state refuses; the    *)
(* rows of the stores are restored or, for either reason, are not.          *)
Loads == [windows : {"ok", "error", "incompatible"}, stores : BOOLEAN]

(* A correlation snapshot was loaded, so the decision is made.              *)
SnapshotRead(load) == db.counted # None /\ load.windows # "error"

(* restore_state of run_daemon: without a correlation snapshot only         *)
(* --clear-state says no.                                                   *)
Restores(how, load) ==
  IF SnapshotRead(load) THEN Decide(how, db.pos) ELSE how.mode # "clear"

(* Where a consumer created for policy `how` starts. *)
ReplaySet(how) ==
  {e \in 1..published :
     \/ how.policy = "resume"
     \/ how.policy = "latest" /\ e = published
     \/ how.policy = "sequence" /\ e >= how.from
     \/ how.policy = "time" /\ TimeOf[e] >= how.from}

(* Which state this process has: there was no row, or the row was restored, *)
(* or the state starts fresh beside a row.                                  *)
Outcome(row, back) ==
  IF row = None THEN "none" ELSE IF back THEN "restored" ELSE "fresh"

WindowsOutcome(how, load) ==
  Outcome(db.counted, Restores(how, load) /\ load.windows = "ok")

StoresOutcome(how, load) == Outcome(db.scored, Restores(how, load) /\ load.stores)

(* import_state. *)
RestoreWindows(how, load) ==
  counted' = IF WindowsOutcome(how, load) = "restored" THEN db.counted ELSE Zero

(* Mutant: the stores of the sink task start empty. *)
RestoreStoresMutant(how, load) == scored' = Zero

(* The alert-pipeline and risk state: by the same decision. *)
RestoreStores(how, load) ==
  scored' = IF StoresOutcome(how, load) = "restored" THEN db.scored ELSE Zero

(* The events this start restores the acknowledged state of.                *)
Restored(how, load) ==
  [windows |-> IF WindowsOutcome(how, load) = "restored" THEN db.settled.windows ELSE {},
   stores  |-> IF StoresOutcome(how, load) = "restored" THEN db.settled.stores ELSE {}]

(* The decision compares the start of a replay with the stored position.    *)
Compared(how, load) ==
  /\ how.mode = "auto" /\ how.policy \in {"sequence", "time"}
  /\ SnapshotRead(load)

(* The process ends, by a crash in any state or after its last save, and    *)
(* another starts.  get_or_create_consumer finds the durable consumer,      *)
(* which resumes from its acks whatever the policy, or it is gone and one   *)
(* is created for the policy.                                               *)
Restart(how, created, load) ==
  /\ restarts < MaxRestarts
  /\ how \in Starts
  /\ restarts' = restarts + 1
  /\ RestoreWindows(how, load) /\ RestoreStores(how, load)
  /\ settled' = Restored(how, load)
  /\ start' = [windows |-> WindowsOutcome(how, load),
               stores  |-> StoresOutcome(how, load),
               twice   |-> IF created /\ Compared(how, load)
                           THEN (settled'.windows \cup settled'.stores)
                                  \cap ReplaySet(how)
                           ELSE {}]
  /\ IF created THEN /\ todo' = ReplaySet(how)
                     /\ seen' = {}
                     /\ acked' = {}
                ELSE /\ todo' = (1..published) \ acked
                     /\ UNCHANGED <<seen, acked>>
  /\ drain' = "no"
  /\ inq' = <<>>
  /\ sinkq' = <<>>
  /\ delivering' = {}
  /\ ackq' = {}
  /\ hw' = None
  /\ save' = [s \in Savers |-> NoCut]
  /\ UNCHANGED <<published, redelivered, db>>

-----------------------------------------------------------------------------
Resume == [mode |-> "auto", policy |-> "resume", from |-> 0]

(* A first start with an empty database and a new consumer. *)
Init ==
  /\ published = 0
  /\ todo = {} /\ seen = {} /\ acked = {}
  /\ redelivered = 0
  /\ drain = "no"
  /\ inq = <<>> /\ sinkq = <<>>
  /\ delivering = {} /\ ackq = {}
  /\ counted = Zero /\ scored = Zero
  /\ hw = None
  /\ settled = Nothing
  /\ save = [s \in Savers |-> NoCut]
  /\ db = [counted |-> None, pos |-> None, scored |-> None, settled |-> Nothing,
           by |-> None]
  /\ start = [windows |-> "none", stores |-> "none", twice |-> {}]
  /\ restarts = 0

SinkStep == SinkSuppress \/ \E folded \in BOOLEAN : SinkScore(folded)

SaverStep(s) ==
  \/ CapturePosition(s) \/ CaptureWindows(s) \/ CaptureStores(s)
  \/ SaveAll(s) \/ SaveFails(s)

SourceStep == \E e \in Event : Receive(e) \/ SkipBlank(e)

Next ==
  \/ Publish
  \/ \E e \in Event : Redeliver(e)
  \/ SourceStep
  \/ \E empty \in BOOLEAN : Evaluate(empty)
  \/ SinkStep
  \/ \E e \in Event : Deliver(e)
  \/ \E e \in Event, sent \in BOOLEAN : AckToken(e, sent)
  \/ \E s \in Savers : SaverStep(s)
  \/ Shutdown \/ DrainTimeout
  \/ \E how \in Starts, created \in BOOLEAN, load \in Loads :
       Restart(how, created, load)

Spec == Init /\ [][Next]_vars

(* The tasks run, and every result is settled in the end (AckEventually of  *)
(* module Delivery).  Nothing is assumed of redelivery or of the acks.      *)
FairSpec ==
  /\ Spec
  /\ WF_vars(SourceStep)
  /\ WF_vars(\E empty \in BOOLEAN : Evaluate(empty))
  /\ WF_vars(SinkStep)
  /\ \A e \in Event :
       /\ WF_vars(Deliver(e))
       /\ WF_vars(\E sent \in BOOLEAN : AckToken(e, sent))
  /\ \A s \in Savers : WF_vars(SaverStep(s))
-----------------------------------------------------------------------------
(* PROPERTIES *)

Position == [seq : Event, time : Nat] \cup {None}

Counts == [Event -> Nat]

Acks == [windows : SUBSET Event, stores : SUBSET Event]

Cut ==
  [phase : {"idle", "position", "windows", "captured", "done", "failed"},
   pos : Position, counted : Counts \cup {None}, scored : Counts \cup {None},
   settled : Acks,
   base : [counted : Counts \cup {None}, scored : Counts \cup {None}]]

(* The state of the daemon, its database and its consumer is well formed. *)
TypeOK ==
  /\ published \in 0..NEvents
  /\ todo \subseteq Event /\ seen \subseteq Event /\ acked \subseteq Event
  /\ redelivered \in Nat
  /\ drain \in {"no", "draining", "timeout"}
  /\ inq \in Seq(Event) /\ sinkq \in Seq(Event)
  /\ delivering \subseteq Hits
  /\ ackq \subseteq Event
  /\ counted \in Counts /\ scored \in Counts
  /\ hw \in Position
  /\ settled \in Acks
  /\ save \in [Savers -> Cut]
  /\ db \in [counted : Counts \cup {None}, pos : Position,
             scored : Counts \cup {None}, settled : Acks, by : Savers \cup {None}]
  /\ start \in [windows : {"none", "restored", "fresh"},
                stores : {"none", "restored", "fresh"}, twice : SUBSET Event]
  /\ restarts \in Nat

(* capture_cut: everything acknowledged when the position was read is in    *)
(* every snapshot of the cut that is stored, and the position is the latest *)
(* event of this process that is covered so.                                *)
CutCoversAcks ==
  /\ \A e \in db.settled.windows : db.counted[e] >= 1
  /\ \A e \in db.settled.stores \cap Hits : db.scored[e] >= 1
  /\ db.pos # None => db.pos.seq \in db.settled.windows

(* The counts of new have every event that those of old have. *)
Holds(old, new) == old # None => \A e \in Event : old[e] >= 1 => new[e] >= 1

(* What a save is about to write has everything that was stored when its    *)
(* capture began, whichever saves overlap, fail or are cut off, in every    *)
(* process that restored the row it overwrites.  (One that could not read   *)
(* the row, or was told not to restore it, starts it anew.)                 *)
SavesForgetNothing ==
  \A s \in Savers : save[s].phase = "captured" =>
    /\ start.windows # "fresh" => Holds(save[s].base.counted, save[s].counted)
    /\ start.stores # "fresh" => Holds(save[s].base.scored, save[s].scored)

(* streaming-detection.md:189, "Replay starts after the stored position     *)
(* (forward catch-up): state is restored safely", and :190 of preventing    *)
(* double-counting: a replay whose state was restored by comparison with    *)
(* the stored position hands out no event acknowledged into that state.     *)
ForwardReplayIsSafe == start.twice = {}

(* The pipeline has drained in time and the final save was the last to      *)
(* commit.  (A periodic save that began before may commit after it.)        *)
Orderly ==
  /\ drain = "draining"
  /\ \E s \in Savers : s = "final" /\ save[s].phase = "done" /\ db.by = s

(* daemon.md:446, "In-flight events are processed and acknowledged before   *)
(* the daemon exits" and "the final correlation state snapshot is written": *)
(* an orderly restart is not noticed, the windows and stores that the next  *)
(* process restores are those with which this one ended, although the       *)
(* periodic saver has captured and committed all along.                     *)
OrderlyRestartKeepsState ==
  [][Orderly /\ restarts' # restarts =>
       /\ start'.windows # "fresh" => counted' = counted
       /\ start'.stores # "fresh" => scored' = scored]_vars

(* The process has ended in an orderly way. *)
Ended == \E s \in Savers : s = "final" /\ save[s].phase \in {"done", "failed"}

(* No message is stuck: one the consumer hands out and is not told of       *)
(* reaches the ack task, in this process or, redelivered after a crash, in  *)
(* the next, until the daemon shuts down.  (Blank payloads are skipped      *)
(* without an acknowledgement.)                                             *)
EveryMessageAcked ==
  \A e \in Event \ Blank : e \in seen \ acked ~> (e \in settled.windows \/ Ended)
=============================================================================
