------------------------------ MODULE Delivery ------------------------------
(***************************************************************************)
(* The asynchronous delivery layer (rsigma-runtime/src/io/delivery.rs) and *)
(* the daemon tasks at its two ends: the sink task that dispatches, the    *)
(* bridge and the writer of the dead-letter queue, and the task that acks  *)
(* the source (rsigma-cli/src/daemon/server.rs).                           *)
(*                                                                         *)
(* One Dispatcher fans each result into one bounded queue per sink; one    *)
(* worker per sink drains its queue in batches, retries, and hands a       *)
(* terminal failure to the failure channel.  The ack tokens of a result    *)
(* live in an AckGuard of which the dispatcher and every queued item hold  *)
(* a clone: the drop of the last clone sends the tokens to the ack task.   *)
(***************************************************************************)
EXTENDS Naturals, Sequences, Functions

CONSTANTS
  Result,      (* what the sink task dispatches, one ProcessResult each     *)
  Synthetic,   (* the results with no input event: incident lines, repeats  *)
  NSinks,      (* the number of leaf sinks                                  *)
  Lossy,       (* the sinks configured on_full=drop; the others block       *)
  QueueDepth,  (* DeliveryConfig.queue_depth of each sink                   *)
  BatchMax,    (* DeliveryConfig.batch_max of each sink                     *)
  RetryMax,    (* DeliveryConfig.retry_max of each sink                     *)
  DlqDepth,    (* capacity of the failure channel and of the DLQ channel    *)
  MaxCrash,    (* bound on the process crashes (restarts) explored          *)
  NoResult     (* "no dispatch in progress"                                 *)

Sink == 1..NSinks

(* The dispatcher's own clone of a guard; Sink is the other kind of holder. *)
Dispatcher == 0

Holder == Sink \cup {Dispatcher}

ASSUME ConstantsAssumption ==
  /\ NSinks \in Nat
  /\ Synthetic \subseteq Result
  /\ Lossy \subseteq Sink
  /\ QueueDepth \in [Sink -> Nat]
  /\ BatchMax \in [Sink -> Nat]
  /\ RetryMax \in [Sink -> Nat]
  /\ DlqDepth \in Nat \ {0}
  /\ MaxCrash \in Nat
  /\ NoResult \notin Result

VARIABLES
  fresh,       (* results still upstream of the sink task                   *)
  dispatching, (* the result inside Dispatcher::dispatch, or NoResult       *)
  cursor,      (* the next worker of its loop                               *)
  queue,       (* per sink, the bounded mpsc channel                        *)
  batch,       (* per sink, the items the worker has drained                *)
  pos,         (* per sink, index in the batch of the item being delivered  *)
  phase,       (* per sink, where the worker is                             *)
  retries,     (* per sink, retries already made for the current item       *)
  guard,       (* per result, who holds a clone of its AckGuard             *)
  ackq,        (* tokens sent to the ack task                               *)
  acked,       (* tokens the ack task has acknowledged to the source        *)
  delivered,   (* per sink, results a sink call returned Ok for             *)
  discarded,   (* per sink, results dropped because the queue was full      *)
  failed,      (* per sink, results handed to the failure channel           *)
  dfq,         (* the failure channel, worker -> bridge                     *)
  dlqq,        (* the DLQ channel, bridge -> writer                         *)
  written,     (* failures the DLQ writer has disposed of                   *)
  closed,      (* Dispatcher::shutdown has dropped the queue senders        *)
  tail,        (* how far the tasks behind the workers have exited          *)
  crashes

dispatchVars == <<fresh, dispatching, cursor>>
workerVars   == <<queue, batch, pos, phase, retries>>
ackVars      == <<guard, ackq, acked>>
outcomeVars  == <<delivered, discarded, failed>>
dlqVars      == <<dfq, dlqq, written>>
lifeVars     == <<closed, tail, crashes>>
vars == <<dispatchVars, workerVars, ackVars, outcomeVars, dlqVars, lifeVars>>

-----------------------------------------------------------------------------
(* mpsc::channel(queue_depth.max(1)). *)
Capacity(s) == IF QueueDepth[s] = 0 THEN 1 ELSE QueueDepth[s]

(* Holder h drops its clones of the guards of the results in R; a guard     *)
(* with no clone left sends its tokens, and synthetic results carry none.   *)
DropGuards(R, h) ==
  /\ guard' = [r \in Result |-> IF r \in R THEN guard[r] \ {h} ELSE guard[r]]
  /\ ackq' = ackq \cup {r \in R \ Synthetic : guard[r] = {h}}
  /\ UNCHANGED acked

-----------------------------------------------------------------------------
(* Dispatcher::dispatch and dispatch_incident: mint the guard, then visit   *)
(* the workers in order.                                                    *)
BeginDispatch(r) ==
  /\ ~closed
  /\ dispatching = NoResult
  /\ r \in fresh
  /\ fresh' = fresh \ {r}
  /\ dispatching' = r
  /\ cursor' = 1
  /\ guard' = [guard EXCEPT ![r] = {Dispatcher}]
  /\ UNCHANGED <<ackq, acked, workerVars, outcomeVars, dlqVars, lifeVars>>

(* Mutant: the queued item does not carry a clone of the guard. *)
EnqueueMutant(s) ==
  /\ dispatching # NoResult
  /\ cursor = s
  /\ Len(queue[s]) < Capacity(s)
  /\ queue' = [queue EXCEPT ![s] = Append(@, dispatching)]
  /\ cursor' = cursor + 1
  /\ UNCHANGED <<fresh, dispatching, batch, pos, phase, retries, ackVars,
                 outcomeVars, dlqVars, lifeVars>>

(* SinkWorker::enqueue with room in the channel. *)
Enqueue(s) ==
  /\ dispatching # NoResult
  /\ cursor = s
  /\ Len(queue[s]) < Capacity(s)
  /\ queue' = [queue EXCEPT ![s] = Append(@, dispatching)]
  /\ guard' = [guard EXCEPT ![dispatching] = @ \cup {s}]
  /\ cursor' = cursor + 1
  /\ UNCHANGED <<fresh, dispatching, batch, pos, phase, retries, ackq, acked,
                 outcomeVars, dlqVars, lifeVars>>

(* Mutant: on_full=drop is ignored, a full queue always blocks. *)
DiscardFullMutant(s) == s \in {} /\ UNCHANGED vars

(* SinkWorker::enqueue, OnFull::Drop on a full channel: the item and its    *)
(* clone are dropped.  (OnFull::Block waits: Enqueue is not enabled.)       *)
DiscardFull(s) ==
  /\ dispatching # NoResult
  /\ cursor = s
  /\ s \in Lossy
  /\ Len(queue[s]) >= Capacity(s)
  /\ discarded' = [discarded EXCEPT ![s] = @ \cup {dispatching}]
  /\ cursor' = cursor + 1
  /\ UNCHANGED <<fresh, dispatching, workerVars, ackVars, delivered, failed,
                 dlqVars, lifeVars>>

(* dispatch returns and drops its own clone.  With no worker at all this is *)
(* the early return that acks at once.                                      *)
EndDispatch ==
  /\ dispatching # NoResult
  /\ cursor = NSinks + 1
  /\ DropGuards({dispatching}, Dispatcher)
  /\ dispatching' = NoResult
  /\ UNCHANGED <<fresh, cursor, workerVars, outcomeVars, dlqVars, lifeVars>>

-----------------------------------------------------------------------------
(* worker_loop: rx.recv() returns the first item of a batch. *)
Receive(s) ==
  /\ phase[s] = "idle"
  /\ queue[s] # <<>>
  /\ batch' = [batch EXCEPT ![s] = <<Head(queue[s])>>]
  /\ queue' = [queue EXCEPT ![s] = Tail(@)]
  /\ phase' = [phase EXCEPT ![s] = "fill"]
  /\ UNCHANGED <<pos, retries, dispatchVars, ackVars, outcomeVars, dlqVars,
                 lifeVars>>

(* One try_recv that finds an item while the batch has room. *)
Fill(s) ==
  /\ phase[s] = "fill"
  /\ Len(batch[s]) < BatchMax[s]
  /\ queue[s] # <<>>
  /\ batch' = [batch EXCEPT ![s] = Append(@, Head(queue[s]))]
  /\ queue' = [queue EXCEPT ![s] = Tail(@)]
  /\ UNCHANGED <<pos, phase, retries, dispatchVars, ackVars, outcomeVars,
                 dlqVars, lifeVars>>

(* The batch is full, or try_recv found the channel empty. *)
StartBatch(s) ==
  /\ phase[s] = "fill"
  /\ Len(batch[s]) >= BatchMax[s] \/ queue[s] = <<>>
  /\ phase' = [phase EXCEPT ![s] = "deliver"]
  /\ pos' = [pos EXCEPT ![s] = 1]
  /\ retries' = [retries EXCEPT ![s] = 0]
  /\ UNCHANGED <<queue, batch, dispatchVars, ackVars, outcomeVars, dlqVars,
                 lifeVars>>

Current(s) == batch[s][pos[s]]

Attempting(s) == phase[s] = "deliver" /\ pos[s] <= Len(batch[s])

(* deliver_one: the sink call returns Ok. *)
AttemptOk(s) ==
  /\ Attempting(s)
  /\ delivered' = [delivered EXCEPT ![s] = @ \cup {Current(s)}]
  /\ pos' = [pos EXCEPT ![s] = @ + 1]
  /\ retries' = [retries EXCEPT ![s] = 0]
  /\ UNCHANGED <<queue, batch, phase, discarded, failed, dispatchVars, ackVars,
                 dlqVars, lifeVars>>

(* Mutant: the attempt counter starts over instead of giving up. *)
AttemptRetryMutant(s) ==
  /\ Attempting(s)
  /\ retries' = [retries EXCEPT ![s] = IF @ < RetryMax[s] THEN @ + 1 ELSE 0]
  /\ UNCHANGED <<queue, batch, pos, phase, dispatchVars, ackVars, outcomeVars,
                 dlqVars, lifeVars>>

(* deliver_one: a transient error with retries left; the worker sleeps and  *)
(* tries again.                                                             *)
AttemptRetry(s) ==
  /\ Attempting(s)
  /\ retries[s] < RetryMax[s]
  /\ retries' = [retries EXCEPT ![s] = @ + 1]
  /\ UNCHANGED <<queue, batch, pos, phase, dispatchVars, ackVars, outcomeVars,
                 dlqVars, lifeVars>>

(* deliver_one: a Permanent error, at any attempt, or a transient one with  *)
(* the retries used up: the worker turns to the failure channel.            *)
AttemptFail(s, permanent) ==
  /\ Attempting(s)
  /\ permanent \/ retries[s] >= RetryMax[s]
  /\ phase' = [phase EXCEPT ![s] = "park"]
  /\ UNCHANGED <<queue, batch, pos, retries, dispatchVars, ackVars,
                 outcomeVars, dlqVars, lifeVars>>

(* Mutant: deliver_one parks the failure but does not return. *)
ParkMutant(s) ==
  /\ phase[s] = "park"
  /\ Len(dfq) < DlqDepth
  /\ dfq' = Append(dfq, <<Current(s), s>>)
  /\ failed' = [failed EXCEPT ![s] = @ \cup {Current(s)}]
  /\ phase' = [phase EXCEPT ![s] = "deliver"]
  /\ retries' = [retries EXCEPT ![s] = 0]
  /\ UNCHANGED <<queue, batch, pos, delivered, discarded, dlqq, written,
                 dispatchVars, ackVars, lifeVars>>

(* dlq.send(failure).await completes once the channel has room. *)
Park(s) ==
  /\ phase[s] = "park"
  /\ Len(dfq) < DlqDepth
  /\ dfq' = Append(dfq, <<Current(s), s>>)
  /\ failed' = [failed EXCEPT ![s] = @ \cup {Current(s)}]
  /\ phase' = [phase EXCEPT ![s] = "deliver"]
  /\ pos' = [pos EXCEPT ![s] = @ + 1]
  /\ retries' = [retries EXCEPT ![s] = 0]
  /\ UNCHANGED <<queue, batch, delivered, discarded, dlqq, written,
                 dispatchVars, ackVars, lifeVars>>

(* Mutant: the tokens are not shared, the first sink to finish sends them. *)
FinishBatchMutant(s) ==
  /\ phase[s] = "deliver"
  /\ pos[s] > Len(batch[s])
  /\ ackq' = ackq \cup (Range(batch[s]) \ Synthetic)
  /\ guard' = [r \in Result |-> guard[r] \ {s}]
  /\ batch' = [batch EXCEPT ![s] = <<>>]
  /\ pos' = [pos EXCEPT ![s] = 1]
  /\ phase' = [phase EXCEPT ![s] = "idle"]
  /\ UNCHANGED <<queue, retries, acked, dispatchVars, outcomeVars, dlqVars,
                 lifeVars>>

(* drop(batch): the worker's clones go only when the whole batch is done. *)
FinishBatch(s) ==
  /\ phase[s] = "deliver"
  /\ pos[s] > Len(batch[s])
  /\ DropGuards({batch[s][i] : i \in 1..Len(batch[s])}, s)
  /\ batch' = [batch EXCEPT ![s] = <<>>]
  /\ pos' = [pos EXCEPT ![s] = 1]
  /\ phase' = [phase EXCEPT ![s] = "idle"]
  /\ UNCHANGED <<queue, retries, dispatchVars, outcomeVars, dlqVars, lifeVars>>

-----------------------------------------------------------------------------
(* Mutant: the bridge uses try_send and drops a failure on a full channel. *)
BridgeMutant ==
  /\ dfq # <<>>
  /\ dlqq' = IF Len(dlqq) < DlqDepth THEN Append(dlqq, Head(dfq)) ELSE dlqq
  /\ dfq' = Tail(dfq)
  /\ UNCHANGED <<written, dispatchVars, workerVars, ackVars, outcomeVars,
                 lifeVars>>

(* The bridge task forwards a failure to the DLQ writer's channel. *)
Bridge ==
  /\ dfq # <<>>
  /\ Len(dlqq) < DlqDepth
  /\ dlqq' = Append(dlqq, Head(dfq))
  /\ dfq' = Tail(dfq)
  /\ UNCHANGED <<written, dispatchVars, workerVars, ackVars, outcomeVars,
                 lifeVars>>

(* The DLQ task takes one entry: it is persisted, refused by the DLQ sink,  *)
(* or dropped without --dlq; each way it is gone from the channel.          *)
WriteDlq ==
  /\ dlqq # <<>>
  /\ written' = written \cup {Head(dlqq)}
  /\ dlqq' = Tail(dlqq)
  /\ UNCHANGED <<dfq, dispatchVars, workerVars, ackVars, outcomeVars, lifeVars>>

(* The ack task acknowledges one token to the source. *)
AckToken(r) ==
  /\ r \in ackq
  /\ ackq' = ackq \ {r}
  /\ acked' = acked \cup {r}
  /\ UNCHANGED <<guard, dispatchVars, workerVars, outcomeVars, dlqVars,
                 lifeVars>>

-----------------------------------------------------------------------------
(* The sink channel has closed: the sink task leaves its loop and           *)
(* Dispatcher::shutdown drops every queue sender.  What is still upstream   *)
(* stays unacknowledged.                                                    *)
Shutdown ==
  /\ ~closed
  /\ dispatching = NoResult
  /\ closed' = TRUE
  /\ UNCHANGED <<tail, crashes, dispatchVars, workerVars, ackVars,
                 outcomeVars, dlqVars>>

(* Mutant: a worker leaves when the channel closes, without draining it. *)
WorkerExitMutant(s) ==
  /\ closed
  /\ phase[s] = "idle"
  /\ phase' = [phase EXCEPT ![s] = "exited"]
  /\ UNCHANGED <<queue, batch, pos, retries, dispatchVars, ackVars,
                 outcomeVars, dlqVars, lifeVars>>

(* rx.recv() returns None: the channel is closed and drained. *)
WorkerExit(s) ==
  /\ closed
  /\ phase[s] = "idle"
  /\ queue[s] = <<>>
  /\ phase' = [phase EXCEPT ![s] = "exited"]
  /\ UNCHANGED <<queue, batch, pos, retries, dispatchVars, ackVars,
                 outcomeVars, dlqVars, lifeVars>>

AllExited == closed /\ \A s \in Sink : phase[s] = "exited"

(* The failure channel closes with the last worker's sender. *)
BridgeExit ==
  /\ tail = "running"
  /\ AllExited
  /\ dfq = <<>>
  /\ tail' = "bridged"
  /\ UNCHANGED <<closed, crashes, dispatchVars, workerVars, ackVars,
                 outcomeVars, dlqVars>>

(* The DLQ channel closes with the bridge's sender. *)
WriterExit ==
  /\ tail = "bridged"
  /\ dlqq = <<>>
  /\ tail' = "written"
  /\ UNCHANGED <<closed, crashes, dispatchVars, workerVars, ackVars,
                 outcomeVars, dlqVars>>

(* The ack channel closes with the last guard; run_daemon awaits it last. *)
AckExit ==
  /\ tail = "written"
  /\ ackq = {}
  /\ tail' = "finished"
  /\ UNCHANGED <<closed, crashes, dispatchVars, workerVars, ackVars,
                 outcomeVars, dlqVars>>

(* The process dies (a crash, or an exit at the drain timeout) and another  *)
(* starts: memory is lost, the source redelivers what was not acknowledged. *)
(* Incidents are regenerated by the alert pipeline, so they may come again. *)
Crash ==
  /\ crashes < MaxCrash
  /\ crashes' = crashes + 1
  /\ fresh' = Result \ acked
  /\ dispatching' = NoResult
  /\ cursor' = 1
  /\ queue' = [s \in Sink |-> <<>>]
  /\ batch' = [s \in Sink |-> <<>>]
  /\ pos' = [s \in Sink |-> 1]
  /\ phase' = [s \in Sink |-> "idle"]
  /\ retries' = [s \in Sink |-> 0]
  /\ guard' = [r \in Result |-> {}]
  /\ ackq' = {}
  /\ dfq' = <<>>
  /\ dlqq' = <<>>
  /\ closed' = FALSE
  /\ tail' = "running"
  /\ UNCHANGED <<acked, delivered, discarded, failed, written>>

Finished == tail = "finished"

(* run_daemon has returned. *)
Terminated == Finished /\ UNCHANGED vars

-----------------------------------------------------------------------------
Init ==
  /\ fresh = Result
  /\ dispatching = NoResult
  /\ cursor = 1
  /\ queue = [s \in Sink |-> <<>>]
  /\ batch = [s \in Sink |-> <<>>]
  /\ pos = [s \in Sink |-> 1]
  /\ phase = [s \in Sink |-> "idle"]
  /\ retries = [s \in Sink |-> 0]
  /\ guard = [r \in Result |-> {}]
  /\ ackq = {}
  /\ dfq = <<>>
  /\ dlqq = <<>>
  /\ closed = FALSE
  /\ tail = "running"
  /\ acked = {}
  /\ delivered = [s \in Sink |-> {}]
  /\ discarded = [s \in Sink |-> {}]
  /\ failed = [s \in Sink |-> {}]
  /\ written = {}
  /\ crashes = 0

DispatchStep == EndDispatch \/ \E s \in Sink : Enqueue(s) \/ DiscardFull(s)

WorkerStep(s) ==
  \/ Receive(s) \/ Fill(s) \/ StartBatch(s)
  \/ AttemptOk(s) \/ AttemptRetry(s)
  \/ \E permanent \in BOOLEAN : AttemptFail(s, permanent)
  \/ Park(s) \/ FinishBatch(s) \/ WorkerExit(s)

TailStep == Bridge \/ WriteDlq \/ BridgeExit \/ WriterExit \/ AckExit

Next ==
  \/ \E r \in Result : BeginDispatch(r)
  \/ DispatchStep
  \/ \E s \in Sink : WorkerStep(s)
  \/ TailStep
  \/ \E r \in Result : AckToken(r)
  \/ Shutdown
  \/ Crash
  \/ Terminated

(* Tokio polls every ready task.  That a sink call returns at all is what   *)
(* WF of WorkerStep says of the sink: OTLP exports, webhook requests and    *)
(* NATS publishes carry a deadline, the other writes are synchronous.       *)
TaskFairness ==
  /\ WF_vars(DispatchStep)
  /\ WF_vars(Bridge) /\ WF_vars(WriteDlq)
  /\ WF_vars(BridgeExit) /\ WF_vars(WriterExit) /\ WF_vars(AckExit)
  /\ \A r \in Result : WF_vars(AckToken(r))

Spec == Init /\ [][Next]_vars

(* Only the durable sinks are assumed to answer. *)
FairSpec ==
  Spec /\ TaskFairness /\ \A s \in Sink \ Lossy : WF_vars(WorkerStep(s))

(* The lossy sinks answer too. *)
LossyAnswer == \A s \in Lossy : WF_vars(WorkerStep(s))
-----------------------------------------------------------------------------
(* PROPERTIES *)

(* The state of the delivery layer is well formed. *)
TypeOK ==
  /\ fresh \subseteq Result
  /\ dispatching \in Result \cup {NoResult}
  /\ cursor \in 1..NSinks + 1
  /\ queue \in [Sink -> Seq(Result)]
  /\ batch \in [Sink -> Seq(Result)]
  /\ pos \in [Sink -> Nat \ {0}]
  /\ phase \in [Sink -> {"idle", "fill", "deliver", "park", "exited"}]
  /\ retries \in [Sink -> Nat]
  /\ guard \in [Result -> SUBSET Holder]
  /\ ackq \subseteq Result \ Synthetic
  /\ acked \subseteq Result \ Synthetic
  /\ delivered \in [Sink -> SUBSET Result]
  /\ discarded \in [Sink -> SUBSET Result]
  /\ failed \in [Sink -> SUBSET Result]
  /\ dfq \in Seq(Result \X Sink)
  /\ dlqq \in Seq(Result \X Sink)
  /\ written \subseteq Result \X Sink
  /\ closed \in BOOLEAN
  /\ tail \in {"running", "bridged", "written", "finished"}
  /\ crashes \in Nat

(* Sink s is done with r: it took it, or the failure went to the DLQ        *)
(* channel, or s is best-effort and its queue was full.                     *)
Settled(s, r) ==
  r \in delivered[s] \/ r \in failed[s] \/ (s \in Lossy /\ r \in discarded[s])

(* At-least-once (the ack-join): the source is never told to forget a       *)
(* result some sink has not committed, whatever the interleaving of         *)
(* dispatch, workers and crashes; on_full=block sinks never lose one to a   *)
(* full queue.                                                              *)
AckedIsSettled ==
  \A r \in ackq \cup acked : \A s \in Sink : Settled(s, r)

(* The delivery layer implements the promise of AckJoin. *)
Join == INSTANCE AckJoin WITH
  Event <- Result, Party <- Sink,
  settled <- [s \in Sink |-> {r \in Result : Settled(s, r)}],
  released <- ackq

ImplementsAckJoin == Join!Spec

(* Without a restart a sink gives each result one outcome: a result in the  *)
(* DLQ was never delivered by that sink, a discarded one neither.           *)
OneOutcome ==
  crashes = 0 => \A s \in Sink :
    /\ delivered[s] \cap failed[s] = {}
    /\ discarded[s] \cap (delivered[s] \cup failed[s]) = {}

(* A terminal failure is never lost between the worker and the DLQ writer,  *)
(* however full the two channels are and in whatever order the tasks stop.  *)
NoFailureVanishes ==
  crashes = 0 => \A s \in Sink : \A r \in failed[s] :
    <<r, s>> \in Range(dfq) \cup Range(dlqq) \cup written

(* An orderly shutdown strands nothing: when run_daemon returns, every      *)
(* result of this process that was dispatched is settled everywhere and     *)
(* acknowledged, and both failure channels are empty.                       *)
CleanShutdown ==
  Finished =>
    /\ \A s \in Sink : queue[s] = <<>> /\ batch[s] = <<>>
    /\ \A r \in Result : guard[r] = {}
    /\ dfq = <<>> /\ dlqq = <<>>
    /\ crashes = 0 => Result \ (Synthetic \cup fresh) \subseteq acked

(* If every sink answers, each dispatched result is acknowledged, or lost   *)
(* to a restart and redelivered: no cycle of full queues, retries and DLQ   *)
(* backpressure strands it.                                                 *)
AckEventually ==
  LossyAnswer => \A r \in Result \ Synthetic : dispatching = r ~> (r \in acked \/ r \in fresh)

(* If every sink answers, shutdown terminates: each task's exit lets the    *)
(* next one's channel close.                                                *)
DrainCompletes == LossyAnswer => (closed ~> (Finished \/ ~closed))

(* on_full=drop: a lossy sink that never answers again cannot keep the sink *)
(* task inside dispatch.                                                    *)
LossyNeverStalls == dispatching # NoResult ~> dispatching = NoResult
=============================================================================
