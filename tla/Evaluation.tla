----------------------------- MODULE Evaluation -----------------------------
(***************************************************************************)
(* From the event channel to the sink channel: the engine task with its    *)
(* pool of detection workers, the reducer that restores the batch order    *)
(* and the dispatch task (rsigma-cli/src/daemon/server.rs), over the       *)
(* LogProcessor whose engine a reload swaps while batches are in flight    *)
(* (rsigma-runtime/src/processor.rs).                                      *)
(*                                                                         *)
(* An engine is either detection-only, and evaluates batches concurrently, *)
(* or has correlation rules, whose windows every batch advances under the  *)
(* processing_order lock.  Its windows are the sequence of events that     *)
(* were counted.  No event filter is configured: every input line is one   *)
(* event, or does not parse.                                               *)
(***************************************************************************)
EXTENDS Naturals, Sequences, FiniteSets, Functions

CONSTANTS
  NEvents,     (* events, numbered in the order of the event channel       *)
  Malformed,   (* the events that do not parse                             *)
  BatchSize,   (* config.batch_size                                        *)
  BufferSize,  (* capacity of the event channel and of the sink channel    *)
  Inflight,    (* RSIGMA_DETECT_INFLIGHT: batches evaluated at a time      *)
  Dlq,         (* whether --dlq is given                                   *)
  MaxReloads,  (* bound on the engine swaps explored                       *)
  MaxPanics    (* bound on the worker panics explored                      *)

Event == 1..NEvents

(* Batches carry their sequence number; there are at most NEvents of them.  *)
Batch == 1..NEvents

Kind == {"detection", "correlation"}

ASSUME ConstantsAssumption ==
  /\ NEvents \in Nat
  /\ Malformed \subseteq Event
  /\ BatchSize \in Nat \ {0}
  /\ BufferSize \in Nat \ {0}
  /\ Inflight \in Nat \ {0}
  /\ Dlq \in BOOLEAN
  /\ MaxReloads \in Nat
  /\ MaxPanics \in Nat

VARIABLES
  arrived,  (* events the sources have sent                                *)
  input,    (* the event channel                                           *)
  closed,   (* every sender is gone, or the receiver is closed for drain   *)
  task,     (* the engine task: pulling, draining its workers, or gone     *)
  spawned,  (* batches formed so far (next_seq)                            *)
  events,   (* per batch, its events                                       *)
  phase,    (* per batch, where it is                                      *)
  bound,    (* per batch, index of the engine it holds an Arc to           *)
  order,    (* the batch holding processing_order, or 0                    *)
  done,     (* its events that have been through correlation               *)
  engine,   (* every engine there has been; the last one is live           *)
  staged,   (* engines a reload has loaded but not swapped in              *)
  seqq,     (* finished batches on their way to the reducer                *)
  pending,  (* batches the reducer holds back                              *)
  next,     (* the batch the reducer forwards next                         *)
  evalq,    (* batches on their way to the dispatch task                   *)
  current,  (* what the dispatch task has left of its batch                *)
  tail,     (* how far the tasks behind the engine task have exited        *)
  sinkq,    (* the sink channel                                            *)
  sunk,     (* events the sink task has taken, in order                    *)
  acked,    (* events the dispatch task acknowledged                       *)
  parked,   (* malformed events sent to the DLQ                            *)
  panics

inputVars  == <<arrived, input, closed>>
batchVars  == <<spawned, events, phase, bound>>
engineVars == <<order, done, engine, staged>>
orderVars  == <<seqq, pending, next, evalq, tail>>
outVars    == <<current, sinkq, sunk, acked, parked>>
vars == <<inputVars, task, batchVars, engineVars, orderVars, outVars, panics>>

Live == Len(engine)

KindOf(g) == engine[g].kind

(* detect_inflight: computed once, from the engine the daemon starts with. *)
Pool == IF KindOf(1) = "detection" THEN Inflight ELSE 1

In(p) == {b \in Batch : phase[b] \in p}

(* What the engine task still has to join: its JoinSet, or on the inline    *)
(* path (Pool = 1) the batch it is evaluating itself.                   *)
Running  == In({"spawned", "shared", "waiting", "exclusive"})
Finished == In({"evaluated", "panicked"})

-----------------------------------------------------------------------------
(* A source sends the next event, or waits while the channel is full. *)
Arrive ==
  /\ ~closed
  /\ arrived < NEvents
  /\ Len(input) < BufferSize
  /\ arrived' = arrived + 1
  /\ input' = Append(input, arrived + 1)
  /\ UNCHANGED <<closed, task, batchVars, engineVars, orderVars, outVars,
                 panics>>

(* The last sender is dropped, or source_done closes the receiver; what is  *)
(* buffered can still be received.                                          *)
Close ==
  /\ ~closed
  /\ closed' = TRUE
  /\ UNCHANGED <<arrived, input, task, batchVars, engineVars, orderVars,
                 outVars, panics>>

(* The engine task receives a first event, try_recvs up to batch_size and   *)
(* starts the batch.  The select is biased: a finished worker is joined     *)
(* before another event is received.                                        *)
TakeBatch ==
  /\ task = "pulling"
  /\ input # <<>>
  /\ Finished = {}
  /\ Cardinality(Running) < Pool
  /\ LET n == IF Len(input) < BatchSize THEN Len(input) ELSE BatchSize
         b == spawned + 1
     IN /\ events' = [events EXCEPT ![b] = SubSeq(input, 1, n)]
        /\ input' = SubSeq(input, n + 1, Len(input))
        /\ phase' = [phase EXCEPT ![b] = "spawned"]
        /\ spawned' = b
  /\ UNCHANGED <<arrived, closed, task, bound, engineVars, orderVars, outVars,
                 panics>>

-----------------------------------------------------------------------------
(* process_batch_with_format_detailed: load the engine and read its kind.   *)
(* A batch in exclusive evaluation holds the engine's write lock.           *)
LoadEngine(b) ==
  /\ phase[b] = "spawned"
  /\ order # 0 => bound[order] # Live
  /\ bound' = [bound EXCEPT ![b] = Live]
  /\ phase' = [phase EXCEPT ![b] =
                 IF KindOf(Live) = "detection" THEN "shared" ELSE "waiting"]
  /\ UNCHANGED <<inputVars, task, spawned, events, engineVars, orderVars,
                 outVars, panics>>

(* Mutant: the engine is not loaded again under the lock. *)
LockOrderMutant(b) ==
  /\ phase[b] = "waiting"
  /\ order = 0
  /\ order' = b
  /\ phase' = [phase EXCEPT ![b] = "exclusive"]
  /\ UNCHANGED <<inputVars, task, spawned, events, bound, done, engine, staged,
                 orderVars, outVars, panics>>

(* processing_order.lock(), then the engine is loaded again: a reload may   *)
(* have swapped it while the batch waited.                                  *)
LockOrder(b) ==
  /\ phase[b] = "waiting"
  /\ order = 0
  /\ order' = b
  /\ bound' = [bound EXCEPT ![b] = Live]
  /\ phase' = [phase EXCEPT ![b] = "exclusive"]
  /\ UNCHANGED <<inputVars, task, spawned, events, done, engine, staged,
                 orderVars, outVars, panics>>

(* process_batch_shared: stateless, on the engine the batch loaded. *)
EvaluateShared(b) ==
  /\ phase[b] = "shared"
  /\ phase' = [phase EXCEPT ![b] = "evaluated"]
  /\ UNCHANGED <<inputVars, task, spawned, events, bound, engineVars,
                 orderVars, outVars, panics>>

(* process_batch under the order lock and the write lock, on an engine with *)
(* correlation rules: the events of the batch that parse advance its        *)
(* windows, one after the other.                                            *)
Count(b) ==
  /\ phase[b] = "exclusive"
  /\ KindOf(bound[b]) = "correlation"
  /\ done < Len(events[b])
  /\ done' = done + 1
  /\ LET e == events[b][done + 1]
     IN engine' = IF e \in Malformed THEN engine
                  ELSE [engine EXCEPT ![bound[b]].window = Append(@, e)]
  /\ UNCHANGED <<inputVars, task, batchVars, order, staged, orderVars, outVars,
                 panics>>

(* The end of process_batch, where both locks are released.  (A reload may  *)
(* have left the batch an engine that counts nothing.)                      *)
EvaluateExclusive(b) ==
  /\ phase[b] = "exclusive"
  /\ KindOf(bound[b]) = "correlation" => done = Len(events[b])
  /\ order' = 0
  /\ done' = 0
  /\ phase' = [phase EXCEPT ![b] = "evaluated"]
  /\ UNCHANGED <<inputVars, task, spawned, events, bound, engine, staged,
                 orderVars, outVars, panics>>

(* Evaluation panics; unwinding releases the locks.  What the batch has     *)
(* counted stays counted.                                                   *)
Panic(b) ==
  /\ panics < MaxPanics
  /\ panics' = panics + 1
  /\ phase' = [phase EXCEPT ![b] = "panicked"]
  /\ \/ /\ phase[b] = "shared"
        /\ UNCHANGED <<order, done>>
     \/ /\ phase[b] = "exclusive"
        /\ order' = 0
        /\ done' = 0
  /\ UNCHANGED <<inputVars, task, spawned, events, bound, engine, staged,
                 orderVars, outVars>>

-----------------------------------------------------------------------------
(* prepare_reload: an engine of whatever kind the rules on disk call for is *)
(* loaded beside the live one, without the order lock.  (A load that fails  *)
(* changes nothing.)                                                        *)
PrepareReload(k) ==
  /\ staged = <<>>
  /\ Live <= MaxReloads
  /\ staged' = <<[kind |-> k, window |-> <<>>]>>
  /\ UNCHANGED <<inputVars, task, batchVars, order, done, engine, orderVars,
                 outVars, panics>>

(* Mutant: the state is exported and swapped without the order lock. *)
CommitReloadMutant ==
  /\ staged # <<>>
  /\ engine' =
       Append(engine,
              IF {KindOf(Live), staged[1].kind} = {"correlation"}
              THEN [staged[1] EXCEPT !.window = engine[Live].window]
              ELSE staged[1])
  /\ staged' = <<>>
  /\ UNCHANGED <<inputVars, task, batchVars, order, done, orderVars, outVars,
                 panics>>

(* commit_reload: under the order lock the live windows are exported (a     *)
(* detection-only engine has none), imported into the new engine (a no-op   *)
(* for a detection-only one), and the engines are swapped.                  *)
CommitReload ==
  /\ staged # <<>>
  /\ order = 0
  /\ engine' =
       Append(engine,
              IF {KindOf(Live), staged[1].kind} = {"correlation"}
              THEN [staged[1] EXCEPT !.window = engine[Live].window]
              ELSE staged[1])
  /\ staged' = <<>>
  /\ UNCHANGED <<inputVars, task, batchVars, order, done, orderVars, outVars,
                 panics>>

-----------------------------------------------------------------------------
(* Mutant: workers are joined only once the pool is full, or at the end. *)
ForwardMutant(b) ==
  /\ task # "gone"
  /\ phase[b] = "evaluated"
  /\ Cardinality(Running \cup Finished) >= Pool \/ (closed /\ input = <<>>)
  /\ Len(seqq) < Pool
  /\ seqq' = Append(seqq, b)
  /\ phase' = [phase EXCEPT ![b] = "forwarded"]
  /\ UNCHANGED <<inputVars, task, spawned, events, bound, engineVars, pending,
                 next, evalq, tail, outVars, panics>>

(* forward_joined of a batch that was evaluated, or the send of the inline  *)
(* path; while the reducer's channel is full the engine task waits in it.   *)
Forward(b) ==
  /\ task # "gone"
  /\ phase[b] = "evaluated"
  /\ Len(seqq) < Pool
  /\ seqq' = Append(seqq, b)
  /\ phase' = [phase EXCEPT ![b] = "forwarded"]
  /\ UNCHANGED <<inputVars, task, spawned, events, bound, engineVars, pending,
                 next, evalq, tail, outVars, panics>>

(* Mutant: a panicked batch is replaced by one without results. *)
JoinPanickedMutant(b) ==
  /\ task # "gone"
  /\ phase[b] = "panicked"
  /\ Len(seqq) < Pool
  /\ seqq' = Append(seqq, b)
  /\ phase' = [phase EXCEPT ![b] = "lost"]
  /\ UNCHANGED <<inputVars, task, spawned, events, bound, engineVars, pending,
                 next, evalq, tail, outVars, panics>>

(* forward_joined of a worker that panicked: the engine task leaves its     *)
(* loop and drains; at a second panic it leaves the drain too.  On the      *)
(* inline path the panic takes the engine task with it.                     *)
JoinPanicked(b) ==
  /\ task # "gone"
  /\ phase[b] = "panicked"
  /\ phase' = [phase EXCEPT ![b] = "lost"]
  /\ task' = IF task = "pulling" /\ Pool > 1 THEN "draining" ELSE "gone"
  /\ UNCHANGED <<inputVars, spawned, events, bound, engineVars, orderVars,
                 outVars, panics>>

(* event_rx.recv() returns None. *)
StopPulling ==
  /\ task = "pulling"
  /\ closed /\ input = <<>>
  /\ Finished = {}
  /\ task' = "draining"
  /\ UNCHANGED <<inputVars, batchVars, engineVars, orderVars, outVars, panics>>

(* Mutant: the engine task returns without joining what still runs. *)
EngineExitMutant ==
  /\ task = "draining"
  /\ task' = "gone"
  /\ UNCHANGED <<inputVars, batchVars, engineVars, orderVars, outVars, panics>>

(* The JoinSet is empty: seq_tx is dropped. *)
EngineExit ==
  /\ task = "draining"
  /\ Running \cup Finished = {}
  /\ task' = "gone"
  /\ UNCHANGED <<inputVars, batchVars, engineVars, orderVars, outVars, panics>>

-----------------------------------------------------------------------------
(* The reducer takes the next finished batch. *)
ReducerReceive ==
  /\ seqq # <<>>
  /\ next \notin pending
  /\ pending' = pending \cup {Head(seqq)}
  /\ seqq' = Tail(seqq)
  /\ UNCHANGED <<inputVars, task, batchVars, engineVars, next, evalq, tail,
                 outVars, panics>>

(* Mutant: the reducer forwards what it has. *)
ReducerForwardMutant ==
  \E b \in pending :
    /\ Len(evalq) < Pool
    /\ evalq' = Append(evalq, b)
    /\ pending' = pending \ {b}
    /\ next' = next + 1
    /\ UNCHANGED <<inputVars, task, batchVars, engineVars, seqq, tail, outVars,
                   panics>>

(* It forwards batch `next` as soon as it holds it. *)
ReducerForward ==
  /\ next \in pending
  /\ Len(evalq) < Pool
  /\ evalq' = Append(evalq, next)
  /\ pending' = pending \ {next}
  /\ next' = next + 1
  /\ UNCHANGED <<inputVars, task, batchVars, engineVars, seqq, tail, outVars,
                 panics>>

(* seq_rx.recv() returns None; batches behind a lost one are dropped with   *)
(* their tokens.                                                            *)
ReducerExit ==
  /\ tail = "running"
  /\ task = "gone"
  /\ seqq = <<>>
  /\ next \notin pending
  /\ pending' = {}
  /\ tail' = "reduced"
  /\ UNCHANGED <<inputVars, task, batchVars, engineVars, seqq, next, evalq,
                 outVars, panics>>

-----------------------------------------------------------------------------
(* The dispatch task takes a batch. *)
DispatchBatch ==
  /\ current = <<>>
  /\ evalq # <<>>
  /\ current' = events[Head(evalq)]
  /\ evalq' = Tail(evalq)
  /\ UNCHANGED <<inputVars, task, batchVars, engineVars, seqq, pending, next,
                 tail, sinkq, sunk, acked, parked, panics>>

(* An event that did not parse goes to the DLQ, if there is one, and is     *)
(* acknowledged.                                                            *)
DispatchMalformed ==
  /\ current # <<>>
  /\ Head(current) \in Malformed
  /\ parked' = IF Dlq THEN parked \cup {Head(current)} ELSE parked
  /\ acked' = acked \cup {Head(current)}
  /\ current' = Tail(current)
  /\ UNCHANGED <<inputVars, task, batchVars, engineVars, orderVars, sinkq,
                 sunk, panics>>

(* An event with an empty result is acknowledged at once. *)
DispatchEmpty ==
  /\ current # <<>>
  /\ Head(current) \notin Malformed
  /\ acked' = acked \cup {Head(current)}
  /\ current' = Tail(current)
  /\ UNCHANGED <<inputVars, task, batchVars, engineVars, orderVars, sinkq,
                 sunk, parked, panics>>

(* Any other result goes to the sink channel with its token. *)
DispatchResult ==
  /\ current # <<>>
  /\ Head(current) \notin Malformed
  /\ Len(sinkq) < BufferSize
  /\ sinkq' = Append(sinkq, Head(current))
  /\ current' = Tail(current)
  /\ UNCHANGED <<inputVars, task, batchVars, engineVars, orderVars, sunk,
                 acked, parked, panics>>

(* eval_rx.recv() returns None. *)
DispatchExit ==
  /\ tail = "reduced"
  /\ evalq = <<>> /\ current = <<>>
  /\ tail' = "dispatched"
  /\ UNCHANGED <<inputVars, task, batchVars, engineVars, seqq, pending, next,
                 evalq, outVars, panics>>

(* The sink task takes a result (module Delivery goes on from here). *)
SinkTake ==
  /\ sinkq # <<>>
  /\ sunk' = Append(sunk, Head(sinkq))
  /\ sinkq' = Tail(sinkq)
  /\ UNCHANGED <<inputVars, task, batchVars, engineVars, orderVars, current,
                 acked, parked, panics>>

Drained == tail = "dispatched" /\ sinkq = <<>>

Terminated == Drained /\ UNCHANGED vars

-----------------------------------------------------------------------------
Init ==
  /\ arrived = 0
  /\ input = <<>>
  /\ closed = FALSE
  /\ task = "pulling"
  /\ spawned = 0
  /\ events = [b \in Batch |-> <<>>]
  /\ phase = [b \in Batch |-> "none"]
  /\ bound = [b \in Batch |-> 0]
  /\ order = 0
  /\ done = 0
  /\ \E k \in Kind : engine = <<[kind |-> k, window |-> <<>>]>>
  /\ staged = <<>>
  /\ seqq = <<>>
  /\ pending = {}
  /\ next = 1
  /\ evalq = <<>>
  /\ current = <<>>
  /\ tail = "running"
  /\ sinkq = <<>>
  /\ sunk = <<>>
  /\ acked = {}
  /\ parked = {}
  /\ panics = 0

WorkerStep(b) ==
  \/ LoadEngine(b) \/ LockOrder(b)
  \/ EvaluateShared(b) \/ Count(b) \/ EvaluateExclusive(b)

EngineStep ==
  \/ TakeBatch \/ StopPulling \/ EngineExit
  \/ \E b \in Batch : Forward(b) \/ JoinPanicked(b)

ReducerStep == ReducerReceive \/ ReducerForward \/ ReducerExit

DispatchStep ==
  \/ DispatchBatch \/ DispatchMalformed \/ DispatchEmpty \/ DispatchResult
  \/ DispatchExit

Next ==
  \/ Arrive \/ Close
  \/ EngineStep
  \/ \E b \in Batch : WorkerStep(b) \/ Panic(b)
  \/ \E k \in Kind : PrepareReload(k)
  \/ CommitReload
  \/ ReducerStep
  \/ DispatchStep
  \/ SinkTake
  \/ Terminated

Spec == Init /\ [][Next]_vars

(* Tokio polls every ready task, the blocking pool runs every worker, and   *)
(* the order lock is held only while one batch evaluates.  Nothing is       *)
(* assumed of the sources, of reloads or of panics.                         *)
FairSpec ==
  /\ Spec
  /\ WF_vars(EngineStep)
  /\ \A b \in Batch : WF_vars(WorkerStep(b))
  /\ WF_vars(ReducerStep)
  /\ WF_vars(DispatchStep)
  /\ WF_vars(SinkTake)
-----------------------------------------------------------------------------
(* PROPERTIES *)

(* The state of the evaluation stage is well formed. *)
TypeOK ==
  /\ arrived \in 0..NEvents
  /\ input \in Seq(Event)
  /\ closed \in BOOLEAN
  /\ task \in {"pulling", "draining", "gone"}
  /\ spawned \in 0..NEvents
  /\ events \in [Batch -> Seq(Event)]
  /\ phase \in [Batch -> {"none", "spawned", "shared", "waiting", "exclusive",
                          "evaluated", "panicked", "forwarded", "lost"}]
  /\ bound \in [Batch -> Nat]
  /\ order \in {0} \cup Batch
  /\ done \in Nat
  /\ engine \in Seq([kind : Kind, window : Seq(Event)])
  /\ Live >= 1
  /\ staged \in Seq([kind : Kind, window : Seq(Event)])
  /\ seqq \in Seq(Batch)
  /\ pending \subseteq Batch
  /\ next \in 1..NEvents + 1
  /\ evalq \in Seq(Batch)
  /\ current \in Seq(Event)
  /\ tail \in {"running", "reduced", "dispatched"}
  /\ sinkq \in Seq(Event)
  /\ sunk \in Seq(Event)
  /\ acked \subseteq Event
  /\ parked \subseteq Malformed
  /\ panics \in Nat

Increasing(s) == \A i, j \in DOMAIN s : i < j => s[i] < s[j]

(* The events the dispatch task has disposed of. *)
Dispatched == acked \cup Range(sinkq) \cup Range(sunk)

(* However the workers overlap, finish and panic, results leave in input    *)
(* order, each event once, and no event is overtaken by a later one's ack:  *)
(* the dispatched events are an initial segment of the input.               *)
OutputInOrder ==
  /\ Increasing(sunk \o sinkq)
  /\ acked \cap (Range(sinkq) \cup Range(sunk)) = {}
  /\ Dispatched = 1..Cardinality(Dispatched)

(* A batch whose worker panicked is redelivered by the source: none of its  *)
(* events, and none of a later batch, is acknowledged or sent on.           *)
NothingPassesAPanic ==
  \A b \in Batch : phase[b] \in {"panicked", "lost"} =>
    \A e \in Dispatched : \A f \in Range(events[b]) : e < f

(* Every window update made by a correlation engine survives the reload     *)
(* that retires it, and a retired engine is never advanced again: "counts  *)
(* and windows include every event processed during the load"               *)
(* (streaming-detection.md:169).                                            *)
NoWindowUpdateLost ==
  \A g \in 1..(Live - 1) :
    KindOf(g) = "correlation" /\ KindOf(g + 1) = "correlation" =>
      LET old == engine[g].window  new == engine[g + 1].window
      IN Len(old) <= Len(new) /\ \A i \in DOMAIN old : new[i] = old[i]

(* In a daemon that starts with correlation rules, and so evaluates one      *)
(* batch at a time, the windows see events once and without a gap, in input *)
(* order, across reloads that keep, drop or bring back correlation rules.   *)
WindowsContiguous ==
  KindOf(1) = "correlation" => \A g \in 1..Live : LET w == engine[g].window IN
    \A i \in 1..(Len(w) - 1) :
      w[i] < w[i + 1] /\ (w[i] + 1)..(w[i + 1] - 1) \subseteq Malformed

(* environment-variables.md:24 of RSIGMA_DETECT_INFLIGHT, "Ignored (forced  *)
(* to 1) when correlation rules are present", and processor.rs:402          *)
(* "exclusive write when correlation state must advance in batch order".    *)
CorrelationInOrder == \A g \in 1..Live : Increasing(engine[g].window)

(* A finished worker's batch is dispatched even if no other event arrives   *)
(* (the comment at the wait loop), unless a worker panics.                  *)
NothingStranded ==
  \A b \in Batch :
    spawned >= b ~> (Range(events[b]) \subseteq Dispatched \/ panics > 0)

(* Once its input has ended the stage drains and exits, with or without     *)
(* panics; and without one, everything that was buffered is then dispatched. *)
DrainEnds ==
  closed ~> (Drained /\ (panics = 0 => Dispatched = 1..arrived))
=============================================================================
