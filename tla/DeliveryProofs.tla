--------------------------- MODULE DeliveryProofs ---------------------------
(***************************************************************************)
(* Proofs about Delivery, for any results, sinks, queue depths, batch      *)
(* sizes, retry limits and number of restarts.                             *)
(*                                                                         *)
(* AckedIsSettled is not inductive: why a worker may drop the last clone   *)
(* of a guard has to be part of the invariant.  Safe adds that a sink the   *)
(* dispatcher has passed holds a clone or has settled the result           *)
(* (Covered), that the dispatcher keeps its own clone until it has passed  *)
(* all of them (DispatcherHolds), and that a worker has settled the part   *)
(* of its batch it has walked over (BatchDone).                            *)
(***************************************************************************)
EXTENDS Delivery, TLAPS

Covered ==
  \A r \in Result : \A s \in Sink :
    guard[r] # {} /\ ~(dispatching = r /\ s >= cursor)
      => s \in guard[r] \/ Settled(s, r)

DispatcherHolds == dispatching # NoResult => Dispatcher \in guard[dispatching]

(* Where the worker's index is, in each phase. *)
WorkerPos ==
  \A s \in Sink :
    /\ phase[s] \in {"idle", "fill", "exited"} => pos[s] = 1
    /\ phase[s] = "park" => pos[s] <= Len(batch[s])

BatchDone ==
  \A s \in Sink : \A i \in 1..Len(batch[s]) : i < pos[s] => Settled(s, batch[s][i])

TInv == TypeOK /\ WorkerPos

-----------------------------------------------------------------------------
(* Type correctness. *)

LEMMA Empty == <<>> \in Seq(Result) /\ <<>> \in Seq(Result \X Sink) /\ Len(<<>>) = 0
  OBVIOUS

(* What the queue operations of a channel of S do to its type. *)
LEMMA Channel ==
  ASSUME NEW S, NEW q \in Seq(S), NEW e \in S
  PROVE  /\ Append(q, e) \in Seq(S)
         /\ q # <<>> => Head(q) \in S /\ Tail(q) \in Seq(S)
         /\ <<e>> \in Seq(S)
  OBVIOUS

LEMMA QueueHead ==
  ASSUME NEW S, NEW q \in Seq(S), q # <<>>
  PROVE  Head(q) \in S /\ Tail(q) \in Seq(S)
  OBVIOUS

LEMMA TypeInit == Init => TInv
<1> SUFFICES ASSUME Init PROVE TInv
  OBVIOUS
<1> USE ConstantsAssumption, Empty DEF Init
<1>1. /\ queue \in [Sink -> Seq(Result)] /\ batch \in [Sink -> Seq(Result)]
      /\ pos \in [Sink -> Nat \ {0}] /\ retries \in [Sink -> Nat]
  OBVIOUS
<1>2. phase \in [Sink -> {"idle", "fill", "deliver", "park", "exited"}]
  OBVIOUS
<1>3. WorkerPos
  BY DEF WorkerPos
<1>4. guard \in [Result -> SUBSET Holder] /\ cursor \in 1..NSinks + 1
  OBVIOUS
<1>5. /\ delivered \in [Sink -> SUBSET Result] /\ discarded \in [Sink -> SUBSET Result]
      /\ failed \in [Sink -> SUBSET Result]
  OBVIOUS
<1> QED
  BY <1>1, <1>2, <1>3, <1>4, <1>5 DEF TInv, TypeOK

LEMMA TypeStep == TInv /\ [Next]_vars => TInv'
<1> SUFFICES ASSUME TInv, [Next]_vars PROVE TInv'
  OBVIOUS
<1> USE ConstantsAssumption
<1> USE DEF TInv, TypeOK, WorkerPos, vars, dispatchVars, workerVars, ackVars,
            outcomeVars, dlqVars, lifeVars
<1>1. ASSUME NEW r \in Result, BeginDispatch(r) PROVE TInv'
  BY <1>1 DEF BeginDispatch, Holder
<1>2. ASSUME NEW s \in Sink, Enqueue(s) PROVE TInv'
  <2>1. Append(queue[s], dispatching) \in Seq(Result)
    BY <1>2, Channel DEF Enqueue
  <2>2. queue' \in [Sink -> Seq(Result)] /\ guard' \in [Result -> SUBSET Holder]
    BY <1>2, <2>1 DEF Enqueue, Holder
  <2>3. cursor' \in 1..NSinks + 1
    BY <1>2 DEF Enqueue, Sink
  <2> QED
    BY <1>2, <2>2, <2>3 DEF Enqueue
<1>3. ASSUME NEW s \in Sink, DiscardFull(s) PROVE TInv'
  <2>1. cursor' \in 1..NSinks + 1
    BY <1>3 DEF DiscardFull, Sink
  <2> QED
    BY <1>3, <2>1 DEF DiscardFull
<1>4. CASE EndDispatch
  BY <1>4 DEF EndDispatch, DropGuards
<1>5. ASSUME NEW s \in Sink, Receive(s) PROVE TInv'
  <2>1. Tail(queue[s]) \in Seq(Result) /\ <<Head(queue[s])>> \in Seq(Result)
    BY <1>5 DEF Receive
  <2>2. queue' \in [Sink -> Seq(Result)] /\ batch' \in [Sink -> Seq(Result)]
    BY <1>5, <2>1 DEF Receive
  <2>3. WorkerPos'
    BY <1>5 DEF Receive
  <2> QED
    BY <1>5, <2>2, <2>3 DEF Receive
<1>6. ASSUME NEW s \in Sink, Fill(s) PROVE TInv'
  <2>1. /\ Tail(queue[s]) \in Seq(Result)
        /\ Append(batch[s], Head(queue[s])) \in Seq(Result)
    BY <1>6 DEF Fill
  <2>2. queue' \in [Sink -> Seq(Result)] /\ batch' \in [Sink -> Seq(Result)]
    BY <1>6, <2>1 DEF Fill
  <2>3. WorkerPos'
    BY <1>6 DEF Fill
  <2>4. UNCHANGED <<pos, phase, retries, dispatchVars, ackVars, outcomeVars, dlqVars, lifeVars>>
    BY <1>6 DEF Fill
  <2> QED
    BY <2>2, <2>3, <2>4
<1>7. ASSUME NEW s \in Sink, StartBatch(s) PROVE TInv'
  BY <1>7 DEF StartBatch
<1>8. ASSUME NEW s \in Sink, AttemptOk(s) PROVE TInv'
  <2>1. pos[s] \in 1..Len(batch[s])
    BY <1>8 DEF AttemptOk, Attempting
  <2>2. Current(s) \in Result /\ pos[s] + 1 \in Nat \ {0}
    BY <2>1 DEF Current
  <2>3. WorkerPos'
    BY <1>8 DEF AttemptOk, Attempting
  <2>4. /\ delivered' \in [Sink -> SUBSET Result] /\ pos' \in [Sink -> Nat \ {0}]
        /\ retries' \in [Sink -> Nat]
        /\ UNCHANGED <<queue, batch, phase, discarded, failed, dispatchVars, ackVars, dlqVars,
                       lifeVars>>
    BY <1>8, <2>2 DEF AttemptOk
  <2> QED
    BY <2>3, <2>4
<1>9. ASSUME NEW s \in Sink, AttemptRetry(s) PROVE TInv'
  <2>1. retries' \in [Sink -> Nat]
    BY <1>9 DEF AttemptRetry
  <2>2. WorkerPos'
    BY <1>9 DEF AttemptRetry
  <2>3. UNCHANGED <<queue, batch, pos, phase, dispatchVars, ackVars, outcomeVars, dlqVars,
                    lifeVars>>
    BY <1>9 DEF AttemptRetry
  <2> QED
    BY <2>1, <2>2, <2>3
<1>10. ASSUME NEW s \in Sink, NEW permanent \in BOOLEAN, AttemptFail(s, permanent)
       PROVE  TInv'
  BY <1>10 DEF AttemptFail, Attempting
<1>11. ASSUME NEW s \in Sink, Park(s) PROVE TInv'
  <2>1. Current(s) \in Result /\ pos[s] + 1 \in Nat \ {0}
    BY <1>11 DEF Park, Current
  <2>2. Append(dfq, <<Current(s), s>>) \in Seq(Result \X Sink)
    BY <2>1
  <2>3. WorkerPos'
    BY <1>11 DEF Park
  <2>4. /\ failed' \in [Sink -> SUBSET Result] /\ pos' \in [Sink -> Nat \ {0}]
        /\ retries' \in [Sink -> Nat]
    BY <1>11, <2>1 DEF Park
  <2>5. /\ dfq' \in Seq(Result \X Sink)
        /\ phase' \in [Sink -> {"idle", "fill", "deliver", "park", "exited"}]
        /\ UNCHANGED <<queue, batch, delivered, discarded, dlqq, written, dispatchVars, ackVars,
                       lifeVars>>
    BY <1>11, <2>2 DEF Park
  <2> QED
    BY <2>3, <2>4, <2>5
<1>12. ASSUME NEW s \in Sink, FinishBatch(s) PROVE TInv'
  <2> DEFINE R == {batch[s][i] : i \in 1..Len(batch[s])}
  <2>1. R \subseteq Result
    OBVIOUS
  <2>2. guard' \in [Result -> SUBSET Holder] /\ ackq' \subseteq Result \ Synthetic
    BY <1>12, <2>1 DEF FinishBatch, DropGuards
  <2>3. batch' \in [Sink -> Seq(Result)]
    BY <1>12, Empty DEF FinishBatch
  <2>4. WorkerPos'
    BY <1>12 DEF FinishBatch
  <2>5. /\ pos' \in [Sink -> Nat \ {0}]
        /\ phase' \in [Sink -> {"idle", "fill", "deliver", "park", "exited"}]
        /\ UNCHANGED <<queue, retries, acked, dispatchVars, outcomeVars, dlqVars, lifeVars>>
    BY <1>12 DEF FinishBatch, DropGuards
  <2> QED
    BY <2>2, <2>3, <2>4, <2>5
<1>13. ASSUME NEW s \in Sink, WorkerExit(s) PROVE TInv'
  BY <1>13 DEF WorkerExit
<1>14. CASE Bridge
  <2>1. Tail(dfq) \in Seq(Result \X Sink) /\ Append(dlqq, Head(dfq)) \in Seq(Result \X Sink)
    BY <1>14 DEF Bridge
  <2> QED
    BY <1>14, <2>1 DEF Bridge
<1>15. CASE WriteDlq
  <2>1. Tail(dlqq) \in Seq(Result \X Sink) /\ Head(dlqq) \in Result \X Sink
    BY <1>15, QueueHead DEF WriteDlq
  <2>2. /\ dlqq' \in Seq(Result \X Sink) /\ written' \subseteq Result \X Sink
        /\ UNCHANGED <<dfq, dispatchVars, workerVars, ackVars, outcomeVars, lifeVars>>
    BY <1>15, <2>1 DEF WriteDlq
  <2> QED
    BY <2>2
<1>16. CASE BridgeExit \/ WriterExit \/ AckExit \/ Shutdown
  BY <1>16 DEF BridgeExit, WriterExit, AckExit, Shutdown
<1>17. ASSUME NEW r \in Result, AckToken(r) PROVE TInv'
  BY <1>17 DEF AckToken
<1>18. CASE Crash
  <2> USE <1>18, Empty DEF Crash
  <2>1. /\ queue' \in [Sink -> Seq(Result)] /\ batch' \in [Sink -> Seq(Result)]
        /\ pos' \in [Sink -> Nat \ {0}] /\ retries' \in [Sink -> Nat]
    OBVIOUS
  <2>2. phase' \in [Sink -> {"idle", "fill", "deliver", "park", "exited"}]
    OBVIOUS
  <2>3. WorkerPos'
    OBVIOUS
  <2>4. guard' \in [Result -> SUBSET Holder] /\ cursor' \in 1..NSinks + 1
    OBVIOUS
  <2>5. /\ fresh' \subseteq Result /\ crashes' \in Nat
        /\ dfq' \in Seq(Result \X Sink) /\ dlqq' \in Seq(Result \X Sink)
    OBVIOUS
  <2>6. UNCHANGED <<acked, delivered, discarded, failed, written>>
    OBVIOUS
  <2>7. /\ dispatching' = NoResult /\ ackq' = {}
        /\ closed' = FALSE /\ tail' = "running"
    OBVIOUS
  <2> HIDE DEF Crash
  <2> QED
    BY <2>1, <2>2, <2>3, <2>4, <2>5, <2>6, <2>7
<1>19. CASE UNCHANGED vars
  BY <1>19
<1> QED
  BY <1>1, <1>2, <1>3, <1>4, <1>5, <1>6, <1>7, <1>8, <1>9, <1>10, <1>11, <1>12,
     <1>13, <1>14, <1>15, <1>16, <1>17, <1>18, <1>19
     DEF Next, DispatchStep, WorkerStep, TailStep, Terminated

(* TypeOK holds in every reachable state. *)
THEOREM TypeCorrect == Spec => []TypeOK
<1>1. TInv => TypeOK
  BY DEF TInv
<1> QED
  BY <1>1, TypeInit, TypeStep, PTL DEF Spec

-----------------------------------------------------------------------------
(* The ack-join. *)

Safe == Covered /\ DispatcherHolds /\ BatchDone /\ AckedIsSettled

(* A result a sink has settled stays settled. *)
LEMMA SettledStays ==
  ASSUME TypeOK, [Next]_vars, NEW s \in Sink, NEW r \in Result, Settled(s, r)
  PROVE  Settled(s, r)'
<1>1. ASSUME NEW t \in Sink, AttemptOk(t) PROVE Settled(s, r)'
  BY <1>1 DEF AttemptOk, TypeOK, Settled
<1>2. ASSUME NEW t \in Sink, Park(t) PROVE Settled(s, r)'
  BY <1>2 DEF Park, TypeOK, Settled
<1>3. ASSUME NEW t \in Sink, DiscardFull(t) PROVE Settled(s, r)'
  BY <1>3 DEF DiscardFull, TypeOK, Settled
<1>4. ASSUME UNCHANGED outcomeVars PROVE Settled(s, r)'
  BY <1>4 DEF Settled, outcomeVars
<1>5. ASSUME NEW t \in Sink,
             \/ Receive(t) \/ Fill(t) \/ StartBatch(t) \/ AttemptRetry(t)
             \/ \E permanent \in BOOLEAN : AttemptFail(t, permanent)
             \/ FinishBatch(t) \/ WorkerExit(t) \/ Enqueue(t)
      PROVE  UNCHANGED outcomeVars
  BY <1>5 DEF Receive, Fill, StartBatch, AttemptRetry, AttemptFail, FinishBatch,
              WorkerExit, Enqueue
<1>6. CASE EndDispatch \/ TailStep \/ Shutdown \/ UNCHANGED vars
  BY <1>4, <1>6 DEF EndDispatch, TailStep, Bridge, WriteDlq, BridgeExit,
                    WriterExit, AckExit, Shutdown, vars
<1>7. CASE Crash \/ \E q \in Result : BeginDispatch(q) \/ AckToken(q)
  BY <1>4, <1>7 DEF Crash, BeginDispatch, AckToken, outcomeVars
<1> QED
  BY <1>1, <1>2, <1>3, <1>4, <1>5, <1>6, <1>7
     DEF Next, DispatchStep, WorkerStep, Terminated

LEMMA SafeInit == Init => Safe
  BY DEF Init, Safe, Covered, DispatcherHolds, BatchDone, AckedIsSettled

(* Dropping h's clones keeps the join: whoever h held for, it has settled.  *)
LEMMA SafeStep == TInv /\ TInv' /\ Safe /\ [Next]_vars => Safe'
<1> SUFFICES ASSUME TInv, TInv', Safe, [Next]_vars PROVE Safe'
  OBVIOUS
<1> USE ConstantsAssumption
<1>0. \A s \in Sink : \A r \in Result : Settled(s, r) => Settled(s, r)'
  BY SettledStays DEF TInv
<1>t. /\ dispatching \in Result \cup {NoResult} /\ NoResult \notin Result
      /\ cursor \in Nat /\ guard \in [Result -> SUBSET Holder]
      /\ \A s \in Sink : s # Dispatcher /\ s \in 1..NSinks /\ s \in Nat
  BY DEF TInv, TypeOK, Sink, Dispatcher
<1>b. /\ batch \in [Sink -> Seq(Result)] /\ batch' \in [Sink -> Seq(Result)]
      /\ pos \in [Sink -> Nat \ {0}] /\ pos' \in [Sink -> Nat \ {0}]
  BY DEF TInv, TypeOK
<1>d. ASSUME UNCHANGED <<batch, pos>> PROVE BatchDone'
  <2>1. \A s \in Sink : \A i \in 1..Len(batch[s]) : batch[s][i] \in Result
    BY <1>b
  <2> QED
    BY <1>d, <1>0, <2>1 DEF Safe, BatchDone
<1>e. ASSUME UNCHANGED <<ackq, acked>> PROVE AckedIsSettled'
  <2>1. ackq \cup acked \subseteq Result
    BY DEF TInv, TypeOK
  <2> QED
    BY <1>e, <1>0, <2>1 DEF Safe, AckedIsSettled
<1>c. ASSUME UNCHANGED <<dispatching, cursor, guard>> PROVE Covered' /\ DispatcherHolds'
  BY <1>c, <1>0 DEF Safe, Covered, DispatcherHolds
<1>1. ASSUME NEW r \in Result, BeginDispatch(r) PROVE Safe'
  <2>1. /\ dispatching' = r /\ cursor' = 1 /\ dispatching = NoResult
        /\ guard' = [guard EXCEPT ![r] = {Dispatcher}]
        /\ UNCHANGED <<ackq, acked, batch, pos>>
    BY <1>1 DEF BeginDispatch, workerVars
  <2>2. Covered' /\ DispatcherHolds'
    BY <1>0, <1>t, <2>1 DEF Safe, Covered, DispatcherHolds
  <2> QED
    BY <1>d, <1>e, <2>1, <2>2 DEF Safe
<1>2. ASSUME NEW s \in Sink, Enqueue(s) PROVE Safe'
  <2>1. /\ dispatching \in Result /\ UNCHANGED dispatching
        /\ cursor = s /\ cursor' = s + 1
        /\ guard' = [guard EXCEPT ![dispatching] = @ \cup {s}]
        /\ UNCHANGED <<ackq, acked, batch, pos>>
    BY <1>2, <1>t DEF Enqueue
  <2>2. \A r \in Result : guard[r] \subseteq guard'[r]
    BY <1>t, <2>1
  <2>3. Covered'
    <3> SUFFICES ASSUME NEW r \in Result, NEW q \in Sink, guard'[r] # {},
                        ~(dispatching = r /\ q >= s + 1)
                 PROVE  q \in guard'[r] \/ Settled(q, r)'
      BY <2>1 DEF Covered
    <3>1. CASE r = dispatching /\ q = s
      BY <1>t, <2>1, <3>1
    <3>2. CASE ~(r = dispatching /\ q = s)
      <4>1. guard[r] # {} /\ ~(dispatching = r /\ q >= s)
        BY <1>t, <2>1, <3>2 DEF Safe, DispatcherHolds
      <4> QED
        BY <1>0, <2>1, <2>2, <4>1 DEF Safe, Covered
    <3> QED
      BY <3>1, <3>2
  <2>4. DispatcherHolds'
    BY <1>t, <2>1, <2>2 DEF Safe, DispatcherHolds
  <2> QED
    BY <1>d, <1>e, <2>1, <2>3, <2>4 DEF Safe
<1>3. ASSUME NEW s \in Sink, DiscardFull(s) PROVE Safe'
  <2>1. /\ dispatching \in Result /\ UNCHANGED <<dispatching, guard>>
        /\ cursor = s /\ cursor' = s + 1
        /\ UNCHANGED <<ackq, acked, batch, pos>>
    BY <1>3, <1>t DEF DiscardFull, workerVars, ackVars
  <2>2. Settled(s, dispatching)'
    BY <1>3, <2>1 DEF DiscardFull, Settled, TInv, TypeOK
  <2>3. Covered'
    <3> SUFFICES ASSUME NEW r \in Result, NEW q \in Sink, guard[r] # {},
                        ~(dispatching = r /\ q >= s + 1)
                 PROVE  q \in guard[r] \/ Settled(q, r)'
      BY <2>1 DEF Covered
    <3>1. CASE r = dispatching /\ q = s
      BY <2>1, <2>2, <3>1
    <3>2. CASE ~(r = dispatching /\ q = s)
      <4>1. ~(dispatching = r /\ q >= s)
        BY <1>t, <3>2
      <4> QED
        BY <1>0, <2>1, <4>1 DEF Safe, Covered
    <3> QED
      BY <3>1, <3>2
  <2>4. DispatcherHolds'
    BY <2>1 DEF Safe, DispatcherHolds
  <2> QED
    BY <1>d, <1>e, <2>1, <2>3, <2>4 DEF Safe
<1>4. CASE EndDispatch
  <2>1. /\ dispatching \in Result /\ dispatching' = NoResult
        /\ \A s \in Sink : ~(s >= cursor)
        /\ UNCHANGED <<acked, batch, pos>>
    BY <1>4, <1>t DEF EndDispatch, DropGuards, workerVars
  <2>2. /\ guard' = [r \in Result |-> IF r = dispatching THEN guard[r] \ {Dispatcher}
                                                         ELSE guard[r]]
        /\ \A r \in ackq' : r \in ackq \/ (r = dispatching /\ guard[r] = {Dispatcher})
    BY <1>4 DEF EndDispatch, DropGuards
  <2>3. \A r \in Result : \A s \in Sink :
          guard[r] # {} => s \in guard[r] \/ Settled(s, r)
    BY <2>1 DEF Safe, Covered
  <2>4. Covered'
    BY <1>0, <1>t, <2>2, <2>3 DEF Covered
  <2>5. AckedIsSettled'
    <3> SUFFICES ASSUME NEW r \in ackq' \cup acked, NEW s \in Sink PROVE Settled(s, r)'
      BY <2>1 DEF AckedIsSettled
    <3>1. r \in Result
      BY <2>1, <2>2 DEF TInv, TypeOK
    <3>2. CASE r \in ackq \cup acked
      BY <1>0, <3>1, <3>2 DEF Safe, AckedIsSettled
    <3>3. CASE r = dispatching /\ guard[r] = {Dispatcher}
      <4>1. s \notin guard[r] /\ guard[r] # {}
        BY <1>t, <3>3
      <4>2. Settled(s, r)
        BY <2>3, <3>1, <4>1
      <4> QED
        BY <1>0, <3>1, <4>2
    <3> QED
      BY <2>2, <3>2, <3>3
  <2>6. DispatcherHolds'
    BY <2>1 DEF DispatcherHolds
  <2> QED
    BY <1>d, <2>1, <2>4, <2>5, <2>6 DEF Safe
<1>5. ASSUME NEW s \in Sink, Receive(s) \/ Fill(s) \/ StartBatch(s) PROVE Safe'
  <2>0. phase[s] \in {"idle", "fill"} => pos[s] = 1
    BY DEF TInv, WorkerPos
  <2>1. /\ pos'[s] = 1
        /\ \A t \in Sink : t # s => batch'[t] = batch[t] /\ pos'[t] = pos[t]
    BY <1>5, <1>b, <2>0 DEF Receive, Fill, StartBatch
  <2>2. UNCHANGED <<guard, dispatching, cursor, ackq, acked>>
    BY <1>5 DEF Receive, Fill, StartBatch, dispatchVars, ackVars
  <2>3. BatchDone'
    <3> SUFFICES ASSUME NEW t \in Sink, NEW i \in 1..Len(batch'[t]), i < pos'[t]
                 PROVE  Settled(t, batch[t][i])'
      BY DEF BatchDone
    <3>1. t # s /\ batch[t][i] \in Result
      BY <1>b, <2>1
    <3> QED
      BY <1>0, <2>1, <3>1 DEF Safe, BatchDone
  <2> QED
    BY <1>c, <1>e, <2>2, <2>3 DEF Safe
<1>6. ASSUME NEW s \in Sink, AttemptOk(s) \/ Park(s) PROVE Safe'
  <2>1. pos[s] \in 1..Len(batch[s])
    BY <1>6, <1>b DEF AttemptOk, Park, Attempting, TInv, WorkerPos
  <2>2. PICK r \in Result : r = batch[s][pos[s]]
    BY <1>b, <2>1
  <2>3. Settled(s, r)'
    <3>1. delivered \in [Sink -> SUBSET Result] /\ failed \in [Sink -> SUBSET Result]
      BY DEF TInv, TypeOK
    <3> QED
      BY <1>6, <2>2, <3>1 DEF AttemptOk, Park, Current, Settled
  <2>4. /\ pos' = [pos EXCEPT ![s] = @ + 1] /\ UNCHANGED batch
        /\ UNCHANGED <<guard, dispatching, cursor, ackq, acked>>
    BY <1>6 DEF AttemptOk, Park, dispatchVars, ackVars
  <2>5. BatchDone'
    <3> SUFFICES ASSUME NEW t \in Sink, NEW i \in 1..Len(batch[t]), i < pos'[t]
                 PROVE  Settled(t, batch[t][i])'
      BY <2>4 DEF BatchDone
    <3>1. batch[t][i] \in Result /\ batch'[t][i] = batch[t][i]
      BY <1>b, <2>4
    <3>2. CASE t = s /\ i = pos[s]
      BY <2>2, <2>3, <2>4, <3>2
    <3>3. CASE ~(t = s /\ i = pos[s])
      <4>1. i < pos[t]
        BY <1>b, <2>4, <3>3
      <4> QED
        BY <1>0, <3>1, <4>1 DEF Safe, BatchDone
    <3> QED
      BY <3>2, <3>3
  <2> QED
    BY <1>c, <1>e, <2>4, <2>5 DEF Safe
<1>7. ASSUME NEW s \in Sink, FinishBatch(s) PROVE Safe'
  <2> DEFINE R == {batch[s][i] : i \in 1..Len(batch[s])}
  <2>1. \A r \in R : r \in Result /\ Settled(s, r)
    <3> SUFFICES ASSUME NEW i \in 1..Len(batch[s])
                 PROVE  batch[s][i] \in Result /\ Settled(s, batch[s][i])
      OBVIOUS
    <3>1. i < pos[s]
      BY <1>7, <1>b DEF FinishBatch
    <3> QED
      BY <1>b, <3>1 DEF Safe, BatchDone
  <2>2. /\ guard' = [r \in Result |-> IF r \in R THEN guard[r] \ {s} ELSE guard[r]]
        /\ ackq' = ackq \cup {r \in R \ Synthetic : guard[r] = {s}}
        /\ UNCHANGED <<acked, dispatching, cursor>>
    BY <1>7 DEF FinishBatch, DropGuards, dispatchVars
  <2>3. BatchDone'
    <3>1. pos'[s] = 1 /\ \A t \in Sink : t # s => batch'[t] = batch[t] /\ pos'[t] = pos[t]
      BY <1>7, <1>b DEF FinishBatch
    <3> SUFFICES ASSUME NEW t \in Sink, NEW i \in 1..Len(batch'[t]), i < pos'[t]
                 PROVE  Settled(t, batch[t][i])'
      BY DEF BatchDone
    <3>2. t # s /\ batch[t][i] \in Result
      BY <1>b, <3>1
    <3> QED
      BY <1>0, <3>1, <3>2 DEF Safe, BatchDone
  <2> HIDE DEF R
  <2>4. Covered'
    BY <1>0, <1>t, <2>1, <2>2 DEF Safe, Covered
  <2>5. DispatcherHolds'
    BY <1>t, <2>2 DEF Safe, DispatcherHolds
  <2>6. \A r \in R : guard[r] = {s} => \A t \in Sink : Settled(t, r)
    <3> SUFFICES ASSUME NEW r \in R, guard[r] = {s}, NEW t \in Sink PROVE Settled(t, r)
      OBVIOUS
    <3>1. dispatching # r
      BY <1>t, <2>1 DEF Safe, DispatcherHolds
    <3> QED
      BY <2>1, <3>1 DEF Safe, Covered
  <2>7. AckedIsSettled'
    <3> SUFFICES ASSUME NEW r \in ackq' \cup acked, NEW t \in Sink PROVE Settled(t, r)'
      BY <2>2 DEF AckedIsSettled
    <3>1. r \in Result /\ Settled(t, r)
      BY <2>1, <2>2, <2>6 DEF Safe, AckedIsSettled, TInv, TypeOK
    <3> QED
      BY <1>0, <3>1
  <2> QED
    BY <2>3, <2>4, <2>5, <2>7 DEF Safe
<1>8. ASSUME NEW r \in Result, AckToken(r) PROVE Safe'
  <2>1. UNCHANGED <<guard, dispatching, cursor, batch, pos>> /\ ackq' \cup acked' = ackq \cup acked
    BY <1>8 DEF AckToken, dispatchVars, workerVars
  <2>2. AckedIsSettled'
    BY <1>0, <2>1 DEF Safe, AckedIsSettled, TInv, TypeOK
  <2> QED
    BY <1>c, <1>d, <2>1, <2>2 DEF Safe
<1>9. CASE Crash
  <2>1. /\ \A r \in Result : guard'[r] = {}
        /\ dispatching' = NoResult /\ ackq' = {} /\ acked' = acked
        /\ \A s \in Sink : pos'[s] = 1
    BY <1>9 DEF Crash
  <2>2. Covered' /\ DispatcherHolds'
    BY <2>1 DEF Covered, DispatcherHolds
  <2>3. BatchDone'
    BY <2>1, <1>b DEF BatchDone
  <2>4. AckedIsSettled'
    BY <1>0, <2>1 DEF Safe, AckedIsSettled, TInv, TypeOK
  <2> QED
    BY <2>2, <2>3, <2>4 DEF Safe
<1>10. ASSUME NEW s \in Sink,
              \/ AttemptRetry(s) \/ WorkerExit(s)
              \/ \E permanent \in BOOLEAN : AttemptFail(s, permanent)
       PROVE  Safe'
  <2>1. UNCHANGED <<guard, dispatching, cursor, batch, pos, ackq, acked>>
    BY <1>10 DEF AttemptRetry, AttemptFail, WorkerExit, dispatchVars, ackVars
  <2> QED
    BY <1>c, <1>d, <1>e, <2>1 DEF Safe
<1>11. CASE TailStep \/ Shutdown \/ UNCHANGED vars
  <2>1. UNCHANGED <<guard, dispatching, cursor, batch, pos, ackq, acked>>
    BY <1>11 DEF TailStep, Bridge, WriteDlq, BridgeExit, WriterExit, AckExit,
                 Shutdown, vars, dispatchVars, workerVars, ackVars
  <2> QED
    BY <1>c, <1>d, <1>e, <2>1 DEF Safe
<1> QED
  BY <1>1, <1>2, <1>3, <1>4, <1>5, <1>6, <1>7, <1>8, <1>9, <1>10, <1>11
     DEF Next, DispatchStep, WorkerStep, Terminated

LEMMA Invariant == Spec => [](TInv /\ Safe)
  BY TypeInit, TypeStep, SafeInit, SafeStep, PTL DEF Spec

(* At-least-once delivery, for every number of sinks, results and crashes:  *)
(* no token reaches the source before every sink has settled its result.    *)
THEOREM AckSafety == Spec => []AckedIsSettled
<1>1. Safe => AckedIsSettled
  BY DEF Safe
<1> QED
  BY <1>1, Invariant, PTL

-----------------------------------------------------------------------------
(* Refinement of AckJoin. *)

(* The mapped variable of a step that adds r to what s has settled. *)
Mapped == [s \in Sink |-> {r \in Result : Settled(s, r)}]

LEMMA SettleStep ==
  ASSUME TypeOK, UNCHANGED <<ackq, acked>>,
         NEW s \in Sink, NEW r \in Result,
         \/ /\ delivered' = [delivered EXCEPT ![s] = @ \cup {r}]
            /\ UNCHANGED <<failed, discarded>>
         \/ /\ failed' = [failed EXCEPT ![s] = @ \cup {r}]
            /\ UNCHANGED <<delivered, discarded>>
         \/ /\ discarded' = [discarded EXCEPT ![s] = @ \cup {r}]
            /\ s \in Lossy /\ UNCHANGED <<delivered, failed>>
  PROVE  Join!Settle(s)
<1>1. \A t \in Sink : \A q \in Result :
        Settled(t, q)' <=> Settled(t, q) \/ (t = s /\ q = r)
  BY DEF Settled, TypeOK
<1>2. Mapped' = [Mapped EXCEPT ![s] = @ \cup {r}]
  BY <1>1 DEF Mapped
<1> QED
  BY <1>2 DEF Join!Settle, Mapped

LEMMA JoinInit == Init => Join!Init
<1> SUFFICES ASSUME Init PROVE Join!Init
  OBVIOUS
<1>1. \A s \in Sink : \A r \in Result : ~Settled(s, r)
  BY DEF Init, Settled
<1> QED
  BY <1>1 DEF Init, Join!Init

LEMMA JoinStep == TInv /\ Safe /\ Safe' /\ [Next]_vars => [Join!Next]_(Join!vars)
<1> SUFFICES ASSUME TInv, Safe, Safe', [Next]_vars PROVE [Join!Next]_(Join!vars)
  OBVIOUS
<1>0. ASSUME UNCHANGED outcomeVars, UNCHANGED <<ackq, acked>>
      PROVE  UNCHANGED Join!vars
  BY <1>0 DEF Join!vars, Settled, outcomeVars
<1>1. ASSUME NEW s \in Sink, AttemptOk(s) \/ Park(s) \/ DiscardFull(s)
      PROVE  Join!Next
  <2>1. PICK r \in Result : r = IF DiscardFull(s) THEN dispatching ELSE Current(s)
    <3>1. DiscardFull(s) => dispatching \in Result
      BY DEF DiscardFull, TInv, TypeOK
    <3>2. AttemptOk(s) \/ Park(s) => pos[s] \in 1..Len(batch[s])
      BY DEF AttemptOk, Park, Attempting, TInv, TypeOK, WorkerPos
    <3>3. AttemptOk(s) \/ Park(s) => Current(s) \in Result
      BY <3>2 DEF Current, TInv, TypeOK
    <3> QED
      BY <1>1, <3>1, <3>3
  <2>2. Join!Settle(s)
    <3>1. CASE DiscardFull(s)
      BY <2>1, <3>1, SettleStep DEF DiscardFull, ackVars, TInv
    <3>2. CASE AttemptOk(s) /\ ~DiscardFull(s)
      BY <2>1, <3>2, SettleStep DEF AttemptOk, ackVars, TInv
    <3>3. CASE Park(s) /\ ~DiscardFull(s)
      BY <2>1, <3>3, SettleStep DEF Park, ackVars, TInv
    <3> QED
      BY <1>1, <3>1, <3>2, <3>3
  <2> QED
    BY <2>2 DEF Join!Next
<1>2. ASSUME UNCHANGED outcomeVars, UNCHANGED acked,
             NEW R \in SUBSET Result, ackq' = ackq \cup R
      PROVE  Join!Next
  <2>1. \A r \in R : \A s \in Sink : Settled(s, r)
    BY <1>2 DEF Safe, AckedIsSettled, Settled, outcomeVars
  <2> QED
    BY <1>2, <2>1 DEF Join!Next, Join!Release, Settled, outcomeVars
<1>3. CASE EndDispatch
  <2>1. dispatching \in Result
    BY <1>3 DEF EndDispatch, TInv, TypeOK
  <2> QED
    BY <1>2, <1>3, <2>1 DEF EndDispatch, DropGuards
<1>4. ASSUME NEW s \in Sink, FinishBatch(s) PROVE Join!Next
  <2> DEFINE R == {batch[s][i] : i \in 1..Len(batch[s])}
  <2>1. R \subseteq Result
    BY DEF TInv, TypeOK
  <2> HIDE DEF R
  <2>2. ackq' = ackq \cup {r \in R \ Synthetic : guard[r] = {s}}
    BY <1>4 DEF FinishBatch, DropGuards, R
  <2>3. UNCHANGED outcomeVars /\ UNCHANGED acked
    BY <1>4 DEF FinishBatch, DropGuards
  <2> QED
    BY <1>2, <2>1, <2>2, <2>3
<1>5. ASSUME NEW r \in Result, AckToken(r) PROVE Join!Next
  BY <1>5 DEF AckToken, Join!Next, Join!Acknowledge, Settled, outcomeVars
<1>6. CASE Crash
  BY <1>6 DEF Crash, Join!Next, Join!Restart, Settled
<1>7. CASE \/ \E r \in Result : BeginDispatch(r)
           \/ TailStep \/ Shutdown \/ UNCHANGED vars
  BY <1>0, <1>7 DEF BeginDispatch, TailStep, Bridge, WriteDlq, BridgeExit,
                    WriterExit, AckExit, Shutdown, vars, ackVars
<1>8. ASSUME NEW s \in Sink,
             \/ Receive(s) \/ Fill(s) \/ StartBatch(s) \/ AttemptRetry(s)
             \/ \E permanent \in BOOLEAN : AttemptFail(s, permanent)
             \/ WorkerExit(s) \/ Enqueue(s)
      PROVE  UNCHANGED Join!vars
  BY <1>0, <1>8 DEF Receive, Fill, StartBatch, AttemptRetry, AttemptFail,
                    WorkerExit, Enqueue, ackVars
<1> QED
  BY <1>1, <1>3, <1>4, <1>5, <1>6, <1>7, <1>8
     DEF Next, DispatchStep, WorkerStep, Terminated

(* The delivery layer implements AckJoin: tokens are released only for what *)
(* every sink has settled, and only released tokens are acknowledged.       *)
THEOREM Refinement == Spec => ImplementsAckJoin
  BY JoinInit, JoinStep, Invariant, PTL DEF Spec, ImplementsAckJoin, Join!Spec

-----------------------------------------------------------------------------
(* The dead-letter path. *)

LEMMA RangeOfQueue ==
  ASSUME NEW S, NEW q \in Seq(S), NEW e \in S
  PROVE  /\ Range(q) \subseteq Range(Append(q, e)) /\ e \in Range(Append(q, e))
         /\ q # <<>> => \A x \in Range(q) : x = Head(q) \/ x \in Range(Tail(q))
<1>1. Range(q) \subseteq Range(Append(q, e)) /\ e \in Range(Append(q, e))
  <2>1. \A i \in DOMAIN q : i \in DOMAIN Append(q, e) /\ Append(q, e)[i] = q[i]
    OBVIOUS
  <2>2. Len(q) + 1 \in DOMAIN Append(q, e) /\ Append(q, e)[Len(q) + 1] = e
    OBVIOUS
  <2> QED
    BY <2>1, <2>2 DEF Range
<1>2. ASSUME q # <<>>, NEW i \in DOMAIN q, i # 1 PROVE q[i] \in Range(Tail(q))
  <2>1. i - 1 \in DOMAIN Tail(q) /\ Tail(q)[i - 1] = q[i]
    BY <1>2
  <2> QED
    BY <2>1 DEF Range
<1>3. ASSUME q # <<>> PROVE \A x \in Range(q) : x = Head(q) \/ x \in Range(Tail(q))
  <2>1. Head(q) = q[1]
    BY <1>3
  <2> QED
    BY <1>2, <1>3, <2>1 DEF Range
<1> QED
  BY <1>1, <1>3

LEMMA NoFailureStep ==
  TInv /\ NoFailureVanishes /\ [Next]_vars => NoFailureVanishes'
<1> SUFFICES ASSUME TInv, NoFailureVanishes, [Next]_vars, crashes' = 0,
                    NEW s \in Sink, NEW r \in failed'[s]
             PROVE  <<r, s>> \in Range(dfq') \cup Range(dlqq') \cup written'
  BY DEF NoFailureVanishes
<1>t. /\ batch \in [Sink -> Seq(Result)] /\ pos \in [Sink -> Nat \ {0}]
      /\ dfq \in Seq(Result \X Sink) /\ dlqq \in Seq(Result \X Sink)
      /\ failed \in [Sink -> SUBSET Result]
      /\ crashes \in Nat
      /\ WorkerPos
  BY DEF TInv, TypeOK
<1>1. ASSUME UNCHANGED <<crashes, failed, dfq, dlqq, written>>
      PROVE  <<r, s>> \in Range(dfq') \cup Range(dlqq') \cup written'
  BY <1>1 DEF NoFailureVanishes
<1>2. ASSUME NEW t \in Sink, Park(t)
      PROVE  <<r, s>> \in Range(dfq') \cup Range(dlqq') \cup written'
  <2>1. pos[t] \in 1..Len(batch[t])
    BY <1>2, <1>t DEF Park, WorkerPos
  <2>2. Current(t) \in Result
    BY <1>t, <2>1 DEF Current
  <2>3. Range(dfq) \subseteq Range(dfq') /\ <<Current(t), t>> \in Range(dfq')
    BY <1>2, <1>t, <2>2, RangeOfQueue DEF Park
  <2>4. r \in failed[s] \/ (s = t /\ r = Current(t))
    BY <1>2, <1>t DEF Park
  <2>5. UNCHANGED <<crashes, dlqq, written>>
    BY <1>2 DEF Park, lifeVars
  <2> QED
    BY <2>3, <2>4, <2>5 DEF NoFailureVanishes
<1>3. CASE Bridge
  <2>1. Head(dfq) \in Result \X Sink
    BY <1>3, <1>t DEF Bridge
  <2>2. /\ Range(dlqq) \subseteq Range(dlqq') /\ Head(dfq) \in Range(dlqq')
        /\ \A x \in Range(dfq) : x = Head(dfq) \/ x \in Range(dfq')
    BY <1>3, <1>t, <2>1, RangeOfQueue DEF Bridge
  <2>3. UNCHANGED <<crashes, failed, written>>
    BY <1>3 DEF Bridge, lifeVars, outcomeVars
  <2> QED
    BY <2>2, <2>3 DEF NoFailureVanishes
<1>4. CASE WriteDlq
  <2>1. Head(dlqq) \in Result \X Sink
    BY <1>4, <1>t, QueueHead DEF WriteDlq
  <2>2. \A x \in Range(dlqq) : x = Head(dlqq) \/ x \in Range(dlqq')
    BY <1>4, <1>t, <2>1, RangeOfQueue DEF WriteDlq
  <2>3. UNCHANGED <<crashes, failed, dfq>> /\ written' = written \cup {Head(dlqq)}
    BY <1>4 DEF WriteDlq, lifeVars, outcomeVars
  <2> QED
    BY <2>2, <2>3 DEF NoFailureVanishes
<1>5. CASE Crash
  BY <1>5, <1>t DEF Crash
<1>6. ASSUME NEW t \in Sink,
             \/ Receive(t) \/ Fill(t) \/ StartBatch(t) \/ AttemptOk(t)
             \/ AttemptRetry(t) \/ \E permanent \in BOOLEAN : AttemptFail(t, permanent)
             \/ FinishBatch(t) \/ WorkerExit(t) \/ Enqueue(t) \/ DiscardFull(t)
      PROVE  UNCHANGED <<crashes, failed, dfq, dlqq, written>>
  BY <1>6 DEF Receive, Fill, StartBatch, AttemptOk, AttemptRetry, AttemptFail,
              FinishBatch, WorkerExit, Enqueue, DiscardFull, lifeVars, dlqVars,
              outcomeVars
<1>7. CASE \/ \E q \in Result : BeginDispatch(q) \/ AckToken(q)
           \/ EndDispatch \/ BridgeExit \/ WriterExit \/ AckExit \/ Shutdown
           \/ UNCHANGED vars
  BY <1>1, <1>7 DEF BeginDispatch, AckToken, EndDispatch, BridgeExit, WriterExit,
                    AckExit, Shutdown, vars, lifeVars, dlqVars, outcomeVars
<1> QED
  BY <1>1, <1>2, <1>3, <1>4, <1>5, <1>6, <1>7
     DEF Next, DispatchStep, WorkerStep, TailStep, Terminated

(* Until a restart, a failure a worker has handed over is in one of the two *)
(* channels or has reached the DLQ writer.                                  *)
THEOREM FailuresReachTheWriter == Spec => []NoFailureVanishes
<1>1. Init => NoFailureVanishes
  BY DEF Init, NoFailureVanishes
<1> QED
  BY <1>1, NoFailureStep, Invariant, PTL DEF Spec

-----------------------------------------------------------------------------
(* One outcome. *)

NoOutcome(s, r) == r \notin delivered[s] /\ r \notin failed[s] /\ r \notin discarded[s]

(* Sink s may still be given r by the dispatcher. *)
Coming(s, r) == r \in fresh \/ (dispatching = r /\ s >= cursor)

(* A result is in one place of a sink, once, and has no outcome there until *)
(* the worker has walked over it.                                           *)
Single(s) ==
  /\ \A r \in Result : Coming(s, r) =>
       /\ NoOutcome(s, r)
       /\ \A i \in 1..Len(queue[s]) : queue[s][i] # r
       /\ \A i \in 1..Len(batch[s]) : batch[s][i] # r
  /\ \A i, j \in 1..Len(queue[s]) : queue[s][i] = queue[s][j] => i = j
  /\ \A i, j \in 1..Len(batch[s]) : batch[s][i] = batch[s][j] => i = j
  /\ \A i \in 1..Len(queue[s]), j \in 1..Len(batch[s]) : queue[s][i] # batch[s][j]
  /\ \A i \in 1..Len(queue[s]) : NoOutcome(s, queue[s][i])
  /\ \A i \in 1..Len(batch[s]) : i >= pos[s] => NoOutcome(s, batch[s][i])
  /\ delivered[s] \cap failed[s] = {}
  /\ discarded[s] \cap (delivered[s] \cup failed[s]) = {}

Once ==
  crashes = 0 => /\ dispatching \notin fresh
                 /\ \A s \in Sink : Single(s)

(* The entries of a queue of S after Append and Tail. *)
LEMMA Entries ==
  ASSUME NEW S, NEW q \in Seq(S)
  PROVE  /\ Len(q) \in Nat /\ \A i \in 1..Len(q) : q[i] \in S
         /\ \A e \in S : /\ Len(Append(q, e)) = Len(q) + 1
                         /\ \A i \in 1..Len(q) : Append(q, e)[i] = q[i]
                         /\ Append(q, e)[Len(q) + 1] = e
                         /\ Len(<<e>>) = 1 /\ <<e>>[1] = e
         /\ q # <<>> => /\ Head(q) = q[1] /\ Len(q) >= 1
                        /\ Len(Tail(q)) = Len(q) - 1
                        /\ \A i \in 1..Len(q) - 1 : Tail(q)[i] = q[i + 1]
         /\ q = <<>> <=> Len(q) = 0
  OBVIOUS

(* A step that moves nothing in sink s. *)
Quiet(s) ==
  /\ queue'[s] = queue[s] /\ batch'[s] = batch[s] /\ pos'[s] = pos[s]
  /\ delivered'[s] = delivered[s] /\ failed'[s] = failed[s] /\ discarded'[s] = discarded[s]
  /\ \A r \in Result : Coming(s, r)' => Coming(s, r)

LEMMA QuietStep ==
  ASSUME NEW s \in Sink, Single(s), Quiet(s)
  PROVE  Single(s)'
  BY DEF Single, Quiet, NoOutcome

LEMMA OnceInit == Init => Once
<1> SUFFICES ASSUME Init PROVE Once
  OBVIOUS
<1>1. ASSUME NEW s \in Sink PROVE Single(s)
  BY Empty DEF Init, Single, NoOutcome
<1> QED
  BY <1>1, ConstantsAssumption DEF Init, Once

LEMMA OnceStep == TInv /\ TInv' /\ Once /\ [Next]_vars => Once'
<1> SUFFICES ASSUME TInv, TInv', Once, [Next]_vars, crashes' = 0
             PROVE  dispatching' \notin fresh' /\ \A s \in Sink : Single(s)'
  BY DEF Once
<1>c. ~Crash => crashes' = crashes
  <2>1. ASSUME NEW s \in Sink, Enqueue(s) \/ DiscardFull(s) \/ WorkerStep(s)
        PROVE  crashes' = crashes
    BY <2>1 DEF WorkerStep, Enqueue, DiscardFull, Receive, Fill, StartBatch, AttemptOk,
                AttemptRetry, AttemptFail, Park, FinishBatch, WorkerExit, lifeVars
  <2>2. ASSUME NEW r \in Result, BeginDispatch(r) \/ AckToken(r) PROVE crashes' = crashes
    BY <2>2 DEF BeginDispatch, AckToken, lifeVars
  <2>3. CASE EndDispatch \/ TailStep \/ Shutdown \/ UNCHANGED vars
    BY <2>3 DEF EndDispatch, TailStep, Bridge, WriteDlq, BridgeExit, WriterExit, AckExit,
                Shutdown, vars, lifeVars
  <2> QED
    BY <2>1, <2>2, <2>3 DEF Next, DispatchStep, Terminated
<1>i. crashes = 0 /\ ~Crash
  <2>1. ~Crash
    BY DEF Crash, TInv, TypeOK
  <2> QED
    BY <1>c, <2>1
<1>h. dispatching \notin fresh /\ \A s \in Sink : Single(s)
  BY <1>i DEF Once
<1>t. /\ dispatching \in Result \cup {NoResult} /\ NoResult \notin Result
      /\ cursor \in Nat /\ fresh \subseteq Result
      /\ \A s \in Sink : s \in Nat /\ s >= 1
      /\ \A s \in Sink : queue[s] \in Seq(Result) /\ batch[s] \in Seq(Result)
      /\ \A s \in Sink : pos[s] \in Nat /\ pos[s] >= 1
      /\ queue \in [Sink -> Seq(Result)] /\ batch \in [Sink -> Seq(Result)]
      /\ pos \in [Sink -> Nat \ {0}]
      /\ delivered \in [Sink -> SUBSET Result] /\ discarded \in [Sink -> SUBSET Result]
      /\ failed \in [Sink -> SUBSET Result]
  <2>1. \A s \in Sink : s \in Nat /\ s >= 1
    BY ConstantsAssumption DEF Sink
  <2>2. cursor \in Nat
    BY ConstantsAssumption DEF TInv, TypeOK
  <2>3. /\ queue \in [Sink -> Seq(Result)] /\ batch \in [Sink -> Seq(Result)]
        /\ pos \in [Sink -> Nat \ {0}]
    BY DEF TInv, TypeOK
  <2>4. /\ \A s \in Sink : queue[s] \in Seq(Result) /\ batch[s] \in Seq(Result)
        /\ \A s \in Sink : pos[s] \in Nat \ {0}
    BY <2>3
  <2>5. \A s \in Sink : pos[s] \in Nat /\ pos[s] >= 1
    BY <2>4
  <2>6. /\ delivered \in [Sink -> SUBSET Result] /\ discarded \in [Sink -> SUBSET Result]
        /\ failed \in [Sink -> SUBSET Result] /\ fresh \subseteq Result
        /\ dispatching \in Result \cup {NoResult}
    BY DEF TInv, TypeOK
  <2> QED
    BY <2>1, <2>2, <2>3, <2>4, <2>5, <2>6, ConstantsAssumption
<1>e. \A s \in Sink :
        /\ Len(queue[s]) \in Nat /\ Len(batch[s]) \in Nat
        /\ \A i \in 1..Len(queue[s]) : queue[s][i] \in Result
        /\ \A i \in 1..Len(batch[s]) : batch[s][i] \in Result
  BY <1>t, Entries
<1>1. ASSUME NEW r \in Result, BeginDispatch(r)
      PROVE  dispatching' \notin fresh' /\ \A s \in Sink : Single(s)'
  <2>1. /\ r \in fresh /\ fresh' = fresh \ {r} /\ dispatching' = r
        /\ UNCHANGED <<queue, batch, pos, delivered, failed, discarded>>
    BY <1>1 DEF BeginDispatch, workerVars, outcomeVars
  <2>2. \A s \in Sink : Quiet(s)
    BY <2>1 DEF Quiet, Coming
  <2> QED
    BY <1>h, <2>1, <2>2, QuietStep
<1>2. ASSUME NEW s \in Sink, Enqueue(s)
      PROVE  dispatching' \notin fresh' /\ \A q \in Sink : Single(q)'
  <2>1. /\ dispatching \in Result /\ cursor = s /\ cursor' = s + 1
        /\ queue'[s] = Append(queue[s], dispatching)
        /\ \A q \in Sink : q # s => queue'[q] = queue[q]
        /\ UNCHANGED <<fresh, dispatching, batch, pos, delivered, failed, discarded>>
    BY <1>2, <1>t DEF Enqueue, outcomeVars
  <2>2. \A q \in Sink : q # s => Quiet(q)
    BY <1>t, <2>1 DEF Quiet, Coming
  <2>3. /\ Len(queue'[s]) = Len(queue[s]) + 1 /\ Len(queue[s]) \in Nat
        /\ \A i \in 1..Len(queue[s]) : queue'[s][i] = queue[s][i]
        /\ queue'[s][Len(queue[s]) + 1] = dispatching
    BY <1>t, <2>1, Entries
  <2>4. Coming(s, dispatching) /\ \A r \in Result : Coming(s, r)' => Coming(s, r) /\ r # dispatching
    BY <1>h, <1>t, <2>1 DEF Coming
  <2>5. Single(s)'
    <3>1. Single(s)
      BY <1>h
    <3>2. \A r \in Result : NoOutcome(s, r)' <=> NoOutcome(s, r)
      BY <2>1 DEF NoOutcome
    <3>3. \A i \in 1..Len(queue'[s]) :
            \/ i \in 1..Len(queue[s]) /\ queue'[s][i] = queue[s][i]
            \/ i = Len(queue[s]) + 1 /\ queue'[s][i] = dispatching
      BY <2>3
    <3>4. /\ NoOutcome(s, dispatching)
          /\ \A i \in 1..Len(queue[s]) : queue[s][i] # dispatching
          /\ \A i \in 1..Len(batch[s]) : batch[s][i] # dispatching
      BY <2>1, <2>4, <3>1 DEF Single
    <3>5. \A i, j \in 1..Len(queue'[s]) : queue'[s][i] = queue'[s][j] => i = j
      BY <3>1, <3>3, <3>4 DEF Single
    <3>6. \A i \in 1..Len(queue'[s]) : NoOutcome(s, queue[s][i])' /\
            \A j \in 1..Len(batch'[s]) : queue'[s][i] # batch'[s][j]
      BY <1>t, <2>1, <3>1, <3>2, <3>3, <3>4, <1>e DEF Single
    <3>7. \A r \in Result : Coming(s, r)' =>
            /\ NoOutcome(s, r)'
            /\ \A i \in 1..Len(queue'[s]) : queue'[s][i] # r
            /\ \A i \in 1..Len(batch'[s]) : batch'[s][i] # r
      BY <2>1, <2>4, <3>1, <3>2, <3>3 DEF Single
    <3>8. \A i \in 1..Len(batch'[s]) : i >= pos'[s] => NoOutcome(s, batch[s][i])'
      BY <1>e, <2>1, <3>1, <3>2 DEF Single, NoOutcome
    <3> QED
      BY <2>1, <3>1, <3>5, <3>6, <3>7, <3>8 DEF Single
  <2> QED
    BY <1>h, <2>1, <2>2, <2>5, QuietStep
<1>3. ASSUME NEW s \in Sink, DiscardFull(s)
      PROVE  dispatching' \notin fresh' /\ \A q \in Sink : Single(q)'
  <2>1. /\ dispatching \in Result /\ cursor = s /\ cursor' = s + 1
        /\ discarded'[s] = discarded[s] \cup {dispatching}
        /\ \A q \in Sink : q # s => discarded'[q] = discarded[q]
        /\ UNCHANGED <<fresh, dispatching, queue, batch, pos, delivered, failed>>
    BY <1>3, <1>t DEF DiscardFull, workerVars
  <2>2. \A q \in Sink : q # s => Quiet(q)
    BY <1>t, <2>1 DEF Quiet, Coming
  <2>4. Coming(s, dispatching) /\ \A r \in Result : Coming(s, r)' => Coming(s, r) /\ r # dispatching
    BY <1>h, <1>t, <2>1 DEF Coming
  <2>5. Single(s)'
    <3>1. Single(s)
      BY <1>h
    <3>2. \A r \in Result : NoOutcome(s, r) /\ r # dispatching => NoOutcome(s, r)'
      BY <2>1 DEF NoOutcome
    <3>4. /\ NoOutcome(s, dispatching)
          /\ \A i \in 1..Len(queue[s]) : queue[s][i] # dispatching
          /\ \A i \in 1..Len(batch[s]) : batch[s][i] # dispatching
      BY <2>1, <2>4, <3>1 DEF Single
    <3>5. \A i \in 1..Len(queue[s]) : NoOutcome(s, queue[s][i])'
      BY <1>e, <2>1, <3>1, <3>2, <3>4 DEF Single, NoOutcome
    <3>6. \A i \in 1..Len(batch[s]) : i >= pos[s] => NoOutcome(s, batch[s][i])'
      BY <1>e, <2>1, <3>1, <3>2, <3>4 DEF Single, NoOutcome
    <3>7. \A r \in Result : Coming(s, r)' =>
            /\ NoOutcome(s, r)'
            /\ \A i \in 1..Len(queue[s]) : queue[s][i] # r
            /\ \A i \in 1..Len(batch[s]) : batch[s][i] # r
      BY <2>4, <3>1, <3>2 DEF Single
    <3>8. discarded'[s] \cap (delivered[s] \cup failed[s]) = {}
      BY <2>1, <3>1, <3>4 DEF Single, NoOutcome
    <3> QED
      BY <2>1, <3>1, <3>5, <3>6, <3>7, <3>8 DEF Single
  <2> QED
    BY <1>h, <2>1, <2>2, <2>5, QuietStep
<1>4. CASE EndDispatch
  <2>1. /\ dispatching' = NoResult /\ fresh' = fresh
        /\ UNCHANGED <<queue, batch, pos, delivered, failed, discarded>>
    BY <1>4 DEF EndDispatch, workerVars, outcomeVars
  <2>2. \A s \in Sink : Quiet(s)
    BY <1>t, <2>1 DEF Quiet, Coming
  <2> QED
    BY <1>h, <1>t, <2>1, <2>2, QuietStep
<1>5. ASSUME NEW s \in Sink, Receive(s) \/ Fill(s)
      PROVE  dispatching' \notin fresh' /\ \A q \in Sink : Single(q)'
  <2>1. /\ queue[s] # <<>> /\ queue'[s] = Tail(queue[s])
        /\ batch'[s] = <<Head(queue[s])>> \/ batch'[s] = Append(batch[s], Head(queue[s]))
        /\ \A q \in Sink : q # s => queue'[q] = queue[q] /\ batch'[q] = batch[q]
        /\ UNCHANGED <<fresh, dispatching, cursor, pos, delivered, failed, discarded>>
    BY <1>5, <1>t DEF Receive, Fill, dispatchVars, outcomeVars
  <2>2. \A q \in Sink : q # s => Quiet(q)
    BY <1>t, <2>1 DEF Quiet, Coming
  <2>3. \A r \in Result : /\ Coming(s, r)' <=> Coming(s, r)
                          /\ NoOutcome(s, r)' <=> NoOutcome(s, r)
    BY <2>1 DEF Coming, NoOutcome
  <2>4. /\ Head(queue[s]) = queue[s][1] /\ Len(queue[s]) \in Nat /\ Len(queue[s]) >= 1
        /\ Len(batch[s]) \in Nat
        /\ Len(queue'[s]) = Len(queue[s]) - 1
        /\ \A i \in 1..Len(queue'[s]) : queue'[s][i] = queue[s][i + 1]
    BY <1>t, <2>1, Entries
  <2>5. \A i \in 1..Len(queue[s]) : queue[s][i] \in Result
    BY <1>t, Entries
  <2>6. \A i \in 1..Len(batch'[s]) :
          \/ batch'[s][i] = queue[s][1] /\ i = Len(batch'[s])
          \/ i \in 1..Len(batch[s]) /\ batch'[s][i] = batch[s][i]
    <3>1. queue[s][1] \in Result
      BY <2>4, <2>5
    <3>2. CASE batch'[s] = <<Head(queue[s])>>
      BY <2>4, <3>1, <3>2
    <3>3. CASE batch'[s] = Append(batch[s], Head(queue[s]))
      BY <1>t, <2>4, <3>1, <3>3, Entries
    <3> QED
      BY <2>1, <3>2, <3>3
  <2>7. Single(s)'
    <3>1. Single(s)
      BY <1>h
    <3>2. \A i \in 1..Len(batch[s]) : batch[s][i] \in Result /\ batch[s][i] # queue[s][1]
      BY <1>e, <2>4, <3>1 DEF Single
    <3>3. /\ queue[s][1] \in Result /\ NoOutcome(s, queue[s][1])
          /\ \A i \in 1..Len(queue'[s]) :
               /\ queue'[s][i] \in Result /\ queue'[s][i] # queue[s][1]
               /\ NoOutcome(s, queue'[s][i])
               /\ i + 1 \in 1..Len(queue[s]) /\ queue'[s][i] = queue[s][i + 1]
      BY <2>4, <2>5, <3>1 DEF Single
    <3>4. \A r \in Result : Coming(s, r)' =>
            /\ NoOutcome(s, r)'
            /\ \A i \in 1..Len(queue'[s]) : queue'[s][i] # r
            /\ \A i \in 1..Len(batch'[s]) : batch'[s][i] # r
      <4> SUFFICES ASSUME NEW r \in Result, Coming(s, r)
                   PROVE  /\ NoOutcome(s, r)'
                          /\ \A i \in 1..Len(queue'[s]) : queue'[s][i] # r
                          /\ \A i \in 1..Len(batch'[s]) : batch'[s][i] # r
        BY <2>3
      <4>1. /\ NoOutcome(s, r)
            /\ \A i \in 1..Len(queue[s]) : queue[s][i] # r
            /\ \A i \in 1..Len(batch[s]) : batch[s][i] # r
        BY <3>1 DEF Single
      <4>2. queue[s][1] # r
        BY <2>4, <4>1
      <4>3. NoOutcome(s, r)'
        BY <2>3, <4>1
      <4>4. \A i \in 1..Len(queue'[s]) : queue'[s][i] # r
        BY <3>3, <4>1
      <4>5. \A i \in 1..Len(batch'[s]) : batch'[s][i] # r
        BY <2>6, <4>1, <4>2
      <4> QED
        BY <4>3, <4>4, <4>5
    <3>5. \A i, j \in 1..Len(queue'[s]) : queue'[s][i] = queue'[s][j] => i = j
      BY <2>4, <3>1, <3>3 DEF Single
    <3>6. \A i, j \in 1..Len(batch'[s]) : batch'[s][i] = batch'[s][j] => i = j
      BY <2>6, <3>1, <3>2 DEF Single
    <3>7. \A i \in 1..Len(queue'[s]), j \in 1..Len(batch'[s]) : queue'[s][i] # batch'[s][j]
      BY <2>6, <3>1, <3>3 DEF Single
    <3>8. \A i \in 1..Len(queue'[s]) : NoOutcome(s, queue[s][i])'
      BY <2>3, <3>3
    <3>9. \A i \in 1..Len(batch'[s]) : i >= pos'[s] => NoOutcome(s, batch[s][i])'
      BY <2>1, <2>3, <2>6, <3>1, <3>2, <3>3 DEF Single
    <3> QED
      BY <2>1, <3>1, <3>4, <3>5, <3>6, <3>7, <3>8, <3>9 DEF Single
  <2> QED
    BY <1>h, <2>1, <2>2, <2>7, QuietStep
<1>6. ASSUME NEW s \in Sink, AttemptOk(s) \/ Park(s)
      PROVE  dispatching' \notin fresh' /\ \A q \in Sink : Single(q)'
  <2>1. /\ pos[s] \in 1..Len(batch[s]) /\ pos'[s] = pos[s] + 1
        /\ \/ delivered'[s] = delivered[s] \cup {batch[s][pos[s]]} /\ failed'[s] = failed[s]
           \/ failed'[s] = failed[s] \cup {batch[s][pos[s]]} /\ delivered'[s] = delivered[s]
        /\ \A q \in Sink : q # s => /\ pos'[q] = pos[q] /\ delivered'[q] = delivered[q]
                                    /\ failed'[q] = failed[q]
        /\ UNCHANGED <<fresh, dispatching, cursor, queue, batch, discarded>>
    BY <1>6, <1>t DEF AttemptOk, Park, Attempting, Current, TInv, WorkerPos, dispatchVars
  <2>2. \A q \in Sink : q # s => Quiet(q)
    BY <1>t, <2>1 DEF Quiet, Coming
  <2> DEFINE c == batch[s][pos[s]]
  <2>3. c \in Result
    BY <1>t, <2>1, Entries
  <2>4. \A r \in Result : /\ Coming(s, r)' <=> Coming(s, r)
                          /\ NoOutcome(s, r) /\ r # c => NoOutcome(s, r)'
    BY <2>1 DEF Coming, NoOutcome
  <2>5. Single(s)'
    <3>1. Single(s)
      BY <1>h
    <3>2. /\ NoOutcome(s, c)
          /\ \A i \in 1..Len(queue[s]) : queue[s][i] # c
          /\ \A i \in 1..Len(batch[s]) : batch[s][i] = c => i = pos[s]
          /\ \A r \in Result : Coming(s, r) => r # c
      BY <2>1, <3>1 DEF Single
    <3>3. \A i \in 1..Len(queue[s]) : NoOutcome(s, queue[s][i])'
      BY <1>e, <2>1, <2>4, <3>1, <3>2 DEF Single, NoOutcome
    <3>4. \A i \in 1..Len(batch[s]) : i >= pos'[s] => NoOutcome(s, batch[s][i])'
      <4> SUFFICES ASSUME NEW i \in 1..Len(batch[s]), i >= pos[s] + 1
                   PROVE  NoOutcome(s, batch[s][i])'
        BY <2>1
      <4>1. /\ batch[s][i] # c /\ batch[s][i] \in Result
            /\ NoOutcome(s, batch[s][i])
        <5>1. i >= pos[s] /\ i # pos[s]
          BY <1>t
        <5>2. NoOutcome(s, batch[s][i])
          BY <3>1, <5>1 DEF Single
        <5>3. batch[s][i] # c
          BY <3>2, <5>1
        <5> QED
          BY <1>e, <5>2, <5>3
      <4> QED
        BY <2>1, <2>4, <4>1 DEF NoOutcome
    <3>5. \A r \in Result : Coming(s, r)' =>
            /\ NoOutcome(s, r)'
            /\ \A i \in 1..Len(queue[s]) : queue[s][i] # r
            /\ \A i \in 1..Len(batch[s]) : batch[s][i] # r
      BY <2>4, <3>1, <3>2 DEF Single
    <3>6. delivered'[s] \cap failed'[s] = {} /\ discarded[s] \cap (delivered'[s] \cup failed'[s]) = {}
      BY <2>1, <3>1, <3>2 DEF Single, NoOutcome
    <3> QED
      BY <2>1, <3>1, <3>3, <3>4, <3>5, <3>6 DEF Single
  <2> QED
    BY <1>h, <2>1, <2>2, <2>5, QuietStep
<1>7. ASSUME NEW s \in Sink, FinishBatch(s)
      PROVE  dispatching' \notin fresh' /\ \A q \in Sink : Single(q)'
  <2>1. /\ batch'[s] = <<>>
        /\ \A q \in Sink : q # s => batch'[q] = batch[q] /\ pos'[q] = pos[q]
        /\ UNCHANGED <<fresh, dispatching, cursor, queue, delivered, failed, discarded>>
    BY <1>7, <1>t DEF FinishBatch, dispatchVars, outcomeVars
  <2>2. \A q \in Sink : q # s => Quiet(q)
    BY <1>t, <2>1 DEF Quiet, Coming
  <2>3. Single(s)'
    BY <1>h, <2>1, Empty DEF Single, NoOutcome, Coming
  <2> QED
    BY <1>h, <2>1, <2>2, <2>3, QuietStep
<1>8. ASSUME NEW s \in Sink, StartBatch(s)
      PROVE  dispatching' \notin fresh' /\ \A q \in Sink : Single(q)'
  <2>1. /\ pos'[s] = 1 /\ pos[s] = 1
        /\ \A q \in Sink : q # s => pos'[q] = pos[q]
        /\ UNCHANGED <<fresh, dispatching, cursor, queue, batch, delivered, failed, discarded>>
    BY <1>8, <1>t DEF StartBatch, dispatchVars, outcomeVars, TInv, WorkerPos
  <2>2. \A q \in Sink : Quiet(q)
    BY <1>t, <2>1 DEF Quiet, Coming
  <2> QED
    BY <1>h, <2>1, <2>2, QuietStep
<1>9. ASSUME UNCHANGED <<fresh, dispatching, cursor, queue, batch, pos, delivered, failed,
                         discarded>>
      PROVE  dispatching' \notin fresh' /\ \A q \in Sink : Single(q)'
  <2>1. \A q \in Sink : Quiet(q)
    BY <1>9 DEF Quiet, Coming
  <2> QED
    BY <1>h, <1>9, <2>1, QuietStep
<1>10. ASSUME NEW s \in Sink,
              \/ AttemptRetry(s) \/ WorkerExit(s)
              \/ \E permanent \in BOOLEAN : AttemptFail(s, permanent)
       PROVE  UNCHANGED <<fresh, dispatching, cursor, queue, batch, pos, delivered, failed,
                          discarded>>
  BY <1>10 DEF AttemptRetry, AttemptFail, WorkerExit, dispatchVars, outcomeVars
<1>11. CASE \/ \E r \in Result : AckToken(r)
            \/ TailStep \/ Shutdown \/ UNCHANGED vars
  BY <1>9, <1>11 DEF AckToken, TailStep, Bridge, WriteDlq, BridgeExit, WriterExit, AckExit,
                     Shutdown, vars, dispatchVars, workerVars, outcomeVars
<1> QED
  BY <1>i, <1>1, <1>2, <1>3, <1>4, <1>5, <1>6, <1>7, <1>8, <1>9, <1>10, <1>11
     DEF Next, DispatchStep, WorkerStep, Terminated

(* Until a restart a sink gives each result one outcome, for any number of  *)
(* sinks and results, whatever the queue does when it is full and however   *)
(* often an attempt is repeated.                                            *)
THEOREM OutcomesExclude == Spec => []OneOutcome
<1>1. Once => OneOutcome
  BY DEF Once, OneOutcome, Single
<1> QED
  BY <1>1, OnceInit, OnceStep, Invariant, PTL DEF Spec

-----------------------------------------------------------------------------
(* Orderly shutdown. *)

(* Whoever holds a clone of a guard still has the result in hand. *)
InHand(h, r) ==
  \/ h = Dispatcher /\ dispatching = r
  \/ h \in Sink /\ \/ \E i \in 1..Len(queue[h]) : queue[h][i] = r
                   \/ \E i \in 1..Len(batch[h]) : batch[h][i] = r

Held == \A r \in Result : \A h \in guard[r] : InHand(h, r)

(* What is neither upstream nor held has sent its tokens. *)
Accounted ==
  crashes = 0 => \A r \in Result \ (Synthetic \cup fresh) :
                   r \in acked \/ r \in ackq \/ guard[r] # {}

(* Each task that has exited left its channel empty, and the one before it  *)
(* has exited too.                                                          *)
Exits ==
  /\ \A s \in Sink : phase[s] \in {"idle", "exited"} => batch[s] = <<>>
  /\ \A s \in Sink : phase[s] = "exited" => closed /\ queue[s] = <<>>
  /\ closed => dispatching = NoResult
  /\ tail # "running" => AllExited /\ dfq = <<>>
  /\ tail \in {"written", "finished"} => dlqq = <<>>
  /\ tail = "finished" => ackq = {}

LEMMA ExitsStep == TInv /\ Exits /\ [Next]_vars => Exits'
<1> SUFFICES ASSUME TInv, Exits, [Next]_vars PROVE Exits'
  OBVIOUS
<1>t. /\ phase \in [Sink -> {"idle", "fill", "deliver", "park", "exited"}]
      /\ batch \in [Sink -> Seq(Result)] /\ queue \in [Sink -> Seq(Result)]
      /\ dispatching \in Result \cup {NoResult} /\ NoResult \notin Result
  BY ConstantsAssumption DEF TInv, TypeOK
<1>1. ASSUME NEW r \in Result, BeginDispatch(r) \/ AckToken(r) PROVE Exits'
  BY <1>1 DEF BeginDispatch, AckToken, Exits, AllExited, workerVars, dlqVars, lifeVars,
              dispatchVars
<1>2. ASSUME NEW s \in Sink, Enqueue(s) \/ DiscardFull(s) PROVE Exits'
  <2>1. /\ ~closed /\ UNCHANGED <<dispatching, batch, phase, dfq, dlqq, closed, tail, ackq>>
        /\ \A q \in Sink : phase[q] # "exited"
    BY <1>2, <1>t DEF Enqueue, DiscardFull, Exits, dlqVars, lifeVars, workerVars, ackVars
  <2> QED
    BY <2>1 DEF Exits, AllExited
<1>3. CASE EndDispatch
  <2>1. /\ ~closed /\ dispatching' = NoResult
        /\ UNCHANGED <<queue, batch, phase, dfq, dlqq, closed, tail>>
    BY <1>3, <1>t DEF EndDispatch, Exits, dlqVars, lifeVars, workerVars
  <2> QED
    BY <2>1 DEF Exits, AllExited
<1>4. ASSUME NEW s \in Sink,
             \/ Receive(s) \/ Fill(s) \/ StartBatch(s) \/ AttemptOk(s) \/ AttemptRetry(s)
             \/ \E permanent \in BOOLEAN : AttemptFail(s, permanent)
             \/ Park(s) \/ FinishBatch(s)
      PROVE  Exits'
  <2>1. /\ phase[s] # "exited" /\ phase'[s] # "exited"
        /\ phase'[s] = "idle" => batch'[s] = <<>> 
        /\ \A q \in Sink : q # s => /\ phase'[q] = phase[q] /\ queue'[q] = queue[q]
                                    /\ batch'[q] = batch[q]
    BY <1>4, <1>t DEF Receive, Fill, StartBatch, AttemptOk, AttemptRetry, AttemptFail, Park,
                      FinishBatch, Attempting
  <2>2. UNCHANGED <<dispatching, dlqq, closed, tail>>
    BY <1>4 DEF Receive, Fill, StartBatch, AttemptOk, AttemptRetry, AttemptFail, Park,
                FinishBatch, dispatchVars, dlqVars, lifeVars
  <2>3. tail = "running"
    BY <2>1 DEF Exits, AllExited
  <2> QED
    BY <2>1, <2>2, <2>3 DEF Exits
<1>5. ASSUME NEW s \in Sink, WorkerExit(s) PROVE Exits'
  <2>1. /\ closed /\ phase[s] = "idle" /\ queue[s] = <<>> /\ phase'[s] = "exited"
        /\ \A q \in Sink : q # s => phase'[q] = phase[q]
        /\ UNCHANGED <<queue, batch, dispatching, dfq, dlqq, closed, tail, ackq>>
    BY <1>5, <1>t DEF WorkerExit, dispatchVars, dlqVars, lifeVars, ackVars
  <2> QED
    BY <2>1 DEF Exits, AllExited
<1>6. CASE Bridge
  BY <1>6 DEF Bridge, Exits, AllExited, workerVars, dispatchVars, lifeVars, ackVars
<1>7. CASE WriteDlq
  <2>1. dlqq # <<>> /\ UNCHANGED <<dfq, tail, closed, phase, queue, batch, dispatching, ackq>>
    BY <1>7 DEF WriteDlq, workerVars, dispatchVars, lifeVars, ackVars
  <2> QED
    BY <2>1 DEF Exits, AllExited
<1>8. CASE BridgeExit \/ WriterExit \/ AckExit
  <2>1. UNCHANGED <<phase, queue, batch, dispatching, closed, dfq, dlqq, ackq>>
    BY <1>8 DEF BridgeExit, WriterExit, AckExit, workerVars, dispatchVars, dlqVars, ackVars
  <2> QED
    BY <1>8, <2>1 DEF BridgeExit, WriterExit, AckExit, Exits, AllExited
<1>9. CASE Shutdown
  BY <1>9 DEF Shutdown, Exits, AllExited, workerVars, dispatchVars, dlqVars, ackVars
<1>10. CASE Crash
  BY <1>10 DEF Crash, Exits
<1>11. CASE UNCHANGED vars
  BY <1>11 DEF vars, dispatchVars, workerVars, ackVars, dlqVars, lifeVars, Exits, AllExited
<1> QED
  BY <1>1, <1>2, <1>3, <1>4, <1>5, <1>6, <1>7, <1>8, <1>9, <1>10, <1>11
     DEF Next, DispatchStep, WorkerStep, TailStep, Terminated

(* Dropping h's clones. *)
LEMMA DropAccounted ==
  ASSUME TypeOK, Accounted, NEW R \in SUBSET Result, NEW h, DropGuards(R, h),
         UNCHANGED <<crashes, fresh>>
  PROVE  Accounted'
  BY DEF TypeOK, Accounted, DropGuards

LEMMA AccountedStep == TInv /\ Accounted /\ [Next]_vars => Accounted'
<1> SUFFICES ASSUME TInv, Accounted, [Next]_vars PROVE Accounted'
  OBVIOUS
<1>t. TypeOK /\ guard \in [Result -> SUBSET Holder]
  BY DEF TInv, TypeOK
<1>1. ASSUME NEW r \in Result, BeginDispatch(r) PROVE Accounted'
  BY <1>1, <1>t DEF BeginDispatch, Accounted, lifeVars
<1>2. ASSUME NEW s \in Sink, Enqueue(s) PROVE Accounted'
  <2>1. /\ \A r \in Result : guard[r] \subseteq guard'[r]
        /\ UNCHANGED <<crashes, fresh, ackq, acked>>
    BY <1>2, <1>t DEF Enqueue, lifeVars
  <2> QED
    BY <2>1 DEF Accounted
<1>3. CASE EndDispatch
  <2>1. dispatching \in Result
    BY <1>3, <1>t DEF EndDispatch, TypeOK
  <2> QED
    BY <1>3, <1>t, <2>1, DropAccounted DEF EndDispatch, lifeVars
<1>4. ASSUME NEW s \in Sink, FinishBatch(s) PROVE Accounted'
  <2> DEFINE R == {batch[s][i] : i \in 1..Len(batch[s])}
  <2>1. R \in SUBSET Result
    BY <1>t DEF TypeOK
  <2> HIDE DEF R
  <2>2. DropGuards(R, s) /\ UNCHANGED <<crashes, fresh>>
    BY <1>4 DEF FinishBatch, R, lifeVars, dispatchVars
  <2> QED
    BY <1>t, <2>1, <2>2, DropAccounted
<1>5. ASSUME NEW r \in Result, AckToken(r) PROVE Accounted'
  BY <1>5 DEF AckToken, Accounted, lifeVars, dispatchVars
<1>6. CASE Crash
  BY <1>6, <1>t DEF Crash, Accounted, TypeOK
<1>7. ASSUME UNCHANGED <<crashes, fresh, guard, ackq, acked>> PROVE Accounted'
  BY <1>7 DEF Accounted
<1>8. ASSUME NEW s \in Sink,
             \/ Receive(s) \/ Fill(s) \/ StartBatch(s) \/ AttemptOk(s) \/ AttemptRetry(s)
             \/ \E permanent \in BOOLEAN : AttemptFail(s, permanent)
             \/ Park(s) \/ WorkerExit(s) \/ DiscardFull(s)
      PROVE  UNCHANGED <<crashes, fresh, guard, ackq, acked>>
  BY <1>8 DEF Receive, Fill, StartBatch, AttemptOk, AttemptRetry, AttemptFail, Park,
              WorkerExit, DiscardFull, lifeVars, dispatchVars, ackVars
<1>9. CASE TailStep \/ Shutdown \/ UNCHANGED vars
  BY <1>7, <1>9 DEF TailStep, Bridge, WriteDlq, BridgeExit, WriterExit, AckExit, Shutdown,
                    vars, lifeVars, dispatchVars, ackVars
<1> QED
  BY <1>1, <1>2, <1>3, <1>4, <1>5, <1>6, <1>7, <1>8, <1>9
     DEF Next, DispatchStep, WorkerStep, Terminated

LEMMA HeldStep == TInv /\ Exits /\ Held /\ [Next]_vars => Held'
<1> SUFFICES ASSUME TInv, Exits, Held, [Next]_vars PROVE Held'
  OBVIOUS
<1>t. /\ guard \in [Result -> SUBSET Holder]
      /\ dispatching \in Result \cup {NoResult} /\ NoResult \notin Result
      /\ Dispatcher \notin Sink
      /\ batch \in [Sink -> Seq(Result)] /\ queue \in [Sink -> Seq(Result)]
  BY ConstantsAssumption DEF TInv, TypeOK, Sink, Dispatcher
<1>e. \A s \in Sink :
        /\ Len(queue[s]) \in Nat /\ Len(batch[s]) \in Nat
        /\ \A i \in 1..Len(queue[s]) : queue[s][i] \in Result
        /\ \A i \in 1..Len(batch[s]) : batch[s][i] \in Result
  BY <1>t, Entries
<1>k. ASSUME UNCHANGED <<guard, dispatching, queue, batch>> PROVE Held'
  BY <1>k DEF Held, InHand
<1>1. ASSUME NEW r \in Result, BeginDispatch(r) PROVE Held'
  <2>1. /\ dispatching = NoResult /\ dispatching' = r /\ UNCHANGED <<queue, batch>>
        /\ guard'[r] = {Dispatcher} /\ \A q \in Result : q # r => guard'[q] = guard[q]
    BY <1>1, <1>t DEF BeginDispatch, workerVars
  <2>2. ASSUME NEW q \in Result, NEW h \in guard'[q] PROVE InHand(h, q)'
    <3>1. CASE q = r
      BY <2>1, <3>1 DEF InHand
    <3>2. CASE q # r
      <4>1. InHand(h, q) /\ dispatching # q
        BY <1>t, <2>1, <3>2 DEF Held
      <4> QED
        BY <2>1, <4>1 DEF InHand
    <3> QED
      BY <3>1, <3>2
  <2> QED
    BY <2>2 DEF Held
<1>2. ASSUME NEW s \in Sink, Enqueue(s) PROVE Held'
  <2>1. /\ dispatching \in Result /\ UNCHANGED <<dispatching, batch>>
        /\ queue'[s] = Append(queue[s], dispatching)
        /\ \A q \in Sink : q # s => queue'[q] = queue[q]
        /\ guard'[dispatching] = guard[dispatching] \cup {s}
        /\ \A q \in Result : q # dispatching => guard'[q] = guard[q]
    BY <1>2, <1>t DEF Enqueue
  <2>2. /\ Len(queue'[s]) = Len(queue[s]) + 1
        /\ \A i \in 1..Len(queue[s]) : queue'[s][i] = queue[s][i]
        /\ queue'[s][Len(queue[s]) + 1] = dispatching
    BY <1>t, <2>1, Entries
  <2>3. /\ \A i \in 1..Len(queue[s]) : i \in 1..Len(queue'[s])
        /\ Len(queue[s]) + 1 \in 1..Len(queue'[s])
    BY <1>e, <2>2
  <2>4. \A r \in Result, h \in Holder : InHand(h, r) => InHand(h, r)'
    BY <2>1, <2>2, <2>3 DEF InHand
  <2>5. InHand(s, dispatching)'
    BY <2>2, <2>3, <2>1 DEF InHand
  <2> QED
    BY <1>t, <2>1, <2>4, <2>5 DEF Held
<1>3. CASE EndDispatch
  <2>1. /\ guard'[dispatching] = guard[dispatching] \ {Dispatcher} /\ dispatching \in Result
        /\ \A q \in Result : q # dispatching => guard'[q] = guard[q]
        /\ UNCHANGED <<queue, batch>>
    BY <1>3, <1>t DEF EndDispatch, DropGuards, workerVars
  <2> QED
    BY <2>1 DEF Held, InHand
<1>4. ASSUME NEW s \in Sink, Receive(s) \/ Fill(s) PROVE Held'
  <2>1. /\ queue[s] # <<>> /\ queue'[s] = Tail(queue[s])
        /\ \/ batch[s] = <<>> /\ batch'[s] = <<Head(queue[s])>>
           \/ batch'[s] = Append(batch[s], Head(queue[s]))
        /\ \A q \in Sink : q # s => queue'[q] = queue[q] /\ batch'[q] = batch[q]
        /\ UNCHANGED <<dispatching, guard>>
    BY <1>4, <1>t DEF Receive, Fill, Exits, dispatchVars, ackVars
  <2>2. /\ Head(queue[s]) = queue[s][1] /\ Len(queue[s]) >= 1
        /\ Len(queue'[s]) = Len(queue[s]) - 1
        /\ \A i \in 1..Len(queue[s]) - 1 : queue'[s][i] = queue[s][i + 1]
    BY <1>t, <2>1, Entries
  <2>3. queue[s][1] \in Result
    BY <1>e, <2>2
  <2>4. /\ \A i \in 1..Len(batch[s]) : i \in 1..Len(batch'[s]) /\ batch'[s][i] = batch[s][i]
        /\ Len(batch'[s]) \in 1..Len(batch'[s]) /\ batch'[s][Len(batch'[s])] = queue[s][1]
    <3>1. CASE batch[s] = <<>> /\ batch'[s] = <<Head(queue[s])>>
      BY <1>t, <2>2, <2>3, <3>1, Entries, Empty
    <3>2. CASE batch'[s] = Append(batch[s], Head(queue[s]))
      BY <1>e, <1>t, <2>2, <2>3, <3>2, Entries
    <3> QED
      BY <2>1, <3>1, <3>2
  <2>5. ASSUME NEW i \in 1..Len(queue[s]), i # 1
        PROVE  i - 1 \in 1..Len(queue'[s]) /\ queue'[s][i - 1] = queue[s][i]
    <3>1. i - 1 \in 1..Len(queue[s]) - 1 /\ (i - 1) + 1 = i
      BY <1>e, <2>5
    <3> QED
      BY <2>2, <3>1
  <2>6. \A r \in Result, h \in Holder : InHand(h, r) => InHand(h, r)'
    <3>0. ASSUME NEW r \in Result, NEW h \in Holder, h # s, InHand(h, r) PROVE InHand(h, r)'
      BY <2>1, <3>0 DEF InHand
    <3> SUFFICES ASSUME NEW r \in Result, InHand(s, r) PROVE InHand(s, r)'
      BY <3>0
    <3>1. CASE \E i \in 1..Len(queue[s]) : queue[s][i] = r
      <4>1. PICK i \in 1..Len(queue[s]) : queue[s][i] = r
        BY <3>1
      <4>2. CASE i = 1
        BY <2>4, <4>1, <4>2 DEF InHand
      <4>3. CASE i # 1
        BY <2>5, <4>1, <4>3 DEF InHand
      <4> QED
        BY <4>2, <4>3
    <3>2. CASE \E i \in 1..Len(batch[s]) : batch[s][i] = r
      BY <2>4, <3>2 DEF InHand
    <3> QED
      BY <1>t, <3>1, <3>2 DEF InHand
  <2> QED
    BY <1>t, <2>1, <2>6 DEF Held
<1>5. ASSUME NEW s \in Sink, FinishBatch(s) PROVE Held'
  <2> DEFINE R == {batch[s][i] : i \in 1..Len(batch[s])}
  <2>1. /\ guard' = [r \in Result |-> IF r \in R THEN guard[r] \ {s} ELSE guard[r]]
        /\ \A q \in Sink : q # s => batch'[q] = batch[q]
        /\ UNCHANGED <<queue, dispatching>>
    BY <1>5, <1>t DEF FinishBatch, DropGuards, dispatchVars
  <2>2. ASSUME NEW r \in Result, NEW h \in guard'[r] PROVE InHand(h, r)'
    <3>1. h \in guard[r] /\ InHand(h, r) /\ (r \in R => h # s)
      BY <2>1, <2>2 DEF Held
    <3>2. CASE h = s
      <4>1. \E i \in 1..Len(queue[s]) : queue[s][i] = r
        BY <1>t, <3>1, <3>2 DEF InHand
      <4> QED
        BY <2>1, <3>2, <4>1 DEF InHand
    <3>3. CASE h # s
      BY <2>1, <3>1, <3>3 DEF InHand
    <3> QED
      BY <3>2, <3>3
  <2> QED
    BY <2>2 DEF Held
<1>6. ASSUME NEW s \in Sink,
             \/ StartBatch(s) \/ AttemptOk(s) \/ AttemptRetry(s)
             \/ \E permanent \in BOOLEAN : AttemptFail(s, permanent)
             \/ Park(s) \/ WorkerExit(s) \/ DiscardFull(s)
      PROVE  UNCHANGED <<guard, dispatching, queue, batch>>
  BY <1>6 DEF StartBatch, AttemptOk, AttemptRetry, AttemptFail, Park, WorkerExit,
              DiscardFull, dispatchVars, workerVars, ackVars
<1>7. CASE TailStep \/ Shutdown \/ (\E r \in Result : AckToken(r)) \/ UNCHANGED vars
  BY <1>k, <1>7 DEF TailStep, Bridge, WriteDlq, BridgeExit, WriterExit, AckExit, Shutdown,
                    AckToken, vars, dispatchVars, workerVars, ackVars
<1>8. CASE Crash
  BY <1>8 DEF Crash, Held
<1> QED
  BY <1>k, <1>1, <1>2, <1>3, <1>4, <1>5, <1>6, <1>7, <1>8
     DEF Next, DispatchStep, WorkerStep, Terminated

(* When the daemon has shut down nothing is left in a queue, a batch or a   *)
(* channel, and every result that was dispatched is acknowledged, for any   *)
(* number of sinks and results and in whatever order the tasks exit.        *)
THEOREM ShutdownClean == Spec => []CleanShutdown
<1>1. Init => Exits /\ Held /\ Accounted
  BY DEF Init, Exits, Held, Accounted
<1>2. TInv /\ Exits /\ Held /\ Accounted => CleanShutdown
  <2> SUFFICES ASSUME TInv, Exits, Held, Accounted, Finished PROVE CleanShutdown
    BY DEF CleanShutdown
  <2>1. AllExited /\ dfq = <<>> /\ dlqq = <<>> /\ ackq = {}
    BY DEF Exits, Finished
  <2>2. dispatching = NoResult /\ \A s \in Sink : queue[s] = <<>> /\ batch[s] = <<>>
    BY <2>1 DEF Exits, AllExited
  <2>3. \A r \in Result : guard[r] = {}
    <3> SUFFICES ASSUME NEW r \in Result, NEW h \in guard[r] PROVE FALSE
      OBVIOUS
    <3>1. InHand(h, r)
      BY DEF Held
    <3> QED
      BY <2>2, <3>1, ConstantsAssumption, Empty DEF InHand
  <2> QED
    BY <2>1, <2>2, <2>3 DEF CleanShutdown, Accounted
<1> QED
  BY <1>1, <1>2, TypeInit, TypeStep, ExitsStep, AccountedStep, HeldStep, PTL DEF Spec
=============================================================================
