-------------------------- MODULE EvaluationProofs --------------------------
(***************************************************************************)
(* Proofs about Evaluation, for any number of events, pool size, channel   *)
(* capacity, and number of reloads and panics.                             *)
(*                                                                         *)
(* Locked ties the batch that counts to the live engine, from which it     *)
(* follows that retired windows stand still.  For the order of the output, *)
(* batches cut the input into intervals (Cut), the reducer's channel and   *)
(* backlog hold only batches from `next` on (Reduced), so that what the    *)
(* dispatch task gets are consecutive intervals (InOrder).  For the order  *)
(* of counting, the live window is compared with how far the batch in hand *)
(* has come (Contiguous), which needs that there is one (Serial).          *)
(***************************************************************************)
EXTENDS Evaluation, FiniteSetTheorems, SequenceTheorems, TLAPS

Phase == {"none", "spawned", "shared", "waiting", "exclusive", "evaluated",
          "panicked", "forwarded", "lost"}

Rules == [kind : Kind, window : Seq(Event)]

-----------------------------------------------------------------------------
(* Type correctness. *)

(* What the queue operations do to a channel of S. *)
LEMMA Channel ==
  ASSUME NEW S, NEW q \in Seq(S)
  PROVE  /\ \A e \in S : /\ Append(q, e) \in Seq(S) /\ Len(Append(q, e)) = Len(q) + 1
                         /\ \A i \in 1..Len(q) : Append(q, e)[i] = q[i]
                         /\ Append(q, e)[Len(q) + 1] = e
         /\ q # <<>> => /\ Head(q) \in S /\ Head(q) = q[1]
                        /\ Tail(q) \in Seq(S) /\ Len(Tail(q)) = Len(q) - 1
                        /\ \A i \in 1..Len(q) - 1 : Tail(q)[i] = q[i + 1]
                        /\ Len(q) >= 1
         /\ Len(q) \in Nat /\ DOMAIN q = 1..Len(q)
         /\ \A i \in 1..Len(q) : q[i] \in S
         /\ Len(q) = 0 <=> q = <<>>
         /\ <<>> \in Seq(S) /\ Len(<<>>) = 0
  OBVIOUS

(* The first n of a channel, and the rest. *)
LEMMA Split ==
  ASSUME NEW S, NEW q \in Seq(S), NEW n \in 0..Len(q)
  PROVE  /\ SubSeq(q, 1, n) \in Seq(S) /\ Len(SubSeq(q, 1, n)) = n
         /\ \A i \in 1..n : SubSeq(q, 1, n)[i] = q[i]
         /\ SubSeq(q, n + 1, Len(q)) \in Seq(S) /\ Len(SubSeq(q, n + 1, Len(q))) = Len(q) - n
         /\ \A i \in 1..Len(q) - n : SubSeq(q, n + 1, Len(q))[i] = q[n + i]
<1>1. Len(q) \in Nat /\ \A i \in 1..Len(q) : q[i] \in S
  BY Channel
<1>2. /\ SubSeq(q, 1, n) \in Seq(S) /\ Len(SubSeq(q, 1, n)) = n
      /\ \A i \in 1..n : SubSeq(q, 1, n)[i] = q[i]
  BY <1>1, SubSeqProperties
<1>3. \A i \in n + 1..Len(q) : q[i] \in S
  BY <1>1
<1>4. /\ SubSeq(q, n + 1, Len(q)) \in Seq(S)
      /\ Len(SubSeq(q, n + 1, Len(q))) = IF n + 1 <= Len(q) THEN Len(q) - (n + 1) + 1 ELSE 0
      /\ \A i \in 1..Len(q) - (n + 1) + 1 : SubSeq(q, n + 1, Len(q))[i] = q[n + 1 + i - 1]
  BY <1>1, <1>3, SubSeqProperties
<1>5. Len(SubSeq(q, n + 1, Len(q))) = Len(q) - n
  BY <1>1, <1>4
<1> QED
  BY <1>1, <1>2, <1>4, <1>5

InputType ==
  /\ arrived \in 0..NEvents
  /\ input \in Seq(Event)
  /\ closed \in BOOLEAN
  /\ task \in {"pulling", "draining", "gone"}

(* Every batch has an event, so that there are no more batches than events. *)
BatchType ==
  /\ spawned \in 0..NEvents
  /\ spawned + Len(input) <= arrived
  /\ events \in [Batch -> Seq(Event)]
  /\ phase \in [Batch -> Phase]
  /\ bound \in [Batch -> Nat]

EngineType ==
  /\ order \in {0} \cup Batch
  /\ done \in Nat
  /\ engine \in Seq(Rules)
  /\ Live >= 1
  /\ staged \in Seq(Rules)

OrderType ==
  /\ seqq \in Seq(Batch)
  /\ pending \subseteq Batch
  /\ next \in 1..NEvents + 1
  /\ evalq \in Seq(Batch)
  /\ tail \in {"running", "reduced", "dispatched"}

OutType ==
  /\ current \in Seq(Event)
  /\ sinkq \in Seq(Event)
  /\ sunk \in Seq(Event)
  /\ acked \subseteq Event
  /\ parked \subseteq Malformed
  /\ panics \in Nat

Types == InputType /\ BatchType /\ EngineType /\ OrderType /\ OutType

LEMMA Bounds ==
  /\ NEvents \in Nat /\ BatchSize \in Nat \ {0} /\ Malformed \subseteq Event
  /\ \A b \in Batch : b \in 1..NEvents
  /\ \A e \in Event : e \in 1..NEvents
  BY ConstantsAssumption DEF Batch, Event

LEMMA TypeParts == Types => TypeOK
  BY DEF Types, InputType, BatchType, EngineType, OrderType, OutType, TypeOK, Phase, Rules

LEMMA TypeInit == Init => Types
<1> SUFFICES ASSUME Init PROVE Types
  OBVIOUS
<1>1. <<>> \in Seq(Event) /\ <<>> \in Seq(Batch) /\ <<>> \in Seq(Rules) /\ Len(<<>>) = 0
  OBVIOUS
<1>2. InputType
  <2>1. 0 \in 0..NEvents
    BY Bounds
  <2> QED
    BY <1>1, <2>1 DEF Init, InputType
<1>3. BatchType
  BY <1>1, Bounds DEF Init, BatchType, Phase
<1>4. EngineType
  <2>1. PICK k \in Kind : engine = <<[kind |-> k, window |-> <<>>]>>
    BY DEF Init
  <2>2. [kind |-> k, window |-> <<>>] \in Rules
    BY DEF Rules
  <2>3. engine \in Seq(Rules) /\ Live >= 1
    BY <2>1, <2>2 DEF Live
  <2> QED
    BY <1>1, <2>3 DEF Init, EngineType
<1>5. OrderType
  BY <1>1, Bounds DEF Init, OrderType
<1>6. OutType
  BY <1>1 DEF Init, OutType
<1> QED
  BY <1>2, <1>3, <1>4, <1>5, <1>6 DEF Types

(* What is taken from the event channel becomes the next batch. *)
LEMMA TakeEffect ==
  ASSUME Types, TakeBatch
  PROVE  \E n \in 1..Len(input) :
           /\ spawned' = spawned + 1 /\ spawned + 1 \in Batch
           /\ events' = [events EXCEPT ![spawned + 1] = SubSeq(input, 1, n)]
           /\ phase' = [phase EXCEPT ![spawned + 1] = "spawned"]
           /\ input' = SubSeq(input, n + 1, Len(input))
<1> DEFINE n == IF Len(input) < BatchSize THEN Len(input) ELSE BatchSize
<1>1. Len(input) \in Nat /\ Len(input) >= 1
  BY Channel DEF TakeBatch, Types, InputType
<1>2. n \in 1..Len(input)
  BY <1>1, Bounds
<1>3. spawned + 1 \in Batch
  BY <1>1, Bounds DEF Types, InputType, BatchType, Batch
<1> QED
  BY <1>2, <1>3 DEF TakeBatch

(* Counting changes the window of one engine by at most one event. *)
LEMMA CountEffect ==
  ASSUME Types, NEW b \in Batch, Count(b), bound[b] \in 1..Live
  PROVE  /\ done' = done + 1 /\ done + 1 <= Len(events[b])
         /\ events[b][done + 1] \in Event
         /\ engine' \in Seq(Rules) /\ Live' = Live
         /\ \A g \in 1..Live : engine'[g].kind = engine[g].kind
         /\ \A g \in 1..Live : g # bound[b] => engine'[g] = engine[g]
         /\ engine'[bound[b]].window =
              IF events[b][done + 1] \in Malformed THEN engine[bound[b]].window
              ELSE Append(engine[bound[b]].window, events[b][done + 1])
<1> DEFINE e == events[b][done + 1]
           g == bound[b]
<1>1. done \in Nat /\ events[b] \in Seq(Event) /\ engine \in Seq(Rules)
  BY DEF Types, EngineType, BatchType
<1>2. Len(events[b]) \in Nat /\ done + 1 <= Len(events[b]) /\ e \in Event
  BY <1>1, Channel DEF Count
<1>3. /\ Len(engine) \in Nat /\ DOMAIN engine = 1..Len(engine)
      /\ \A h \in 1..Len(engine) : engine[h] \in Rules
  BY <1>1, Channel
<1>4. \A w \in Seq(Event) : [engine[g] EXCEPT !.window = w] \in Rules
  BY <1>3 DEF Rules, Live
<1>5. Append(engine[g].window, e) \in Seq(Event)
  BY <1>2, <1>3 DEF Rules, Live
<1>6. CASE e \in Malformed
  BY <1>1, <1>2, <1>6 DEF Count, Live
<1>7. CASE e \notin Malformed
  <2> DEFINE r == [engine[g] EXCEPT !.window = Append(engine[g].window, e)]
  <2>1. engine' = [engine EXCEPT ![g] = r]
    BY <1>7 DEF Count
  <2>2. r \in Rules /\ r.kind = engine[g].kind /\ r.window = Append(engine[g].window, e)
    BY <1>3, <1>4, <1>5 DEF Rules, Live
  <2> HIDE DEF r
  <2>3. /\ engine' \in Seq(Rules) /\ Len(engine') = Len(engine)
        /\ engine'[g] = r /\ \A h \in 1..Len(engine) : h # g => engine'[h] = engine[h]
    BY <1>1, <1>3, <2>1, <2>2, ExceptSeq DEF Live
  <2> QED
    BY <1>2, <1>3, <1>7, <2>2, <2>3 DEF Count, Live
<1> QED
  BY <1>6, <1>7

(* A reload adds an engine, with the windows of the live one if both have   *)
(* correlation rules.                                                       *)
LEMMA CommitEffect ==
  ASSUME Types, CommitReload
  PROVE  /\ engine' \in Seq(Rules) /\ Live' = Live + 1
         /\ \A g \in 1..Live : engine'[g] = engine[g]
         /\ engine'[Live + 1].kind = staged[1].kind
         /\ engine'[Live + 1].window =
              IF KindOf(Live) = "correlation" /\ staged[1].kind = "correlation"
              THEN engine[Live].window ELSE staged[1].window
         /\ staged' = <<>> /\ order = 0
<1> DEFINE r == IF {KindOf(Live), staged[1].kind} = {"correlation"}
                THEN [staged[1] EXCEPT !.window = engine[Live].window]
                ELSE staged[1]
<1>1. engine \in Seq(Rules) /\ Len(engine) >= 1 /\ staged \in Seq(Rules) /\ staged # <<>>
  BY DEF Types, EngineType, CommitReload, Live
<1>2. engine[Live] \in Rules /\ staged[1] \in Rules
  BY <1>1, Channel DEF Live
<1>3. {KindOf(Live), staged[1].kind} = {"correlation"}
        <=> KindOf(Live) = "correlation" /\ staged[1].kind = "correlation"
  OBVIOUS
<1>4. /\ r \in Rules /\ r.kind = staged[1].kind
      /\ r.window = IF KindOf(Live) = "correlation" /\ staged[1].kind = "correlation"
                    THEN engine[Live].window ELSE staged[1].window
  BY <1>2, <1>3 DEF Rules
<1>5. engine' = Append(engine, r)
  BY DEF CommitReload
<1> HIDE DEF r
<1>6. /\ engine' \in Seq(Rules) /\ Len(engine') = Len(engine) + 1
      /\ \A g \in 1..Len(engine) : engine'[g] = engine[g]
      /\ engine'[Len(engine) + 1] = r
  BY <1>1, <1>4, <1>5, Channel
<1> QED
  BY <1>4, <1>6 DEF Live, CommitReload

-----------------------------------------------------------------------------
(* The order lock: one batch evaluates exclusively, on the live engine.  An *)
(* engine without correlation rules has empty windows.                      *)
Locked ==
  /\ order # 0 => phase[order] = "exclusive" /\ bound[order] = Live
                  /\ done <= Len(events[order])
  /\ order = 0 => done = 0
  /\ \A b \in Batch : phase[b] = "exclusive" => order = b
  /\ \A b \in Batch : phase[b] = "none" <=> b > spawned

LInv == Types /\ Locked

LEMMA LockInit == Init => LInv
<1> SUFFICES ASSUME Init PROVE Locked
  BY TypeInit DEF LInv
<1> QED
  BY Bounds DEF Init, Locked

LEMMA LockStep ==
  ASSUME LInv, [Next]_vars
  PROVE  LInv'
<1>0. Types /\ Locked /\ InputType /\ BatchType /\ EngineType /\ OrderType /\ OutType
  BY DEF LInv, Types
<1> USE DEF Types, LInv
<1>1. CASE Arrive
  <2>1. /\ arrived + 1 \in Event /\ arrived + 1 \in 0..NEvents
        /\ Append(input, arrived + 1) \in Seq(Event)
        /\ Len(Append(input, arrived + 1)) = Len(input) + 1 /\ Len(input) \in Nat
    <3>1. arrived + 1 \in Event /\ arrived + 1 \in 0..NEvents
      BY <1>0, <1>1, Bounds DEF Arrive, InputType, Event
    <3> QED
      BY <1>0, <3>1, Channel DEF InputType
  <2>2. InputType' /\ BatchType'
    BY <1>0, <1>1, <2>1, Bounds DEF Arrive, InputType, BatchType, batchVars
  <2> QED
    BY <1>0, <1>1, <2>2
       DEF Arrive, EngineType, OrderType, OutType, Locked, Live, batchVars, engineVars,
           orderVars, outVars
<1>2. CASE Close
  BY <1>0, <1>2
     DEF Close, InputType, BatchType, EngineType, OrderType, OutType, Locked, Live,
         batchVars, engineVars, orderVars, outVars
<1>3. CASE TakeBatch
  <2>1. PICK n \in 1..Len(input) :
           /\ spawned' = spawned + 1 /\ spawned + 1 \in Batch
           /\ events' = [events EXCEPT ![spawned + 1] = SubSeq(input, 1, n)]
           /\ phase' = [phase EXCEPT ![spawned + 1] = "spawned"]
           /\ input' = SubSeq(input, n + 1, Len(input))
    BY <1>0, <1>3, TakeEffect
  <2>2. Len(input) \in Nat /\ n \in 0..Len(input)
    BY <1>0, <2>1, Channel DEF InputType
  <2>3. /\ SubSeq(input, 1, n) \in Seq(Event) /\ SubSeq(input, n + 1, Len(input)) \in Seq(Event)
        /\ Len(SubSeq(input, n + 1, Len(input))) = Len(input) - n
    BY <1>0, <2>2, Split DEF InputType
  <2>4. InputType'
    BY <1>0, <1>3, <2>1, <2>3 DEF TakeBatch, InputType
  <2>5. BatchType'
    <3>1. /\ events' \in [Batch -> Seq(Event)] /\ phase' \in [Batch -> Phase]
          /\ bound' \in [Batch -> Nat]
      BY <1>0, <1>3, <2>1, <2>3 DEF TakeBatch, BatchType, Phase
    <3>2. spawned' \in 0..NEvents /\ spawned' + Len(input') <= arrived'
      <4>1. arrived' = arrived /\ Len(input') = Len(input) - n
        BY <1>3, <2>1, <2>3 DEF TakeBatch
      <4>2. spawned + 1 \in 1..NEvents /\ arrived \in Nat /\ spawned \in Nat
        BY <1>0, <2>1, Bounds DEF InputType, BatchType
      <4>3. spawned + Len(input) <= arrived /\ spawned' = spawned + 1 /\ NEvents \in Nat
        BY <1>0, <2>1, Bounds DEF BatchType
      <4>4. spawned' \in 0..NEvents
        BY <4>2, <4>3
      <4>5. (spawned + 1) + (Len(input) - n) <= arrived
        BY <2>2, <4>2, <4>3
      <4> QED
        BY <4>1, <4>3, <4>4, <4>5
    <3> QED
      BY <3>1, <3>2 DEF BatchType
  <2>6. EngineType' /\ OrderType' /\ OutType'
    BY <1>0, <1>3
       DEF TakeBatch, EngineType, OrderType, OutType, Live, engineVars, orderVars, outVars
  <2>7. Locked'
    <3>1. phase[spawned + 1] = "none"
      BY <1>0, <2>1, Bounds DEF Locked, BatchType
    <3>2. order # spawned + 1 /\ (order # 0 => order \in Batch)
      BY <1>0, <3>1, <2>1, Bounds DEF Locked, EngineType
    <3>3. /\ order # 0 => phase'[order] = "exclusive" /\ events'[order] = events[order]
          /\ \A b \in Batch : phase'[b] = "exclusive" => phase[b] = "exclusive"
      BY <1>0, <2>1, <3>2 DEF BatchType, Locked
    <3>4. \A b \in Batch : phase'[b] = "none" <=> b > spawned'
      BY <1>0, <2>1, Bounds DEF BatchType, Locked
    <3> QED
      BY <1>0, <1>3, <3>2, <3>3, <3>4 DEF TakeBatch, Locked, Live, engineVars
  <2> QED
    BY <2>4, <2>5, <2>6, <2>7
<1>4. ASSUME NEW b \in Batch, LoadEngine(b) PROVE LInv'
  <2>1. Live \in Nat
    BY <1>0, Channel DEF EngineType, Live
  <2>2. BatchType'
    BY <1>0, <1>4, <2>1 DEF LoadEngine, BatchType, Phase, inputVars
  <2>3. b # order
    BY <1>0, <1>4, Bounds DEF LoadEngine, Locked
  <2>4. Locked'
    BY <1>0, <1>4, <2>3, Bounds DEF LoadEngine, Locked, BatchType, EngineType, Live, engineVars
  <2> QED
    BY <1>0, <1>4, <2>2, <2>4
       DEF LoadEngine, InputType, EngineType, OrderType, OutType, Live, inputVars, engineVars,
           orderVars, outVars
<1>5. ASSUME NEW b \in Batch, LockOrder(b) PROVE LInv'
  <2>1. Live \in Nat /\ Len(events[b]) \in Nat
    BY <1>0, Channel DEF EngineType, BatchType, Live
  <2>2. BatchType'
    BY <1>0, <1>5, <2>1 DEF LockOrder, BatchType, Phase, inputVars
  <2>3. EngineType'
    BY <1>0, <1>5 DEF LockOrder, EngineType, Live
  <2>4. Locked'
    BY <1>0, <1>5, <2>1, Bounds DEF LockOrder, Locked, BatchType, EngineType, Live
  <2> QED
    BY <1>0, <1>5, <2>2, <2>3, <2>4
       DEF LockOrder, InputType, OrderType, OutType, inputVars, orderVars, outVars
<1>6. ASSUME NEW b \in Batch, EvaluateShared(b) PROVE LInv'
  <2>1. BatchType'
    BY <1>0, <1>6 DEF EvaluateShared, BatchType, Phase, inputVars
  <2>2. b # order
    BY <1>0, <1>6, Bounds DEF EvaluateShared, Locked
  <2>3. Locked'
    BY <1>0, <1>6, <2>2, Bounds DEF EvaluateShared, Locked, BatchType, EngineType, Live, engineVars
  <2> QED
    BY <1>0, <1>6, <2>1, <2>3
       DEF EvaluateShared, InputType, EngineType, OrderType, OutType, Live, inputVars,
           engineVars, orderVars, outVars
<1>7. ASSUME NEW b \in Batch, Count(b) PROVE LInv'
  <2>1. order = b /\ b # 0 /\ bound[b] = Live
    BY <1>0, <1>7, Bounds DEF Count, Locked
  <2>2. Live \in Nat /\ bound[b] \in 1..Live
    BY <1>0, <2>1, Channel DEF EngineType, Live
  <2>3. /\ done' = done + 1 /\ done + 1 <= Len(events[b])
        /\ engine' \in Seq(Rules) /\ Live' = Live
    BY <1>0, <1>7, <2>2, CountEffect
  <2>4. EngineType'
    BY <1>0, <1>7, <2>3 DEF Count, EngineType
  <2>5. Locked'
    BY <1>0, <1>7, <2>1, <2>3 DEF Count, Locked, batchVars
  <2> QED
    BY <1>0, <1>7, <2>4, <2>5
       DEF Count, InputType, BatchType, OrderType, OutType, inputVars, batchVars, orderVars,
           outVars
<1>8. ASSUME NEW b \in Batch, EvaluateExclusive(b) PROVE LInv'
  <2>1. BatchType'
    BY <1>0, <1>8 DEF EvaluateExclusive, BatchType, Phase, inputVars
  <2>2. EngineType'
    BY <1>0, <1>8 DEF EvaluateExclusive, EngineType, Live
  <2>3. order = b
    BY <1>0, <1>8 DEF EvaluateExclusive, Locked
  <2>4. Locked'
    BY <1>0, <1>8, <2>3, Bounds DEF EvaluateExclusive, Locked, BatchType
  <2> QED
    BY <1>0, <1>8, <2>1, <2>2, <2>4
       DEF EvaluateExclusive, InputType, OrderType, OutType, inputVars, orderVars, outVars
<1>9. ASSUME NEW b \in Batch, Panic(b) PROVE LInv'
  <2>1. BatchType'
    BY <1>0, <1>9 DEF Panic, BatchType, Phase, inputVars
  <2>2. EngineType' /\ OutType'
    BY <1>0, <1>9 DEF Panic, EngineType, OutType, Live, outVars
  <2>3. Locked'
    <3>1. CASE phase[b] = "shared"
      BY <1>0, <1>9, <3>1, Bounds DEF Panic, Locked, BatchType, EngineType, Live
    <3>2. CASE phase[b] = "exclusive"
      BY <1>0, <1>9, <3>2, Bounds DEF Panic, Locked, BatchType, EngineType, Live
    <3> QED
      BY <1>9, <3>1, <3>2 DEF Panic
  <2> QED
    BY <1>0, <1>9, <2>1, <2>2, <2>3 DEF Panic, InputType, OrderType, inputVars, orderVars
<1>10. ASSUME NEW k \in Kind, PrepareReload(k) PROVE LInv'
  <2>1. [kind |-> k, window |-> <<>>] \in Rules
    BY DEF Rules
  <2>2. EngineType'
    BY <1>0, <1>10, <2>1 DEF PrepareReload, EngineType, Live
  <2> QED
    BY <1>0, <1>10, <2>2
       DEF PrepareReload, InputType, BatchType, OrderType, OutType, Locked, Live, inputVars,
           batchVars, orderVars, outVars
<1>11. CASE CommitReload
  <2>1. engine' \in Seq(Rules) /\ Live' = Live + 1 /\ staged' = <<>> /\ order = 0
    BY <1>0, <1>11, CommitEffect
  <2>2. Live \in Nat /\ <<>> \in Seq(Rules)
    BY <1>0, Channel DEF EngineType, Live
  <2>3. EngineType'
    <3>1. order' = order /\ done' = done
      BY <1>11 DEF CommitReload
    <3>2. Live' >= 1
      BY <1>0, <2>1, <2>2 DEF EngineType
    <3> QED
      BY <1>0, <2>1, <2>2, <3>1, <3>2 DEF EngineType
  <2>4. Locked'
    BY <1>0, <1>11, <2>1 DEF CommitReload, Locked, batchVars
  <2> QED
    BY <1>0, <1>11, <2>3, <2>4
       DEF CommitReload, InputType, BatchType, OrderType, OutType, inputVars, batchVars,
           orderVars, outVars
<1>12. ASSUME NEW b \in Batch, Forward(b) \/ JoinPanicked(b) PROVE LInv'
  <2>1. BatchType' /\ InputType'
    BY <1>0, <1>12 DEF Forward, JoinPanicked, BatchType, InputType, Phase, inputVars
  <2>2. OrderType'
    <3>1. Append(seqq, b) \in Seq(Batch)
      BY <1>0, Channel DEF OrderType
    <3>2. /\ seqq' = Append(seqq, b) \/ seqq' = seqq
          /\ UNCHANGED <<pending, next, evalq, tail>>
      BY <1>12 DEF Forward, JoinPanicked, orderVars
    <3> QED
      BY <1>0, <3>1, <3>2 DEF OrderType
  <2>3. b # order
    BY <1>0, <1>12, Bounds DEF Forward, JoinPanicked, Locked
  <2>4. Locked'
    BY <1>0, <1>12, <2>3, Bounds
       DEF Forward, JoinPanicked, Locked, BatchType, EngineType, Live, engineVars
  <2> QED
    BY <1>0, <1>12, <2>1, <2>2, <2>4
       DEF Forward, JoinPanicked, EngineType, OutType, Live, engineVars, outVars
<1>13. CASE StopPulling \/ EngineExit
  BY <1>0, <1>13
     DEF StopPulling, EngineExit, InputType, BatchType, EngineType, OrderType, OutType,
         Locked, Live, inputVars, batchVars, engineVars, orderVars, outVars
<1>14. CASE ReducerStep
  <2>1. OrderType'
    <3>1. CASE ReducerReceive
      <4>1. Head(seqq) \in Batch /\ Tail(seqq) \in Seq(Batch)
        BY <1>0, <3>1, Channel DEF ReducerReceive, OrderType
      <4> QED
        BY <1>0, <3>1, <4>1 DEF ReducerReceive, OrderType
    <3>2. CASE ReducerForward
      <4>1. next \in Batch /\ next + 1 \in 1..NEvents + 1
        BY <1>0, <3>2, Bounds DEF ReducerForward, OrderType
      <4>2. Append(evalq, next) \in Seq(Batch)
        BY <1>0, <4>1, Channel DEF OrderType
      <4> QED
        BY <1>0, <3>2, <4>1, <4>2 DEF ReducerForward, OrderType
    <3>3. CASE ReducerExit
      BY <1>0, <3>3 DEF ReducerExit, OrderType
    <3> QED
      BY <1>14, <3>1, <3>2, <3>3 DEF ReducerStep
  <2> QED
    BY <1>0, <1>14, <2>1
       DEF ReducerStep, ReducerReceive, ReducerForward, ReducerExit, InputType, BatchType,
           EngineType, OutType, Locked, Live, inputVars, batchVars, engineVars, outVars
<1>15. CASE DispatchStep
  <2>1. OrderType' /\ OutType'
    <3>1. CASE DispatchBatch
      <4>1. Head(evalq) \in Batch /\ Tail(evalq) \in Seq(Batch)
        BY <1>0, <3>1, Channel DEF DispatchBatch, OrderType
      <4> QED
        BY <1>0, <3>1, <4>1 DEF DispatchBatch, OrderType, OutType, BatchType
    <3>2. CASE DispatchMalformed \/ DispatchEmpty \/ DispatchResult
      <4>1. Head(current) \in Event /\ Tail(current) \in Seq(Event)
        BY <1>0, <3>2, Channel DEF DispatchMalformed, DispatchEmpty, DispatchResult, OutType
      <4>2. Append(sinkq, Head(current)) \in Seq(Event)
        BY <1>0, <4>1, Channel DEF OutType
      <4> QED
        BY <1>0, <3>2, <4>1, <4>2
           DEF DispatchMalformed, DispatchEmpty, DispatchResult, OrderType, OutType, orderVars
    <3>3. CASE DispatchExit
      BY <1>0, <3>3 DEF DispatchExit, OrderType, OutType, outVars
    <3> QED
      BY <1>15, <3>1, <3>2, <3>3 DEF DispatchStep
  <2> QED
    BY <1>0, <1>15, <2>1
       DEF DispatchStep, DispatchBatch, DispatchMalformed, DispatchEmpty, DispatchResult,
           DispatchExit, InputType, BatchType, EngineType, Locked, Live, inputVars, batchVars,
           engineVars
<1>16. CASE SinkTake
  <2>1. Head(sinkq) \in Event /\ Tail(sinkq) \in Seq(Event)
    BY <1>0, <1>16, Channel DEF SinkTake, OutType
  <2>2. Append(sunk, Head(sinkq)) \in Seq(Event)
    BY <1>0, <2>1, Channel DEF OutType
  <2> QED
    BY <1>0, <1>16, <2>1, <2>2
       DEF SinkTake, InputType, BatchType, EngineType, OrderType, OutType, Locked, Live,
           inputVars, batchVars, engineVars, orderVars
<1>17. CASE UNCHANGED vars
  BY <1>0, <1>17
     DEF vars, InputType, BatchType, EngineType, OrderType, OutType, Locked, Live, inputVars,
         batchVars, engineVars, orderVars, outVars
<1> QED
  BY <1>1, <1>2, <1>3, <1>4, <1>5, <1>6, <1>7, <1>8, <1>9, <1>10, <1>11, <1>12, <1>13,
     <1>14, <1>15, <1>16, <1>17
     DEF Next, EngineStep, WorkerStep, Terminated

LEMMA LockHolds == Spec => []LInv
  BY LockInit, LockStep, PTL DEF Spec

(* The stage keeps its type, whatever the pool, reloads and panics. *)
THEOREM TypeCorrect == Spec => []TypeOK
<1>1. LInv => TypeOK
  BY TypeParts DEF LInv
<1> QED
  BY <1>1, LockHolds, PTL

-----------------------------------------------------------------------------
(* Window updates. *)

(* Which steps change an engine. *)
LEMMA EngineSteps ==
  ASSUME [Next]_vars
  PROVE  engine' = engine \/ (\E b \in Batch : Count(b)) \/ CommitReload
<1>1. CASE Arrive \/ Close \/ SinkTake \/ UNCHANGED vars
  BY <1>1 DEF Arrive, Close, SinkTake, engineVars, vars
<1>2. CASE EngineStep
  BY <1>2 DEF EngineStep, TakeBatch, StopPulling, EngineExit, Forward, JoinPanicked, engineVars
<1>3. ASSUME NEW b \in Batch, WorkerStep(b) \/ Panic(b)
      PROVE  engine' = engine \/ Count(b)
  BY <1>3 DEF WorkerStep, LoadEngine, LockOrder, EvaluateShared, EvaluateExclusive, Panic, engineVars
<1>4. ASSUME NEW k \in Kind, PrepareReload(k) PROVE engine' = engine
  BY <1>4 DEF PrepareReload
<1>5. CASE ReducerStep
  BY <1>5 DEF ReducerStep, ReducerReceive, ReducerForward, ReducerExit, engineVars
<1>6. CASE DispatchStep
  BY <1>6 DEF DispatchStep, DispatchBatch, DispatchMalformed, DispatchEmpty, DispatchResult,
              DispatchExit, engineVars
<1> QED
  BY <1>1, <1>2, <1>3, <1>4, <1>5, <1>6 DEF Next, Terminated

(* Only the live engine counts. *)
LEMMA CountsLive ==
  ASSUME LInv, NEW b \in Batch, Count(b)
  PROVE  /\ order = b /\ bound[b] = Live /\ Live \in 1..Live
         /\ done + 1 \in 1..Len(events[b]) /\ done' = done + 1
         /\ events[b][done + 1] \in Event
         /\ Live' = Live
         /\ \A g \in 1..Live : engine'[g].kind = engine[g].kind
         /\ \A g \in 1..Live : g # Live => engine'[g] = engine[g]
         /\ engine'[Live].window =
              IF events[b][done + 1] \in Malformed THEN engine[Live].window
              ELSE Append(engine[Live].window, events[b][done + 1])
<1>1. order = b /\ bound[b] = Live
  BY Bounds DEF Count, LInv, Locked
<1>2. Live \in 1..Live /\ done \in Nat /\ Len(events[b]) \in Nat
  BY Channel DEF LInv, Types, EngineType, BatchType, Live
<1>3. bound[b] \in 1..Live /\ Types
  BY <1>1, <1>2 DEF LInv
<1> QED
  BY <1>1, <1>2, <1>3, CountEffect

LEMMA WindowType ==
  ASSUME LInv, NEW g \in 1..Live
  PROVE  engine[g] \in Rules /\ engine[g].window \in Seq(Event) /\ Len(engine[g].window) \in Nat
<1>1. engine[g] \in Rules
  BY Channel DEF LInv, Types, EngineType, Live
<1> QED
  BY <1>1, Channel DEF Rules

LEMMA UpdatesStep ==
  ASSUME LInv, NoWindowUpdateLost, [Next]_vars
  PROVE  NoWindowUpdateLost'
<1> SUFFICES ASSUME NEW g \in 1..Live' - 1,
                    engine'[g].kind = "correlation", engine'[g + 1].kind = "correlation"
             PROVE  /\ Len(engine'[g].window) <= Len(engine'[g + 1].window)
                    /\ \A i \in DOMAIN engine'[g].window :
                         engine'[g + 1].window[i] = engine'[g].window[i]
  BY DEF NoWindowUpdateLost, KindOf
<1>0. Live \in Nat /\ Live >= 1
  BY Channel DEF LInv, Types, EngineType, Live
<1>1. CASE engine' = engine
  BY <1>1 DEF NoWindowUpdateLost, KindOf, Live
<1>2. ASSUME NEW b \in Batch, Count(b)
      PROVE  /\ Len(engine'[g].window) <= Len(engine'[g + 1].window)
             /\ \A i \in DOMAIN engine'[g].window :
                  engine'[g + 1].window[i] = engine'[g].window[i]
  <2>1. /\ Live' = Live /\ events[b][done + 1] \in Event
        /\ \A h \in 1..Live : engine'[h].kind = engine[h].kind
        /\ \A h \in 1..Live : h # Live => engine'[h] = engine[h]
        /\ engine'[Live].window =
              IF events[b][done + 1] \in Malformed THEN engine[Live].window
              ELSE Append(engine[Live].window, events[b][done + 1])
    BY <1>2, CountsLive
  <2>2. g \in 1..Live /\ g + 1 \in 1..Live /\ g # Live /\ g \in 1..Live - 1
    BY <1>0, <2>1
  <2>3. /\ Len(engine[g].window) <= Len(engine[g + 1].window)
        /\ \A i \in DOMAIN engine[g].window : engine[g + 1].window[i] = engine[g].window[i]
    BY <2>1, <2>2 DEF NoWindowUpdateLost, KindOf
  <2>4. /\ engine[g].window \in Seq(Event) /\ engine[g + 1].window \in Seq(Event)
        /\ Len(engine[g].window) \in Nat /\ Len(engine[g + 1].window) \in Nat
        /\ DOMAIN engine[g].window = 1..Len(engine[g].window)
    BY <2>2, WindowType, Channel
  <2>5. engine'[g] = engine[g]
    BY <2>1, <2>2
  <2>6. CASE g + 1 # Live
    BY <2>1, <2>2, <2>3, <2>5, <2>6
  <2>7. CASE g + 1 = Live
    <3> DEFINE e == events[b][done + 1]
    <3>1. /\ Len(Append(engine[g + 1].window, e)) = Len(engine[g + 1].window) + 1
          /\ \A i \in 1..Len(engine[g + 1].window) :
               Append(engine[g + 1].window, e)[i] = engine[g + 1].window[i]
      BY <2>1, <2>4, Channel
    <3>2. \A i \in DOMAIN engine[g].window : i \in 1..Len(engine[g + 1].window)
      BY <2>3, <2>4
    <3>3. CASE e \in Malformed
      BY <2>1, <2>3, <2>5, <2>7, <3>3
    <3>4. CASE e \notin Malformed
      <4>1. engine'[g + 1].window = Append(engine[g + 1].window, e)
        BY <2>1, <2>7, <3>4
      <4>2. Len(engine[g].window) <= Len(engine'[g + 1].window)
        BY <2>3, <2>4, <3>1, <4>1
      <4>3. ASSUME NEW i \in DOMAIN engine[g].window
            PROVE  engine'[g + 1].window[i] = engine[g].window[i]
        BY <2>3, <3>1, <3>2, <4>1
      <4> QED
        BY <2>5, <4>2, <4>3
    <3> QED
      BY <3>3, <3>4
  <2> QED
    BY <2>6, <2>7
<1>3. CASE CommitReload
  <2>1. /\ Live' = Live + 1
        /\ \A h \in 1..Live : engine'[h] = engine[h]
        /\ engine'[Live + 1].kind = staged[1].kind
        /\ engine'[Live + 1].window =
              IF KindOf(Live) = "correlation" /\ staged[1].kind = "correlation"
              THEN engine[Live].window ELSE staged[1].window
    BY <1>3, CommitEffect DEF LInv
  <2>2. CASE g = Live
    <3>1. engine'[g] = engine[g] /\ engine'[g + 1].window = engine[g].window
      BY <1>0, <2>1, <2>2 DEF KindOf
    <3>2. Len(engine[g].window) \in Nat
      BY <1>0, <2>2, WindowType
    <3> QED
      BY <3>1, <3>2
  <2>3. CASE g # Live
    <3>1. g \in 1..Live - 1 /\ g \in 1..Live /\ g + 1 \in 1..Live
      BY <1>0, <2>1, <2>3
    <3> QED
      BY <2>1, <3>1 DEF NoWindowUpdateLost, KindOf
  <2> QED
    BY <2>2, <2>3
<1> QED
  BY <1>1, <1>2, <1>3, EngineSteps

(* No reload loses an update of the windows, and no retired engine counts. *)
THEOREM UpdatesSurvive == Spec => []NoWindowUpdateLost
<1>1. Init => NoWindowUpdateLost
  <2> SUFFICES ASSUME Init PROVE NoWindowUpdateLost
    OBVIOUS
  <2>1. PICK k \in Kind : engine = <<[kind |-> k, window |-> <<>>]>>
    BY DEF Init
  <2>2. Live = 1
    BY <2>1 DEF Live
  <2> QED
    BY <2>2 DEF NoWindowUpdateLost
<1> QED
  BY <1>1, UpdatesStep, LockHolds, PTL DEF Spec

-----------------------------------------------------------------------------
(* Batches cut the input into intervals; Upto(b) is the last event of the   *)
(* first b of them.                                                         *)
Upto(b) == IF b = 0 THEN 0 ELSE events[b][Len(events[b])]

Cut ==
  /\ \A b \in 0..spawned : Upto(b) \in Nat
  /\ \A b \in 1..spawned :
       /\ Len(events[b]) >= 1
       /\ \A i \in 1..Len(events[b]) : events[b][i] = Upto(b - 1) + i
  /\ \A a, b \in 0..spawned : a < b => Upto(a) < Upto(b)
  /\ \A i \in 1..Len(input) : input[i] = Upto(spawned) + i
  /\ arrived = Upto(spawned) + Len(input)

(* Batches of the past. *)
LEMMA EventsKept ==
  ASSUME LInv, [Next]_vars
  PROVE  \/ Arrive
         \/ TakeBatch
         \/ UNCHANGED <<arrived, input, spawned, events>>
<1>1. CASE Close \/ SinkTake \/ UNCHANGED vars
  BY <1>1 DEF Close, SinkTake, inputVars, batchVars, vars
<1>2. CASE EngineStep
  BY <1>2 DEF EngineStep, TakeBatch, StopPulling, EngineExit, Forward, JoinPanicked,
              inputVars, batchVars
<1>3. ASSUME NEW b \in Batch, WorkerStep(b) \/ Panic(b)
      PROVE  UNCHANGED <<arrived, input, spawned, events>>
  BY <1>3 DEF WorkerStep, LoadEngine, LockOrder, EvaluateShared, Count, EvaluateExclusive, Panic,
              inputVars, batchVars
<1>4. ASSUME NEW k \in Kind, PrepareReload(k) \/ CommitReload
      PROVE  UNCHANGED <<arrived, input, spawned, events>>
  BY <1>4 DEF PrepareReload, CommitReload, inputVars, batchVars
<1>5. CASE ReducerStep
  BY <1>5 DEF ReducerStep, ReducerReceive, ReducerForward, ReducerExit, inputVars, batchVars
<1>6. CASE DispatchStep
  BY <1>6 DEF DispatchStep, DispatchBatch, DispatchMalformed, DispatchEmpty, DispatchResult,
              DispatchExit, inputVars, batchVars
<1>7. \E k \in Kind : TRUE
  BY DEF Kind
<1> QED
  BY <1>1, <1>2, <1>3, <1>4, <1>5, <1>6, <1>7 DEF Next, Terminated

LEMMA UptoKept ==
  ASSUME LInv, [Next]_vars
  PROVE  /\ spawned' \in Nat /\ spawned \in Nat /\ spawned' >= spawned
         /\ \A b \in 1..spawned : events'[b] = events[b]
         /\ \A b \in 0..spawned : Upto(b)' = Upto(b)
<1>1. spawned \in Nat /\ spawned <= NEvents /\ events \in [Batch -> Seq(Event)]
  BY Bounds DEF LInv, Types, BatchType
<1>2. CASE TakeBatch
  <2>1. PICK n \in 1..Len(input) :
           /\ spawned' = spawned + 1 /\ spawned + 1 \in Batch
           /\ events' = [events EXCEPT ![spawned + 1] = SubSeq(input, 1, n)]
    BY <1>2, TakeEffect DEF LInv
  <2>2. \A b \in 1..spawned : events'[b] = events[b]
    BY <1>1, <2>1, Bounds DEF Batch
  <2> QED
    BY <1>1, <2>1, <2>2 DEF Upto
<1>3. CASE Arrive
  BY <1>1, <1>3 DEF Arrive, batchVars, Upto
<1>4. CASE UNCHANGED <<arrived, input, spawned, events>>
  BY <1>1, <1>4 DEF Upto
<1> QED
  BY <1>2, <1>3, <1>4, EventsKept

LEMMA CutStep ==
  ASSUME LInv, Cut, [Next]_vars
  PROVE  Cut'
<1>0. /\ spawned \in Nat /\ spawned <= NEvents /\ events \in [Batch -> Seq(Event)]
      /\ arrived \in Nat /\ input \in Seq(Event) /\ Len(input) \in Nat
  BY Bounds, Channel DEF LInv, Types, BatchType, InputType
<1>1. CASE Arrive
  <2>1. /\ Len(Append(input, arrived + 1)) = Len(input) + 1
        /\ \A i \in 1..Len(input) : Append(input, arrived + 1)[i] = input[i]
        /\ Append(input, arrived + 1)[Len(input) + 1] = arrived + 1
    <3>1. arrived + 1 \in Event
      BY <1>0, <1>1, Bounds DEF Arrive, Event
    <3> QED
      BY <1>0, <3>1, Channel
  <2>2. input' = Append(input, arrived + 1) /\ arrived' = arrived + 1
        /\ spawned' = spawned /\ events' = events
    BY <1>1 DEF Arrive, batchVars
  <2>3. \A b \in 0..spawned : Upto(b)' = Upto(b)
    BY <1>1, UptoKept
  <2>4. spawned \in 0..spawned /\ Upto(spawned) \in Nat /\ Upto(spawned)' = Upto(spawned)
    BY <1>0, <2>2, <2>3 DEF Cut
  <2>5. \A i \in 1..Len(input') : input'[i] = Upto(spawned)' + i
    <3> SUFFICES ASSUME NEW i \in 1..Len(input) + 1 PROVE input'[i] = Upto(spawned) + i
      BY <2>1, <2>2, <2>4
    <3>1. CASE i = Len(input) + 1
      BY <1>0, <2>1, <2>2, <2>4, <3>1 DEF Cut
    <3>2. CASE i # Len(input) + 1
      BY <1>0, <2>1, <2>2, <2>4, <3>2 DEF Cut
    <3> QED
      BY <3>1, <3>2
  <2>6. arrived' = Upto(spawned)' + Len(input')
    BY <1>0, <2>1, <2>2, <2>4 DEF Cut
  <2>7. \A b \in 1..spawned : b - 1 \in 0..spawned /\ b \in 0..spawned
    BY <1>0
  <2> QED
    BY <2>2, <2>3, <2>5, <2>6, <2>7 DEF Cut
<1>2. CASE TakeBatch
  <2>0. PICK k \in Batch : k = spawned + 1
    BY <1>2, TakeEffect DEF LInv
  <2>1. PICK n \in 1..Len(input) :
           /\ spawned' = k
           /\ events' = [events EXCEPT ![k] = SubSeq(input, 1, n)]
           /\ input' = SubSeq(input, n + 1, Len(input))
    BY <1>2, <2>0, TakeEffect DEF LInv
  <2>2. n \in 0..Len(input) /\ n \in Nat /\ n >= 1
    BY <1>0, <2>0, <2>1
  <2>3. /\ Len(SubSeq(input, 1, n)) = n
        /\ \A i \in 1..n : SubSeq(input, 1, n)[i] = input[i]
        /\ Len(SubSeq(input, n + 1, Len(input))) = Len(input) - n
        /\ \A i \in 1..Len(input) - n : SubSeq(input, n + 1, Len(input))[i] = input[n + i]
    BY <1>0, <2>2, Split
  <2>4. /\ \A b \in 1..spawned : events'[b] = events[b]
        /\ \A b \in 0..spawned : Upto(b)' = Upto(b)
    BY <1>2, UptoKept
  <2>5. events'[k] = SubSeq(input, 1, n)
    BY <1>0, <2>0, <2>1
  <2>6. Upto(spawned) \in Nat /\ spawned \in 0..spawned
    BY <1>0 DEF Cut
  <2>7. \A i \in 1..n : events'[k][i] = Upto(spawned) + i
    BY <1>0, <2>2, <2>3, <2>5 DEF Cut
  <2>8. Upto(k)' = Upto(spawned) + n
    BY <1>0, <2>0, <2>2, <2>3, <2>5, <2>7 DEF Upto
  <2>9. \A b \in 0..k :
          /\ Upto(b)' \in Nat
          /\ b # k => Upto(b)' = Upto(b) /\ Upto(b) \in Nat /\ Upto(b) <= Upto(spawned)
    <3> TAKE b \in 0..k
    <3>1. CASE b = k
      BY <2>2, <2>6, <2>8, <3>1
    <3>2. CASE b # k
      <4>1. b \in 0..spawned /\ Upto(b)' = Upto(b) /\ Upto(b) \in Nat
        BY <1>0, <2>0, <2>4, <3>2 DEF Cut
      <4>2. b = spawned \/ b < spawned
        BY <1>0, <4>1
      <4> QED
        BY <2>6, <4>1, <4>2 DEF Cut
    <3> QED
      BY <3>1, <3>2
  <2>10. ASSUME NEW b \in 1..k
         PROVE  /\ Len(events'[b]) >= 1
                /\ \A i \in 1..Len(events'[b]) : events'[b][i] = Upto(b - 1)' + i
    <3>1. CASE b = k
      <4>1. b - 1 = spawned
        BY <1>0, <2>0, <3>1
      <4> QED
        BY <2>2, <2>3, <2>4, <2>5, <2>6, <2>7, <3>1, <4>1
    <3>2. CASE b # k
      <4>1. b \in 1..spawned /\ b - 1 \in 0..spawned
        BY <1>0, <2>0, <3>2
      <4> QED
        BY <2>4, <4>1 DEF Cut
    <3> QED
      BY <3>1, <3>2
  <2>11. ASSUME NEW a \in 0..k, NEW b \in 0..k, a < b
         PROVE  Upto(a)' < Upto(b)'
    <3>1. a # k /\ a \in 0..spawned
      BY <1>0, <2>0, <2>11
    <3>2. CASE b = k
      BY <2>2, <2>6, <2>8, <2>9, <3>1, <3>2
    <3>3. CASE b # k
      <4>1. b \in 0..spawned
        BY <1>0, <2>0, <3>3
      <4> QED
        BY <2>4, <2>11, <3>1, <4>1 DEF Cut
    <3> QED
      BY <3>2, <3>3
  <2>12. \A i \in 1..Len(input') : input'[i] = Upto(k)' + i
    <3> SUFFICES ASSUME NEW i \in 1..Len(input) - n PROVE input'[i] = Upto(spawned) + n + i
      BY <2>1, <2>3, <2>8
    <3>1. n + i \in 1..Len(input)
      BY <1>0, <2>2
    <3> QED
      BY <1>0, <2>1, <2>2, <2>3, <2>6, <3>1 DEF Cut
  <2>13. arrived' = Upto(k)' + Len(input')
    <3>1. arrived' = arrived
      BY <1>2 DEF TakeBatch
    <3> QED
      BY <1>0, <2>1, <2>2, <2>3, <2>6, <2>8, <3>1 DEF Cut
  <2>14. Upto(spawned)' = Upto(k)'
    BY <2>1 DEF Upto
  <2> QED
    BY <2>1, <2>14, <2>9, <2>10, <2>11, <2>12, <2>13 DEF Cut
<1>3. CASE UNCHANGED <<arrived, input, spawned, events>>
  BY <1>3 DEF Cut, Upto
<1> QED
  BY <1>1, <1>2, <1>3, EventsKept

-----------------------------------------------------------------------------
(* The reducer: batches before `next` have passed it, the ones in its       *)
(* channel and its backlog have not.                                        *)
Reduced ==
  /\ \A i \in 1..Len(seqq) :
       phase[seqq[i]] = "forwarded" /\ seqq[i] >= next /\ seqq[i] \notin pending
  /\ \A i, j \in 1..Len(seqq) : seqq[i] = seqq[j] => i = j
  /\ \A b \in pending : phase[b] = "forwarded" /\ b >= next
  /\ \A b \in Batch : b < next => phase[b] = "forwarded"

LEMMA ForwardedKept ==
  ASSUME LInv, [Next]_vars
  PROVE  /\ \A b \in Batch : phase[b] = "forwarded" => phase'[b] = "forwarded"
         /\ \/ UNCHANGED <<seqq, pending, next, evalq>>
            \/ \E b \in Batch : Forward(b)
            \/ ReducerStep
            \/ DispatchBatch
<1>0. phase \in [Batch -> Phase]
  BY DEF LInv, Types, BatchType
<1>1. CASE Arrive \/ Close \/ SinkTake \/ UNCHANGED vars
  BY <1>1 DEF Arrive, Close, SinkTake, batchVars, orderVars, vars
<1>2. CASE TakeBatch
  <2>1. spawned + 1 \in Batch /\ phase' = [phase EXCEPT ![spawned + 1] = "spawned"]
    BY <1>2, TakeEffect DEF LInv
  <2>2. phase[spawned + 1] = "none"
    BY <2>1, Bounds DEF LInv, Locked, Types, BatchType
  <2> QED
    BY <1>0, <1>2, <2>1, <2>2 DEF TakeBatch, orderVars
<1>3. CASE StopPulling \/ EngineExit
  BY <1>3 DEF StopPulling, EngineExit, batchVars, orderVars
<1>4. ASSUME NEW b \in Batch, Forward(b) \/ JoinPanicked(b)
      PROVE  /\ \A a \in Batch : phase[a] = "forwarded" => phase'[a] = "forwarded"
             /\ UNCHANGED <<seqq, pending, next, evalq>> \/ Forward(b)
  BY <1>0, <1>4 DEF Forward, JoinPanicked, orderVars
<1>5. ASSUME NEW b \in Batch, WorkerStep(b) \/ Panic(b)
      PROVE  /\ \A a \in Batch : phase[a] = "forwarded" => phase'[a] = "forwarded"
             /\ UNCHANGED <<seqq, pending, next, evalq>>
  BY <1>0, <1>5
     DEF WorkerStep, LoadEngine, LockOrder, EvaluateShared, Count, EvaluateExclusive, Panic,
         batchVars, orderVars
<1>6. ASSUME NEW k \in Kind, PrepareReload(k) \/ CommitReload
      PROVE  UNCHANGED <<phase, seqq, pending, next, evalq>>
  BY <1>6 DEF PrepareReload, CommitReload, batchVars, orderVars
<1>7. CASE ReducerStep
  BY <1>7 DEF ReducerStep, ReducerReceive, ReducerForward, ReducerExit, batchVars
<1>8. CASE DispatchStep
  BY <1>8 DEF DispatchStep, DispatchBatch, DispatchMalformed, DispatchEmpty, DispatchResult,
              DispatchExit, batchVars, orderVars
<1>9. \E k \in Kind : TRUE
  BY DEF Kind
<1> QED
  BY <1>1, <1>2, <1>3, <1>4, <1>5, <1>6, <1>7, <1>8, <1>9 DEF Next, EngineStep, Terminated

LEMMA ReducedStep ==
  ASSUME LInv, Reduced, [Next]_vars
  PROVE  Reduced'
<1>0. /\ seqq \in Seq(Batch) /\ pending \subseteq Batch /\ Len(seqq) \in Nat /\ next \in Nat
      /\ \A i \in 1..Len(seqq) : seqq[i] \in Batch
      /\ \A b \in Batch : b \in Nat
  BY Bounds, Channel DEF LInv, Types, OrderType
<1>1. \A b \in Batch : phase[b] = "forwarded" => phase'[b] = "forwarded"
  BY ForwardedKept
<1>2. CASE UNCHANGED <<seqq, pending, next, evalq>> \/ DispatchBatch
  <2>1. UNCHANGED <<seqq, pending, next>>
    BY <1>2 DEF DispatchBatch
  <2> QED
    BY <1>0, <1>1, <2>1 DEF Reduced
<1>3. ASSUME NEW b \in Batch, Forward(b) PROVE Reduced'
  <2>1. /\ Len(Append(seqq, b)) = Len(seqq) + 1
        /\ \A i \in 1..Len(seqq) : Append(seqq, b)[i] = seqq[i]
        /\ Append(seqq, b)[Len(seqq) + 1] = b
    BY <1>0, Channel
  <2>2. /\ seqq' = Append(seqq, b) /\ phase[b] = "evaluated" /\ phase'[b] = "forwarded"
        /\ pending' = pending /\ next' = next
    BY <1>3 DEF Forward, LInv, Types, BatchType
  <2>3. b >= next /\ b \notin pending /\ \A i \in 1..Len(seqq) : seqq[i] # b
    BY <1>0, <2>2 DEF Reduced
  <2>4. ASSUME NEW i \in 1..Len(seqq')
        PROVE  phase'[seqq'[i]] = "forwarded" /\ seqq'[i] >= next /\ seqq'[i] \notin pending
    <3>1. CASE i = Len(seqq) + 1
      BY <2>1, <2>2, <2>3, <3>1
    <3>2. CASE i # Len(seqq) + 1
      <4>1. i \in 1..Len(seqq)
        BY <1>0, <2>1, <2>2, <3>2
      <4> QED
        BY <1>0, <1>1, <2>1, <2>2, <4>1 DEF Reduced
    <3> QED
      BY <3>1, <3>2
  <2>5. \A i, j \in 1..Len(seqq') : seqq'[i] = seqq'[j] => i = j
    <3>1. \A i \in 1..Len(seqq') : i = Len(seqq) + 1 \/ i \in 1..Len(seqq)
      BY <1>0, <2>1, <2>2
    <3> QED
      BY <2>1, <2>2, <2>3, <3>1 DEF Reduced
  <2> QED
    BY <1>0, <1>1, <2>2, <2>4, <2>5 DEF Reduced
<1>4. CASE ReducerReceive
  <2>1. /\ Head(seqq) = seqq[1] /\ Len(seqq) >= 1 /\ Len(Tail(seqq)) = Len(seqq) - 1
        /\ \A i \in 1..Len(seqq) - 1 : Tail(seqq)[i] = seqq[i + 1]
    BY <1>0, <1>4, Channel DEF ReducerReceive
  <2>2. /\ seqq' = Tail(seqq) /\ pending' = pending \cup {seqq[1]} /\ next' = next
        /\ phase' = phase
    BY <1>4, <2>1 DEF ReducerReceive, batchVars
  <2>3. \A i \in 1..Len(seqq') : i + 1 \in 1..Len(seqq) /\ seqq'[i] = seqq[i + 1] /\ i + 1 # 1
    BY <1>0, <2>1, <2>2
  <2>4. 1 \in 1..Len(seqq)
    BY <1>0, <2>1
  <2>5. \A i \in 1..Len(seqq') : seqq'[i] \notin pending'
    BY <2>2, <2>3, <2>4 DEF Reduced
  <2>6. ASSUME NEW i \in 1..Len(seqq'), NEW j \in 1..Len(seqq'), seqq'[i] = seqq'[j]
        PROVE  i = j
    <3>1. i + 1 = j + 1
      BY <2>3, <2>6 DEF Reduced
    <3> QED
      BY <1>0, <2>1, <2>2, <3>1
  <2> QED
    BY <1>0, <2>2, <2>3, <2>4, <2>5, <2>6 DEF Reduced
<1>5. CASE ReducerForward
  <2>1. /\ next \in pending /\ pending' = pending \ {next} /\ next' = next + 1
        /\ seqq' = seqq /\ phase' = phase
    BY <1>5 DEF ReducerForward, batchVars
  <2>2. \A i \in 1..Len(seqq) : seqq[i] >= next + 1
    <3> TAKE i \in 1..Len(seqq)
    <3>1. seqq[i] \in Nat /\ seqq[i] >= next /\ seqq[i] # next
      BY <1>0, <2>1 DEF Reduced
    <3> QED
      BY <1>0, <3>1
  <2>3. \A b \in pending' : b >= next + 1
    BY <1>0, <2>1 DEF Reduced
  <2>4. \A b \in Batch : b < next + 1 => phase[b] = "forwarded"
    BY <1>0, <2>1 DEF Reduced
  <2> QED
    BY <2>1, <2>2, <2>3, <2>4 DEF Reduced
<1>6. CASE ReducerExit
  BY <1>0, <1>6 DEF ReducerExit, Reduced, batchVars
<1> QED
  BY <1>2, <1>3, <1>4, <1>5, <1>6, ForwardedKept DEF ReducerStep

-----------------------------------------------------------------------------
(* The dispatch task: Taken batches have reached it, and it has disposed of *)
(* the first Passed events.                                                 *)
Taken == next - 1 - Len(evalq)
Passed == Upto(Taken) - Len(current)

InOrder ==
  /\ Taken \in Nat
  /\ \A i \in 1..Len(evalq) : evalq[i] = Taken + i
  /\ Passed \in Nat
  /\ \A i \in 1..Len(current) : current[i] = Passed + i
  /\ Dispatched = 1..Passed

(* Results leave in order, and are not acknowledged here. *)
SinkOrder ==
  /\ \A i, j \in 1..Len(sunk) : i < j => sunk[i] < sunk[j]
  /\ \A i, j \in 1..Len(sinkq) : i < j => sinkq[i] < sinkq[j]
  /\ \A i \in 1..Len(sunk), j \in 1..Len(sinkq) : sunk[i] < sinkq[j]
  /\ \A i \in 1..Len(sunk) : sunk[i] \notin acked
  /\ \A i \in 1..Len(sinkq) : sinkq[i] \notin acked

OInv == LInv /\ Cut /\ Reduced /\ InOrder /\ SinkOrder

LEMMA OutSteps ==
  ASSUME [Next]_vars
  PROVE  \/ UNCHANGED <<next, evalq, current, sinkq, sunk, acked>>
         \/ ReducerForward \/ SinkTake
         \/ DispatchBatch \/ DispatchMalformed \/ DispatchEmpty \/ DispatchResult
<1>1. CASE Arrive \/ Close \/ UNCHANGED vars
  BY <1>1 DEF Arrive, Close, orderVars, outVars, vars
<1>2. CASE EngineStep
  BY <1>2 DEF EngineStep, TakeBatch, StopPulling, EngineExit, Forward, JoinPanicked,
              orderVars, outVars
<1>3. ASSUME NEW b \in Batch, WorkerStep(b) \/ Panic(b)
      PROVE  UNCHANGED <<next, evalq, current, sinkq, sunk, acked>>
  BY <1>3 DEF WorkerStep, LoadEngine, LockOrder, EvaluateShared, Count, EvaluateExclusive, Panic,
              orderVars, outVars
<1>4. ASSUME NEW k \in Kind, PrepareReload(k) \/ CommitReload
      PROVE  UNCHANGED <<next, evalq, current, sinkq, sunk, acked>>
  BY <1>4 DEF PrepareReload, CommitReload, orderVars, outVars
<1>5. CASE ReducerStep
  BY <1>5 DEF ReducerStep, ReducerReceive, ReducerForward, ReducerExit, outVars
<1>6. CASE DispatchStep
  BY <1>6 DEF DispatchStep, DispatchExit, outVars
<1>7. \E k \in Kind : TRUE
  BY DEF Kind
<1> QED
  BY <1>1, <1>2, <1>3, <1>4, <1>5, <1>6, <1>7 DEF Next, Terminated

LEMMA Queues ==
  ASSUME LInv
  PROVE  /\ evalq \in Seq(Batch) /\ Len(evalq) \in Nat /\ next \in Nat /\ next >= 1
         /\ current \in Seq(Event) /\ Len(current) \in Nat
         /\ sinkq \in Seq(Event) /\ Len(sinkq) \in Nat /\ DOMAIN sinkq = 1..Len(sinkq)
         /\ sunk \in Seq(Event) /\ Len(sunk) \in Nat /\ DOMAIN sunk = 1..Len(sunk)
         /\ \A i \in 1..Len(sinkq) : sinkq[i] \in Nat
         /\ \A i \in 1..Len(sunk) : sunk[i] \in Nat
         /\ spawned \in Nat /\ spawned <= NEvents
  BY Bounds, Channel DEF LInv, Types, OrderType, OutType, BatchType

(* What the dispatch task has taken was spawned. *)
LEMMA TakenSpawned ==
  ASSUME LInv, Reduced
  PROVE  \A b \in Nat \ {0} : b < next => b <= spawned
<1> TAKE b \in Nat \ {0}
<1> HAVE b < next
<1>1. b \in Batch
  BY Bounds DEF Batch, LInv, Types, OrderType
<1>2. phase[b] = "forwarded"
  BY <1>1 DEF Reduced
<1> QED
  BY <1>1, <1>2, Queues DEF LInv, Locked

(* What is in the sink channel or past it has been disposed of. *)
LEMMA OutPassed ==
  ASSUME LInv, InOrder
  PROVE  /\ \A i \in 1..Len(sinkq) : sinkq[i] \in 1..Passed
         /\ \A i \in 1..Len(sunk) : sunk[i] \in 1..Passed
         /\ \A e \in acked : e \in 1..Passed
<1>1. \A i \in 1..Len(sinkq) : sinkq[i] \in Dispatched
  BY Queues DEF Dispatched, Range
<1>2. \A i \in 1..Len(sunk) : sunk[i] \in Dispatched
  BY Queues DEF Dispatched, Range
<1> QED
  BY <1>1, <1>2 DEF InOrder, Dispatched

LEMMA OrderInit == Init => OInv
<1> SUFFICES ASSUME Init PROVE Cut /\ Reduced /\ InOrder /\ SinkOrder
  BY LockInit DEF OInv
<1>0. Len(<<>>) = 0 /\ DOMAIN <<>> = {}
  OBVIOUS
<1>1. Cut
  BY <1>0 DEF Init, Cut, Upto
<1>2. Reduced
  BY <1>0, Bounds DEF Init, Reduced
<1>3. InOrder
  <2>0. next = 1 /\ evalq = <<>> /\ current = <<>>
    BY DEF Init
  <2>1. Taken = 0 /\ Passed = 0
    <3>1. Len(evalq) = 0 /\ Len(current) = 0
      BY <1>0, <2>0
    <3>2. next = 1
      BY <2>0
    <3>3. Taken = 0
      BY <3>1, <3>2 DEF Taken
    <3> QED
      BY <3>1, <3>3 DEF Passed, Upto
  <2>2. Dispatched = {}
    BY <1>0 DEF Init, Dispatched, Range
  <2> QED
    BY <1>0, <2>1, <2>2 DEF Init, InOrder
<1>4. SinkOrder
  BY <1>0 DEF Init, SinkOrder
<1> QED
  BY <1>1, <1>2, <1>3, <1>4

(* An event leaves the batch in hand, acknowledged or for the sink channel. *)
LEMMA DisposeStep ==
  ASSUME OInv, [Next]_vars, DispatchMalformed \/ DispatchEmpty \/ DispatchResult
  PROVE  InOrder' /\ SinkOrder'
<1> DEFINE e == Head(current)
<1>0. LInv /\ InOrder /\ SinkOrder /\ Reduced
  BY DEF OInv
<1>1. /\ e = current[1] /\ Len(current) >= 1 /\ Len(Tail(current)) = Len(current) - 1
      /\ \A i \in 1..Len(current) - 1 : Tail(current)[i] = current[i + 1]
      /\ e \in Event
  BY <1>0, Queues, Channel DEF DispatchMalformed, DispatchEmpty, DispatchResult
<1>2. /\ current' = Tail(current) /\ UNCHANGED <<evalq, next, sunk, events>>
      /\ \/ acked' = acked \cup {e} /\ sinkq' = sinkq
         \/ acked' = acked /\ sinkq' = Append(sinkq, e)
  BY DEF DispatchMalformed, DispatchEmpty, DispatchResult, orderVars, batchVars
<1>3. e = Passed + 1 /\ Passed \in Nat /\ Taken \in Nat
  BY <1>0, <1>1, Queues DEF InOrder
<1>4. Taken' = Taken /\ Upto(Taken)' = Upto(Taken)
  BY <1>2 DEF Taken, Upto
<1>5. Upto(Taken) \in Nat
  <2>1. Taken = 0 \/ (Taken \in Nat \ {0} /\ Taken < next)
    BY <1>0, <1>3, Queues DEF Taken
  <2>2. Taken \in 0..spawned
    BY <1>0, <1>3, <2>1, TakenSpawned, Queues
  <2> QED
    BY <2>2 DEF OInv, Cut
<1>6. Passed' = Passed + 1
  BY <1>0, <1>1, <1>2, <1>4, <1>5, Queues DEF Passed
<1>7. /\ \A i \in 1..Len(sinkq) : sinkq[i] \in 1..Passed
      /\ \A i \in 1..Len(sunk) : sunk[i] \in 1..Passed
      /\ \A a \in acked : a \in 1..Passed
  BY <1>0, OutPassed
<1>8. 1..Passed + 1 = (1..Passed) \cup {e}
  BY <1>3
<1>9. \A i \in 1..Len(current') : current'[i] = Passed' + i
  <2>1. \A i \in 1..Len(current) - 1 : i + 1 \in 1..Len(current) /\ current[i + 1] = Passed + (i + 1)
    BY <1>0, Queues DEF InOrder
  <2> QED
    BY <1>0, <1>1, <1>2, <1>3, <1>6, <2>1, Queues
<1>10. CASE acked' = acked \cup {e} /\ sinkq' = sinkq
  <2>1. Dispatched' = Dispatched \cup {e}
    BY <1>2, <1>10 DEF Dispatched
  <2>2. InOrder'
    BY <1>0, <1>2, <1>3, <1>4, <1>6, <1>8, <1>9, <2>1 DEF InOrder
  <2>3. /\ \A i \in 1..Len(sinkq) : sinkq[i] # e
        /\ \A i \in 1..Len(sunk) : sunk[i] # e
    BY <1>3, <1>7
  <2>4. SinkOrder'
    BY <1>0, <1>2, <1>10, <2>3 DEF SinkOrder
  <2> QED
    BY <2>2, <2>4
<1>11. CASE acked' = acked /\ sinkq' = Append(sinkq, e)
  <2>1. /\ Len(sinkq') = Len(sinkq) + 1 /\ sinkq' \in Seq(Event) /\ DOMAIN sinkq' = 1..Len(sinkq) + 1
        /\ \A i \in 1..Len(sinkq) : sinkq'[i] = sinkq[i]
        /\ sinkq'[Len(sinkq) + 1] = e
    BY <1>0, <1>1, <1>11, Queues, Channel
  <2>2. \A i \in 1..Len(sinkq') : i \in 1..Len(sinkq) \/ i = Len(sinkq) + 1
    BY <1>0, <2>1, Queues
  <2>3. Range(sinkq') = Range(sinkq) \cup {e}
    <3>1. DOMAIN sinkq = 1..Len(sinkq) /\ Len(sinkq) \in Nat
      BY <1>0, Queues
    <3>2. \A i \in 1..Len(sinkq) : i \in 1..Len(sinkq) + 1
      BY <3>1
    <3>3. Len(sinkq) + 1 \in 1..Len(sinkq) + 1
      BY <3>1
    <3> QED
      BY <2>1, <2>2, <3>1, <3>2, <3>3 DEF Range
  <2>4. Dispatched' = Dispatched \cup {e}
    BY <1>2, <1>11, <2>3 DEF Dispatched
  <2>5. InOrder'
    BY <1>0, <1>2, <1>3, <1>4, <1>6, <1>8, <1>9, <2>4 DEF InOrder
  <2>6. e \notin acked
    BY <1>3, <1>7
  <2>7. \A i, j \in 1..Len(sinkq') : i < j => sinkq'[i] < sinkq'[j]
    <3> TAKE i, j \in 1..Len(sinkq')
    <3> HAVE i < j
    <3>1. i \in 1..Len(sinkq)
      BY <1>0, <2>1, Queues
    <3>2. CASE j \in 1..Len(sinkq)
      BY <1>0, <2>1, <3>1, <3>2 DEF SinkOrder
    <3>3. CASE j = Len(sinkq) + 1
      BY <1>3, <1>7, <2>1, <3>1, <3>3
    <3> QED
      BY <2>2, <3>2, <3>3
  <2>8. \A i \in 1..Len(sunk), j \in 1..Len(sinkq') : sunk[i] < sinkq'[j]
    <3> TAKE i \in 1..Len(sunk), j \in 1..Len(sinkq')
    <3>1. CASE j \in 1..Len(sinkq)
      BY <1>0, <2>1, <3>1 DEF SinkOrder
    <3>2. CASE j = Len(sinkq) + 1
      BY <1>3, <1>7, <2>1, <3>2
    <3> QED
      BY <2>2, <3>1, <3>2
  <2>9. \A i \in 1..Len(sinkq') : sinkq'[i] \notin acked
    BY <1>0, <2>1, <2>2, <2>6 DEF SinkOrder
  <2> QED
    BY <1>0, <1>2, <1>11, <2>5, <2>7, <2>8, <2>9 DEF SinkOrder
<1> QED
  BY <1>2, <1>10, <1>11

(* Later batches do not change what was taken. *)
LEMMA TakenKept ==
  ASSUME OInv, [Next]_vars
  PROVE  /\ Taken \in 0..spawned /\ Upto(Taken) \in Nat
         /\ \A b \in 0..spawned : Upto(b)' = Upto(b)
<1>0. LInv /\ InOrder /\ Reduced
  BY DEF OInv
<1>1. Taken = 0 \/ (Taken \in Nat \ {0} /\ Taken < next)
  BY <1>0, Queues DEF Taken, InOrder
<1>2. Taken \in 0..spawned
  BY <1>0, <1>1, TakenSpawned, Queues
<1> QED
  BY <1>0, <1>2, UptoKept DEF OInv, Cut

LEMMA SinkTakeStep ==
  ASSUME OInv, SinkTake
  PROVE  InOrder' /\ SinkOrder'
<1> DEFINE e == Head(sinkq)
<1>0. LInv /\ InOrder /\ SinkOrder /\ Len(sinkq) \in Nat /\ Len(sunk) \in Nat
  BY Queues DEF OInv
<1>1. /\ e = sinkq[1] /\ Len(sinkq) >= 1 /\ e \in Event
      /\ Tail(sinkq) \in Seq(Event) /\ Len(Tail(sinkq)) = Len(sinkq) - 1
      /\ \A i \in 1..Len(sinkq) - 1 : Tail(sinkq)[i] = sinkq[i + 1]
      /\ DOMAIN sinkq = 1..Len(sinkq) /\ DOMAIN sunk = 1..Len(sunk)
  BY <1>0, Queues, Channel DEF SinkTake
<1>2. /\ sinkq' = Tail(sinkq) /\ sunk' = Append(sunk, e)
      /\ UNCHANGED <<next, evalq, current, acked, events>>
  BY DEF SinkTake, orderVars, batchVars
<1>3. /\ Len(sunk') = Len(sunk) + 1 /\ sunk' \in Seq(Event) /\ DOMAIN sunk' = 1..Len(sunk) + 1
      /\ \A i \in 1..Len(sunk) : sunk'[i] = sunk[i]
      /\ sunk'[Len(sunk) + 1] = e
  BY <1>0, <1>1, <1>2, Queues, Channel
<1>4. /\ DOMAIN sinkq' = 1..Len(sinkq) - 1 /\ Len(sinkq') = Len(sinkq) - 1
      /\ \A i \in 1..Len(sinkq') : i + 1 \in 1..Len(sinkq) /\ sinkq'[i] = sinkq[i + 1] /\ 1 < i + 1
  BY <1>0, <1>1, <1>2, Channel
<1>5. /\ \A i \in 1..Len(sunk') : i \in 1..Len(sunk) \/ i = Len(sunk) + 1
      /\ 1 \in 1..Len(sinkq)
      /\ \A i \in 1..Len(sinkq) : i = 1 \/ i - 1 \in 1..Len(sinkq')
      /\ \A i \in 1..Len(sunk) : i \in 1..Len(sunk')
      /\ Len(sunk) + 1 \in 1..Len(sunk')
  BY <1>0, <1>1, <1>3, <1>4
<1>6. Range(sunk') = Range(sunk) \cup {e}
  BY <1>1, <1>3, <1>5 DEF Range
<1>7. Range(sinkq) = Range(sinkq') \cup {e}
  <2>1. \A i \in 1..Len(sinkq) : sinkq[i] \in Range(sinkq') \cup {e}
    <3> TAKE i \in 1..Len(sinkq)
    <3>1. CASE i = 1
      BY <1>1, <3>1
    <3>2. CASE i # 1
      <4>1. i - 1 \in 1..Len(sinkq') /\ sinkq'[i - 1] = sinkq[(i - 1) + 1] /\ (i - 1) + 1 = i
        BY <1>4, <1>5, <3>2
      <4> QED
        BY <1>4, <4>1 DEF Range
    <3> QED
      BY <3>1, <3>2
  <2>2. Range(sinkq) \subseteq Range(sinkq') \cup {e}
    BY <1>1, <2>1 DEF Range
  <2>3. \A i \in 1..Len(sinkq') : sinkq'[i] \in Range(sinkq)
    BY <1>1, <1>4 DEF Range
  <2>4. e \in Range(sinkq)
    BY <1>1, <1>5 DEF Range
  <2>5. Range(sinkq') \subseteq Range(sinkq)
    BY <1>4, <2>3 DEF Range
  <2> QED
    BY <2>2, <2>4, <2>5
<1>8. Dispatched' = Dispatched
  BY <1>2, <1>6, <1>7 DEF Dispatched
<1>9. InOrder'
  BY <1>0, <1>2, <1>8 DEF InOrder, Taken, Passed, Upto
<1>10. \A i \in 1..Len(sunk) : sunk[i] < e
  BY <1>0, <1>1, <1>5 DEF SinkOrder
<1>11. \A j \in 1..Len(sinkq') : e < sinkq'[j]
  BY <1>0, <1>1, <1>4, <1>5 DEF SinkOrder
<1>12. \A i, j \in 1..Len(sunk') : i < j => sunk'[i] < sunk'[j]
  <2> TAKE i, j \in 1..Len(sunk')
  <2> HAVE i < j
  <2>1. i \in 1..Len(sunk)
    BY <1>0, <1>3
  <2>2. CASE j \in 1..Len(sunk)
    BY <1>0, <1>3, <2>1, <2>2 DEF SinkOrder
  <2>3. CASE j = Len(sunk) + 1
    BY <1>3, <1>10, <2>1, <2>3
  <2> QED
    BY <1>5, <2>2, <2>3
<1>13. \A i, j \in 1..Len(sinkq') : i < j => sinkq'[i] < sinkq'[j]
  <2> TAKE i, j \in 1..Len(sinkq')
  <2> HAVE i < j
  <2>1. i + 1 < j + 1
    BY <1>0, <1>4
  <2> QED
    BY <1>0, <1>4, <2>1 DEF SinkOrder
<1>14. \A i \in 1..Len(sunk'), j \in 1..Len(sinkq') : sunk'[i] < sinkq'[j]
  <2> TAKE i \in 1..Len(sunk'), j \in 1..Len(sinkq')
  <2>1. CASE i \in 1..Len(sunk)
    BY <1>0, <1>3, <1>4, <2>1 DEF SinkOrder
  <2>2. CASE i = Len(sunk) + 1
    BY <1>3, <1>11, <2>2
  <2> QED
    BY <1>5, <2>1, <2>2
<1>15. /\ \A i \in 1..Len(sunk') : sunk'[i] \notin acked
       /\ \A i \in 1..Len(sinkq') : sinkq'[i] \notin acked
  BY <1>0, <1>1, <1>3, <1>4, <1>5 DEF SinkOrder
<1> QED
  BY <1>2, <1>9, <1>12, <1>13, <1>14, <1>15 DEF SinkOrder

LEMMA OrderStep ==
  ASSUME OInv, [Next]_vars
  PROVE  OInv'
<1>0. LInv /\ Cut /\ Reduced /\ InOrder /\ SinkOrder
  BY DEF OInv
<1>1. LInv' /\ Cut' /\ Reduced'
  BY <1>0, LockStep, CutStep, ReducedStep
<1>2. /\ Taken \in 0..spawned /\ Upto(Taken) \in Nat
      /\ \A b \in 0..spawned : Upto(b)' = Upto(b)
  BY TakenKept
<1>3. CASE UNCHANGED <<next, evalq, current, sinkq, sunk, acked>>
  <2>1. Taken' = Taken
    BY <1>3 DEF Taken
  <2>2. Upto(Taken)' = Upto(Taken)
    <3>1. PICK k \in 0..spawned : k = Taken
      BY <1>2
    <3>2. Upto(Taken)' = Upto(k)'
      BY <2>1, <3>1 DEF Upto
    <3> QED
      BY <1>2, <3>1, <3>2
  <2>3. Passed' = Passed /\ Dispatched' = Dispatched
    BY <1>3, <2>2 DEF Passed, Dispatched
  <2> QED
    BY <1>0, <1>1, <1>3, <2>1, <2>3 DEF OInv, InOrder, SinkOrder
<1>4. CASE ReducerForward
  <2>1. /\ Len(Append(evalq, next)) = Len(evalq) + 1
        /\ \A i \in 1..Len(evalq) : Append(evalq, next)[i] = evalq[i]
        /\ Append(evalq, next)[Len(evalq) + 1] = next
        /\ Len(evalq) \in Nat /\ next \in Nat
    <3>1. next \in Batch
      BY <1>0, <1>4 DEF ReducerForward, LInv, Types, OrderType
    <3> QED
      BY <1>0, <3>1, Queues, Channel
  <2>2. /\ evalq' = Append(evalq, next) /\ next' = next + 1
        /\ UNCHANGED <<current, sinkq, sunk, acked, events>>
    BY <1>4 DEF ReducerForward, outVars, batchVars
  <2>3. Taken' = Taken
    BY <2>1, <2>2 DEF Taken
  <2>4. Passed' = Passed /\ Dispatched' = Dispatched
    BY <2>2, <2>3 DEF Passed, Dispatched, Upto
  <2>5. \A i \in 1..Len(evalq') : evalq'[i] = Taken + i
    <3> SUFFICES ASSUME NEW i \in 1..Len(evalq) + 1 PROVE evalq'[i] = Taken + i
      BY <2>1, <2>2
    <3>1. CASE i = Len(evalq) + 1
      BY <2>1, <2>2, <3>1 DEF Taken
    <3>2. CASE i # Len(evalq) + 1
      BY <1>0, <2>1, <2>2, <3>2 DEF InOrder
    <3> QED
      BY <3>1, <3>2
  <2> QED
    BY <1>0, <1>1, <2>2, <2>3, <2>4, <2>5 DEF OInv, InOrder, SinkOrder
<1>5. CASE SinkTake
  BY <1>1, <1>5, SinkTakeStep DEF OInv
<1>6. CASE DispatchBatch
  <2>1. /\ Head(evalq) = evalq[1] /\ Len(evalq) >= 1 /\ Len(Tail(evalq)) = Len(evalq) - 1
        /\ \A i \in 1..Len(evalq) - 1 : Tail(evalq)[i] = evalq[i + 1]
        /\ Len(evalq) \in Nat /\ next \in Nat
    BY <1>0, <1>6, Queues, Channel DEF DispatchBatch
  <2>2. /\ current = <<>> /\ current' = events[evalq[1]] /\ evalq' = Tail(evalq)
        /\ UNCHANGED <<next, sinkq, sunk, acked, events, spawned>>
    BY <1>6, <2>1 DEF DispatchBatch, batchVars
  <2>3. evalq[1] = Taken + 1 /\ Taken \in Nat
    BY <1>0, <2>1 DEF InOrder
  <2>4. PICK b \in Nat : b = Taken + 1
    BY <2>3
  <2>5. Taken' = b
    BY <2>1, <2>2, <2>4 DEF Taken
  <2>6. b \in 1..spawned /\ b \in Batch
    <3>1. b \in Nat \ {0} /\ b < next
      BY <2>1, <2>3, <2>4 DEF Taken
    <3>2. b <= spawned
      BY <1>0, <3>1, TakenSpawned
    <3> QED
      BY <1>0, <3>1, <3>2, Queues, Bounds DEF Batch
  <2>7. /\ Len(events[b]) \in Nat /\ Len(events[b]) >= 1
        /\ \A i \in 1..Len(events[b]) : events[b][i] = Upto(Taken) + i
    <3>1. b - 1 = Taken
      BY <2>3, <2>4
    <3>2. events[b] \in Seq(Event)
      BY <1>0, <2>6 DEF LInv, Types, BatchType
    <3> QED
      BY <1>0, <2>6, <3>1, <3>2, Channel DEF Cut
  <2>8. Upto(b) = Upto(Taken) + Len(events[b]) /\ Upto(Taken)' = Upto(b)
    <3>1. Upto(b) = Upto(Taken) + Len(events[b])
      BY <2>6, <2>7 DEF Upto
    <3>2. Upto(Taken)' = Upto(b)
      BY <2>2, <2>5 DEF Upto
    <3> QED
      BY <3>1, <3>2
  <2>9. Passed = Upto(Taken) /\ Passed' = Passed
    <3>1. Len(current) = 0
      BY <1>0, <2>2, Queues, Channel
    <3>2. Len(current') = Len(events[b])
      BY <2>2, <2>3, <2>4
    <3> QED
      BY <1>2, <2>7, <2>8, <3>1, <3>2 DEF Passed
  <2>10. \A i \in 1..Len(evalq') : evalq'[i] = b + i
    <3> SUFFICES ASSUME NEW i \in 1..Len(evalq) - 1 PROVE evalq[i + 1] = b + i
      BY <2>1, <2>2
    <3>1. i + 1 \in 1..Len(evalq)
      BY <2>1
    <3> QED
      BY <1>0, <2>3, <2>4, <3>1 DEF InOrder
  <2>11. Dispatched' = Dispatched
    BY <2>2 DEF Dispatched
  <2>12. \A i \in 1..Len(current') : current'[i] = Passed + i
    BY <2>2, <2>3, <2>4, <2>7, <2>9
  <2> QED
    BY <1>0, <1>1, <2>2, <2>5, <2>9, <2>10, <2>11, <2>12 DEF OInv, InOrder, SinkOrder
<1>7. CASE DispatchMalformed \/ DispatchEmpty \/ DispatchResult
  BY <1>1, <1>7, DisposeStep DEF OInv
<1> QED
  BY <1>3, <1>4, <1>5, <1>6, <1>7, OutSteps

LEMMA OrderHolds == Spec => []OInv
  BY OrderInit, OrderStep, PTL DEF Spec

(* Results leave in input order, each event once, and the events disposed   *)
(* of are an initial segment of the input.                                  *)
THEOREM OrderCorrect == Spec => []OutputInOrder
<1>1. ASSUME OInv PROVE OutputInOrder
  <2>0. LInv /\ InOrder /\ SinkOrder /\ Passed \in Nat
    BY <1>1 DEF OInv, InOrder
  <2>1. /\ Len(sunk \o sinkq) = Len(sunk) + Len(sinkq)
        /\ DOMAIN (sunk \o sinkq) = 1..Len(sunk) + Len(sinkq)
        /\ \A i \in 1..Len(sunk) + Len(sinkq) :
             (sunk \o sinkq)[i] = IF i <= Len(sunk) THEN sunk[i] ELSE sinkq[i - Len(sunk)]
    <3>1. sunk \in Seq(Event) /\ sinkq \in Seq(Event)
      BY <2>0, Queues
    <3> QED
      BY <3>1
  <2>2. Increasing(sunk \o sinkq)
    <3> SUFFICES ASSUME NEW i \in 1..Len(sunk) + Len(sinkq),
                        NEW j \in 1..Len(sunk) + Len(sinkq), i < j
                 PROVE  (sunk \o sinkq)[i] < (sunk \o sinkq)[j]
      BY <2>1 DEF Increasing
    <3>0. Len(sunk) \in Nat /\ Len(sinkq) \in Nat
      BY <2>0, Queues
    <3>1. CASE j <= Len(sunk)
      <4>1. i \in 1..Len(sunk) /\ j \in 1..Len(sunk) /\ i <= Len(sunk)
        BY <3>0, <3>1
      <4> QED
        BY <2>0, <2>1, <3>1, <4>1 DEF SinkOrder
    <3>2. CASE i <= Len(sunk) /\ ~(j <= Len(sunk))
      <4>1. i \in 1..Len(sunk) /\ j - Len(sunk) \in 1..Len(sinkq)
        BY <3>0, <3>2
      <4> QED
        BY <2>0, <2>1, <3>2, <4>1 DEF SinkOrder
    <3>3. CASE ~(i <= Len(sunk))
      <4>1. /\ i - Len(sunk) \in 1..Len(sinkq) /\ j - Len(sunk) \in 1..Len(sinkq)
            /\ i - Len(sunk) < j - Len(sunk) /\ ~(j <= Len(sunk))
        BY <3>0, <3>3
      <4> QED
        BY <2>0, <2>1, <3>3, <4>1 DEF SinkOrder
    <3> QED
      BY <3>1, <3>2, <3>3
  <2>3. acked \cap (Range(sinkq) \cup Range(sunk)) = {}
    BY <2>0, Queues DEF SinkOrder, Range
  <2>4. Dispatched = 1..Cardinality(Dispatched)
    <3>1. Cardinality(1..Passed) = IF 1 > Passed THEN 0 ELSE Passed - 1 + 1
      BY <2>0, FS_Interval
    <3>2. Cardinality(1..Passed) = Passed
      BY <2>0, <3>1
    <3> QED
      BY <2>0, <3>2 DEF InOrder
  <2> QED
    BY <2>2, <2>3, <2>4 DEF OutputInOrder
<1> QED
  BY <1>1, OrderHolds, PTL

(* Nothing of a batch whose worker panicked, and nothing after it, is       *)
(* acknowledged or sent on.                                                 *)
THEOREM PanicStops == Spec => []NothingPassesAPanic
<1>1. ASSUME OInv PROVE NothingPassesAPanic
  <2>0. LInv /\ InOrder /\ Reduced /\ Cut
    BY <1>1 DEF OInv
  <2> SUFFICES ASSUME NEW b \in Batch, phase[b] \in {"panicked", "lost"},
                      NEW e \in Dispatched, NEW f \in Range(events[b])
               PROVE  e < f
    BY DEF NothingPassesAPanic
  <2>1. b \in Nat /\ b >= 1 /\ b >= next /\ b <= spawned
    <3>1. b \in 1..NEvents /\ NEvents \in Nat
      BY Bounds
    <3>2. ~(b < next) /\ ~(b > spawned)
      BY <2>0 DEF Reduced, LInv, Locked
    <3> QED
      BY <2>0, <3>1, <3>2, Queues
  <2>2. Taken \in Nat /\ Taken <= b - 1 /\ Passed \in Nat /\ e \in 1..Passed
    BY <2>0, <2>1, Queues DEF InOrder, Taken
  <2>3. b - 1 \in 0..spawned /\ Taken \in 0..spawned /\ b \in 1..spawned
    BY <2>0, <2>1, <2>2, Queues
  <2>4. Upto(b - 1) \in Nat /\ Upto(Taken) \in Nat /\ Upto(Taken) <= Upto(b - 1)
    <3>1. CASE Taken = b - 1
      BY <2>0, <2>3, <3>1 DEF Cut
    <3>2. CASE Taken # b - 1
      <4>1. Taken < b - 1
        BY <2>1, <2>2, <3>2
      <4> QED
        BY <2>0, <2>3, <4>1 DEF Cut
    <3> QED
      BY <3>1, <3>2
  <2>5. e <= Upto(b - 1)
    BY <2>0, <2>2, <2>4, Queues DEF Passed
  <2>6. PICK i \in 1..Len(events[b]) : f = Upto(b - 1) + i
    <3>1. events[b] \in Seq(Event)
      BY <2>0 DEF LInv, Types, BatchType
    <3>2. PICK i \in 1..Len(events[b]) : f = events[b][i]
      BY <3>1, Channel DEF Range
    <3> QED
      BY <2>0, <2>3, <3>2 DEF Cut
  <2> QED
    BY <2>2, <2>4, <2>5, <2>6
<1> QED
  BY <1>1, OrderHolds, PTL

-----------------------------------------------------------------------------
(* A daemon that starts with correlation rules. *)
Ordered == KindOf(1) = "correlation"

LEMMA OrderedKept ==
  ASSUME LInv, [Next]_vars
  PROVE  Ordered' = Ordered /\ Live \in Nat /\ Live >= 1
<1>0. Live \in Nat /\ Live >= 1
  BY Channel DEF LInv, Types, EngineType, Live
<1>1. 1 \in 1..Live
  BY <1>0
<1>2. CASE engine' = engine
  BY <1>0, <1>2 DEF Ordered, KindOf
<1>3. ASSUME NEW b \in Batch, Count(b) PROVE engine'[1].kind = engine[1].kind
  BY <1>1, <1>3, CountsLive
<1>4. CASE CommitReload
  BY <1>0, <1>1, <1>4, CommitEffect DEF Ordered, KindOf, LInv
<1> QED
  BY <1>0, <1>2, <1>3, <1>4, EngineSteps DEF Ordered, KindOf

Busy == {"spawned", "shared", "waiting", "exclusive", "evaluated", "panicked"}

(* It has one batch in hand at a time, and none after a panic. *)
Serial ==
  /\ \A b \in Batch : phase[b] \in Busy => b = spawned
  /\ \A b \in Batch : phase[b] = "lost" => b = spawned /\ task = "gone"

LEMMA TakeSerial ==
  ASSUME LInv, Ordered, Serial, TakeBatch
  PROVE  \A b \in Batch : phase[b] \notin Busy /\ phase[b] # "lost"
<1>1. Pool = 1
  BY DEF Pool, Ordered
<1>2. IsFiniteSet(Running)
  <2>1. IsFiniteSet(1..NEvents)
    BY Bounds, FS_Interval
  <2>2. Running \subseteq 1..NEvents
    BY Bounds DEF Running, In
  <2> QED
    BY <2>1, <2>2, FS_Subset
<1>3. Cardinality(Running) \in Nat /\ Cardinality(Running) < 1
  BY <1>1, <1>2, FS_CardinalityType DEF TakeBatch
<1>4. Running = {}
  BY <1>2, <1>3, FS_EmptySet
<1>5. Finished = {} /\ task = "pulling"
  BY DEF TakeBatch
<1> QED
  BY <1>4, <1>5 DEF Running, Finished, In, Busy, Serial

LEMMA SerialStep ==
  ASSUME LInv, Ordered, Serial, [Next]_vars
  PROVE  Serial'
<1>0. phase \in [Batch -> Phase] /\ Pool = 1
  BY DEF LInv, Types, BatchType, Pool, Ordered
<1>1. CASE Arrive \/ Close \/ SinkTake \/ UNCHANGED vars
  BY <1>1 DEF Arrive, Close, SinkTake, batchVars, vars, Serial
<1>2. CASE TakeBatch
  <2>1. spawned' = spawned + 1 /\ phase' = [phase EXCEPT ![spawned + 1] = "spawned"]
    BY <1>2, TakeEffect DEF LInv
  <2>2. \A b \in Batch : phase[b] \notin Busy /\ phase[b] # "lost"
    BY <1>2, TakeSerial
  <2> QED
    BY <1>0, <2>1, <2>2 DEF Serial
<1>3. CASE StopPulling \/ EngineExit
  BY <1>3 DEF StopPulling, EngineExit, batchVars, Serial
<1>4. ASSUME NEW b \in Batch, Forward(b) \/ JoinPanicked(b) PROVE Serial'
  <2>1. phase[b] \in Busy /\ b = spawned /\ spawned' = spawned
    BY <1>4 DEF Forward, JoinPanicked, Busy, Serial
  <2>2. CASE Forward(b)
    BY <1>0, <2>1, <2>2 DEF Forward, Serial, Busy
  <2>3. CASE JoinPanicked(b)
    BY <1>0, <2>1, <2>3 DEF JoinPanicked, Serial, Busy
  <2> QED
    BY <1>4, <2>2, <2>3
<1>5. ASSUME NEW b \in Batch, WorkerStep(b) \/ Panic(b) PROVE Serial'
  <2>1. spawned' = spawned /\ task' = task
    BY <1>5
       DEF WorkerStep, LoadEngine, LockOrder, EvaluateShared, Count, EvaluateExclusive, Panic,
           batchVars
  <2>2. phase[b] \in Busy
    BY <1>5
       DEF WorkerStep, LoadEngine, LockOrder, EvaluateShared, Count, EvaluateExclusive, Panic, Busy
  <2>3. \E p \in Busy : phase' = [phase EXCEPT ![b] = p]
    <3>1. CASE Count(b)
      BY <1>0, <2>2, <3>1 DEF Count, batchVars
    <3>2. CASE ~Count(b)
      BY <1>5, <3>2
         DEF WorkerStep, LoadEngine, LockOrder, EvaluateShared, EvaluateExclusive, Panic, Busy
    <3> QED
      BY <3>1, <3>2
  <2> QED
    BY <1>0, <2>1, <2>2, <2>3 DEF Serial, Busy
<1>6. ASSUME NEW k \in Kind, PrepareReload(k) \/ CommitReload PROVE Serial'
  BY <1>6 DEF PrepareReload, CommitReload, batchVars, Serial
<1>7. CASE ReducerStep
  BY <1>7 DEF ReducerStep, ReducerReceive, ReducerForward, ReducerExit, batchVars, Serial
<1>8. CASE DispatchStep
  BY <1>8 DEF DispatchStep, DispatchBatch, DispatchMalformed, DispatchEmpty, DispatchResult,
              DispatchExit, batchVars, Serial
<1>9. \E k \in Kind : TRUE
  BY DEF Kind
<1> QED
  BY <1>1, <1>2, <1>3, <1>4, <1>5, <1>6, <1>7, <1>8, <1>9 DEF Next, EngineStep, Terminated

-----------------------------------------------------------------------------
(* What the live windows have seen. *)

(* An engine without correlation rules counts nothing, and a new one has    *)
(* counted nothing.                                                         *)
Unused ==
  /\ \A g \in 1..Live : engine[g].kind = "detection" => engine[g].window = <<>>
  /\ staged # <<>> => staged[1].window = <<>>

Adjoining(w) ==
  \A i \in 1..(Len(w) - 1) :
    w[i] < w[i + 1] /\ (w[i] + 1)..(w[i + 1] - 1) \subseteq Malformed

(* The last event evaluation has passed: the batch in hand counts as far as *)
(* it has come.                                                             *)
Seen ==
  IF spawned # 0 /\ phase[spawned] \in {"spawned", "shared", "waiting", "exclusive"}
  THEN Upto(spawned - 1) + done
  ELSE Upto(spawned)

Panicked == spawned # 0 /\ phase[spawned] \in {"panicked", "lost"}

(* A window ends where evaluation has come, but for what does not parse. *)
UpToDate(w) ==
  w # <<>> => /\ w[Len(w)] <= Seen
              /\ (w[Len(w)] + 1)..Seen \subseteq Malformed

Contiguous ==
  /\ \A g \in 1..Live : Adjoining(engine[g].window)
  /\ ~Panicked => UpToDate(engine[Live].window)
  /\ spawned # 0 /\ phase[spawned] = "shared" => engine[Live].window = <<>>

LEMMA UnusedStep ==
  ASSUME LInv, Unused, [Next]_vars
  PROVE  Unused'
<1>0. Live \in Nat /\ Live >= 1
  BY OrderedKept
<1>1. CASE \E k \in Kind : PrepareReload(k)
  BY <1>1 DEF PrepareReload, Unused, Live
<1>2. CASE CommitReload
  <2>1. /\ Live' = Live + 1 /\ staged' = <<>> /\ staged # <<>>
        /\ \A g \in 1..Live : engine'[g] = engine[g]
        /\ engine'[Live + 1].kind = staged[1].kind
        /\ engine'[Live + 1].window =
              IF KindOf(Live) = "correlation" /\ staged[1].kind = "correlation"
              THEN engine[Live].window ELSE staged[1].window
    BY <1>2, CommitEffect DEF LInv, CommitReload
  <2>2. \A g \in 1..Live' : g = Live + 1 \/ g \in 1..Live
    BY <1>0, <2>1
  <2> QED
    BY <2>1, <2>2 DEF Unused
<1>3. ASSUME NEW b \in Batch, Count(b) PROVE Unused'
  <2>1. /\ bound[b] = Live /\ Live' = Live
        /\ \A g \in 1..Live : engine'[g].kind = engine[g].kind
        /\ \A g \in 1..Live : g # Live => engine'[g] = engine[g]
    BY <1>3, CountsLive
  <2>2. engine[Live].kind = "correlation" /\ staged' = staged
    BY <1>3, <2>1 DEF Count, KindOf
  <2> QED
    BY <2>1, <2>2 DEF Unused
<1>4. CASE engine' = engine /\ staged' = staged
  BY <1>4 DEF Unused, Live
<1>5. staged' = staged \/ CommitReload \/ \E k \in Kind : PrepareReload(k)
  <2>1. CASE Arrive \/ Close \/ SinkTake \/ UNCHANGED vars
    BY <2>1 DEF Arrive, Close, SinkTake, engineVars, vars
  <2>2. CASE EngineStep
    BY <2>2 DEF EngineStep, TakeBatch, StopPulling, EngineExit, Forward, JoinPanicked, engineVars
  <2>3. ASSUME NEW b \in Batch, WorkerStep(b) \/ Panic(b)
        PROVE  staged' = staged
    BY <2>3 DEF WorkerStep, LoadEngine, LockOrder, EvaluateShared, Count, EvaluateExclusive,
                Panic, engineVars
  <2>4. CASE ReducerStep
    BY <2>4 DEF ReducerStep, ReducerReceive, ReducerForward, ReducerExit, engineVars
  <2>5. CASE DispatchStep
    BY <2>5 DEF DispatchStep, DispatchBatch, DispatchMalformed, DispatchEmpty, DispatchResult,
                DispatchExit, engineVars
  <2> QED
    BY <2>1, <2>2, <2>3, <2>4, <2>5 DEF Next, Terminated
<1> QED
  BY <1>1, <1>2, <1>3, <1>4, <1>5, EngineSteps

Early == {"spawned", "shared", "waiting", "exclusive"}

LEMMA SeenType ==
  ASSUME LInv, Cut
  PROVE  /\ Seen \in Nat
         /\ spawned \in Nat /\ Upto(spawned) \in Nat /\ done \in Nat
         /\ spawned # 0 => /\ spawned - 1 \in 0..spawned /\ Upto(spawned - 1) \in Nat
                           /\ spawned \in Batch /\ events[spawned] \in Seq(Event)
                           /\ Upto(spawned) = Upto(spawned - 1) + Len(events[spawned])
<1>1. spawned \in Nat /\ spawned <= NEvents /\ done \in Nat
  BY Queues DEF LInv, Types, EngineType
<1>2. spawned \in 0..spawned /\ Upto(spawned) \in Nat
  BY <1>1 DEF Cut
<1>3. ASSUME spawned # 0
      PROVE  /\ spawned - 1 \in 0..spawned /\ Upto(spawned - 1) \in Nat
             /\ spawned \in Batch /\ events[spawned] \in Seq(Event)
             /\ Upto(spawned) = Upto(spawned - 1) + Len(events[spawned])
  <2>1. spawned - 1 \in 0..spawned /\ spawned \in 1..spawned /\ spawned \in Batch
    BY <1>1, <1>3, Bounds DEF Batch
  <2>2. events[spawned] \in Seq(Event) /\ Len(events[spawned]) \in Nat
    BY <2>1, Channel DEF LInv, Types, BatchType
  <2>3. Len(events[spawned]) \in 1..Len(events[spawned])
    BY <2>1, <2>2 DEF Cut
  <2>4. Upto(spawned) = Upto(spawned - 1) + Len(events[spawned])
    BY <1>3, <2>1, <2>3 DEF Cut, Upto
  <2> QED
    BY <2>1, <2>2, <2>4 DEF Cut
<1> QED
  BY <1>1, <1>2, <1>3 DEF Seen

LEMMA SeenKept ==
  ASSUME LInv, [Next]_vars, spawned' = spawned, done' = done,
         spawned # 0 => (phase'[spawned] \in Early <=> phase[spawned] \in Early)
  PROVE  Seen' = Seen
<1>1. PICK k \in Nat : k = spawned
  BY Queues
<1>2. Upto(k)' = Upto(k) /\ (k # 0 => Upto(k - 1)' = Upto(k - 1))
  <2>1. k \in 0..spawned /\ (k # 0 => k - 1 \in 0..spawned)
    BY <1>1
  <2> QED
    BY <2>1, UptoKept
<1>3. Seen = IF k # 0 /\ phase[k] \in Early THEN Upto(k - 1) + done ELSE Upto(k)
  BY <1>1 DEF Seen, Early
<1>4. Seen' = IF k # 0 /\ phase'[k] \in Early THEN Upto(k - 1)' + done' ELSE Upto(k)'
  BY <1>1 DEF Seen, Early, Upto
<1> QED
  BY <1>1, <1>2, <1>3, <1>4

(* A batch that is not being counted has been counted up to 0 events. *)
LEMMA NoneDone ==
  ASSUME LInv, Serial, spawned # 0, phase[spawned] # "exclusive"
  PROVE  order = 0 /\ done = 0
<1>1. order # 0 => order \in Batch /\ phase[order] = "exclusive"
  BY DEF LInv, Locked, Types, EngineType
<1> QED
  BY <1>1 DEF Serial, Busy, LInv, Locked

LEMMA QuietSteps ==
  ASSUME [Next]_vars
  PROVE  \/ UNCHANGED <<spawned, phase, done, engine>>
         \/ TakeBatch
         \/ \E b \in Batch : WorkerStep(b) \/ Panic(b) \/ Forward(b) \/ JoinPanicked(b)
         \/ CommitReload
<1>1. CASE Arrive \/ Close \/ SinkTake \/ UNCHANGED vars
  BY <1>1 DEF Arrive, Close, SinkTake, batchVars, engineVars, vars
<1>2. CASE StopPulling \/ EngineExit
  BY <1>2 DEF StopPulling, EngineExit, batchVars, engineVars
<1>3. CASE \E k \in Kind : PrepareReload(k)
  BY <1>3 DEF PrepareReload, batchVars
<1>4. CASE ReducerStep
  BY <1>4 DEF ReducerStep, ReducerReceive, ReducerForward, ReducerExit, batchVars, engineVars
<1>5. CASE DispatchStep
  BY <1>5 DEF DispatchStep, DispatchBatch, DispatchMalformed, DispatchEmpty, DispatchResult,
              DispatchExit, batchVars, engineVars
<1> QED
  BY <1>1, <1>2, <1>3, <1>4, <1>5 DEF Next, EngineStep, Terminated

(* Steps that leave the engines alone. *)
LEMMA ContiguousKept ==
  ASSUME Contiguous, engine' = engine,
         ~Panicked' => ~Panicked /\ (engine[Live].window = <<>> \/ Seen' = Seen),
         spawned' # 0 /\ phase'[spawned'] = "shared" => engine[Live].window = <<>>
  PROVE  Contiguous'
<1>1. Live' = Live
  BY DEF Live
<1>2. \A g \in 1..Live' : Adjoining(engine[g].window)'
  BY <1>1 DEF Contiguous, Adjoining
<1>3. ~Panicked' => UpToDate(engine[Live].window)'
  BY <1>1 DEF Contiguous, UpToDate
<1>4. spawned' # 0 /\ phase'[spawned'] = "shared" => engine'[Live'].window = <<>>
  BY <1>1
<1> QED
  BY <1>2, <1>3, <1>4 DEF Contiguous

(* The next event of the batch in hand. *)
LEMMA ContiguousCount ==
  ASSUME LInv, Cut, Serial, Contiguous, [Next]_vars, NEW b \in Batch, Count(b)
  PROVE  Contiguous'
<1> DEFINE e == events[b][done + 1]
           w == engine[Live].window
<1>1. /\ order = b /\ bound[b] = Live /\ Live \in 1..Live
      /\ done + 1 \in 1..Len(events[b]) /\ done' = done + 1
      /\ e \in Event /\ Live' = Live
      /\ \A g \in 1..Live : g # Live => engine'[g] = engine[g]
      /\ engine'[Live].window = IF e \in Malformed THEN w ELSE Append(w, e)
  BY CountsLive
<1>2. b = spawned /\ spawned # 0 /\ phase[b] = "exclusive" /\ spawned' = spawned /\ phase' = phase
  BY Bounds DEF Count, Serial, Busy, batchVars
<1>3. Seen \in Nat /\ Upto(spawned - 1) \in Nat /\ done \in Nat /\ spawned \in Nat
  BY <1>2, SeenType
<1>4. Seen = Upto(spawned - 1) + done
  BY <1>2 DEF Seen
<1>5. Seen' = Seen + 1
  <2>1. PICK k \in Nat : k = spawned
    BY <1>3
  <2>2. Upto(k - 1)' = Upto(k - 1)
    <3>1. k - 1 \in 0..spawned
      BY <1>2, <2>1
    <3> QED
      BY <3>1, UptoKept
  <2>3. Seen' = Upto(k - 1)' + done'
    BY <1>2, <2>1 DEF Seen, Upto
  <2> QED
    BY <1>1, <1>3, <1>4, <2>1, <2>2, <2>3
<1>6. e = Seen + 1
  <2>1. b \in 1..spawned
    BY <1>2, <1>3, Bounds
  <2>2. e = Upto(b - 1) + (done + 1)
    BY <1>1, <2>1 DEF Cut
  <2> QED
    BY <1>2, <1>3, <1>4, <2>2
<1>7. w \in Seq(Event) /\ Len(w) \in Nat /\ (\A i \in 1..Len(w) : w[i] \in Nat)
      /\ (w # <<>> => Len(w) >= 1)
  BY <1>1, WindowType, Channel, Bounds
<1>8. UpToDate(w) /\ Adjoining(w)
  BY <1>1, <1>2 DEF Contiguous, Panicked
<1>9. Adjoining(engine'[Live].window) /\ UpToDate(engine[Live].window)'
  <2>1. CASE e \in Malformed
    <3>1. engine'[Live].window = w
      BY <1>1, <2>1
    <3>2. ASSUME w # <<>>
          PROVE  w[Len(w)] <= Seen' /\ (w[Len(w)] + 1)..Seen' \subseteq Malformed
      <4>1. w[Len(w)] \in Nat /\ w[Len(w)] <= Seen /\ (w[Len(w)] + 1)..Seen \subseteq Malformed
        BY <1>7, <1>8, <3>2 DEF UpToDate
      <4>2. \A x \in (w[Len(w)] + 1)..(Seen + 1) : x = e \/ x \in (w[Len(w)] + 1)..Seen
        BY <1>3, <1>6, <4>1
      <4> QED
        BY <1>3, <1>5, <2>1, <4>1, <4>2
    <3> QED
      BY <1>1, <1>8, <3>1, <3>2 DEF UpToDate
  <2>2. CASE e \notin Malformed
    <3> DEFINE v == Append(w, e)
    <3>1. engine'[Live].window = v
      BY <1>1, <2>2
    <3>2. /\ Len(v) = Len(w) + 1 /\ v[Len(w) + 1] = e
          /\ \A i \in 1..Len(w) : v[i] = w[i]
      BY <1>1, <1>7, Channel
    <3> HIDE DEF v
    <3>3. ASSUME NEW i \in 1..(Len(v) - 1)
          PROVE  v[i] < v[i + 1] /\ (v[i] + 1)..(v[i + 1] - 1) \subseteq Malformed
      <4>1. i \in 1..Len(w)
        BY <1>7, <3>2
      <4>2. CASE i = Len(w)
        <5>1. w # <<>> /\ w[i] \in Nat /\ v[i] = w[i] /\ v[i + 1] = e
          BY <1>7, <3>2, <4>1, <4>2, Channel
        <5>2. w[i] <= Seen /\ (w[i] + 1)..Seen \subseteq Malformed
          BY <1>8, <4>2, <5>1 DEF UpToDate
        <5>3. e - 1 = Seen /\ w[i] < e
          BY <1>3, <1>6, <5>1, <5>2
        <5> QED
          BY <5>1, <5>2, <5>3
      <4>3. CASE i # Len(w)
        <5>1. i \in 1..(Len(w) - 1) /\ i + 1 \in 1..Len(w)
          BY <1>7, <4>1, <4>3
        <5> QED
          BY <1>8, <3>2, <4>1, <5>1 DEF Adjoining
      <4> QED
        BY <4>2, <4>3
    <3>4. v[Len(v)] <= Seen' /\ (v[Len(v)] + 1)..Seen' \subseteq Malformed
      <4>1. v[Len(v)] = Seen' /\ Seen' \in Nat
        BY <1>3, <1>5, <1>6, <3>2
      <4>2. PICK n \in Nat : n = Seen'
        BY <4>1
      <4>3. n <= n /\ (n + 1)..n = {}
        OBVIOUS
      <4> QED
        BY <4>1, <4>2, <4>3
    <3> QED
      BY <1>1, <3>1, <3>3, <3>4 DEF UpToDate, Adjoining
  <2> QED
    BY <2>1, <2>2
<1>10. \A g \in 1..Live' : Adjoining(engine[g].window)'
  <2>1. \A g \in 1..Live : g # Live => Adjoining(engine'[g].window)
    BY <1>1 DEF Contiguous
  <2> QED
    BY <1>1, <1>9, <2>1 DEF Adjoining
<1> QED
  BY <1>1, <1>2, <1>9, <1>10 DEF Contiguous

LEMMA ContiguousStep ==
  ASSUME LInv, Cut, Ordered, Serial, Unused, Contiguous, [Next]_vars
  PROVE  Contiguous'
<1>0. Live \in Nat /\ Live >= 1 /\ Live \in 1..Live /\ spawned \in Nat
  <2>1. Live \in Nat /\ Live >= 1
    BY OrderedKept
  <2> QED
    BY <2>1, Queues
<1>1. phase \in [Batch -> Phase]
  BY DEF LInv, Types, BatchType
<1>2. CASE UNCHANGED <<spawned, phase, done, engine>>
  <2>1. Seen' = Seen
    BY <1>2, SeenKept
  <2> QED
    BY <1>2, <2>1, ContiguousKept DEF Contiguous, Panicked
<1>3. CASE TakeBatch
  <2>1. PICK k \in Batch : k = spawned + 1
    BY <1>3, TakeEffect DEF LInv
  <2>2. spawned' = k /\ phase' = [phase EXCEPT ![k] = "spawned"]
    BY <1>3, <2>1, TakeEffect DEF LInv
  <2>3. engine' = engine /\ done' = done
    BY <1>3 DEF TakeBatch, engineVars
  <2>4. \A b \in Batch : phase[b] \notin Busy /\ phase[b] # "lost"
    BY <1>3, TakeSerial
  <2>5. spawned # 0 => spawned \in Batch
    BY SeenType
  <2>6. Seen = Upto(spawned) /\ ~Panicked
    BY <2>4, <2>5 DEF Seen, Panicked, Busy
  <2>7. done = 0
    BY <2>4, Bounds DEF LInv, Locked, Types, EngineType, Busy
  <2>8. Seen' = Upto(k - 1)' + 0
    <3>1. k # 0 /\ phase'[k] = "spawned"
      BY <1>1, <2>1, <2>2, Bounds
    <3> QED
      BY <2>2, <2>3, <2>7, <3>1 DEF Seen, Upto
  <2>9. Upto(k - 1)' = Upto(spawned) /\ Upto(spawned) \in Nat
    <3>1. k - 1 = spawned /\ k - 1 \in 0..spawned
      BY <1>0, <2>1
    <3>2. Upto(k - 1)' = Upto(k - 1)
      BY <3>1, UptoKept
    <3> QED
      BY <3>1, <3>2, SeenType
  <2>10. Seen' = Seen
    BY <2>6, <2>8, <2>9
  <2>11. phase'[spawned'] = "spawned"
    BY <1>1, <2>2
  <2> QED
    BY <2>3, <2>6, <2>10, <2>11, ContiguousKept
<1>4. ASSUME NEW b \in Batch, WorkerStep(b) \/ Panic(b) \/ Forward(b) \/ JoinPanicked(b)
      PROVE  Contiguous'
  <2>1. b = spawned /\ spawned' = spawned /\ spawned # 0
    <3>1. phase[b] \in Busy /\ spawned' = spawned
      BY <1>4
         DEF WorkerStep, LoadEngine, LockOrder, EvaluateShared, Count, EvaluateExclusive, Panic,
             Forward, JoinPanicked, batchVars, Busy
    <3> QED
      BY <3>1, Bounds DEF Serial
  <2>2. CASE LoadEngine(b)
    <3>1. /\ phase[b] = "spawned" /\ engine' = engine /\ done' = done
          /\ phase'[b] = IF KindOf(Live) = "detection" THEN "shared" ELSE "waiting"
      BY <1>1, <2>2 DEF LoadEngine, engineVars
    <3>2. Seen' = Seen
      BY <2>1, <3>1, SeenKept DEF Early
    <3>3. phase'[b] = "shared" => engine[Live].window = <<>>
      BY <1>0, <3>1 DEF Unused, KindOf
    <3> QED
      BY <2>1, <3>1, <3>2, <3>3, ContiguousKept DEF Panicked
  <2>3. CASE LockOrder(b)
    <3>1. /\ phase[b] = "waiting" /\ engine' = engine /\ done' = done
          /\ phase'[b] = "exclusive"
      BY <1>1, <2>3 DEF LockOrder
    <3>2. Seen' = Seen
      BY <2>1, <3>1, SeenKept DEF Early
    <3> QED
      BY <2>1, <3>1, <3>2, ContiguousKept DEF Panicked
  <2>4. CASE EvaluateShared(b)
    <3>1. phase[b] = "shared" /\ engine' = engine /\ phase'[b] = "evaluated"
      BY <1>1, <2>4 DEF EvaluateShared, engineVars
    <3>2. engine[Live].window = <<>>
      BY <2>1, <3>1 DEF Contiguous
    <3> QED
      BY <2>1, <3>1, <3>2, ContiguousKept DEF Panicked
  <2>5. CASE Count(b)
    BY <2>5, ContiguousCount
  <2>6. CASE EvaluateExclusive(b)
    <3>1. /\ phase[b] = "exclusive" /\ engine' = engine /\ phase'[b] = "evaluated"
          /\ KindOf(bound[b]) = "correlation" => done = Len(events[b])
      BY <1>1, <2>6 DEF EvaluateExclusive
    <3>2. bound[b] = Live
      BY <2>1, <3>1 DEF LInv, Locked
    <3>3. CASE KindOf(Live) = "correlation"
      <4>1. Seen = Upto(spawned)
        BY <2>1, <3>1, <3>2, <3>3, SeenType DEF Seen
      <4>2. Seen' = Upto(spawned)
        <5>1. Upto(b)' = Upto(b)
          <6>1. b \in 0..spawned
            BY <1>0, <2>1
          <6> QED
            BY <6>1, UptoKept
        <5>2. Seen' = Upto(b)'
          BY <2>1, <3>1 DEF Seen, Upto
        <5> QED
          BY <2>1, <5>1, <5>2
      <4> QED
        BY <2>1, <3>1, <4>1, <4>2, ContiguousKept DEF Panicked
    <3>4. CASE KindOf(Live) # "correlation"
      <4>1. engine[Live].kind = "detection"
        BY <1>0, <3>4, WindowType DEF KindOf, Rules, Kind
      <4>2. engine[Live].window = <<>>
        BY <1>0, <4>1 DEF Unused
      <4> QED
        BY <2>1, <3>1, <4>2, ContiguousKept DEF Panicked
    <3> QED
      BY <3>3, <3>4
  <2>7. CASE Panic(b)
    <3>1. engine' = engine /\ phase'[b] = "panicked"
      BY <1>1, <2>7 DEF Panic
    <3> QED
      BY <2>1, <3>1, ContiguousKept DEF Panicked
  <2>8. CASE Forward(b)
    <3>1. /\ phase[b] = "evaluated" /\ engine' = engine /\ done' = done
          /\ phase'[b] = "forwarded"
      BY <1>1, <2>8 DEF Forward, engineVars
    <3>2. Seen' = Seen
      BY <2>1, <3>1, SeenKept DEF Early
    <3> QED
      BY <2>1, <3>1, <3>2, ContiguousKept DEF Panicked
  <2>9. CASE JoinPanicked(b)
    <3>1. engine' = engine /\ phase'[b] = "lost"
      BY <1>1, <2>9 DEF JoinPanicked, engineVars
    <3> QED
      BY <2>1, <3>1, ContiguousKept DEF Panicked
  <2> QED
    BY <1>4, <2>2, <2>3, <2>4, <2>5, <2>6, <2>7, <2>8, <2>9 DEF WorkerStep
<1>5. CASE CommitReload
  <2>1. /\ Live' = Live + 1 /\ staged # <<>>
        /\ \A g \in 1..Live : engine'[g] = engine[g]
        /\ engine'[Live + 1].window =
              IF KindOf(Live) = "correlation" /\ staged[1].kind = "correlation"
              THEN engine[Live].window ELSE staged[1].window
    BY <1>5, CommitEffect DEF LInv, CommitReload
  <2>2. spawned' = spawned /\ phase' = phase /\ done' = done
    BY <1>5 DEF CommitReload, batchVars
  <2>3. Seen' = Seen /\ Panicked' = Panicked
    BY <2>2, SeenKept DEF Panicked
  <2>4. engine'[Live + 1].window = engine[Live].window \/ engine'[Live + 1].window = <<>>
    BY <2>1 DEF Unused
  <2>5. Adjoining(<<>>)
    BY DEF Adjoining
  <2>6. \A g \in 1..Live' : Adjoining(engine'[g].window)
    <3>1. \A g \in 1..Live' : g = Live + 1 \/ g \in 1..Live
      BY <1>0, <2>1
    <3>2. Adjoining(engine'[Live + 1].window)
      BY <1>0, <2>4, <2>5 DEF Contiguous
    <3> QED
      BY <2>1, <3>1, <3>2 DEF Contiguous
  <2>7. ~Panicked' => UpToDate(engine[Live].window)'
    BY <2>1, <2>3, <2>4 DEF Contiguous, UpToDate
  <2>8. spawned' # 0 /\ phase'[spawned'] = "shared" => engine'[Live'].window = <<>>
    BY <2>1, <2>2, <2>4 DEF Contiguous
  <2> QED
    BY <2>6, <2>7, <2>8 DEF Contiguous, Adjoining
<1> QED
  BY <1>2, <1>3, <1>4, <1>5, QuietSteps

WInv == LInv /\ Cut /\ Unused /\ (Ordered => Serial /\ Contiguous)

(* The windows of a daemon that starts with correlation rules see events    *)
(* once, in order and without a gap, whatever is reloaded.                  *)
THEOREM WindowsCorrect == Spec => []WindowsContiguous
<1>1. Init => WInv
  <2> SUFFICES ASSUME Init PROVE Unused /\ Serial /\ Contiguous
    BY OrderInit DEF WInv, OInv
  <2>1. PICK k \in Kind : engine = <<[kind |-> k, window |-> <<>>]>>
    BY DEF Init
  <2>2. Live = 1 /\ engine[1].window = <<>>
    BY <2>1 DEF Live
  <2>3. Unused
    BY <2>2 DEF Init, Unused
  <2>4. Serial
    BY DEF Init, Serial, Busy
  <2>5. Contiguous
    BY <2>2 DEF Init, Contiguous, Adjoining, UpToDate
  <2> QED
    BY <2>3, <2>4, <2>5
<1>2. WInv /\ [Next]_vars => WInv'
  <2> SUFFICES ASSUME WInv, [Next]_vars PROVE WInv'
    OBVIOUS
  <2>1. LInv' /\ Cut' /\ Unused'
    BY LockStep, CutStep, UnusedStep DEF WInv
  <2>2. ASSUME Ordered PROVE Serial' /\ Contiguous'
    BY <2>2, SerialStep, ContiguousStep DEF WInv
  <2> QED
    BY <2>1, <2>2, OrderedKept DEF WInv
<1>3. WInv => WindowsContiguous
  BY DEF WInv, Ordered, Contiguous, Adjoining, WindowsContiguous
<1> QED
  BY <1>1, <1>2, <1>3, PTL DEF Spec

=============================================================================
