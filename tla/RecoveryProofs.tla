--------------------------- MODULE RecoveryProofs ---------------------------
(***************************************************************************)
(* Proofs about Recovery, for any events, replays, savers and number of    *)
(* restarts.                                                               *)
(*                                                                         *)
(* CutCoversAcks speaks of the database only and is not inductive: what a  *)
(* save will write was captured steps earlier, from state that was reached *)
(* before the acknowledgement.  Covered follows an event along that way:   *)
(* counted once it has left the engine (FlowCovered), scored once it is    *)
(* past the sink task, in every half-captured cut whose position is        *)
(* already read (CutCovered), and in the database a restart reads          *)
(* (DbCovered).                                                            *)
(***************************************************************************)
EXTENDS Recovery, TLAPS

Counted(e) == Correlating => counted[e] >= 1
Scored(e)  == e \in Hits => scored[e] >= 1

FlowCovered ==
  /\ \A i \in 1..Len(sinkq) : Counted(sinkq[i])
  /\ \A e \in delivering \cup ackq \cup settled.windows : Counted(e)
  /\ \A e \in delivering \cup ackq \cup settled.stores : Scored(e)

PositionCovered == hw # None => hw.seq \in settled.windows

(* What a cut under way has captured so far covers the acks it stands for.  *)
GoodCut(c) ==
  /\ c.phase \in {"position", "windows", "captured"} =>
       /\ c.settled.windows \subseteq settled.windows
       /\ c.settled.stores \subseteq settled.stores
       /\ c.pos # None => c.pos.seq \in c.settled.windows
       /\ ~Correlating => c.base.counted = None
  /\ c.phase \in {"windows", "captured"} =>
       /\ c.counted # None <=> Correlating
       /\ \A e \in c.settled.windows : Correlating => c.counted[e] >= 1
  /\ c.phase = "captured" =>
       \A e \in c.settled.stores : e \in Hits => c.scored[e] >= 1

CutCovered == \A s \in Savers : GoodCut(save[s])

DbCovered ==
  /\ CutCoversAcks
  /\ ~Correlating =>
       db.pos = None /\ db.counted = None /\ db.settled.windows = {}

Covered == TypeOK /\ FlowCovered /\ PositionCovered /\ CutCovered /\ DbCovered

-----------------------------------------------------------------------------
(* Type correctness. *)

(* What the queue operations do to the type of a channel. *)
LEMMA Channel ==
  ASSUME NEW S, NEW q \in Seq(S), NEW e \in S
  PROVE  /\ Append(q, e) \in Seq(S)
         /\ q # <<>> => Head(q) \in S /\ Tail(q) \in Seq(S)
  OBVIOUS

LEMMA NoCutType == NoCut.phase = "idle" /\ NoCut \in Cut
  BY DEF NoCut, NoRows, Nothing, Acks, Position, Cut

DbType ==
  db \in [counted : Counts \cup {None}, pos : Position,
          scored : Counts \cup {None}, settled : Acks, by : Savers \cup {None}]

(* The cuts that the steps of a saver leave behind. *)
LEMMA CutType ==
  ASSUME NEW c \in Cut, DbType
  PROVE  /\ \A p \in Position, a \in Acks :
              [NoCut EXCEPT !.phase = "position", !.pos = p, !.settled = a,
                            !.base = Rows] \in Cut
         /\ \A w \in Counts \cup {None} :
              [c EXCEPT !.phase = "windows", !.counted = w] \in Cut
         /\ \A w \in Counts :
              [c EXCEPT !.phase = "captured", !.scored = w] \in Cut
<1>1. Rows \in [counted : Counts \cup {None}, scored : Counts \cup {None}]
  BY DEF Rows, DbType
<1> QED
  BY NoCutType, <1>1 DEF Cut

LEMMA AfterSaveType ==
  ASSUME NEW s, NEW outcome \in {"done", "failed"}
  PROVE  /\ AfterSave(s, outcome) \in Cut
         /\ AfterSave(s, outcome).phase \in {"idle", "done", "failed"}
  BY NoCutType DEF AfterSave, Cut

(* One more evaluation, or one more score, of an event. *)
LEMMA BumpType ==
  ASSUME NEW c \in Counts, NEW e \in Event
  PROVE  [c EXCEPT ![e] = @ + 1] \in Counts
  BY DEF Counts

LEMMA ZeroType == Zero \in Counts
  BY DEF Zero, Counts

(* The position the ack task keeps is that of an event. *)
LEMMA AdvanceType ==
  ASSUME hw \in Position, NEW e \in Event
  PROVE  /\ Advance(e) \in [seq : Event, time : Nat]
         /\ Advance(e).seq = e \/ (hw # None /\ Advance(e).seq = hw.seq)
<1>1. TimeOf[e] \in Nat
  BY ConstantsAssumption
<1>2. CASE hw = None
  BY <1>1, <1>2 DEF Advance
<1>3. CASE hw # None
  <2>1. hw.seq \in Event /\ hw.time \in Nat
    BY <1>3 DEF Position
  <2> QED
    BY <1>1, <1>3, <2>1 DEF Advance
<1> QED
  BY <1>2, <1>3

LEMMA ReplayType ==
  ASSUME published \in 0..NEvents, NEW how
  PROVE  ReplaySet(how) \subseteq Event /\ 1..published \subseteq Event
  BY ConstantsAssumption DEF ReplaySet, Event

(* What a start finds restored, per row. *)
LEMMA OutcomeType ==
  ASSUME NEW how, NEW load
  PROVE  /\ WindowsOutcome(how, load) \in {"none", "restored", "fresh"}
         /\ StoresOutcome(how, load) \in {"none", "restored", "fresh"}
         /\ WindowsOutcome(how, load) = "restored" => db.counted # None
         /\ StoresOutcome(how, load) = "restored" => db.scored # None
  BY DEF WindowsOutcome, StoresOutcome, Outcome

LEMMA RestoredType ==
  ASSUME DbType, NEW how, NEW load
  PROVE  /\ Restored(how, load) \in Acks
         /\ Restored(how, load).windows \subseteq db.settled.windows
         /\ Restored(how, load).stores \subseteq db.settled.stores
  BY DEF Restored, DbType, Acks

LEMMA TypeInit == Init => TypeOK
<1> SUFFICES ASSUME Init PROVE TypeOK
  OBVIOUS
<1> USE ConstantsAssumption, ZeroType, NoCutType DEF Init
<1>1. published \in 0..NEvents /\ redelivered \in Nat /\ restarts \in Nat
  OBVIOUS
<1>2. inq \in Seq(Event) /\ sinkq \in Seq(Event)
  OBVIOUS
<1>3. DbType /\ settled \in Acks
  BY DEF Position, DbType, Acks, Nothing
<1>4. hw \in Position
  BY DEF Position
<1>5. save \in [Savers -> Cut]
  OBVIOUS
<1>6. start \in [windows : {"none", "restored", "fresh"},
                stores : {"none", "restored", "fresh"}, twice : SUBSET Event]
  OBVIOUS
<1> QED
  BY <1>1, <1>2, <1>3, <1>4, <1>5, <1>6 DEF TypeOK, DbType

LEMMA TypeStep == TypeOK /\ [Next]_vars => TypeOK'
<1> SUFFICES ASSUME TypeOK, [Next]_vars PROVE TypeOK'
  OBVIOUS
<1> USE ConstantsAssumption
<1> USE DEF TypeOK, vars, sourceVars, flowVars, stateVars, diskVars, startVars
<1>0. DbType
  BY DEF DbType
<1>1. CASE Publish
  <2>1. published + 1 \in Event /\ published + 1 \in 0..NEvents
    BY <1>1 DEF Publish, Event
  <2> QED
    BY <1>1, <2>1 DEF Publish
<1>2. ASSUME NEW e \in Event, Redeliver(e) PROVE TypeOK'
  BY <1>2 DEF Redeliver
<1>3. ASSUME NEW e \in Event, Receive(e) PROVE TypeOK'
  <2>1. Append(inq, e) \in Seq(Event)
    BY Channel
  <2> QED
    BY <1>3, <2>1 DEF Receive, HandOut
<1>4. ASSUME NEW e \in Event, SkipBlank(e) PROVE TypeOK'
  BY <1>4 DEF SkipBlank, HandOut
<1>5. ASSUME NEW empty \in BOOLEAN, Evaluate(empty) PROVE TypeOK'
  <2>1. Head(inq) \in Event /\ Tail(inq) \in Seq(Event)
    BY <1>5 DEF Evaluate
  <2>2. counted' \in Counts
    <3>1. [counted EXCEPT ![Head(inq)] = @ + 1] \in Counts
      BY <2>1, BumpType
    <3>2. counted' = counted \/ counted' = [counted EXCEPT ![Head(inq)] = @ + 1]
      BY <1>5 DEF Evaluate
    <3> QED
      BY <3>1, <3>2
  <2>3. ackq' \subseteq Event /\ sinkq' \in Seq(Event)
    <3>1. Append(sinkq, Head(inq)) \in Seq(Event)
      BY <2>1, Channel
    <3>2. /\ ackq' \in {ackq, ackq \cup {Head(inq)}}
          /\ sinkq' \in {sinkq, Append(sinkq, Head(inq))}
      BY <1>5 DEF Evaluate
    <3> QED
      BY <2>1, <3>1, <3>2
  <2> QED
    BY <1>5, <2>1, <2>2, <2>3 DEF Evaluate
<1>6. ASSUME NEW folded \in BOOLEAN, SinkScore(folded) PROVE TypeOK'
  <2>1. Head(sinkq) \in Event /\ Tail(sinkq) \in Seq(Event)
    BY <1>6 DEF SinkScore
  <2>2. scored' \in Counts
    <3>1. [scored EXCEPT ![Head(sinkq)] = @ + 1] \in Counts
      BY <2>1, BumpType
    <3>2. scored' = [scored EXCEPT ![Head(sinkq)] = @ + 1]
      BY <1>6 DEF SinkScore
    <3> QED
      BY <3>1, <3>2
  <2>3. ackq' \subseteq Event /\ delivering' \subseteq Hits
    BY <1>6, <2>1 DEF SinkScore
  <2> QED
    BY <1>6, <2>1, <2>2, <2>3 DEF SinkScore
<1>7. CASE SinkSuppress
  <2>1. Head(sinkq) \in Event /\ Tail(sinkq) \in Seq(Event)
    BY <1>7 DEF SinkSuppress
  <2> QED
    BY <1>7, <2>1 DEF SinkSuppress
<1>8. ASSUME NEW e \in Event, Deliver(e) PROVE TypeOK'
  BY <1>8 DEF Deliver
<1>9. ASSUME NEW e \in Event, NEW sent \in BOOLEAN, AckToken(e, sent) PROVE TypeOK'
  <2>1. hw' \in Position
    BY <1>9, AdvanceType DEF AckToken, Position
  <2>2. settled' \in Acks
    BY <1>9 DEF AckToken, Acks
  <2> QED
    BY <1>9, <2>1, <2>2 DEF AckToken
<1>10. ASSUME NEW s \in Savers, CapturePosition(s) PROVE TypeOK'
  <2>1. PICK c \in Cut : save' = [save EXCEPT ![s] = c]
    BY <1>0, <1>10, CutType, NoCutType DEF CapturePosition
  <2> QED
    BY <1>10, <2>1 DEF CapturePosition
<1>11. ASSUME NEW s \in Savers, CaptureWindows(s) PROVE TypeOK'
  <2>1. (IF Correlating THEN counted ELSE None) \in Counts \cup {None}
    OBVIOUS
  <2>2. PICK c \in Cut : save' = [save EXCEPT ![s] = c]
    BY <1>0, <1>11, <2>1, CutType DEF CaptureWindows
  <2> QED
    BY <1>11, <2>2 DEF CaptureWindows
<1>12. ASSUME NEW s \in Savers, CaptureStores(s) PROVE TypeOK'
  <2>1. PICK c \in Cut : save' = [save EXCEPT ![s] = c]
    BY <1>0, <1>12, CutType DEF CaptureStores
  <2> QED
    BY <1>12, <2>1 DEF CaptureStores
<1>13. ASSUME NEW s \in Savers, SaveAll(s) PROVE TypeOK'
  <2>1. PICK c \in Cut : save' = [save EXCEPT ![s] = c]
    BY <1>13, AfterSaveType DEF SaveAll
  <2>2. save[s] \in Cut
    OBVIOUS
  <2>3. DbType'
    BY <1>0, <1>13, <2>2 DEF SaveAll, DbType, Cut, Acks
  <2> QED
    BY <1>13, <2>1, <2>3 DEF SaveAll, DbType
<1>14. ASSUME NEW s \in Savers, SaveFails(s) PROVE TypeOK'
  <2>1. PICK c \in Cut : save' = [save EXCEPT ![s] = c]
    BY <1>14, AfterSaveType DEF SaveFails
  <2> QED
    BY <1>14, <2>1 DEF SaveFails
<1>15. CASE Shutdown
  BY <1>15 DEF Shutdown
<1>16. CASE DrainTimeout
  BY <1>16 DEF DrainTimeout
<1>17. ASSUME NEW how \in Starts, NEW created \in BOOLEAN, NEW load \in Loads,
              Restart(how, created, load)
       PROVE  TypeOK'
  <2>1. counted' \in Counts /\ scored' \in Counts
    BY <1>17, ZeroType, OutcomeType DEF Restart, RestoreWindows, RestoreStores
  <2>2. todo' \subseteq Event /\ seen' \subseteq Event /\ acked' \subseteq Event
    <3>1. ReplaySet(how) \subseteq Event /\ 1..published \subseteq Event
      BY ReplayType
    <3>2. todo' \in {ReplaySet(how), (1..published) \ acked}
      BY <1>17 DEF Restart
    <3>3. seen' \in {{}, seen} /\ acked' \in {{}, acked}
      BY <1>17 DEF Restart
    <3> QED
      BY <3>1, <3>2, <3>3
  <2>3. save' \in [Savers -> Cut]
    BY <1>17, NoCutType DEF Restart
  <2>4. start' \in [windows : {"none", "restored", "fresh"},
                   stores : {"none", "restored", "fresh"}, twice : SUBSET Event]
    <3>1. Restored(how, load) \in Acks
      BY <1>0, RestoredType
    <3>2. start'.twice \subseteq Event
      BY <1>17, <3>1 DEF Restart, Acks
    <3> QED
      BY <1>17, <3>2, OutcomeType DEF Restart
  <2>5. inq' \in Seq(Event) /\ sinkq' \in Seq(Event)
    BY <1>17 DEF Restart
  <2>6. settled' \in Acks /\ hw' \in Position
    BY <1>0, <1>17, RestoredType DEF Restart, Position
  <2> QED
    BY <1>17, <2>1, <2>2, <2>3, <2>4, <2>5, <2>6 DEF Restart
<1>18. CASE UNCHANGED vars
  BY <1>18
<1> HIDE DEF TypeOK, vars
<1> QED
  BY <1>1, <1>2, <1>3, <1>4, <1>5, <1>6, <1>7, <1>8, <1>9, <1>10, <1>11, <1>12,
     <1>13, <1>14, <1>15, <1>16, <1>17, <1>18 DEF Next, SinkStep, SaverStep,
     SourceStep

(* The state of the daemon, its database and its consumer is well formed. *)
THEOREM TypeCorrect == Spec => []TypeOK
  BY TypeInit, TypeStep, PTL DEF Spec

-----------------------------------------------------------------------------
(* The cut covers the acks. *)

LEMMA CoveredInit == Init => Covered
<1> SUFFICES ASSUME Init PROVE Covered
  OBVIOUS
<1>1. TypeOK
  BY TypeInit
<1>2. FlowCovered /\ PositionCovered
  BY DEF Init, FlowCovered, PositionCovered, Nothing
<1>3. \A s \in Savers : save[s].phase = "idle"
  BY NoCutType DEF Init
<1>4. CutCovered
  BY <1>3 DEF CutCovered, GoodCut
<1>5. DbCovered
  BY DEF Init, DbCovered, CutCoversAcks, Nothing
<1> QED
  BY <1>1, <1>2, <1>4, <1>5 DEF Covered

(* The steps of the stream, the source and the shutdown leave all that      *)
(* Covered speaks of as it is.                                              *)
LEMMA Untouched ==
  ASSUME Covered, TypeOK',
         UNCHANGED <<sinkq, delivering, ackq, stateVars, diskVars>>
  PROVE  Covered'
<1>1. FlowCovered' /\ PositionCovered'
  BY DEF Covered, FlowCovered, PositionCovered, Counted, Scored, stateVars
<1>2. CutCovered'
  BY DEF Covered, CutCovered, GoodCut, stateVars, diskVars
<1>3. DbCovered'
  BY DEF Covered, DbCovered, CutCoversAcks, diskVars
<1> QED
  BY <1>1, <1>2, <1>3 DEF Covered

(* A step of the pipeline leaves the cuts and the database alone.           *)
LEMMA FlowOnly ==
  ASSUME Covered, TypeOK', FlowCovered', PositionCovered',
         settled.windows \subseteq settled'.windows,
         settled.stores \subseteq settled'.stores, UNCHANGED diskVars
  PROVE  Covered'
<1>1. CutCovered'
  BY DEF Covered, CutCovered, GoodCut, diskVars
<1>2. DbCovered'
  BY DEF Covered, DbCovered, CutCoversAcks, diskVars
<1> QED
  BY <1>1, <1>2 DEF Covered

(* A step of a saver leaves the pipeline alone.                             *)
LEMMA SaverOnly ==
  ASSUME Covered, TypeOK', CutCovered', DbCovered',
         UNCHANGED <<flowVars, stateVars>>
  PROVE  Covered'
<1>1. FlowCovered' /\ PositionCovered'
  BY DEF Covered, FlowCovered, PositionCovered, Counted, Scored, stateVars, flowVars
<1> QED
  BY <1>1 DEF Covered

LEMMA EvaluateCovered ==
  ASSUME Covered, TypeOK', NEW empty \in BOOLEAN, Evaluate(empty)
  PROVE  Covered'
<1>0. PICK h \in Event : h = Head(inq)
  BY DEF Evaluate, Covered, TypeOK
<1>1. sinkq \in Seq(Event) /\ counted \in [Event -> Nat] /\ Correlating \in BOOLEAN
  BY ConstantsAssumption DEF Covered, TypeOK, Counts
<1>2. \A e \in Event : counted'[e] >= counted[e]
  BY <1>1 DEF Evaluate
<1>3. Counted(h)'
  BY <1>0, <1>1 DEF Evaluate, Counted
<1>4. \A e \in Event : Counted(e) => Counted(e)'
  <2>1. counted' \in [Event -> Nat]
    BY DEF TypeOK, Counts
  <2> QED
    BY <1>1, <1>2, <2>1 DEF Counted
<1>5. \A i \in 1..Len(sinkq) : sinkq[i] \in Event /\ Counted(sinkq[i])
  BY <1>1 DEF Covered, FlowCovered
<1>6. delivering \cup ackq \cup settled.windows \cup settled.stores \subseteq Event
  BY ConstantsAssumption DEF Covered, TypeOK, Acks
<1>7. scored' = scored /\ delivering' = delivering /\ settled' = settled /\ hw' = hw
  BY DEF Evaluate
<1>8. CASE empty
  <2>1. sinkq' = sinkq /\ ackq' = ackq \cup {h} /\ h \notin Hits
    BY <1>0, <1>8 DEF Evaluate
  <2>2. \A i \in 1..Len(sinkq') : Counted(sinkq[i])'
    BY <2>1, <1>4, <1>5 DEF Counted
  <2>3. /\ \A e \in delivering' \cup ackq' \cup settled'.windows : Counted(e)'
        /\ \A e \in delivering' \cup ackq' \cup settled'.stores : Scored(e)'
    BY <2>1, <1>3, <1>4, <1>6, <1>7 DEF Covered, FlowCovered, Scored
  <2>4. FlowCovered'
    BY <2>2, <2>3 DEF FlowCovered
  <2> QED
    BY <2>4, <1>7, FlowOnly DEF Evaluate, Covered, PositionCovered
<1>9. CASE ~empty
  <2>1. sinkq' = Append(sinkq, h) /\ ackq' = ackq
    BY <1>0, <1>9 DEF Evaluate
  <2>2. ASSUME NEW i \in 1..Len(sinkq') PROVE Counted(sinkq[i])'
    <3>1. CASE i <= Len(sinkq)
      <4>1. sinkq'[i] = sinkq[i] /\ i \in 1..Len(sinkq)
        BY <1>1, <2>1, <3>1
      <4> QED
        BY <4>1, <1>4, <1>5 DEF Counted
    <3>2. CASE ~(i <= Len(sinkq))
      <4>1. sinkq'[i] = h
        BY <1>1, <2>1, <3>2
      <4> QED
        BY <4>1, <1>3 DEF Counted
    <3> QED
      BY <3>1, <3>2
  <2>3. /\ \A e \in delivering' \cup ackq' \cup settled'.windows : Counted(e)'
        /\ \A e \in delivering' \cup ackq' \cup settled'.stores : Scored(e)'
    BY <2>1, <1>4, <1>6, <1>7 DEF Covered, FlowCovered, Scored
  <2>4. FlowCovered'
    BY <2>2, <2>3 DEF FlowCovered
  <2> QED
    BY <2>4, <1>7, FlowOnly DEF Evaluate, Covered, PositionCovered
<1> QED
  BY <1>8, <1>9

(* What the sink task takes from its channel has been counted. *)
LEMMA SinkHead ==
  ASSUME Covered, sinkq # <<>>, sinkq' = Tail(sinkq), counted' = counted
  PROVE  /\ Head(sinkq) \in Event
         /\ Counted(Head(sinkq))
         /\ \A i \in 1..Len(sinkq') : Counted(sinkq[i])'
<1>1. sinkq \in Seq(Event)
  BY DEF Covered, TypeOK
<1>2. Head(sinkq) = sinkq[1] /\ 1 \in 1..Len(sinkq)
  BY <1>1
<1>3. \A i \in 1..Len(sinkq) : sinkq[i] \in Event /\ Counted(sinkq[i])
  BY <1>1 DEF Covered, FlowCovered
<1>4. \A i \in 1..Len(sinkq') : sinkq'[i] = sinkq[i + 1] /\ i + 1 \in 1..Len(sinkq)
  BY <1>1
<1> QED
  BY <1>2, <1>3, <1>4 DEF Counted

LEMMA SinkCovered ==
  ASSUME Covered, TypeOK', SinkStep
  PROVE  Covered'
<1>0. PICK h \in Event : h = Head(sinkq) /\ Counted(h)
  BY SinkHead DEF SinkStep, SinkSuppress, SinkScore, stateVars
<1>1. \A i \in 1..Len(sinkq') : Counted(sinkq[i])'
  BY SinkHead DEF SinkStep, SinkSuppress, SinkScore, stateVars
<1>2. /\ counted' = counted /\ settled' = settled /\ hw' = hw
      /\ UNCHANGED diskVars
  BY DEF SinkStep, SinkSuppress, SinkScore, stateVars
<1>3. delivering' \cup ackq' \subseteq delivering \cup ackq \cup {h}
  BY <1>0 DEF SinkStep, SinkSuppress, SinkScore
<1>4. Scored(h)' /\ \A e \in Event : Scored(e) => Scored(e)'
  <2>1. CASE SinkSuppress
    BY <1>0, <2>1 DEF SinkSuppress, Scored, stateVars
  <2>2. ASSUME NEW folded \in BOOLEAN, SinkScore(folded)
        PROVE  Scored(h)' /\ \A e \in Event : Scored(e) => Scored(e)'
    <3>1. scored \in [Event -> Nat] /\ scored' = [scored EXCEPT ![h] = @ + 1]
      BY <1>0, <2>2 DEF SinkScore, Covered, TypeOK, Counts
    <3>2. \A e \in Event : scored'[e] >= scored[e] /\ scored'[h] >= 1
      BY <3>1
    <3>3. scored' \in [Event -> Nat]
      BY DEF TypeOK, Counts
    <3> QED
      BY <3>1, <3>2, <3>3 DEF Scored
  <2> QED
    BY <2>1, <2>2 DEF SinkStep
<1>5. delivering \cup ackq \cup settled.windows \cup settled.stores \subseteq Event
  BY ConstantsAssumption DEF Covered, TypeOK, Acks
<1>6. /\ \A e \in delivering' \cup ackq' \cup settled'.windows : Counted(e)'
      /\ \A e \in delivering' \cup ackq' \cup settled'.stores : Scored(e)'
  <2>1. \A e \in delivering \cup ackq \cup settled.windows \cup {h} : Counted(e)
    BY <1>0 DEF Covered, FlowCovered
  <2>2. \A e \in delivering \cup ackq \cup settled.stores \cup {h} : Scored(e)'
    BY <1>4, <1>5 DEF Covered, FlowCovered
  <2> QED
    BY <1>2, <1>3, <2>1, <2>2 DEF Counted
<1>7. FlowCovered' /\ PositionCovered'
  BY <1>1, <1>2, <1>6 DEF FlowCovered, Covered, PositionCovered
<1> QED
  BY <1>2, <1>7, FlowOnly

LEMMA AckCovered ==
  ASSUME Covered, TypeOK', NEW e \in Event,
         Deliver(e) \/ \E sent \in BOOLEAN : AckToken(e, sent)
  PROVE  Covered'
<1>1. /\ delivering' \cup ackq' \cup settled'.windows
           \subseteq delivering \cup ackq \cup settled.windows
      /\ delivering' \cup ackq' \cup settled'.stores
           \subseteq delivering \cup ackq \cup settled.stores
      /\ settled.windows \subseteq settled'.windows
      /\ settled.stores \subseteq settled'.stores
      /\ UNCHANGED <<sinkq, counted, scored>> /\ UNCHANGED diskVars
  BY DEF Deliver, AckToken, stateVars
<1>2. FlowCovered'
  BY <1>1 DEF Covered, FlowCovered, Counted, Scored
<1>3. PositionCovered'
  <2>1. CASE Deliver(e)
    BY <2>1 DEF Deliver, Covered, PositionCovered, stateVars
  <2>2. ASSUME NEW sent \in BOOLEAN, AckToken(e, sent) PROVE PositionCovered'
    <3>1. Advance(e).seq = e \/ (hw # None /\ Advance(e).seq = hw.seq)
      BY AdvanceType DEF Covered, TypeOK
    <3> QED
      BY <2>2, <3>1 DEF AckToken, Covered, PositionCovered
  <2> QED
    BY <2>1, <2>2
<1> QED
  BY <1>1, <1>2, <1>3, FlowOnly

(* The step of saver s that leaves the good cut c behind.                   *)
LEMMA CutStep ==
  ASSUME Covered, NEW s \in Savers, NEW c, GoodCut(c),
         save' = [save EXCEPT ![s] = c], UNCHANGED settled
  PROVE  CutCovered'
<1>1. save \in [Savers -> Cut]
  BY DEF Covered, TypeOK
<1>2. GoodCut(c)'
  BY DEF GoodCut
<1>3. ASSUME NEW t \in Savers, t # s PROVE GoodCut(save[t])'
  <2>1. save'[t] = save[t]
    BY <1>1, <1>3
  <2> QED
    BY <2>1 DEF Covered, CutCovered, GoodCut
<1>4. GoodCut(save[s])'
  <2>1. save'[s] = c
    BY <1>1
  <2> QED
    BY <2>1, <1>2 DEF GoodCut
<1> QED
  BY <1>3, <1>4 DEF CutCovered

LEMMA CaptureCovered ==
  ASSUME Covered, TypeOK', NEW s \in Savers,
         CapturePosition(s) \/ CaptureWindows(s) \/ CaptureStores(s)
  PROVE  Covered'
<1>1. PICK b \in Cut : b = save[s] /\ GoodCut(b)
  BY DEF Covered, TypeOK, CutCovered
<1>2. /\ UNCHANGED <<flowVars, stateVars>> /\ db' = db /\ settled' = settled
  BY DEF CapturePosition, CaptureWindows, CaptureStores, stateVars
<1>3. counted \in Counts /\ scored \in Counts /\ settled \in Acks
  BY DEF Covered, TypeOK
<1>4. /\ \A e \in settled.windows : Counted(e)
      /\ \A e \in settled.stores : Scored(e)
  BY DEF Covered, FlowCovered
<1>5. CutCovered'
  <2>1. CASE CapturePosition(s)
    <3>1. PICK c : c = [NoCut EXCEPT !.phase = "position", !.pos = hw,
                                     !.settled = settled, !.base = Rows]
      OBVIOUS
    <3>2. c.phase = "position" /\ c.pos = hw /\ c.settled = settled /\ c.base = Rows
      BY <3>1 DEF NoCut
    <3>3. GoodCut(c)
      BY <3>2 DEF GoodCut, Covered, PositionCovered, DbCovered, Rows
    <3> QED
      BY <2>1, <1>2, <3>1, <3>3, CutStep DEF CapturePosition
  <2>2. CASE CaptureWindows(s)
    <3>1. PICK w \in Counts \cup {None} : w = IF Correlating THEN counted ELSE None
      BY <1>3
    <3>2. PICK c : c = [b EXCEPT !.phase = "windows", !.counted = w]
      OBVIOUS
    <3>3. /\ c.phase = "windows" /\ c.pos = b.pos /\ c.settled = b.settled
          /\ c.counted = w /\ c.base = b.base
      BY <3>2 DEF Cut
    <3>4. b.phase = "position"
      BY <1>1, <2>2 DEF CaptureWindows
    <3>5. w # None <=> Correlating
      BY <1>3, <3>1, ConstantsAssumption DEF Counts
    <3>6. \A e \in c.settled.windows : Correlating => w[e] >= 1
      BY <1>1, <1>4, <3>1, <3>3, <3>4 DEF GoodCut, Counted
    <3>7. GoodCut(c)
      BY <1>1, <3>3, <3>4, <3>5, <3>6 DEF GoodCut
    <3> QED
      BY <2>2, <1>1, <1>2, <3>1, <3>2, <3>7, CutStep DEF CaptureWindows
  <2>3. CASE CaptureStores(s)
    <3>1. PICK c : c = [b EXCEPT !.phase = "captured", !.scored = scored]
      OBVIOUS
    <3>2. /\ c.phase = "captured" /\ c.pos = b.pos /\ c.settled = b.settled
          /\ c.counted = b.counted /\ c.scored = scored /\ c.base = b.base
      BY <3>1 DEF Cut
    <3>3. b.phase = "windows"
      BY <1>1, <2>3 DEF CaptureStores
    <3>4. \A e \in c.settled.stores : e \in Hits => c.scored[e] >= 1
      BY <1>1, <1>4, <3>2, <3>3 DEF GoodCut, Scored
    <3>5. GoodCut(c)
      BY <1>1, <3>2, <3>3, <3>4 DEF GoodCut
    <3> QED
      BY <2>3, <1>1, <1>2, <3>1, <3>5, CutStep DEF CaptureStores
  <2> QED
    BY <2>1, <2>2, <2>3
<1>6. DbCovered'
  BY <1>2 DEF Covered, DbCovered, CutCoversAcks
<1> QED
  BY <1>2, <1>5, <1>6, SaverOnly

LEMMA SaveCovered ==
  ASSUME Covered, TypeOK', NEW s \in Savers, SaveAll(s) \/ SaveFails(s)
  PROVE  Covered'
<1>1. PICK b \in Cut : b = save[s] /\ GoodCut(b) /\ b.phase = "captured"
  BY DEF Covered, TypeOK, CutCovered, SaveAll, SaveFails
<1>2. UNCHANGED <<flowVars, stateVars>> /\ settled' = settled
  BY DEF SaveAll, SaveFails, stateVars
<1>3. CutCovered'
  <2>1. PICK outcome \in {"done", "failed"} :
          save' = [save EXCEPT ![s] = AfterSave(s, outcome)]
    BY DEF SaveAll, SaveFails
  <2>2. PICK c : c = AfterSave(s, outcome)
    OBVIOUS
  <2>3. c.phase \in {"idle", "done", "failed"}
    BY <2>2, AfterSaveType
  <2>4. GoodCut(c)
    BY <2>3 DEF GoodCut
  <2> QED
    BY <1>2, <2>1, <2>2, <2>4, CutStep
<1>4. DbCovered'
  <2>1. CASE SaveFails(s)
    BY <2>1 DEF SaveFails, Covered, DbCovered, CutCoversAcks
  <2>2. CASE SaveAll(s)
    <3>1. /\ db'.counted = IF b.counted = None THEN db.counted ELSE b.counted
          /\ db'.pos = IF b.counted = None THEN db.pos ELSE b.pos
          /\ db'.scored = b.scored
          /\ db'.settled.windows = IF b.counted = None THEN db.settled.windows
                                   ELSE b.settled.windows
          /\ db'.settled.stores = b.settled.stores
      BY <1>1, <2>2 DEF SaveAll
    <3>2. /\ b.counted # None <=> Correlating
          /\ \A e \in b.settled.windows : Correlating => b.counted[e] >= 1
          /\ \A e \in b.settled.stores : e \in Hits => b.scored[e] >= 1
          /\ b.pos # None => b.pos.seq \in b.settled.windows
      BY <1>1 DEF GoodCut
    <3>3. ~Correlating => db.pos = None /\ db.counted = None /\ db.settled.windows = {}
      BY DEF Covered, DbCovered
    <3>4. CutCoversAcks'
      BY <3>1, <3>2, <3>3 DEF CutCoversAcks
    <3> QED
      BY <3>1, <3>2, <3>3, <3>4 DEF DbCovered
  <2> QED
    BY <2>1, <2>2
<1> QED
  BY <1>2, <1>3, <1>4, SaverOnly

(* The state a restart restores covers what it takes for acknowledged.      *)
LEMMA RestartCovered ==
  ASSUME Covered, TypeOK', NEW how \in Starts, NEW created \in BOOLEAN,
         NEW load \in Loads, Restart(how, created, load)
  PROVE  Covered'
<1>1. /\ sinkq' = <<>> /\ delivering' = {} /\ ackq' = {} /\ hw' = None
      /\ db' = db /\ save' = [t \in Savers |-> NoCut]
  BY DEF Restart
<1>2. DbCovered
  BY DEF Covered
<1>3. DbCovered'
  BY <1>1, <1>2 DEF DbCovered, CutCoversAcks
<1>4. CutCovered'
  <2>1. \A t \in Savers : save'[t].phase = "idle"
    BY <1>1, NoCutType
  <2> QED
    BY <2>1 DEF CutCovered, GoodCut
<1>5. ASSUME NEW e \in settled'.windows PROVE Counted(e)'
  <2>1. WindowsOutcome(how, load) = "restored" /\ e \in db.settled.windows
    BY <1>5 DEF Restart, Restored
  <2>2. counted' = db.counted
    BY <2>1 DEF Restart, RestoreWindows
  <2> QED
    BY <1>2, <2>1, <2>2 DEF DbCovered, CutCoversAcks, Counted
<1>6. ASSUME NEW e \in settled'.stores PROVE Scored(e)'
  <2>1. StoresOutcome(how, load) = "restored" /\ e \in db.settled.stores
    BY <1>6 DEF Restart, Restored
  <2>2. scored' = db.scored
    BY <2>1 DEF Restart, RestoreStores
  <2> QED
    BY <1>2, <2>1, <2>2 DEF DbCovered, CutCoversAcks, Scored
<1>7. FlowCovered' /\ PositionCovered'
  BY <1>1, <1>5, <1>6 DEF FlowCovered, PositionCovered
<1> QED
  BY <1>3, <1>4, <1>7 DEF Covered

LEMMA CoveredStep == Covered /\ [Next]_vars => Covered'
<1> SUFFICES ASSUME Covered, [Next]_vars PROVE Covered'
  OBVIOUS
<1>1. TypeOK'
  BY TypeStep DEF Covered
<1>2. CASE \/ Publish \/ Shutdown \/ DrainTimeout \/ SourceStep
           \/ \E e \in Event : Redeliver(e)
           \/ UNCHANGED vars
  BY <1>1, <1>2, Untouched DEF Publish, Shutdown, DrainTimeout, SourceStep, Receive,
     SkipBlank, Redeliver, vars, flowVars, stateVars, diskVars
<1>3. CASE \E empty \in BOOLEAN : Evaluate(empty)
  BY <1>1, <1>3, EvaluateCovered
<1>4. CASE SinkStep
  BY <1>1, <1>4, SinkCovered
<1>5. CASE \E e \in Event : Deliver(e) \/ \E sent \in BOOLEAN : AckToken(e, sent)
  BY <1>1, <1>5, AckCovered
<1>6. CASE \E s \in Savers : SaverStep(s)
  BY <1>1, <1>6, CaptureCovered, SaveCovered DEF SaverStep
<1>7. CASE \E how \in Starts, created \in BOOLEAN, load \in Loads :
             Restart(how, created, load)
  BY <1>1, <1>7, RestartCovered
<1> QED
  BY <1>2, <1>3, <1>4, <1>5, <1>6, <1>7 DEF Next

(* capture_cut: whatever is interleaved with the saver, and whichever saves *)
(* fail or overlap, the saved cut covers every event acknowledged when its  *)
(* position was read, and the position is that of a covered event.          *)
THEOREM CutSafety == Spec => []CutCoversAcks
<1>1. Covered => CutCoversAcks
  BY DEF Covered, DbCovered
<1> QED
  BY CoveredInit, CoveredStep, <1>1, PTL DEF Spec

-----------------------------------------------------------------------------
(* No save forgets. *)

(* The running state has all that the rows it was restored from have, and a *)
(* cut under way lies between what was stored at its beginning and now.     *)
Between(c) ==
  /\ c.phase \in {"position", "windows", "captured"} =>
       /\ start.windows # "fresh" => Holds(c.base.counted, counted)
       /\ start.stores # "fresh" => Holds(c.base.scored, scored)
  /\ c.phase \in {"windows", "captured"} =>
       /\ Holds(c.counted, counted)
       /\ start.windows # "fresh" /\ c.counted # None =>
            Holds(c.base.counted, c.counted)
  /\ c.phase = "captured" =>
       /\ Holds(c.scored, scored)
       /\ start.stores # "fresh" => Holds(c.base.scored, c.scored)

Grown ==
  /\ start.windows # "fresh" => Holds(db.counted, counted)
  /\ start.stores # "fresh" => Holds(db.scored, scored)
  /\ \A s \in Savers : Between(save[s])

LEMMA GrownInit == Init => Grown
<1> SUFFICES ASSUME Init PROVE Grown
  OBVIOUS
<1>1. \A s \in Savers : save[s].phase = "idle"
  BY NoCutType DEF Init
<1> QED
  BY <1>1 DEF Init, Grown, Between, Holds

(* A step of the pipeline only adds to the counts. *)
LEMMA GrownFlow ==
  ASSUME TypeOK, Grown, UNCHANGED <<save, db, start>>,
         \A e \in Event : counted'[e] >= counted[e] /\ scored'[e] >= scored[e],
         TypeOK'
  PROVE  Grown'
<1>1. \A e \in Event : /\ counted[e] \in Nat /\ scored[e] \in Nat
                       /\ counted'[e] \in Nat /\ scored'[e] \in Nat
  BY DEF TypeOK, Counts
<1>2. \A e \in Event : /\ counted[e] >= 1 => counted'[e] >= 1
                       /\ scored[e] >= 1 => scored'[e] >= 1
  BY <1>1
<1> QED
  BY <1>2 DEF Grown, Between, Holds

(* A step of one saver: the other's cut stays between, since what is stored *)
(* under it is a part of the running state too.                             *)
LEMMA GrownSave ==
  ASSUME TypeOK, Grown, NEW s \in Savers, SaverStep(s)
  PROVE  Grown'
<1>t. /\ save \in [Savers -> Cut] /\ counted \in Counts /\ scored \in Counts
      /\ None \notin Counts
  BY ConstantsAssumption DEF TypeOK, Counts
<1>u. UNCHANGED <<start, counted, scored>>
  BY DEF SaverStep, CapturePosition, CaptureWindows, CaptureStores, SaveAll, SaveFails,
         stateVars, startVars
<1>g. Between(save[s])
  BY DEF Grown
<1>k. ASSUME NEW c, save' = [save EXCEPT ![s] = c], Between(c),
             start.windows # "fresh" => Holds(db'.counted, counted),
             start.stores # "fresh" => Holds(db'.scored, scored)
      PROVE  Grown'
  <2>1. \A t \in Savers : save'[t] = IF t = s THEN c ELSE save[t]
    BY <1>t, <1>k
  <2>2. \A t \in Savers : Between(save'[t])
    BY <1>k, <2>1 DEF Grown
  <2>3. \A t \in Savers : Between(save[t])'
    BY <1>u, <2>2 DEF Between
  <2> QED
    BY <1>k, <1>u, <2>3 DEF Grown
<1>1. CASE CapturePosition(s)
  <2>1. PICK c : c = [NoCut EXCEPT !.phase = "position", !.pos = hw,
                                   !.settled = settled, !.base = Rows]
    OBVIOUS
  <2>2. c.phase = "position" /\ c.base.counted = db.counted /\ c.base.scored = db.scored
    BY <2>1 DEF NoCut, Rows
  <2>3. Between(c)
    BY <2>2 DEF Grown, Between
  <2> QED
    BY <1>1, <1>k, <2>1, <2>3 DEF CapturePosition, Grown
<1>2. CASE CaptureWindows(s)
  <2>1. PICK w : w = IF Correlating THEN counted ELSE None
    OBVIOUS
  <2>2. PICK c : c = [save[s] EXCEPT !.phase = "windows", !.counted = w]
    OBVIOUS
  <2>3. c.phase = "windows" /\ c.base = save[s].base /\ c.counted = w
    BY <1>t, <2>2 DEF Cut
  <2>4. save[s].phase = "position" /\ save' = [save EXCEPT ![s] = c] /\ db' = db
    BY <1>2, <2>1, <2>2 DEF CaptureWindows
  <2>5. Between(c)
    BY <1>g, <2>1, <2>3, <2>4 DEF Between, Holds
  <2> QED
    BY <1>k, <2>4, <2>5 DEF Grown
<1>3. CASE CaptureStores(s)
  <2>1. PICK c : c = [save[s] EXCEPT !.phase = "captured", !.scored = scored]
    OBVIOUS
  <2>2. /\ c.phase = "captured" /\ c.base = save[s].base
        /\ c.counted = save[s].counted /\ c.scored = scored
    BY <1>t, <2>1 DEF Cut
  <2>3. save[s].phase = "windows" /\ save' = [save EXCEPT ![s] = c] /\ db' = db
    BY <1>3, <2>1 DEF CaptureStores
  <2>4. Between(c)
    BY <1>g, <2>2, <2>3 DEF Between, Holds
  <2> QED
    BY <1>k, <2>3, <2>4 DEF Grown
<1>4. CASE SaveAll(s)
  <2>1. PICK c : c = AfterSave(s, "done")
    OBVIOUS
  <2>2. c.phase \in {"idle", "done", "failed"}
    BY <2>1, AfterSaveType
  <2>3. /\ save[s].phase = "captured" /\ save' = [save EXCEPT ![s] = c]
        /\ db'.counted = IF save[s].counted = None THEN db.counted ELSE save[s].counted
        /\ db'.scored = save[s].scored
    BY <1>4, <2>1 DEF SaveAll
  <2>4. Between(c)
    BY <2>2 DEF Between
  <2>5. /\ start.windows # "fresh" => Holds(db'.counted, counted)
        /\ start.stores # "fresh" => Holds(db'.scored, scored)
    BY <1>g, <2>3 DEF Grown, Between
  <2> QED
    BY <1>k, <2>3, <2>4, <2>5
<1>5. CASE SaveFails(s)
  <2>1. PICK c : c = AfterSave(s, "failed")
    OBVIOUS
  <2>2. c.phase \in {"idle", "done", "failed"}
    BY <2>1, AfterSaveType
  <2>3. Between(c)
    BY <2>2 DEF Between
  <2> QED
    BY <1>5, <1>k, <2>1, <2>3 DEF SaveFails, Grown
<1> QED
  BY <1>1, <1>2, <1>3, <1>4, <1>5 DEF SaverStep

LEMMA GrownRestart ==
  ASSUME NEW how, NEW created, NEW load, Restart(how, created, load)
  PROVE  Grown'
<1>1. /\ db' = db /\ \A s \in Savers : save'[s].phase = "idle"
      /\ start'.windows = WindowsOutcome(how, load)
      /\ start'.stores = StoresOutcome(how, load)
  BY NoCutType DEF Restart
<1>2. WindowsOutcome(how, load) # "fresh" => Holds(db.counted, counted')
  BY DEF Restart, RestoreWindows, WindowsOutcome, Outcome, Holds
<1>3. StoresOutcome(how, load) # "fresh" => Holds(db.scored, scored')
  BY DEF Restart, RestoreStores, StoresOutcome, Outcome, Holds
<1> QED
  BY <1>1, <1>2, <1>3 DEF Grown, Between, Holds

LEMMA GrownStep ==
  TypeOK /\ TypeOK' /\ Grown /\ [Next]_vars => Grown'
<1> SUFFICES ASSUME TypeOK, TypeOK', Grown, [Next]_vars PROVE Grown'
  OBVIOUS
<1>t. \A e \in Event : counted[e] \in Nat /\ scored[e] \in Nat
  BY DEF TypeOK, Counts
<1>f. ASSUME UNCHANGED <<save, db, start>>,
             \A e \in Event : counted'[e] >= counted[e] /\ scored'[e] >= scored[e]
      PROVE  Grown'
  BY <1>f, GrownFlow
<1>1. ASSUME UNCHANGED <<save, db, start, counted, scored>> PROVE Grown'
  BY <1>1, <1>f, <1>t
<1>2. CASE \/ Publish \/ Shutdown \/ DrainTimeout \/ SourceStep \/ SinkSuppress
           \/ \E e \in Event : Redeliver(e) \/ Deliver(e)
           \/ \E e \in Event, sent \in BOOLEAN : AckToken(e, sent)
           \/ UNCHANGED vars
  <2>1. UNCHANGED <<save, db, start, counted, scored>>
    BY <1>2 DEF Publish, Shutdown, DrainTimeout, SourceStep, SinkSuppress, Receive,
       SkipBlank, Redeliver, Deliver, AckToken, vars, stateVars, diskVars, startVars
  <2> QED
    BY <1>1, <2>1
<1>3. ASSUME NEW empty \in BOOLEAN, Evaluate(empty) PROVE Grown'
  <2>1. /\ UNCHANGED <<save, db, start, scored>>
        /\ counted' \in {counted, [counted EXCEPT ![Head(inq)] = @ + 1]}
    BY <1>3 DEF Evaluate, diskVars, startVars
  <2>2. counted \in [Event -> Nat]
    BY DEF TypeOK, Counts
  <2>3. \A e \in Event : [counted EXCEPT ![Head(inq)] = @ + 1][e] >= counted[e]
    BY <1>t, <2>2
  <2>4. \A e \in Event : counted'[e] >= counted[e]
    <3>1. CASE counted' = counted
      BY <1>t, <3>1
    <3>2. CASE counted' = [counted EXCEPT ![Head(inq)] = @ + 1]
      BY <2>3, <3>2, Zenon
    <3> QED
      BY <2>1, <3>1, <3>2
  <2> QED
    BY <1>f, <1>t, <2>1, <2>4
<1>4. ASSUME NEW folded \in BOOLEAN, SinkScore(folded) PROVE Grown'
  <2>1. /\ UNCHANGED <<save, db, start, counted>>
        /\ scored' = [scored EXCEPT ![Head(sinkq)] = @ + 1]
    BY <1>4 DEF SinkScore, diskVars, startVars
  <2>2. scored \in [Event -> Nat]
    BY DEF TypeOK, Counts
  <2>3. \A e \in Event : scored'[e] >= scored[e]
    BY <1>t, <2>1, <2>2
  <2> QED
    BY <1>f, <1>t, <2>1, <2>3
<1>5. ASSUME NEW s \in Savers, SaverStep(s) PROVE Grown'
  BY <1>5, GrownSave
<1>6. CASE \E how \in Starts, created \in BOOLEAN, load \in Loads :
             Restart(how, created, load)
  BY <1>6, GrownRestart
<1> QED
  BY <1>2, <1>3, <1>4, <1>5, <1>6 DEF Next, SinkStep

(* Whatever saves overlap, fail or are cut off by a crash, and whatever the *)
(* restarts could restore: a save that is about to be committed has every   *)
(* event that was stored when its capture began, in each row that this      *)
(* process did not start afresh.                                            *)
THEOREM NothingForgotten == Spec => []SavesForgetNothing
<1>1. Init => Covered /\ Grown
  BY CoveredInit, GrownInit
<1>2. Covered /\ Grown /\ [Next]_vars => Covered' /\ Grown'
  BY CoveredStep, GrownStep DEF Covered
<1>3. Covered /\ Grown => SavesForgetNothing
  <2> SUFFICES ASSUME Covered, Grown, NEW s \in Savers, save[s].phase = "captured"
               PROVE  /\ start.windows # "fresh" =>
                           Holds(save[s].base.counted, save[s].counted)
                      /\ start.stores # "fresh" =>
                           Holds(save[s].base.scored, save[s].scored)
    BY DEF SavesForgetNothing
  <2>1. Between(save[s])
    BY DEF Grown
  <2>2. CASE save[s].counted # None
    BY <2>1, <2>2 DEF Between
  <2>3. CASE save[s].counted = None
    <3>1. save[s].base.counted = None
      BY <2>3 DEF Covered, CutCovered, GoodCut
    <3> QED
      BY <2>1, <3>1 DEF Between, Holds
  <2> QED
    BY <2>2, <2>3
<1> QED
  BY <1>1, <1>2, <1>3, PTL DEF Spec

-----------------------------------------------------------------------------
(* An orderly restart. *)

(* A step that restarts the daemon is Restart. *)
LEMMA RestartOnly ==
  ASSUME [Next]_vars, restarts' # restarts
  PROVE  \E how \in Starts, created \in BOOLEAN, load \in Loads :
           Restart(how, created, load)
<1>1. ~(UNCHANGED startVars)
  BY DEF startVars
<1> QED
  BY <1>1 DEF Next, Publish, Shutdown, DrainTimeout, SourceStep, SinkStep, SinkSuppress,
     SinkScore, Receive, SkipBlank, Redeliver, Deliver, Evaluate, AckToken, SaverStep,
     CapturePosition, CaptureWindows, CaptureStores, SaveAll, SaveFails, vars

(* Once the final save has begun after an orderly drain nothing moves, and  *)
(* what it captures, and stores if no other save commits after it, is the   *)
(* state with which the process ends.                                       *)
LastCut(c) ==
  /\ drain = "no" => c.phase = "idle"
  /\ drain = "draining" /\ c.phase # "idle" => Quiet
  /\ drain = "draining" /\ c.phase \in {"windows", "captured"} =>
       c.counted = IF Correlating THEN counted ELSE None
  /\ drain = "draining" /\ c.phase = "captured" => c.scored = scored
  /\ drain = "draining" /\ c.phase = "done" /\ db.by = "final" =>
       db.scored = scored /\ (Correlating => db.counted = counted)

Last ==
  /\ ~Correlating => counted = Zero
  /\ "final" \in Savers => LastCut(save["final"])

LEMMA LastInit == Init => Last
  BY NoCutType DEF Init, Last, LastCut

LEMMA LastSaver ==
  ASSUME TypeOK, Last, NEW s \in Savers, SaverStep(s)
  PROVE  Last'
<1>t. save \in [Savers -> Cut]
  BY DEF TypeOK
<1>u. UNCHANGED <<drain, counted, scored>> /\ (Quiet => Quiet')
  BY DEF SaverStep, CapturePosition, CaptureWindows, CaptureStores, SaveAll, SaveFails,
         flowVars, stateVars, Quiet
<1> SUFFICES ASSUME "final" \in Savers PROVE LastCut(save["final"])'
  BY <1>u DEF Last
<1>l. LastCut(save["final"])
  BY DEF Last
<1>1. CASE s # "final"
  <2>1. save'["final"] = save["final"]
    BY <1>1, <1>t DEF SaverStep, CapturePosition, CaptureWindows, CaptureStores, SaveAll,
                      SaveFails
  <2>2. db' = db \/ db'.by # "final"
    BY <1>1 DEF SaverStep, CapturePosition, CaptureWindows, CaptureStores, SaveAll, SaveFails
  <2> QED
    BY <1>l, <1>u, <2>1, <2>2 DEF LastCut
<1>2. CASE s = "final" /\ CapturePosition(s)
  <2>1. /\ drain = "timeout" \/ (drain = "draining" /\ Quiet)
        /\ save'["final"].phase = "position"
    BY <1>2, <1>t DEF CapturePosition, NoCut
  <2> QED
    BY <1>u, <2>1 DEF LastCut
<1>3. CASE s = "final" /\ CaptureWindows(s)
  <2>1. /\ save["final"].phase = "position" /\ save'["final"].phase = "windows"
        /\ save'["final"].counted = IF Correlating THEN counted ELSE None
    BY <1>3, <1>t DEF CaptureWindows, Cut
  <2> QED
    BY <1>l, <1>u, <2>1 DEF LastCut
<1>4. CASE s = "final" /\ CaptureStores(s)
  <2>1. /\ save["final"].phase = "windows" /\ save'["final"].phase = "captured"
        /\ save'["final"].counted = save["final"].counted
        /\ save'["final"].scored = scored
    BY <1>4, <1>t DEF CaptureStores, Cut
  <2> QED
    BY <1>l, <1>u, <2>1 DEF LastCut
<1>5. CASE s = "final" /\ SaveAll(s)
  <2>1. /\ save["final"].phase = "captured" /\ save'["final"].phase = "done"
        /\ db'.scored = save["final"].scored
        /\ db'.counted = IF save["final"].counted = None THEN db.counted
                         ELSE save["final"].counted
    BY <1>5, <1>t DEF SaveAll, AfterSave, NoCut
  <2>2. Correlating => counted # None
    BY ConstantsAssumption DEF TypeOK, Counts
  <2> QED
    BY <1>l, <1>u, <2>1, <2>2 DEF LastCut
<1>6. CASE s = "final" /\ SaveFails(s)
  <2>1. save["final"].phase = "captured" /\ save'["final"].phase = "failed"
    BY <1>6, <1>t DEF SaveFails, AfterSave, NoCut
  <2> QED
    BY <1>l, <1>u, <2>1 DEF LastCut
<1> QED
  BY <1>1, <1>2, <1>3, <1>4, <1>5, <1>6 DEF SaverStep

LEMMA LastStep == Covered /\ Last /\ [Next]_vars => Last'
<1> SUFFICES ASSUME Covered, Last, [Next]_vars PROVE Last'
  OBVIOUS
<1>t. save \in [Savers -> Cut]
  BY DEF Covered, TypeOK
<1>k. ASSUME UNCHANGED <<save, drain, counted, scored, db>>, Quiet => Quiet' PROVE Last'
  BY <1>k DEF Last, LastCut
<1>q. ASSUME ~Quiet, UNCHANGED <<save, drain, db>>, ~Correlating => counted' = counted
      PROVE  Last'
  BY <1>q DEF Last, LastCut
<1>1. CASE Publish \/ (\E e \in Event : Redeliver(e) \/ SkipBlank(e)) \/ UNCHANGED vars
  BY <1>k, <1>1 DEF Publish, Redeliver, SkipBlank, vars, flowVars, stateVars, diskVars, Quiet
<1>2. ASSUME NEW e \in Event, Receive(e) PROVE Last'
  <2>1. drain = "no" /\ UNCHANGED <<save, drain, counted, db>>
    BY <1>2 DEF Receive, HandOut, stateVars, diskVars
  <2> QED
    BY <2>1 DEF Last, LastCut
<1>3. CASE \/ \E empty \in BOOLEAN : Evaluate(empty)
           \/ SinkStep \/ \E e \in Event : Deliver(e)
           \/ \E e \in Event, sent \in BOOLEAN : AckToken(e, sent)
  <2>1. /\ ~Quiet /\ UNCHANGED <<save, drain, db>>
        /\ ~Correlating => counted' = counted
    BY <1>3 DEF Evaluate, SinkStep, SinkSuppress, SinkScore, Deliver, AckToken, Quiet,
                stateVars, diskVars
  <2> QED
    BY <1>q, <2>1
<1>4. ASSUME NEW s \in Savers, SaverStep(s) PROVE Last'
  BY <1>4, LastSaver DEF Covered
<1>5. CASE Shutdown
  BY <1>5 DEF Shutdown, Last, LastCut, diskVars, stateVars
<1>6. CASE DrainTimeout
  BY <1>6 DEF DrainTimeout, Last, LastCut, diskVars, stateVars
<1>7. ASSUME NEW how \in Starts, NEW created \in BOOLEAN, NEW load \in Loads,
             Restart(how, created, load)
      PROVE  Last'
  <2>1. drain' = "no" /\ ("final" \in Savers => save'["final"].phase = "idle")
    BY <1>7, NoCutType DEF Restart
  <2>2. ~Correlating => counted' = Zero
    BY <1>7, OutcomeType DEF Restart, RestoreWindows, Covered, DbCovered
  <2> QED
    BY <2>1, <2>2 DEF Last, LastCut
<1> QED
  BY <1>1, <1>2, <1>3, <1>4, <1>5, <1>6, <1>7 DEF Next, SourceStep

(* What the process that follows an orderly end restores.                   *)
LEMMA OrderlyRestart ==
  ASSUME Covered, Last, Orderly, NEW how, NEW created, NEW load,
         Restart(how, created, load)
  PROVE  /\ start'.windows # "fresh" => counted' = counted
         /\ start'.stores # "fresh" => scored' = scored
<1>1. /\ db.scored = scored /\ (Correlating => db.counted = counted)
      /\ ~Correlating => counted = Zero
  BY DEF Orderly, Last, LastCut
<1>2. counted # None /\ scored # None
  BY ConstantsAssumption DEF Covered, TypeOK, Counts
<1>3. /\ start'.windows = WindowsOutcome(how, load)
      /\ start'.stores = StoresOutcome(how, load)
  BY DEF Restart
<1>4. start'.stores # "fresh" => scored' = scored
  BY <1>1, <1>2, <1>3 DEF Restart, RestoreStores, StoresOutcome, Outcome
<1>5. start'.windows # "fresh" => counted' = counted
  <2>1. CASE Correlating
    BY <1>1, <1>2, <1>3, <2>1 DEF Restart, RestoreWindows, WindowsOutcome, Outcome
  <2>2. CASE ~Correlating
    BY <1>1, <2>2, OutcomeType DEF Restart, RestoreWindows, Covered, DbCovered
  <2> QED
    BY <2>1, <2>2
<1> QED
  BY <1>4, <1>5

(* After a drain in time and a final save that commits last, a restart that *)
(* can read a row has exactly the windows, or the stores, the daemon ended  *)
(* with, whatever the periodic saver did meanwhile, for any events and      *)
(* number of restarts.                                                      *)
THEOREM OrderlyRestartExact == Spec => OrderlyRestartKeepsState
<1>1. Init => Covered /\ Last
  BY CoveredInit, LastInit
<1>2. Covered /\ Last /\ [Next]_vars => Covered' /\ Last'
  BY CoveredStep, LastStep
<1>3. Covered /\ Last /\ [Next]_vars =>
        [Orderly /\ restarts' # restarts =>
           /\ start'.windows # "fresh" => counted' = counted
           /\ start'.stores # "fresh" => scored' = scored]_vars
  <2> SUFFICES ASSUME Covered, Last, [Next]_vars, Orderly, restarts' # restarts
               PROVE  /\ start'.windows # "fresh" => counted' = counted
                      /\ start'.stores # "fresh" => scored' = scored
    OBVIOUS
  <2>1. PICK how \in Starts, created \in BOOLEAN, load \in Loads :
          Restart(how, created, load)
    BY RestartOnly
  <2> QED
    BY <2>1, OrderlyRestart
<1> QED
  BY <1>1, <1>2, <1>3, PTL DEF Spec, OrderlyRestartKeepsState

-----------------------------------------------------------------------------
(* A forward replay hands out nothing that is restored. *)

(* Every event of E is at or before position p, in both of its orders.      *)
Behind(E, p) == \A e \in E : p # None /\ e <= p.seq /\ TimeOf[e] <= p.time

(* The process has not been restored from an earlier one: everything it has *)
(* taken, and every position it has read or saved, is its own.              *)
Fresh == start.windows # "restored" /\ start.stores # "restored"

Either(a) == a.windows \cup a.stores

InCapture(c) == c.phase \in {"position", "windows", "captured"}

(* Until a process restores, the position is ahead of all that is settled:  *)
(* now, in every cut under way, and beside a correlation row.               *)
PositionsAhead ==
  Fresh =>
    /\ Behind(Either(settled), hw)
    /\ \A s \in Savers :
         InCapture(save[s]) => Behind(Either(save[s].settled), save[s].pos)
    /\ db.counted # None => Behind(Either(db.settled), db.pos)

Ahead == PositionsAhead /\ ForwardReplayIsSafe

(* A process that was restored is not restarted once more: the position it  *)
(* starts to read may be behind what it restored (run recovery_regress).    *)
OnceRestored == [][restarts' # restarts => Fresh]_vars

LEMMA AheadInit == Init => Ahead
<1>1. Init => \A s \in Savers : save[s].phase = "idle"
  BY NoCutType DEF Init
<1> QED
  BY <1>1 DEF Init, Ahead, PositionsAhead, Behind, Either, Nothing, InCapture,
              ForwardReplayIsSafe

(* Raising the position keeps it ahead, of the event it is raised by too.   *)
LEMMA AdvanceAhead ==
  ASSUME hw \in Position, NEW E \in SUBSET Event, Behind(E, hw), NEW e \in Event
  PROVE  Behind(E \cup {e}, Advance(e))
<1>t. TimeOf \in [Event -> Nat] /\ Event \subseteq Nat
  BY ConstantsAssumption DEF Event
<1>1. Advance(e) # None
  BY AdvanceType, ConstantsAssumption
<1>2. e <= Advance(e).seq /\ TimeOf[e] <= Advance(e).time
  <2>1. CASE hw = None
    BY <1>t, <2>1 DEF Advance
  <2>2. CASE hw # None
    <3>1. hw.seq \in Nat /\ hw.time \in Nat
      BY <1>t, <2>2 DEF Position
    <3> QED
      BY <1>t, <2>2, <3>1 DEF Advance
  <2> QED
    BY <2>1, <2>2
<1>3. ASSUME NEW d \in E PROVE d <= Advance(e).seq /\ TimeOf[d] <= Advance(e).time
  <2>1. hw # None /\ d <= hw.seq /\ TimeOf[d] <= hw.time
    BY <1>3 DEF Behind
  <2>2. /\ hw.seq \in Nat /\ hw.time \in Nat /\ d \in Nat /\ e \in Nat
        /\ TimeOf[d] \in Nat /\ TimeOf[e] \in Nat
    BY <1>t, <2>1 DEF Position
  <2> QED
    BY <2>1, <2>2 DEF Advance
<1> QED
  BY <1>1, <1>2, <1>3 DEF Behind

(* A step of a saver moves a position together with what it stands for.     *)
LEMMA SaverAhead ==
  ASSUME Covered, PositionsAhead, NEW s \in Savers, SaverStep(s)
  PROVE  PositionsAhead'
<1>1. PICK b \in Cut : b = save[s] /\ GoodCut(b)
  BY DEF Covered, TypeOK, CutCovered
<1>t. save \in [Savers -> Cut]
  BY DEF Covered, TypeOK
<1>u. UNCHANGED <<start, hw, settled>>
  BY DEF SaverStep, CapturePosition, CaptureWindows, CaptureStores, SaveAll, SaveFails,
         stateVars, startVars
<1>k. ASSUME NEW c, save' = [save EXCEPT ![s] = c],
             Fresh /\ InCapture(c) => Behind(Either(c.settled), c.pos),
             Fresh /\ db'.counted # None => Behind(Either(db'.settled), db'.pos)
      PROVE  PositionsAhead'
  <2>1. \A t \in Savers : save'[t] = IF t = s THEN c ELSE save[t]
    BY <1>t, <1>k
  <2> QED
    BY <1>k, <1>u, <2>1 DEF PositionsAhead, Fresh, Behind, InCapture
<1>d. Fresh => /\ db.counted # None => Behind(Either(db.settled), db.pos)
               /\ Behind(Either(settled), hw)
               /\ InCapture(b) => Behind(Either(b.settled), b.pos)
  BY <1>1 DEF PositionsAhead
<1>2. CASE CapturePosition(s)
  <2>1. PICK c : c = [NoCut EXCEPT !.phase = "position", !.pos = hw,
                                   !.settled = settled, !.base = Rows]
    OBVIOUS
  <2>2. c.pos = hw /\ c.settled = settled
    BY <2>1 DEF NoCut
  <2> QED
    BY <1>2, <1>d, <1>k, <2>1, <2>2 DEF CapturePosition
<1>3. CASE CaptureWindows(s)
  <2>1. PICK c : c = [b EXCEPT !.phase = "windows",
                               !.counted = IF Correlating THEN counted ELSE None]
    OBVIOUS
  <2>2. c.pos = b.pos /\ c.settled = b.settled /\ b.phase = "position"
    BY <1>1, <1>3, <2>1 DEF CaptureWindows, Cut
  <2> QED
    BY <1>1, <1>3, <1>d, <1>k, <2>1, <2>2 DEF CaptureWindows, InCapture
<1>4. CASE CaptureStores(s)
  <2>1. PICK c : c = [b EXCEPT !.phase = "captured", !.scored = scored]
    OBVIOUS
  <2>2. c.pos = b.pos /\ c.settled = b.settled /\ b.phase = "windows"
    BY <1>1, <1>4, <2>1 DEF CaptureStores, Cut
  <2> QED
    BY <1>1, <1>4, <1>d, <1>k, <2>1, <2>2 DEF CaptureStores, InCapture
<1>5. CASE SaveAll(s) \/ SaveFails(s)
  <2>1. PICK outcome \in {"done", "failed"} : save' = [save EXCEPT ![s] = AfterSave(s, outcome)]
    BY <1>5 DEF SaveAll, SaveFails
  <2>2. ~InCapture(AfterSave(s, outcome))
    BY AfterSaveType DEF InCapture
  <2>3. b.phase = "captured"
    BY <1>1, <1>5 DEF SaveAll, SaveFails
  <2>4. Fresh /\ db'.counted # None => Behind(Either(db'.settled), db'.pos)
    <3>1. CASE SaveFails(s)
      BY <1>d, <3>1 DEF SaveFails
    <3>2. CASE SaveAll(s) /\ b.counted = None
      BY <1>1, <2>3, <3>2 DEF SaveAll, GoodCut, Covered, DbCovered
    <3>3. CASE SaveAll(s) /\ b.counted # None
      <4>1. Either(db'.settled) = Either(b.settled) /\ db'.pos = b.pos
        BY <1>1, <3>3 DEF SaveAll, Either
      <4> QED
        BY <1>d, <2>3, <4>1 DEF InCapture
    <3> QED
      BY <1>5, <3>1, <3>2, <3>3
  <2> QED
    BY <1>k, <2>1, <2>2, <2>4
<1> QED
  BY <1>2, <1>3, <1>4, <1>5 DEF SaverStep

(* The restore decision: in automatic mode a fresh consumer's replay is     *)
(* restored only from beyond the stored position.                           *)
LEMMA RestartAhead ==
  ASSUME Covered, Fresh, PositionsAhead,
         NEW how \in Starts, NEW created \in BOOLEAN, NEW load \in Loads,
         Restart(how, created, load)
  PROVE  Ahead'
<1>0. DbType
  BY DEF Covered, TypeOK, DbType
<1>t. /\ TimeOf \in [Event -> Nat] /\ Event \subseteq Nat
      /\ how.from \in Nat
      /\ Either(db.settled) \subseteq Event /\ db.pos \in Position
      /\ published \in 0..NEvents
  BY ConstantsAssumption DEF Event, Covered, TypeOK, Acks, Either
<1>1. /\ db' = db /\ hw' = None /\ settled' = Restored(how, load)
      /\ \A t \in Savers : save'[t].phase = "idle"
  BY NoCutType DEF Restart
<1>2. db.counted # None => Behind(Either(db.settled), db.pos)
  BY DEF PositionsAhead
<1>3. PositionsAhead'
  <2> SUFFICES ASSUME Fresh'
               PROVE  /\ Behind(Either(settled'), hw')
                      /\ db'.counted # None => Behind(Either(db'.settled), db'.pos)
                      /\ \A s \in Savers : ~InCapture(save'[s])
    BY DEF PositionsAhead, Behind, InCapture
  <2>1. Either(settled') = {}
    BY <1>1 DEF Fresh, Restart, Restored, Either
  <2> QED
    BY <1>1, <1>2, <2>1 DEF Behind, InCapture
<1>4. ForwardReplayIsSafe'
  <2> SUFFICES ASSUME Compared(how, load), NEW e \in Either(Restored(how, load)),
                      e \in ReplaySet(how)
               PROVE  FALSE
    BY <1>1 DEF ForwardReplayIsSafe, Restart, Either
  <2>1. /\ db.counted # None /\ how.mode = "auto"
        /\ how.policy \in {"sequence", "time"}
        /\ Restores(how, load) = Decide(how, db.pos)
    BY DEF Compared, SnapshotRead, Restores
  <2>2. e \in Either(db.settled) /\ Restores(how, load)
    BY DEF Restored, Either, WindowsOutcome, StoresOutcome, Outcome
  <2>3. \/ how.policy = "sequence" /\ how.from > db.pos.seq
        \/ how.policy = "time" /\ how.from > db.pos.time
    BY <2>1, <2>2 DEF Decide
  <2>4. /\ db.pos # None /\ e <= db.pos.seq /\ TimeOf[e] <= db.pos.time
        /\ e \in Nat /\ TimeOf[e] \in Nat
    BY <1>2, <1>t, <2>1, <2>2 DEF Behind
  <2>5. db.pos.seq \in Nat /\ db.pos.time \in Nat
    BY <1>t, <2>4 DEF Position
  <2>6. \/ how.policy = "sequence" /\ e >= how.from
        \/ how.policy = "time" /\ TimeOf[e] >= how.from
    BY <2>3 DEF ReplaySet
  <2> QED
    BY <1>t, <2>3, <2>4, <2>5, <2>6
<1> QED
  BY <1>3, <1>4 DEF Ahead

LEMMA AheadStep ==
  Covered /\ Ahead /\ [Next]_vars
    /\ [restarts' # restarts => Fresh]_vars => Ahead'
<1> SUFFICES ASSUME Covered, Ahead, [Next]_vars,
                    [restarts' # restarts => Fresh]_vars
             PROVE  Ahead'
  OBVIOUS
<1>k. ASSUME UNCHANGED <<save, db, start>>,
             Behind(Either(settled), hw) => Behind(Either(settled'), hw')
      PROVE  Ahead'
  BY <1>k DEF Ahead, PositionsAhead, ForwardReplayIsSafe, Fresh, Behind, InCapture
<1>1. CASE \/ Publish \/ Shutdown \/ DrainTimeout \/ SourceStep \/ SinkStep
           \/ \E e \in Event : Redeliver(e) \/ Deliver(e)
           \/ \E empty \in BOOLEAN : Evaluate(empty)
           \/ UNCHANGED vars
  <2>1. UNCHANGED <<save, db, start, settled, hw>>
    BY <1>1 DEF Publish, Shutdown, DrainTimeout, SourceStep, SinkStep, SinkSuppress, SinkScore,
       Receive, SkipBlank, Redeliver, Deliver, Evaluate, vars, stateVars, diskVars, startVars
  <2> QED
    BY <1>k, <2>1
<1>2. ASSUME NEW e \in Event, NEW sent \in BOOLEAN, AckToken(e, sent) PROVE Ahead'
  <2>1. /\ UNCHANGED <<save, db, start>>
        /\ hw' = Advance(e) /\ Either(settled') = Either(settled) \cup {e}
    BY <1>2 DEF AckToken, diskVars, startVars, Either
  <2>2. hw \in Position /\ Either(settled) \in SUBSET Event
    BY DEF Covered, TypeOK, Acks, Either
  <2> QED
    BY <1>k, <2>1, <2>2, AdvanceAhead
<1>3. ASSUME NEW s \in Savers, SaverStep(s) PROVE Ahead'
  <2>1. start' = start
    BY <1>3 DEF SaverStep, CapturePosition, CaptureWindows, CaptureStores, SaveAll, SaveFails,
                startVars
  <2> QED
    BY <1>3, <2>1, SaverAhead DEF Ahead, ForwardReplayIsSafe
<1>4. ASSUME NEW how \in Starts, NEW created \in BOOLEAN, NEW load \in Loads,
             Restart(how, created, load)
      PROVE  Ahead'
  <2>1. restarts' # restarts
    BY <1>4 DEF Restart, Covered, TypeOK
  <2>2. Fresh
    BY <2>1 DEF vars, startVars
  <2> QED
    BY <1>4, <2>2, RestartAhead DEF Ahead
<1> QED
  BY <1>1, <1>2, <1>3, <1>4 DEF Next

(* streaming-detection.md:189-190: as long as the process that is restarted *)
(* has not restored anything itself, whatever events were acknowledged in   *)
(* whatever order, saved by whatever saver, and whichever rows the next     *)
(* start can read, a replay that was compared with the stored position      *)
(* hands out no event whose state is restored.                              *)
THEOREM ForwardReplaySafe == Spec /\ OnceRestored => []ForwardReplayIsSafe
<1>1. Init => Covered /\ Ahead
  BY CoveredInit, AheadInit
<1>2. Covered /\ Ahead /\ [Next]_vars /\ [restarts' # restarts => Fresh]_vars
        => Covered' /\ Ahead'
  BY CoveredStep, AheadStep
<1>3. Ahead => ForwardReplayIsSafe
  BY DEF Ahead
<1> QED
  BY <1>1, <1>2, <1>3, PTL DEF Spec, OnceRestored

(* The first process has restored nothing.                                  *)
FirstIsFresh == restarts = 0 => Fresh

LEMMA FirstStep == TypeOK /\ FirstIsFresh /\ [Next]_vars => FirstIsFresh'
<1> SUFFICES ASSUME TypeOK, FirstIsFresh, [Next]_vars PROVE FirstIsFresh'
  OBVIOUS
<1>1. CASE UNCHANGED startVars
  BY <1>1 DEF FirstIsFresh, Fresh, startVars
<1>2. CASE \E how \in Starts, created \in BOOLEAN, load \in Loads :
             Restart(how, created, load)
  BY <1>2 DEF Restart, TypeOK, FirstIsFresh
<1> QED
  BY <1>1, <1>2 DEF Next, Publish, Shutdown, DrainTimeout, SourceStep, SinkStep, SinkSuppress,
     SinkScore, Receive, SkipBlank, Redeliver, Deliver, Evaluate, AckToken, SaverStep,
     CapturePosition, CaptureWindows, CaptureStores, SaveAll, SaveFails, vars

(* In particular for the single restart of MCRecovery_cut.                  *)
THEOREM ForwardReplaySafeOnce ==
  MaxRestarts <= 1 /\ Spec => []ForwardReplayIsSafe
<1> SUFFICES ASSUME MaxRestarts <= 1 PROVE Spec => []ForwardReplayIsSafe
  OBVIOUS
<1>1. Init => TypeOK /\ FirstIsFresh
  BY TypeInit DEF Init, FirstIsFresh, Fresh
<1>2. TypeOK /\ FirstIsFresh /\ [Next]_vars => TypeOK' /\ FirstIsFresh'
  BY TypeStep, FirstStep
<1>3. TypeOK /\ FirstIsFresh /\ [Next]_vars => [restarts' # restarts => Fresh]_vars
  <2> SUFFICES ASSUME TypeOK, FirstIsFresh, [Next]_vars, restarts' # restarts
               PROVE  Fresh
    OBVIOUS
  <2>1. PICK how \in Starts, created \in BOOLEAN, load \in Loads :
          Restart(how, created, load)
    BY RestartOnly
  <2>2. restarts < MaxRestarts /\ restarts \in Nat /\ MaxRestarts \in Nat
    BY <2>1, ConstantsAssumption DEF Restart, TypeOK
  <2> QED
    BY <2>2 DEF FirstIsFresh
<1> QED
  BY <1>1, <1>2, <1>3, ForwardReplaySafe, PTL DEF Spec, OnceRestored
=============================================================================
