------------------------- MODULE CanScheduleProofs -------------------------
(***************************************************************************)
(* Proofs about CanSchedule, for every period, every bound and either kind *)
(* of loop and bus.                                                        *)
(***************************************************************************)
EXTENDS CanSchedule, TLAPS

(* The operator % of a positive modulus stays below it: the indices of     *)
(* CAN_SendMessages wrap.                                                  *)
LEMMA ModuloInRange ==
  ASSUME NEW n \in Nat, NEW m \in Nat \ {0}
  PROVE  n % m \in 0..m - 1
  BY Z3

(* Offering a frame leaves a queue of frames, at most one longer.          *)
LEMMA OfferQueues ==
  ASSUME fifo \in Seq(Frame), NEW frame \in Frame, Offer(frame)
  PROVE  /\ fifo' \in Seq(Frame)
         /\ Len(fifo') <= Len(fifo) + 1
  BY DEF Offer, HasRoom

(* Sending the oldest frame shortens the queue.                            *)
LEMMA TransmitShortens ==
  ASSUME fifo \in Seq(Frame), fifo # <<>>
  PROVE  /\ Tail(fifo) \in Seq(Frame)
         /\ Len(Tail(fifo)) <= Len(fifo)
         /\ Head(fifo) \in Frame
  OBVIOUS

-----------------------------------------------------------------------------
(* Type correctness.  In particular the event counter of timer.c stays     *)
(* within its ceiling and the two round-robin indices of CAN_SendMessages  *)
(* within their tables, whatever the interleaving of interrupt and loop.   *)
LEMMA TypeInit == Init => TypeOK
  <1> USE ScheduleAssumption
  <1> SUFFICES ASSUME Init PROVE TypeOK
    OBVIOUS
  <1>1. fifo \in Seq(Frame)
    BY DEF Init
  <1>2. /\ lastSeg \in Nat /\ segment \in 0..Segments - 1
        /\ lastTherm \in Nat /\ thermIndex \in 0..ThermCount - 1
    BY DEF Init
  <1>3. /\ events \in 0..EventCountMax /\ laps \in 0..2
        /\ deferrals \in 0..3 /\ bmsSince \in 0..3
        /\ calm \in {"always", "again", "no"}
    BY DEF Init
  <1>4. counter \in [Counter -> Nat] /\ flag \in [Slot -> BOOLEAN]
    BY DEF Init
  <1>5. pc \in Boot \union LoopStep /\ tickAt \in LoopStep
    BY DEF Init, Boot, LoopStep
  <1> QED
    BY <1>1, <1>2, <1>3, <1>4, <1>5 DEF Init, TypeOK

LEMMA TypeStep == TypeOK /\ [Next]_vars => TypeOK'
  <1> USE ScheduleAssumption
  <1> SUFFICES ASSUME TypeOK, [Next]_vars PROVE TypeOK'
    OBVIOUS
  <1> USE DEF TypeOK, timerVars, loopVars, busVars, paceVars, histVars, Goto
  <1>1. CASE Tim7Elapsed
    <2>1. counter' \in [Counter -> Nat] /\ flag' \in [Slot -> BOOLEAN]
      BY <1>1 DEF Tim7Elapsed, RaisedFlag, Elapsed, Counter
    <2>2. events' \in 0..EventCountMax
      BY <1>1 DEF Tim7Elapsed, RaisedEvents
    <2>3. tickAt' \in LoopStep /\ laps' \in 0..2 /\ bmsSince' \in 0..3
      BY <1>1 DEF Tim7Elapsed
    <2>4. calm' \in {"always", "again", "no"}
      BY <1>1 DEF Tim7Elapsed
    <2> QED
      BY <1>1, <2>1, <2>2, <2>3, <2>4 DEF Tim7Elapsed
  <1>2. CASE Startup
    BY <1>2 DEF Startup, ReleaseSchedule, SetSchedulingEnabled,
                ResetCanSchedule, Boot
  <1>3. CASE EnterLoop
    BY <1>3 DEF EnterLoop, LoopStep
  <1>4. CASE SampleTherms
    BY <1>4 DEF SampleTherms, LoopStep
  <1>5. CASE \/ ReadFlag("200ms", "check200", "clear200", "check100")
             \/ ReadFlag("100ms", "check100", "clear100", "volt")
    BY <1>5 DEF ReadFlag, LoopStep
  <1>6. CASE \/ ClearFlag("200ms", "clear200", "claim")
             \/ ClearFlag("100ms", "clear100", "bms")
    BY <1>6 DEF ClearFlag, LoopStep, Slot
  <1>7. CASE SendClaim
    <2>1. [id |-> "claim", index |-> 0] \in Frame
      BY DEF Frame
    <2> QED
      BY <1>7, <2>1, OfferQueues DEF SendClaim, Offer, LoopStep
  <1>8. CASE SendBms
    <2>1. [id |-> "bms", index |-> 0] \in Frame
      BY DEF Frame
    <2> QED
      BY <1>8, <2>1, OfferQueues DEF SendBms, Offer, AtMost, LoopStep
  <1>9. CASE SendGeneral
    <2>1. [id |-> "general", index |-> thermIndex] \in Frame
      BY DEF Frame
    <2> QED
      BY <1>9, <2>1, OfferQueues DEF SendGeneral, Offer, LoopStep
  <1>10. CASE SendExtVoltage
    <2>1. [id |-> "extv", index |-> segment] \in Frame
      BY DEF Frame
    <2> QED
      BY <1>10, <2>1, OfferQueues DEF SendExtVoltage, Offer, LoopStep
  <1>11. CASE SkipExtVoltage
    BY <1>11 DEF SkipExtVoltage, AtMost, LoopStep
  <1>12. CASE ConsumeEvent
    <2>1. segment' \in 0..Segments - 1
      BY <1>12, ModuloInRange DEF ConsumeEvent
    <2> QED
      BY <1>12, <2>1 DEF ConsumeEvent, LoopStep
  <1>13. CASE NextThermistor
    <2>1. thermIndex' \in 0..ThermCount - 1
      BY <1>13, ModuloInRange DEF NextThermistor
    <2> QED
      BY <1>13, <2>1 DEF NextThermistor, LoopStep
  <1>14. CASE ServiceVolt
    <2>1. cells' \in BOOLEAN
      BY <1>14, Zenon DEF ServiceVolt
    <2>2. laps' \in 0..2
      BY <1>14 DEF ServiceVolt, AtMost
    <2> QED
      BY <1>14, <2>1, <2>2 DEF ServiceVolt, LoopStep
  <1>15. CASE BusTransmit
    <2>1. Head(fifo) \in Frame /\ fifo' \in Seq(Frame)
      BY <1>15, TransmitShortens DEF BusTransmit
    <2>2. lastSeg' \in Nat /\ lastTherm' \in Nat
      BY <1>15, <2>1 DEF BusTransmit, Frame
    <2> QED
      BY <1>15, <2>1, <2>2 DEF BusTransmit
  <1>16. CASE UNCHANGED vars
    BY <1>16 DEF vars
  <1> QED
    BY <1>1, <1>2, <1>3, <1>4, <1>5, <1>6, <1>7, <1>8, <1>9, <1>10, <1>11,
       <1>12, <1>13, <1>14, <1>15, <1>16 DEF Next, MainLoop

THEOREM TypeCorrect == Spec => []TypeOK
  BY TypeInit, TypeStep, PTL DEF Spec

-----------------------------------------------------------------------------
(* The invariant behind OnlyLateClaimRefused counts what the FIFO can hold *)
(* since an interrupt that found no broadcast under way: nothing while the *)
(* slot is due, then at most this turn's claim, the summary, the general   *)
(* broadcast.  Once the slot is served no other is due before the next     *)
(* interrupt.                                                              *)
Claims == IF sentClaim THEN 1 ELSE 0

OfferedSoFar ==
  /\ pc \in Boot => Len(fifo) <= 0
  /\ flag["100ms"] => \/ Len(fifo) <= 0
                      \/ pc \in {"check100", "clear100"} /\ Len(fifo) <= Claims
  /\ pc \in {"clear100", "bms"} => Len(fifo) <= Claims
  /\ pc = "general" => Len(fifo) <= Claims + 1
  /\ pc = "extv" => Len(fifo) <= Claims + 2
  /\ pc \in {"bms", "general", "extv"} => ~flag["100ms"]

TurnFitsFifo ==
  /\ pc \in {"check200", "clear200", "claim"} => ~sentClaim
  /\ calm # "no" => OfferedSoFar

LEMMA TurnFitsInit == Init => TurnFitsFifo
  BY DEF Init, TurnFitsFifo, OfferedSoFar, Boot, Slot

LEMMA TurnFitsStep == TypeOK /\ TurnFitsFifo /\ [Next]_vars => TurnFitsFifo'
  <1> SUFFICES ASSUME TypeOK, TurnFitsFifo, [Next]_vars PROVE TurnFitsFifo'
    OBVIOUS
  <1>0. /\ fifo \in Seq(Frame) /\ thermIndex \in Nat /\ segment \in Nat
        /\ flag["100ms"] \in BOOLEAN /\ sentClaim \in BOOLEAN
    BY DEF TypeOK, Slot
  <1> USE DEF TurnFitsFifo, OfferedSoFar, Claims, Boot, timerVars, loopVars,
              busVars, paceVars, histVars, Goto
  <1>1. CASE Tim7Elapsed
    <2>1. pc' = pc /\ fifo' = fifo /\ sentClaim' = sentClaim
      BY <1>1 DEF Tim7Elapsed
    <2>2. calm' # "no" => Len(fifo) <= 0 /\ pc \notin {"bms", "general", "extv"}
      <3>1. calm' # "no" => BroadcastOver
        BY <1>1 DEF Tim7Elapsed
      <3>2. Len(<<>>) = 0
        OBVIOUS
      <3> QED
        BY <3>1, <3>2 DEF BroadcastOver
    <2> QED
      BY <1>0, <2>1, <2>2
  <1>2. CASE Startup
    BY <1>0, <1>2 DEF Startup, ReleaseSchedule, SetSchedulingEnabled,
                      ResetCanSchedule
  <1>3. CASE EnterLoop
    BY <1>0, <1>3 DEF EnterLoop
  <1>4. CASE SampleTherms
    BY <1>0, <1>4 DEF SampleTherms
  <1>5. CASE \/ ReadFlag("200ms", "check200", "clear200", "check100")
             \/ ReadFlag("100ms", "check100", "clear100", "volt")
    BY <1>0, <1>5 DEF ReadFlag
  <1>6. CASE ClearFlag("200ms", "clear200", "claim")
    <2>1. flag'["100ms"] = flag["100ms"]
      BY <1>6 DEF ClearFlag, TypeOK, Slot
    <2> QED
      BY <1>0, <1>6, <2>1 DEF ClearFlag
  <1>7. CASE ClearFlag("100ms", "clear100", "bms")
    <2>1. ~flag'["100ms"]
      BY <1>7 DEF ClearFlag, TypeOK, Slot
    <2> QED
      BY <1>0, <1>7, <2>1 DEF ClearFlag
  <1>8. CASE SendClaim
    <2>1. [id |-> "claim", index |-> 0] \in Frame
      BY DEF Frame
    <2>2. Len(fifo') <= Len(fifo) + 1 /\ fifo' \in Seq(Frame)
      BY <1>0, <1>8, <2>1, OfferQueues DEF SendClaim
    <2> QED
      BY <1>0, <1>8, <2>2 DEF SendClaim
  <1>9. CASE SendBms
    <2>1. [id |-> "bms", index |-> 0] \in Frame
      BY DEF Frame
    <2>2. Len(fifo') <= Len(fifo) + 1 /\ fifo' \in Seq(Frame)
      BY <1>0, <1>9, <2>1, OfferQueues DEF SendBms
    <2> QED
      BY <1>0, <1>9, <2>2 DEF SendBms
  <1>10. CASE SendGeneral
    <2>1. [id |-> "general", index |-> thermIndex] \in Frame
      BY <1>0 DEF Frame
    <2>2. Len(fifo') <= Len(fifo) + 1 /\ fifo' \in Seq(Frame)
      BY <1>0, <1>10, <2>1, OfferQueues DEF SendGeneral
    <2> QED
      BY <1>0, <1>10, <2>2 DEF SendGeneral
  <1>11. CASE SendExtVoltage \/ SkipExtVoltage
    BY <1>0, <1>11 DEF SendExtVoltage, SkipExtVoltage
  <1>12. CASE ConsumeEvent \/ NextThermistor \/ ServiceVolt
    BY <1>0, <1>12 DEF ConsumeEvent, NextThermistor, ServiceVolt
  <1>13. CASE BusTransmit
    <2>1. Len(fifo') <= Len(fifo) /\ fifo' \in Seq(Frame)
      BY <1>0, <1>13, TransmitShortens DEF BusTransmit
    <2> QED
      BY <1>0, <1>13, <2>1 DEF BusTransmit
  <1>14. CASE UNCHANGED vars
    BY <1>0, <1>14 DEF vars
  <1> QED
    BY <1>1, <1>2, <1>3, <1>4, <1>5, <1>6, <1>7, <1>8, <1>9, <1>10, <1>11,
       <1>12, <1>13, <1>14 DEF Next, MainLoop

LEMMA AlwaysFits == Spec => []TurnFitsFifo
  BY TypeInit, TypeStep, TurnFitsInit, TurnFitsStep, PTL DEF Spec

(* From an interrupt that found no broadcast under way to the next, a FIFO *)
(* of three elements refuses no frame but a claim that comes after the     *)
(* slot's broadcast, for every period and every interleaving and whatever  *)
(* the bus does in the meantime: the deferral of the external-voltage      *)
(* frame in CAN_SendMessages is what keeps a turn at three frames.         *)
THEOREM OnlyLateClaimsRefused ==
  ASSUME TxFifoDepth >= 3
  PROVE  Spec => []OnlyLateClaimRefused
  <1>1. TypeOK /\ TurnFitsFifo => OnlyLateClaimRefused
    BY ScheduleAssumption
       DEF TypeOK, TurnFitsFifo, OfferedSoFar, Claims, OnlyLateClaimRefused,
           HasRoom, MaySendExtVoltage
  <1> QED
    BY <1>1, TypeCorrect, AlwaysFits, PTL

-----------------------------------------------------------------------------
(* The refinement of ExtVoltageMailbox.  A turn that has sent the frame    *)
(* still has an event to consume.                                          *)
EventToConsume == pc = "consume" => events > 0

LEMMA EventToConsumeInit == Init => EventToConsume
  BY DEF Init, EventToConsume

LEMMA EventToConsumeStep ==
  TypeOK /\ EventToConsume /\ [Next]_vars => EventToConsume'
  <1> SUFFICES ASSUME TypeOK, EventToConsume, [Next]_vars
               PROVE  EventToConsume'
    OBVIOUS
  <1> USE DEF EventToConsume, timerVars, Goto
  <1>1. CASE Tim7Elapsed
    BY <1>1 DEF Tim7Elapsed, RaisedEvents, TypeOK
  <1>2. CASE Startup
    BY <1>2 DEF Startup, ReleaseSchedule, SetSchedulingEnabled,
                ResetCanSchedule
  <1>3. CASE EnterLoop \/ SampleTherms \/ SendClaim \/ SendBms \/ SendGeneral
             \/ SkipExtVoltage \/ ConsumeEvent \/ NextThermistor
             \/ ServiceVolt
    BY <1>3 DEF EnterLoop, SampleTherms, SendClaim, SendBms, SendGeneral,
                SkipExtVoltage, ConsumeEvent, NextThermistor, ServiceVolt
  <1>4. CASE \/ ReadFlag("200ms", "check200", "clear200", "check100")
             \/ ReadFlag("100ms", "check100", "clear100", "volt")
    BY <1>4 DEF ReadFlag
  <1>5. CASE \/ ClearFlag("200ms", "clear200", "claim")
             \/ ClearFlag("100ms", "clear100", "bms")
    BY <1>5 DEF ClearFlag
  <1>6. CASE SendExtVoltage
    BY <1>6 DEF SendExtVoltage, MaySendExtVoltage, ExtVoltageReady
  <1>7. CASE BusTransmit
    BY <1>7 DEF BusTransmit
  <1>8. CASE UNCHANGED vars
    BY <1>8 DEF vars
  <1> QED
    BY <1>1, <1>2, <1>3, <1>4, <1>5, <1>6, <1>7, <1>8 DEF Next, MainLoop

(* Every step of the schedule is a step of the mailbox or leaves it alone. *)
LEMMA MailboxStep ==
  TypeOK /\ EventToConsume /\ [Next]_vars => [Mailbox!Next]_(Mailbox!vars)
  <1> SUFFICES ASSUME TypeOK, EventToConsume, [Next]_vars
               PROVE  [Mailbox!Next]_(Mailbox!vars)
    OBVIOUS
  <1>0. events \in 0..EventCountMax /\ EventCountMax \in Nat
    BY ScheduleAssumption DEF TypeOK
  <1> USE DEF EventToConsume, timerVars, loopVars, Goto, Mailbox!vars
  <1>1. CASE Tim7Elapsed
    <2>1. CASE events' = events
      BY <1>1, <2>1 DEF Tim7Elapsed
    <2>2. CASE events' # events
      <3>1. events' = events + 1 /\ events < EventCountMax
        BY <1>1, <2>2 DEF Tim7Elapsed, RaisedEvents
      <3>2. Mailbox!Owe
        BY <1>0, <1>1, <3>1 DEF Tim7Elapsed, Mailbox!Owe
      <3> QED
        BY <3>2 DEF Mailbox!Next
    <2> QED
      BY <2>1, <2>2
  <1>2. CASE Startup
    <2>1. Mailbox!Release
      BY <1>2 DEF Startup, ReleaseSchedule, SetSchedulingEnabled,
                ResetCanSchedule, Mailbox!Release
    <2> QED
      BY <2>1 DEF Mailbox!Next
  <1>3. CASE SendExtVoltage
    <2>1. Mailbox!Deliver
      BY <1>0, <1>3 DEF SendExtVoltage, MaySendExtVoltage, ExtVoltageReady,
                        Mailbox!Deliver
    <2> QED
      BY <2>1 DEF Mailbox!Next
  <1>4. CASE ConsumeEvent
    BY <1>0, <1>4 DEF ConsumeEvent
  <1>5. CASE EnterLoop \/ SampleTherms \/ SendClaim \/ SendBms \/ SendGeneral
             \/ SkipExtVoltage \/ NextThermistor \/ ServiceVolt
    BY <1>5 DEF EnterLoop, SampleTherms, SendClaim, SendBms, SendGeneral,
                SkipExtVoltage, NextThermistor, ServiceVolt
  <1>6. CASE \/ ReadFlag("200ms", "check200", "clear200", "check100")
             \/ ReadFlag("100ms", "check100", "clear100", "volt")
    BY <1>6 DEF ReadFlag
  <1>7. CASE \/ ClearFlag("200ms", "clear200", "claim")
             \/ ClearFlag("100ms", "clear100", "bms")
    BY <1>7 DEF ClearFlag
  <1>8. CASE BusTransmit
    BY <1>8 DEF BusTransmit
  <1>9. CASE UNCHANGED vars
    BY <1>9 DEF vars
  <1> QED
    BY <1>1, <1>2, <1>3, <1>4, <1>5, <1>6, <1>7, <1>8, <1>9 DEF Next, MainLoop

(* Interrupt and loop together implement the mailbox, whatever the bus and *)
(* the pace of the loop: no second's frame is paid twice or with the wrong *)
(* segment, none is paid without being owed, and at most EventCountMax are *)
(* remembered.                                                             *)
THEOREM MailboxRefined == Spec => ImplementsMailbox
  <1>1. Init => Mailbox!Init
    BY DEF Init, Mailbox!Init
  <1> QED
    BY <1>1, TypeInit, TypeStep, EventToConsumeInit, EventToConsumeStep,
       MailboxStep, PTL DEF Spec, ImplementsMailbox, Mailbox!Spec

-----------------------------------------------------------------------------
(* Rotation.  The frames of one id in the FIFO, preceded by the last one   *)
(* on the bus and followed by the next one the loop will offer, count up   *)
(* modulo the size of their table.                                         *)
Places(queue, id) == {i \in 1..Len(queue) : queue[i].id = id}

IndexAt(queue, last, next, i) ==
  IF i = 0 THEN last ELSE IF i <= Len(queue) THEN queue[i].index ELSE next

InRotation(queue, id, last, next, size) ==
  \A i \in {0} \union Places(queue, id),
     j \in Places(queue, id) \union {Len(queue) + 1} :
    i < j /\ (\A k \in Places(queue, id) : ~(i < k /\ k < j))
      => IndexAt(queue, last, next, j)
           = (IndexAt(queue, last, next, i) + 1) % size

(* The oldest frame, if it is one of them, comes after the last one sent.  *)
LEMMA HeadFollows ==
  ASSUME NEW queue \in Seq(Frame), queue # <<>>, NEW id, NEW last, NEW next,
         NEW size, InRotation(queue, id, last, next, size), Head(queue).id = id
  PROVE  Head(queue).index = (last + 1) % size
  <1>1. 1 \in Places(queue, id) /\ Head(queue) = queue[1] /\ 1 <= Len(queue)
    BY DEF Places
  <1>2. \A k \in Places(queue, id) : ~(0 < k /\ k < 1)
    BY DEF Places
  <1>3. IndexAt(queue, last, next, 1) = (IndexAt(queue, last, next, 0) + 1) % size
    BY <1>1, <1>2 DEF InRotation
  <1> QED
    BY <1>1, <1>3 DEF IndexAt

(* Sending the oldest frame keeps the rotation.                            *)
LEMMA TailRotates ==
  ASSUME NEW queue \in Seq(Frame), queue # <<>>, NEW id, NEW last, NEW next,
         NEW size, InRotation(queue, id, last, next, size)
  PROVE  InRotation(Tail(queue), id,
                    IF Head(queue).id = id THEN Head(queue).index ELSE last,
                    next, size)
  <1> DEFINE rest == Tail(queue)
             last2 == IF Head(queue).id = id THEN Head(queue).index ELSE last
             From(i) == IF i = 0 /\ Head(queue).id # id THEN 0 ELSE i + 1
  <1>1. /\ Len(rest) \in Nat /\ Len(queue) = Len(rest) + 1
        /\ \A i \in 1..Len(rest) : rest[i] = queue[i + 1]
        /\ Head(queue) = queue[1]
    OBVIOUS
  <1>2. \A i \in 1..Len(rest) : i \in Places(rest, id) <=> i + 1 \in Places(queue, id)
    <2> HIDE DEF rest
    <2> QED
      BY <1>1 DEF Places
  <1>3. SUFFICES ASSUME NEW i \in {0} \union Places(rest, id),
                        NEW j \in Places(rest, id) \union {Len(rest) + 1},
                        i < j, \A k \in Places(rest, id) : ~(i < k /\ k < j)
                 PROVE  IndexAt(rest, last2, next, j)
                          = (IndexAt(rest, last2, next, i) + 1) % size
    BY DEF InRotation
  <1> HIDE DEF rest
  <1>4. /\ i \in 0..Len(rest) /\ j \in 1..Len(rest) + 1
        /\ i # 0 => i \in 1..Len(rest)
    BY <1>1 DEF Places
  <1>5. /\ From(i) \in {0} \union Places(queue, id)
        /\ IndexAt(queue, last, next, From(i)) = IndexAt(rest, last2, next, i)
    <2>1. CASE i = 0 /\ Head(queue).id # id
      BY <2>1 DEF IndexAt
    <2>2. CASE i = 0 /\ Head(queue).id = id
      <3>1. 1 \in Places(queue, id) /\ 1 <= Len(queue)
        BY <1>1, <2>2 DEF Places
      <3> QED
        BY <1>1, <2>2, <3>1 DEF IndexAt
    <2>3. CASE i # 0
      <3>1. i \in 1..Len(rest) /\ i + 1 \in Places(queue, id)
        BY <1>2, <1>4, <2>3
      <3> QED
        BY <1>1, <2>3, <3>1 DEF IndexAt
    <2> QED
      BY <2>1, <2>2, <2>3
  <1>6. /\ j + 1 \in Places(queue, id) \union {Len(queue) + 1}
        /\ IndexAt(queue, last, next, j + 1) = IndexAt(rest, last2, next, j)
    <2>1. CASE j = Len(rest) + 1
      BY <1>1, <2>1 DEF IndexAt
    <2>2. CASE j # Len(rest) + 1
      <3>1. j \in 1..Len(rest) /\ j + 1 \in Places(queue, id)
        BY <1>1, <1>2, <1>4, <2>2
      <3> QED
        BY <1>1, <3>1 DEF IndexAt
    <2> QED
      BY <2>1, <2>2
  <1>7. From(i) < j + 1 /\ \A k \in Places(queue, id) : ~(From(i) < k /\ k < j + 1)
    <2>1. From(i) < j + 1
      BY <1>3, <1>4
    <2>2. ASSUME NEW k \in Places(queue, id), From(i) < k, k < j + 1
          PROVE  FALSE
      <3>1. k \in 1..Len(queue) /\ queue[k].id = id
        BY DEF Places
      <3>2. CASE k = 1
        BY <1>1, <1>4, <2>2, <3>1, <3>2
      <3>3. CASE k # 1
        <4>0. k - 1 \in 1..Len(rest)
          BY <1>1, <3>1, <3>3
        <4>1. k - 1 \in Places(rest, id)
          BY <1>2, <3>1, <4>0
        <4>2. i < k - 1 /\ k - 1 < j
          BY <1>4, <2>2, <3>1, <3>3
        <4> QED
          BY <1>3, <4>1, <4>2
      <3> QED
        BY <3>2, <3>3
    <2> QED
      BY <2>1, <2>2
  <1>8. IndexAt(queue, last, next, j + 1)
          = (IndexAt(queue, last, next, From(i)) + 1) % size
    BY <1>5, <1>6, <1>7 DEF InRotation
  <1> QED
    BY <1>5, <1>6, <1>8

(* A frame of another id at the end of the FIFO keeps the rotation.        *)
LEMMA OtherAppended ==
  ASSUME NEW queue \in Seq(Frame), NEW frame \in Frame, NEW id, NEW last,
         NEW next, NEW size, InRotation(queue, id, last, next, size),
         frame.id # id
  PROVE  InRotation(Append(queue, frame), id, last, next, size)
  <1> DEFINE longer == Append(queue, frame)
             From(j) == IF j = Len(queue) + 2 THEN Len(queue) + 1 ELSE j
  <1>1. /\ Len(queue) \in Nat /\ Len(longer) = Len(queue) + 1
        /\ \A i \in 1..Len(queue) : longer[i] = queue[i]
        /\ longer[Len(queue) + 1] = frame
    OBVIOUS
  <1>2. Places(longer, id) = Places(queue, id)
    BY <1>1 DEF Places
  <1>3. SUFFICES ASSUME NEW i \in {0} \union Places(queue, id),
                        NEW j \in Places(queue, id) \union {Len(longer) + 1},
                        i < j, \A k \in Places(queue, id) : ~(i < k /\ k < j)
                 PROVE  IndexAt(longer, last, next, j)
                          = (IndexAt(longer, last, next, i) + 1) % size
    BY <1>2 DEF InRotation
  <1>4. i \in 0..Len(queue) /\ \A k \in Places(queue, id) : k \in 1..Len(queue)
    BY <1>1 DEF Places
  <1>5. /\ From(j) \in Places(queue, id) \union {Len(queue) + 1}
        /\ i < From(j) /\ \A k \in Places(queue, id) : ~(i < k /\ k < From(j))
        /\ IndexAt(queue, last, next, From(j)) = IndexAt(longer, last, next, j)
    BY <1>1, <1>3, <1>4 DEF IndexAt
  <1>6. IndexAt(queue, last, next, i) = IndexAt(longer, last, next, i)
    BY <1>1, <1>4 DEF IndexAt
  <1>7. IndexAt(queue, last, next, From(j))
          = (IndexAt(queue, last, next, i) + 1) % size
    BY <1>5 DEF InRotation
  <1> QED
    BY <1>5, <1>6, <1>7

(* The next frame at the end of the FIFO keeps the rotation, and the one   *)
(* after it is due.                                                        *)
LEMMA NextAppended ==
  ASSUME NEW queue \in Seq(Frame), NEW frame \in Frame, NEW last, NEW size,
         InRotation(queue, frame.id, last, frame.index, size)
  PROVE  InRotation(Append(queue, frame), frame.id, last,
                    (frame.index + 1) % size, size)
  <1> DEFINE longer == Append(queue, frame)
             id == frame.id
             next == frame.index
             next2 == (frame.index + 1) % size
  <1>1. /\ Len(queue) \in Nat /\ Len(longer) = Len(queue) + 1
        /\ \A i \in 1..Len(queue) : longer[i] = queue[i]
        /\ longer[Len(queue) + 1] = frame
    OBVIOUS
  <1>2. Places(longer, id) = Places(queue, id) \union {Len(queue) + 1}
    BY <1>1 DEF Places
  <1>3. SUFFICES ASSUME NEW i \in {0} \union Places(longer, id),
                        NEW j \in Places(longer, id) \union {Len(longer) + 1},
                        i < j, \A k \in Places(longer, id) : ~(i < k /\ k < j)
                 PROVE  IndexAt(longer, last, next2, j)
                          = (IndexAt(longer, last, next2, i) + 1) % size
    BY DEF InRotation
  <1>4. \A k \in Places(queue, id) : k \in 1..Len(queue)
    BY <1>1 DEF Places
  <1>5. CASE j = Len(longer) + 1
    <2>1. i = Len(queue) + 1
      BY <1>1, <1>2, <1>3, <1>4, <1>5
    <2> QED
      BY <1>1, <1>5, <2>1 DEF IndexAt
  <1>6. CASE j # Len(longer) + 1
    <2>1. /\ j \in Places(queue, id) \union {Len(queue) + 1}
          /\ i \in {0} \union Places(queue, id)
          /\ \A k \in Places(queue, id) : ~(i < k /\ k < j)
      BY <1>1, <1>2, <1>3, <1>4, <1>6
    <2>2. IndexAt(queue, last, next, j) = (IndexAt(queue, last, next, i) + 1) % size
      BY <1>3, <2>1 DEF InRotation
    <2>3. /\ IndexAt(queue, last, next, j) = IndexAt(longer, last, next2, j)
          /\ IndexAt(queue, last, next, i) = IndexAt(longer, last, next2, i)
      BY <1>1, <1>4, <2>1 DEF IndexAt
    <2> QED
      BY <2>2, <2>3
  <1> QED
    BY <1>5, <1>6

(* An empty FIFO between the last place of a table and its first.          *)
LEMMA EmptyRotates ==
  ASSUME NEW id, NEW size \in Nat \ {0}
  PROVE  InRotation(<<>>, id, size - 1, 0, size)
  <1>1. Places(<<>>, id) = {} /\ Len(<<>>) = 0
    BY DEF Places
  <1>2. ((size - 1) + 1) % size = 0
    BY Z3
  <1> QED
    BY <1>1, <1>2 DEF InRotation, IndexAt

(* The segments: a frame the FIFO has taken advances the index, in the     *)
(* step after it.                                                          *)
SegmentDue == IF pc = "consume" THEN (segment + 1) % Segments ELSE segment

SegmentsRotate == InRotation(fifo, "extv", lastSeg, SegmentDue, Segments)

LEMMA SegmentsRotateInit == Init => SegmentsRotate
  BY EmptyRotates, ScheduleAssumption DEF Init, SegmentsRotate, SegmentDue

LEMMA SegmentsRotateStep ==
  TypeOK /\ SegmentsRotate /\ [Next]_vars => SegmentsRotate'
  <1> SUFFICES ASSUME TypeOK, SegmentsRotate, [Next]_vars
               PROVE  SegmentsRotate'
    OBVIOUS
  <1>0. fifo \in Seq(Frame) /\ thermIndex \in Nat /\ segment \in Nat
    BY ScheduleAssumption DEF TypeOK
  <1> USE DEF timerVars, loopVars, busVars, paceVars, histVars, Goto
  <1>1. CASE UNCHANGED <<fifo, lastSeg, segment>> /\ (pc = "consume" <=> pc' = "consume")
    <2>1. SegmentDue' = SegmentDue
      BY <1>1 DEF SegmentDue
    <2> QED
      BY <1>1, <2>1 DEF SegmentsRotate
  <1>2. CASE Tim7Elapsed \/ Startup \/ EnterLoop \/ SampleTherms
    BY <1>1, <1>2 DEF Tim7Elapsed, Startup, ReleaseSchedule, EnterLoop, SampleTherms
  <1>3. CASE SkipExtVoltage \/ NextThermistor \/ ServiceVolt \/ UNCHANGED vars
    BY <1>1, <1>3 DEF SkipExtVoltage, NextThermistor, ServiceVolt, vars
  <1>4. CASE \/ ReadFlag("200ms", "check200", "clear200", "check100")
             \/ ReadFlag("100ms", "check100", "clear100", "volt")
    BY <1>1, <1>4 DEF ReadFlag
  <1>5. CASE \/ ClearFlag("200ms", "clear200", "claim")
             \/ ClearFlag("100ms", "clear100", "bms")
    BY <1>1, <1>5 DEF ClearFlag
  <1>6. ASSUME NEW frame \in Frame, Offer(frame), frame.id # "extv",
               segment' = segment, pc # "consume", pc' # "consume"
        PROVE  SegmentsRotate'
    <2>1. SegmentDue' = SegmentDue /\ lastSeg' = lastSeg
      BY <1>6 DEF SegmentDue, Offer
    <2>2. InRotation(Append(fifo, frame), "extv", lastSeg, SegmentDue, Segments)
      BY <1>0, <1>6, OtherAppended DEF SegmentsRotate
    <2> QED
      BY <1>6, <2>1, <2>2 DEF Offer, SegmentsRotate
  <1>7. CASE SendClaim
    <2>1. [id |-> "claim", index |-> 0] \in Frame
      BY DEF Frame
    <2> QED
      BY <1>6, <1>7, <2>1 DEF SendClaim
  <1>8. CASE SendBms
    <2>1. [id |-> "bms", index |-> 0] \in Frame
      BY DEF Frame
    <2> QED
      BY <1>6, <1>8, <2>1 DEF SendBms
  <1>9. CASE SendGeneral
    <2>1. [id |-> "general", index |-> thermIndex] \in Frame
      BY <1>0 DEF Frame
    <2> QED
      BY <1>6, <1>9, <2>1 DEF SendGeneral
  <1>10. CASE SendExtVoltage
    <2> DEFINE frame == [id |-> "extv", index |-> segment]
    <2>1. frame \in Frame /\ frame.id = "extv" /\ frame.index = segment
      BY <1>0 DEF Frame
    <2>2. /\ fifo' = Append(fifo, frame) /\ lastSeg' = lastSeg
          /\ SegmentDue = segment /\ SegmentDue' = (segment + 1) % Segments
      BY <1>10 DEF SendExtVoltage, Offer, SegmentDue
    <2> HIDE DEF frame
    <2>3. InRotation(fifo, frame.id, lastSeg, frame.index, Segments)
      BY <2>1, <2>2 DEF SegmentsRotate
    <2>4. InRotation(Append(fifo, frame), frame.id, lastSeg,
                     (frame.index + 1) % Segments, Segments)
      BY <1>0, <2>1, <2>3, NextAppended
    <2> QED
      BY <2>1, <2>2, <2>4 DEF SegmentsRotate
  <1>11. CASE ConsumeEvent
    <2>1. SegmentDue' = SegmentDue /\ fifo' = fifo /\ lastSeg' = lastSeg
      BY <1>11 DEF ConsumeEvent, SegmentDue
    <2> QED
      BY <2>1 DEF SegmentsRotate
  <1>12. CASE BusTransmit
    <2>1. SegmentDue' = SegmentDue
      BY <1>12 DEF BusTransmit, SegmentDue
    <2> QED
      BY <1>0, <1>12, <2>1, TailRotates DEF BusTransmit, SegmentsRotate
  <1> QED
    BY <1>2, <1>3, <1>4, <1>5, <1>7, <1>8, <1>9, <1>10, <1>11, <1>12
       DEF Next, MainLoop

(* The bus carries the segments of the cell stack in rotation, whatever    *)
(* the FIFO refuses and however the loop stalls.                           *)
THEOREM SegmentsRotateOnBus == Spec => SegmentsInOrder
  <1> DEFINE InOrder == fifo # <<>> /\ fifo' = Tail(fifo) /\ Head(fifo).id = "extv"
                          => Head(fifo).index = (lastSeg + 1) % Segments
  <1>1. TypeOK /\ SegmentsRotate => InOrder
    BY HeadFollows DEF TypeOK, SegmentsRotate
  <1> QED
    BY <1>1, TypeInit, TypeStep, SegmentsRotateInit, SegmentsRotateStep, PTL
       DEF Spec, SegmentsInOrder

-----------------------------------------------------------------------------
(* The thermistors: the index advances whether the FIFO has taken the      *)
(* frame or not, so that their order rests on a FIFO that has room.        *)
ThermDue ==
  IF pc \in {"extv", "consume", "advance"} THEN (thermIndex + 1) % ThermCount
                                           ELSE thermIndex

ThermsRotate ==
  calm = "always" => InRotation(fifo, "general", lastTherm, ThermDue, ThermCount)

LEMMA ThermsRotateInit == Init => ThermsRotate
  BY EmptyRotates, ScheduleAssumption DEF Init, ThermsRotate, ThermDue

LEMMA ThermsRotateStep ==
  ASSUME TxFifoDepth >= 3
  PROVE  TypeOK /\ TurnFitsFifo /\ ThermsRotate /\ [Next]_vars => ThermsRotate'
  <1> SUFFICES ASSUME TypeOK, TurnFitsFifo, ThermsRotate, [Next]_vars,
                      calm' = "always"
               PROVE  ThermsRotate'
    BY DEF ThermsRotate
  <1>0. fifo \in Seq(Frame) /\ thermIndex \in Nat /\ segment \in Nat
    BY ScheduleAssumption DEF TypeOK
  <1> USE DEF timerVars, loopVars, busVars, paceVars, histVars, Goto
  <1>a. calm = "always"
    <2>1. CASE Tim7Elapsed
      BY <2>1 DEF Tim7Elapsed
    <2>2. CASE ~Tim7Elapsed
      BY <2>2 DEF Next, Startup, MainLoop, ReleaseSchedule, EnterLoop, SampleTherms,
                  ReadFlag, ClearFlag, SendClaim, SendBms, SendGeneral,
                  SendExtVoltage, SkipExtVoltage, ConsumeEvent, NextThermistor,
                  ServiceVolt, BusTransmit, vars
    <2> QED
      BY <2>1, <2>2
  <1> USE <1>a
  <1>1. CASE /\ UNCHANGED <<fifo, lastTherm, thermIndex>>
             /\ pc \in {"extv", "consume", "advance"}
                  <=> pc' \in {"extv", "consume", "advance"}
    <2>1. ThermDue' = ThermDue
      BY <1>1 DEF ThermDue
    <2> QED
      BY <1>1, <2>1 DEF ThermsRotate
  <1>2. CASE Tim7Elapsed \/ Startup \/ EnterLoop \/ SampleTherms
    BY <1>1, <1>2 DEF Tim7Elapsed, Startup, ReleaseSchedule, EnterLoop, SampleTherms
  <1>3. CASE SkipExtVoltage \/ ConsumeEvent \/ ServiceVolt \/ UNCHANGED vars
    BY <1>1, <1>3 DEF SkipExtVoltage, ConsumeEvent, ServiceVolt, vars
  <1>4. CASE \/ ReadFlag("200ms", "check200", "clear200", "check100")
             \/ ReadFlag("100ms", "check100", "clear100", "volt")
    BY <1>1, <1>4 DEF ReadFlag
  <1>5. CASE \/ ClearFlag("200ms", "clear200", "claim")
             \/ ClearFlag("100ms", "clear100", "bms")
    BY <1>1, <1>5 DEF ClearFlag
  <1>6. ASSUME NEW frame \in Frame, Offer(frame), frame.id # "general",
               thermIndex' = thermIndex,
               pc \in {"extv", "consume", "advance"}
                 <=> pc' \in {"extv", "consume", "advance"}
        PROVE  ThermsRotate'
    <2>1. ThermDue' = ThermDue /\ lastTherm' = lastTherm
      BY <1>6 DEF ThermDue, Offer
    <2>2. InRotation(Append(fifo, frame), "general", lastTherm, ThermDue, ThermCount)
      BY <1>0, <1>6, OtherAppended DEF ThermsRotate
    <2>3. InRotation(fifo', "general", lastTherm, ThermDue, ThermCount)
      BY <1>6, <2>2 DEF Offer, ThermsRotate
    <2> QED
      BY <2>1, <2>3 DEF ThermsRotate
  <1>7. CASE SendClaim
    <2>1. [id |-> "claim", index |-> 0] \in Frame
      BY DEF Frame
    <2> QED
      BY <1>6, <1>7, <2>1 DEF SendClaim
  <1>8. CASE SendBms
    <2>1. [id |-> "bms", index |-> 0] \in Frame
      BY DEF Frame
    <2> QED
      BY <1>6, <1>8, <2>1 DEF SendBms
  <1>9. CASE SendGeneral
    <2> DEFINE frame == [id |-> "general", index |-> thermIndex]
    <2>1. frame \in Frame /\ frame.id = "general" /\ frame.index = thermIndex
      BY <1>0 DEF Frame
    <2>2. HasRoom
      BY <1>0, <1>9, ScheduleAssumption
         DEF SendGeneral, TurnFitsFifo, OfferedSoFar, Claims, HasRoom
    <2>3. /\ fifo' = Append(fifo, frame) /\ lastTherm' = lastTherm
          /\ ThermDue = thermIndex /\ ThermDue' = (thermIndex + 1) % ThermCount
      BY <1>9, <2>2 DEF SendGeneral, Offer, ThermDue
    <2> HIDE DEF frame
    <2>4. InRotation(fifo, frame.id, lastTherm, frame.index, ThermCount)
      BY <2>1, <2>3 DEF ThermsRotate
    <2>5. InRotation(Append(fifo, frame), frame.id, lastTherm,
                     (frame.index + 1) % ThermCount, ThermCount)
      BY <1>0, <2>1, <2>4, NextAppended
    <2> QED
      BY <2>1, <2>3, <2>5 DEF ThermsRotate
  <1>10. CASE SendExtVoltage
    <2>1. [id |-> "extv", index |-> segment] \in Frame
      BY <1>0 DEF Frame
    <2> QED
      BY <1>6, <1>10, <2>1 DEF SendExtVoltage
  <1>11. CASE NextThermistor
    <2>1. ThermDue' = ThermDue /\ fifo' = fifo /\ lastTherm' = lastTherm
      BY <1>11 DEF NextThermistor, ThermDue
    <2> QED
      BY <2>1 DEF ThermsRotate
  <1>12. CASE BusTransmit
    <2>1. ThermDue' = ThermDue
      BY <1>12 DEF BusTransmit, ThermDue
    <2> QED
      BY <1>0, <1>12, <2>1, TailRotates DEF BusTransmit, ThermsRotate
  <1> QED
    BY <1>2, <1>3, <1>4, <1>5, <1>7, <1>8, <1>9, <1>10, <1>11, <1>12
       DEF Next, MainLoop

(* As long as the interrupts find the broadcasts over, the bus carries the *)
(* thermistors in rotation.                                                *)
THEOREM ThermistorsRotateOnBus ==
  ASSUME TxFifoDepth >= 3
  PROVE  Spec => ThermistorsInOrder
  <1> DEFINE InOrder == calm = "always" /\ fifo # <<>> /\ fifo' = Tail(fifo)
                          /\ Head(fifo).id = "general"
                          => Head(fifo).index = (lastTherm + 1) % ThermCount
  <1>1. TypeOK /\ ThermsRotate => InOrder
    BY HeadFollows DEF TypeOK, ThermsRotate
  <1> QED
    BY <1>1, TypeInit, TypeStep, TurnFitsInit, TurnFitsStep, ThermsRotateInit,
       ThermsRotateStep, PTL DEF Spec, ThermistorsInOrder

-----------------------------------------------------------------------------
(* A loop that keeps pace with the interrupt, with the periods of timer.h: *)
(* a 100 ms slot at every interrupt, a claim at every second one.  Nothing *)
(* is assumed of the bus, of the FIFO or of the external-voltage period.   *)

One(b) == IF b THEN 1 ELSE 0

(* The steps of a turn up to the clearing of the 100 ms flag: an interrupt *)
(* there is served in the same turn, a later one in the next.              *)
Early == {"therm", "check200", "clear200", "claim", "check100", "clear100"}
Late  == LoopStep \ Early

(* An interrupt that comes one turn after the last, at a step no earlier.  *)
LEMMA NoEarlierStep ==
  ASSUME NEW p \in LoopStep, NEW t \in LoopStep, Position[p] >= Position[t],
         t \notin Early
  PROVE  p \notin Early /\ (p = "bms" => t = "bms")
  <1>1. /\ Position["therm"] = 0 /\ Position["check200"] = 1
        /\ Position["clear200"] = 2 /\ Position["claim"] = 3
        /\ Position["check100"] = 4 /\ Position["clear100"] = 5
        /\ Position["bms"] = 6 /\ Position["general"] = 7
        /\ Position["extv"] = 8 /\ Position["consume"] = 9
        /\ Position["advance"] = 10 /\ Position["volt"] = 11
    BY DEF Position
  <1>2. Position[t] >= 6 /\ (Position[t] <= 6 => t = "bms")
    BY <1>1 DEF LoopStep, Early
  <1>3. p \in Early => Position[p] <= 5
    BY <1>1 DEF Early
  <1> QED
    BY <1>1, <1>2, <1>3 DEF Early, LoopStep

-----------------------------------------------------------------------------
(* Every slot has its summary.  Owed counts the summaries of the last      *)
(* interrupt, sent, under way or still to come: one, and a second one if   *)
(* the last but one was under way when the interrupt came.  Served says    *)
(* when the flag has been dealt with, in terms of the step the interrupt   *)
(* came at; before the first turn is over no voltages are available.       *)
Owed == One(flag["100ms"]) + One(pc = "bms") + bmsSince

Booting == pc \in Boot => laps = 2 /\ bmsSince = 1 /\ ~cells

Counted ==
  /\ Owed \in 1..2
  /\ laps # 2 /\ tickAt = "bms" => Owed = 2

Served ==
  /\ pc = "clear100" => flag["100ms"]
  /\ laps = 0 /\ tickAt \in Early /\ pc \in Late => ~flag["100ms"]
  /\ laps = 0 /\ tickAt \in Late => pc \in Late
  /\ laps = 1 /\ tickAt \in Early => ~flag["100ms"] /\ pc # "bms"
  /\ laps = 1 /\ tickAt \in Late /\ pc \in Late => ~flag["100ms"]
  /\ laps = 2 => bmsSince >= 1
  /\ laps = 2 /\ (pc \in Late \/ cells) => ~flag["100ms"]

Paced == Booting /\ Counted /\ Served

(* What an interrupt in the loop finds: the summary of the last one sent,  *)
(* and its flag clear once voltages are available.                         *)
LEMMA SlotServed ==
  ASSUME LoopKeepsPace, TypeOK, Paced, MayTick, pc \in LoopStep
  PROVE  bmsSince \in 1..2 /\ (cells => ~flag["100ms"])
  <1>1. laps \in {1, 2} /\ (laps = 1 => Position[pc] >= Position[tickAt])
    BY DEF MayTick, Boot, LoopStep
  <1>2. CASE laps = 2
    BY <1>2 DEF Paced, Served, Counted, Owed, One, TypeOK
  <1>3. CASE laps = 1 /\ tickAt \in Early
    BY <1>3 DEF Paced, Served, Counted, Owed, One, TypeOK
  <1>4. CASE laps = 1 /\ tickAt \in Late
    <2>1. pc \in Late /\ (pc = "bms" => tickAt = "bms")
      BY <1>1, <1>4, NoEarlierStep DEF Late, TypeOK
    <2>2. ~flag["100ms"]
      BY <1>4, <2>1 DEF Paced, Served
    <2> QED
      BY <1>4, <2>1, <2>2 DEF Paced, Counted, Owed, One, TypeOK
  <1> QED
    BY <1>1, <1>2, <1>3, <1>4 DEF TypeOK, Late

LEMMA PacedInit == Init => Paced
  <1> SUFFICES ASSUME Init PROVE Paced
    OBVIOUS
  <1>1. flag["100ms"] = FALSE /\ pc = "startup" /\ bmsSince = 1 /\ laps = 2
    BY DEF Init, Slot
  <1> QED
    BY <1>1 DEF Init, Paced, Booting, Counted, Owed, One, Served, Late, Early,
                LoopStep

LEMMA PacedStep ==
  ASSUME LoopKeepsPace, Period["100ms"] = 1, TypeOK, TypeOK', Paced, [Next]_vars
  PROVE  Paced'
  <1> USE DEF Goto, timerVars, loopVars, busVars, paceVars, histVars
  <1>0. flag["100ms"] \in BOOLEAN /\ flag'["100ms"] \in BOOLEAN
    BY DEF TypeOK, Slot
  <1>1. CASE Tim7Elapsed /\ pc \in LoopStep
    <2>1. flag'["100ms"] /\ pc' = pc /\ cells' = cells
      <3>1. Elapsed("100ms")
        BY DEF Elapsed, TypeOK, Counter, Slot
      <3> QED
        BY <1>1, <3>1 DEF Tim7Elapsed, RaisedFlag, Slot
    <2>2. tickAt' = pc /\ laps' = 0 /\ bmsSince' = 0
      BY <1>1 DEF Tim7Elapsed
    <2> QED
      BY <1>1, <2>1, <2>2 DEF Paced, Booting, Counted, Owed, One, Served, Late,
                              Early, Boot, LoopStep
  <1>2. CASE Tim7Elapsed /\ pc \notin LoopStep
    <2>1. pc' = pc /\ pc \in Boot /\ cells' = cells
      BY <1>2 DEF Tim7Elapsed, TypeOK
    <2>2. laps' = laps /\ tickAt' = tickAt /\ bmsSince' = bmsSince
      BY <1>2 DEF Tim7Elapsed
    <2> QED
      BY <1>0, <1>2, <2>1, <2>2 DEF Paced, Booting, Counted, Owed, One, Served,
                                    Late, Early, Boot, LoopStep
  <1>3. CASE Startup \/ EnterLoop
    <2>1. /\ pc \in Boot /\ pc' \in {"pulse", "therm"}
          /\ UNCHANGED <<cells, laps, tickAt, bmsSince>>
      BY <1>3 DEF Startup, ReleaseSchedule, EnterLoop, Boot
    <2> QED
      BY <1>0, <2>1 DEF Paced, Booting, Counted, Owed, One, Served, Late, Early,
                        Boot, LoopStep
  <1>4. CASE ReadFlag("100ms", "check100", "clear100", "volt")
    <2>1. /\ pc = "check100"
          /\ pc' = IF flag["100ms"] THEN "clear100" ELSE "volt"
          /\ UNCHANGED <<flag, cells, laps, tickAt, bmsSince>>
      BY <1>4 DEF ReadFlag
    <2> QED
      BY <1>0, <2>1 DEF Paced, Booting, Counted, Owed, One, Served, Late, Early,
                        Boot, LoopStep
  <1>5. CASE ClearFlag("100ms", "clear100", "bms")
    <2>1. /\ pc = "clear100" /\ pc' = "bms" /\ ~flag'["100ms"]
          /\ UNCHANGED <<cells, laps, tickAt, bmsSince>>
      BY <1>5 DEF ClearFlag, TypeOK, Slot
    <2> QED
      BY <1>0, <2>1 DEF Paced, Booting, Counted, Owed, One, Served, Late, Early,
                        Boot, LoopStep
  <1>6. CASE SendBms
    <2>1. /\ pc = "bms" /\ pc' = "general" /\ flag' = flag
          /\ bmsSince' = AtMost(3, bmsSince + 1)
          /\ UNCHANGED <<cells, laps, tickAt>>
      BY <1>6 DEF SendBms
    <2> QED
      BY <1>0, <2>1 DEF Paced, Booting, Counted, Owed, One, Served, Late, Early,
                        Boot, LoopStep, AtMost, TypeOK
  <1>7. CASE ServiceVolt
    <2>1. /\ pc = "volt" /\ pc' = "therm" /\ flag' = flag
          /\ laps' = AtMost(2, laps + 1)
          /\ UNCHANGED <<tickAt, bmsSince>>
      BY <1>7 DEF ServiceVolt
    <2> QED
      BY <1>0, <2>1 DEF Paced, Booting, Counted, Owed, One, Served, Late, Early,
                        Boot, LoopStep, AtMost, TypeOK
  <1>8. CASE SampleTherms \/ SendClaim
               \/ ReadFlag("200ms", "check200", "clear200", "check100")
               \/ ClearFlag("200ms", "clear200", "claim")
    <2>1. /\ pc \in Early \ {"clear100"} /\ pc' \in Early \ {"clear100"}
          /\ flag'["100ms"] = flag["100ms"]
          /\ UNCHANGED <<cells, laps, tickAt, bmsSince>>
      BY <1>8 DEF SampleTherms, SendClaim, ReadFlag, ClearFlag, Early, TypeOK, Slot
    <2> QED
      BY <1>0, <2>1 DEF Paced, Booting, Counted, Owed, One, Served, Late, Early,
                        Boot, LoopStep
  <1>9. CASE \/ SendGeneral \/ SendExtVoltage \/ SkipExtVoltage
             \/ ConsumeEvent \/ NextThermistor
    <2>1. /\ pc \in Late \ {"bms"} /\ pc' \in Late \ {"bms"} /\ flag' = flag
          /\ UNCHANGED <<cells, laps, tickAt, bmsSince>>
      BY <1>9 DEF SendGeneral, SendExtVoltage, SkipExtVoltage, ConsumeEvent,
                  NextThermistor, Late, Early, LoopStep
    <2> QED
      BY <1>0, <2>1 DEF Paced, Booting, Counted, Owed, One, Served, Late, Early,
                        Boot, LoopStep
  <1>10. CASE BusTransmit \/ UNCHANGED vars
    <2>1. UNCHANGED <<flag, pc, cells, laps, tickAt, bmsSince>>
      BY <1>10 DEF BusTransmit, vars
    <2> QED
      BY <2>1 DEF Paced, Booting, Counted, Owed, One, Served
  <1> QED
    BY <1>1, <1>2, <1>3, <1>4, <1>5, <1>6, <1>7, <1>8, <1>9, <1>10
       DEF Next, MainLoop

(* A loop that keeps pace sends one summary per 100 ms slot, or two where  *)
(* the first one is late, and never none (CAN_SendMessages and the two     *)
(* steps of Timer_CheckCan100msFlag), whatever the bus does.               *)
THEOREM SummaryEverySlot ==
  ASSUME LoopKeepsPace, Period["100ms"] = 1
  PROVE  Spec => BmsEverySlot
  <1>1. TypeOK /\ Paced /\ [Next]_vars
          => [LoopKeepsPace /\ Tim7Elapsed /\ pc \in LoopStep
                => bmsSince \in 1..2]_vars
    BY SlotServed DEF Tim7Elapsed
  <1>2. TypeOK /\ TypeOK' /\ Paced /\ [Next]_vars => Paced'
    BY PacedStep
  <1> QED
    BY <1>1, <1>2, PacedInit, TypeCorrect, PTL DEF Spec, BmsEverySlot

-----------------------------------------------------------------------------
(* Claims and slots.  ClaimHalves counts the claims on hand, in halves, as  *)
(* every second interrupt brings one, and Slots the 100 ms slots, due or   *)
(* being served.  An interrupt adds at most one to each; a slot lost to a  *)
(* claim takes two from the one and one from the other and is counted in   *)
(* deferrals, so that their sum with ClaimHalves never outgrows Slots.     *)
ClaimHalves ==
  2 * One(flag["200ms"]) + counter["200ms"] + 2 * One(pc = "claim")
    + 2 * One(sentClaim /\ pc \in {"check100", "clear100", "bms", "general", "extv"})

Slots == One(flag["100ms"]) + One(pc \in {"bms", "general", "extv"})

InTurn ==
  /\ pc = "clear200" => flag["200ms"]
  /\ pc \in {"check200", "clear200", "claim"} => ~sentClaim
  /\ counter["200ms"] \in 0..1

(* A claim that fell due after its poll is the only one this turn, and     *)
(* came with the interrupt that makes the next one a whole period away.    *)
ClaimAfterPoll ==
  pc \in LoopStep \ {"therm", "check200", "clear200"} /\ flag["200ms"]
    => counter["200ms"] = 0 /\ laps = 0

(* A slot that fell due while another was served brought half a claim.     *)
SlotBringsHalf ==
  pc \in {"bms", "general", "extv"} /\ flag["100ms"]
    => flag["200ms"] \/ counter["200ms"] = 1

Balance ==
  /\ pc \in LoopStep /\ cells => deferrals + ClaimHalves <= 2 + Slots
  /\ ~cells => deferrals = 0
  /\ deferrals <= 2

Deferring == InTurn /\ ClaimAfterPoll /\ SlotBringsHalf /\ Balance

LEMMA DeferringInit == Init => Deferring
  <1> SUFFICES ASSUME Init PROVE Deferring
    OBVIOUS
  <1>1. counter["200ms"] = 0 /\ pc = "startup" /\ cells = FALSE /\ deferrals = 0
    BY DEF Init, Counter, Slot
  <1> QED
    BY <1>1 DEF Deferring, InTurn, ClaimAfterPoll, SlotBringsHalf, Balance, LoopStep

(* What an interrupt does to the 200 ms counter and flag.                  *)
LEMMA HalfClaim ==
  ASSUME Period["200ms"] = 2, TypeOK, counter["200ms"] \in 0..1, Tim7Elapsed
  PROVE  /\ counter["200ms"] = 1 => counter'["200ms"] = 0 /\ flag'["200ms"]
         /\ counter["200ms"] = 0 => /\ counter'["200ms"] = 1
                                   /\ flag'["200ms"] = flag["200ms"]
  <1>1. Elapsed("200ms") <=> counter["200ms"] = 1
    BY DEF Elapsed
  <1>2. counter'["200ms"] = IF Elapsed("200ms") THEN 0 ELSE counter["200ms"] + 1
    BY DEF Tim7Elapsed, Counter, Slot
  <1>3. /\ Elapsed("200ms") => flag'["200ms"]
        /\ ~Elapsed("200ms") => flag'["200ms"] = flag["200ms"]
    BY DEF Tim7Elapsed, RaisedFlag, Slot, TypeOK
  <1> QED
    BY <1>1, <1>2, <1>3

LEMMA DeferringStep ==
  ASSUME LoopKeepsPace, Period["100ms"] = 1, Period["200ms"] = 2,
         TypeOK, TypeOK', Paced, Deferring, [Next]_vars
  PROVE  Deferring'
  <1> USE DEF Goto, timerVars, loopVars, busVars, paceVars, histVars
  <1>0. /\ flag["100ms"] \in BOOLEAN /\ flag'["100ms"] \in BOOLEAN
        /\ flag["200ms"] \in BOOLEAN /\ flag'["200ms"] \in BOOLEAN
        /\ sentClaim \in BOOLEAN /\ sentClaim' \in BOOLEAN
        /\ cells \in BOOLEAN /\ cells' \in BOOLEAN
        /\ deferrals \in 0..3 /\ deferrals' \in 0..3 /\ laps \in 0..2
        /\ counter["200ms"] \in 0..1
    BY DEF TypeOK, Slot, Deferring, InTurn
  <1> USE <1>0 DEF Deferring, InTurn, ClaimAfterPoll, SlotBringsHalf, Balance,
                   ClaimHalves, Slots, One
  <1>1. CASE Tim7Elapsed /\ pc \in LoopStep
    <2>1. /\ flag'["100ms"] /\ laps' = 0
          /\ UNCHANGED <<pc, sentClaim, cells, deferrals>>
      <3>1. Elapsed("100ms")
        BY DEF Elapsed, TypeOK, Counter, Slot
      <3> QED
        BY <1>1, <3>1 DEF Tim7Elapsed, RaisedFlag, Slot
    <2>2. cells => ~flag["100ms"]
      BY <1>1, SlotServed DEF Tim7Elapsed
    <2>3. laps # 0
      BY <1>1 DEF Tim7Elapsed, MayTick, Boot, LoopStep
    <2>4. CASE counter["200ms"] = 1
      BY <1>1, <2>1, <2>2, <2>4, HalfClaim
    <2>5. CASE counter["200ms"] = 0
      BY <1>1, <2>1, <2>2, <2>3, <2>5, HalfClaim
    <2> QED
      BY <2>4, <2>5
  <1>2. CASE Tim7Elapsed /\ pc \notin LoopStep
    <2>1. UNCHANGED <<pc, cells, deferrals>> /\ pc \in Boot
      BY <1>2 DEF Tim7Elapsed, TypeOK
    <2>2. counter'["200ms"] \in 0..1
      BY <1>2, HalfClaim
    <2> QED
      BY <1>2, <2>1, <2>2 DEF Boot, LoopStep
  <1>3. CASE Startup \/ EnterLoop
    <2>1. /\ pc \in Boot /\ pc' \in {"pulse", "therm"}
          /\ UNCHANGED <<cells, deferrals>>
      BY <1>3 DEF Startup, ReleaseSchedule, EnterLoop, Boot
    <2>2. ~cells
      BY <2>1 DEF Paced, Booting
    <2>3. counter'["200ms"] \in 0..1
      BY <1>3 DEF Startup, ReleaseSchedule, SetSchedulingEnabled,
                  ResetCanSchedule, EnterLoop, Counter, Slot
    <2> QED
      BY <2>1, <2>2, <2>3 DEF LoopStep
  <1>4. CASE SampleTherms
    BY <1>4 DEF SampleTherms, LoopStep
  <1>5. CASE ReadFlag("200ms", "check200", "clear200", "check100")
    BY <1>5 DEF ReadFlag, LoopStep
  <1>6. CASE ClearFlag("200ms", "clear200", "claim")
    <2>1. /\ ~flag'["200ms"] /\ flag'["100ms"] = flag["100ms"]
      BY <1>6 DEF ClearFlag, TypeOK, Slot
    <2> QED
      BY <1>6, <2>1 DEF ClearFlag, LoopStep
  <1>7. CASE SendClaim
    BY <1>7 DEF SendClaim, LoopStep
  <1>8. CASE ReadFlag("100ms", "check100", "clear100", "volt")
    BY <1>8 DEF ReadFlag, LoopStep
  <1>9. CASE ClearFlag("100ms", "clear100", "bms")
    <2>1. /\ ~flag'["100ms"] /\ flag'["200ms"] = flag["200ms"]
      BY <1>9 DEF ClearFlag, TypeOK, Slot
    <2>2. flag["100ms"]
      BY <1>9 DEF ClearFlag, Paced, Served
    <2> QED
      BY <1>9, <2>1, <2>2 DEF ClearFlag, LoopStep
  <1>10. CASE SendBms \/ SendGeneral
    BY <1>10 DEF SendBms, SendGeneral, LoopStep
  <1>11. CASE SendExtVoltage
    <2>1. /\ pc = "extv" /\ pc' = "consume" /\ deferrals' = 0 /\ ~sentClaim
          /\ UNCHANGED <<counter, flag, cells, laps>>
      BY <1>11 DEF SendExtVoltage, MaySendExtVoltage
    <2> QED
      BY <2>1 DEF LoopStep
  <1>12. CASE SkipExtVoltage
    <2>1. /\ pc = "extv" /\ pc' = "advance"
          /\ UNCHANGED <<counter, flag, sentClaim, cells, laps>>
      BY <1>12 DEF SkipExtVoltage
    <2>2. CASE sentClaim /\ cells
      <3>1. deferrals' <= deferrals + 1
        BY <1>12 DEF SkipExtVoltage, AtMost
      <3> QED
        BY <2>1, <2>2, <3>1 DEF LoopStep
    <2>3. CASE ~(sentClaim /\ cells)
      <3>1. deferrals' = 0
        BY <1>12, <2>3 DEF SkipExtVoltage, ExtVoltageReady
      <3> QED
        BY <2>1, <2>3, <3>1 DEF LoopStep
    <2> QED
      BY <2>2, <2>3
  <1>13. CASE ConsumeEvent \/ NextThermistor
    BY <1>13 DEF ConsumeEvent, NextThermistor, LoopStep
  <1>14. CASE ServiceVolt
    <2>1. /\ pc = "volt" /\ pc' = "therm"
          /\ UNCHANGED <<counter, flag, sentClaim, deferrals>>
      BY <1>14 DEF ServiceVolt
    <2>2. cells => cells'
      BY <1>14, Zenon DEF ServiceVolt
    <2> QED
      BY <2>1, <2>2 DEF LoopStep
  <1>15. CASE BusTransmit \/ UNCHANGED vars
    BY <1>15 DEF BusTransmit, vars
  <1> QED
    BY <1>1, <1>2, <1>3, <1>4, <1>5, <1>6, <1>7, <1>8, <1>9, <1>10, <1>11,
       <1>12, <1>13, <1>14, <1>15 DEF Next, MainLoop

(* With the periods of timer.h and a loop that keeps pace, an external-    *)
(* voltage event that could be sent loses at most two 100 ms slots in a    *)
(* row to claims (can_messages.c, at the external-voltage branch), however *)
(* interrupt and polls interleave and whatever the bus does.               *)
THEOREM DeferralsBounded ==
  ASSUME LoopKeepsPace, Period["100ms"] = 1, Period["200ms"] = 2
  PROVE  Spec => []AtMostTwoClaimDeferrals
  <1>1. Deferring => AtMostTwoClaimDeferrals
    BY DEF Deferring, Balance, AtMostTwoClaimDeferrals
  <1>2. TypeOK /\ TypeOK' /\ Paced /\ [Next]_vars => Paced'
    BY PacedStep
  <1>3. TypeOK /\ TypeOK' /\ Paced /\ Deferring /\ [Next]_vars => Deferring'
    BY DeferringStep
  <1> QED
    BY <1>1, <1>2, <1>3, PacedInit, DeferringInit, TypeCorrect, PTL DEF Spec
=============================================================================
