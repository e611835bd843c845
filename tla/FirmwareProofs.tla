--------------------------- MODULE FirmwareProofs ---------------------------
(***************************************************************************)
(* Proofs about Firmware, for every value of the constants: each of the    *)
(* two components, in the loop it shares with the other, is what its own   *)
(* module says, so that the theorems of CanScheduleProofs and              *)
(* BqServiceProofs are theorems about the firmware; and what only the two  *)
(* together can give: what a receiver is told of a dead monitor, and when. *)
(***************************************************************************)
EXTENDS Firmware, TLAPS

(* The theorems about the components, under the substitution that Firmware *)
(* makes.                                                                  *)
SchedT == INSTANCE CanScheduleProofs WITH LoopKeepsPace <- FALSE
BqT    == INSTANCE BqServiceProofs WITH pc <- bqPc

LEMMA SchedAssumption == SchedT!ScheduleAssumption
  BY FirmwareAssumption DEF Sched!ScheduleAssumption, SchedT!ScheduleAssumption,
     Sched!Counter, SchedT!Counter, Sched!Slot, SchedT!Slot

LEMMA BqAssumption == BqT!BqAssumption
  BY FirmwareAssumption DEF Bq!BqAssumption, BqT!BqAssumption, Bq!Job, BqT!Job

-----------------------------------------------------------------------------
(* A step of the loop is a step of the schedule or leaves it alone.        *)
LEMMA ScheduleStep == [Next]_vars => [Sched!Next]_schedVars
  <1> SUFFICES ASSUME [Next]_vars PROVE [Sched!Next]_schedVars
    OBVIOUS
  <1>1. CASE HalTick
    BY <1>1 DEF HalTick, Sched!Next
  <1>2. CASE Startup
    BY <1>2 DEF Startup, Sched!Next, Sched!Startup
  <1>3. CASE EnterLoop \/ ThermTask \/ CanTask
    BY <1>3 DEF EnterLoop, ThermTask, CanTask, PollSlots, NoSlot, SendSummary,
                SendOther, FinishSlot, Sched!Next, Sched!MainLoop
  <1>4. CASE VoltTask
    BY <1>4 DEF VoltTask, Sched!Next, Sched!MainLoop
  <1>5. CASE BusTransmit
    BY <1>5 DEF BusTransmit, Sched!Next
  <1>6. CASE DeviceDies \/ UNCHANGED vars
    BY <1>6 DEF DeviceDies, vars
  <1> QED
    BY <1>1, <1>2, <1>3, <1>4, <1>5, <1>6 DEF Next, MainLoop

(* The service is never told of more time than a turn takes.               *)
ClockOK == sinceCall \in 0..MaxTurn

LEMMA ClockInit == Init => ClockOK
  BY FirmwareAssumption DEF Init, ClockOK, Bq!BqAssumption

LEMMA ClockStep == ClockOK /\ [Next]_vars => ClockOK'
  <1> SUFFICES ASSUME ClockOK, [Next]_vars PROVE ClockOK'
    OBVIOUS
  <1>0. MaxTurn \in Nat \ {0}
    BY FirmwareAssumption DEF Bq!BqAssumption
  <1> USE <1>0 DEF ClockOK, clockVars
  <1>1. CASE HalTick
    BY <1>1 DEF HalTick
  <1>2. CASE VoltTask
    BY <1>2 DEF VoltTask, NotServed, StartService, Serve
  <1>3. CASE Startup \/ EnterLoop \/ ThermTask \/ CanTask \/ BusTransmit
             \/ DeviceDies \/ UNCHANGED vars
    BY <1>3 DEF Startup, EnterLoop, ThermTask, CanTask, PollSlots, NoSlot,
                SendSummary, SendOther, FinishSlot, BusTransmit, DeviceDies, vars
  <1> QED
    BY <1>1, <1>2, <1>3 DEF Next, MainLoop

(* A step of the loop is a step of the service or leaves it alone.         *)
LEMMA ServiceStep == ClockOK /\ [Next]_vars => [Bq!Next]_serviceVars
  <1> SUFFICES ASSUME ClockOK, [Next]_vars PROVE [Bq!Next]_serviceVars
    OBVIOUS
  <1>1. CASE Startup
    BY <1>1 DEF Startup, Bq!Next, Bq!MainLoop
  <1>2. CASE ThermTask
    BY <1>2 DEF ThermTask, Bq!Next, Bq!MainLoop
  <1>3. CASE CanTask
    BY <1>3 DEF CanTask, PollSlots, NoSlot, SendSummary, SendOther, FinishSlot,
                Bq!Next, Bq!MainLoop, Bq!CanTask
  <1>4. CASE VoltTask
    BY <1>4 DEF VoltTask, NotServed, StartService, Serve, ClockOK,
                Bq!Next, Bq!MainLoop, Bq!VoltTask
  <1>5. CASE DeviceDies
    BY <1>5 DEF DeviceDies, Bq!Next
  <1>6. CASE HalTick \/ EnterLoop \/ BusTransmit \/ UNCHANGED vars
    BY <1>6 DEF HalTick, EnterLoop, BusTransmit, vars
  <1> QED
    BY <1>1, <1>2, <1>3, <1>4, <1>5, <1>6 DEF Next, MainLoop

-----------------------------------------------------------------------------
(* The two instances of a component, that of Firmware and that of its      *)
(* theorems, say the same.                                                 *)
LEMMA SameSchedule ==
  /\ Sched!Init => SchedT!Init
  /\ [Sched!Next]_schedVars => [SchedT!Next]_(SchedT!vars)
  <1> USE DEF Sched!timerVars, SchedT!timerVars, Sched!loopVars, SchedT!loopVars,
        Sched!busVars, SchedT!busVars, Sched!paceVars, SchedT!paceVars,
        Sched!histVars, SchedT!histVars, Sched!Counter, SchedT!Counter,
        Sched!Slot, SchedT!Slot, Sched!Boot, SchedT!Boot,
        Sched!LoopStep, SchedT!LoopStep, Sched!Goto, SchedT!Goto
  <1>1. Sched!Init => SchedT!Init
    BY DEF Sched!Init, SchedT!Init
  <1>2. Sched!Tim7Elapsed => SchedT!Tim7Elapsed
    BY DEF Sched!Tim7Elapsed, SchedT!Tim7Elapsed, Sched!MayTick, SchedT!MayTick,
           Sched!Position, SchedT!Position, Sched!Elapsed, SchedT!Elapsed,
           Sched!RaisedFlag, SchedT!RaisedFlag, Sched!RaisedEvents,
           SchedT!RaisedEvents, Sched!BroadcastOver, SchedT!BroadcastOver
  <1>3. Sched!Startup => SchedT!Startup
    BY DEF Sched!Startup, SchedT!Startup, Sched!ReleaseSchedule,
           SchedT!ReleaseSchedule, Sched!SetSchedulingEnabled,
           SchedT!SetSchedulingEnabled, Sched!ResetCanSchedule,
           SchedT!ResetCanSchedule
  <1>4. Sched!EnterLoop => SchedT!EnterLoop
    BY DEF Sched!EnterLoop, SchedT!EnterLoop
  <1>5. Sched!SampleTherms => SchedT!SampleTherms
    BY DEF Sched!SampleTherms, SchedT!SampleTherms
  <1>6. Sched!ReadFlag("200ms", "check200", "clear200", "check100")
         => SchedT!ReadFlag("200ms", "check200", "clear200", "check100")
    BY DEF Sched!ReadFlag, SchedT!ReadFlag
  <1>7. Sched!ReadFlag("100ms", "check100", "clear100", "volt")
         => SchedT!ReadFlag("100ms", "check100", "clear100", "volt")
    BY DEF Sched!ReadFlag, SchedT!ReadFlag
  <1>8. Sched!ClearFlag("200ms", "clear200", "claim")
         => SchedT!ClearFlag("200ms", "clear200", "claim")
    BY DEF Sched!ClearFlag, SchedT!ClearFlag
  <1>9. Sched!ClearFlag("100ms", "clear100", "bms")
         => SchedT!ClearFlag("100ms", "clear100", "bms")
    BY DEF Sched!ClearFlag, SchedT!ClearFlag
  <1>10. Sched!SendClaim => SchedT!SendClaim
    BY DEF Sched!SendClaim, SchedT!SendClaim, Sched!Offer, SchedT!Offer,
           Sched!HasRoom, SchedT!HasRoom, Sched!AtMost, SchedT!AtMost
  <1>11. Sched!SendBms => SchedT!SendBms
    BY DEF Sched!SendBms, SchedT!SendBms, Sched!Offer, SchedT!Offer,
           Sched!HasRoom, SchedT!HasRoom, Sched!AtMost, SchedT!AtMost
  <1>12. Sched!SendGeneral => SchedT!SendGeneral
    BY DEF Sched!SendGeneral, SchedT!SendGeneral, Sched!Offer, SchedT!Offer,
           Sched!HasRoom, SchedT!HasRoom, Sched!AtMost, SchedT!AtMost
  <1>13. Sched!SendExtVoltage => SchedT!SendExtVoltage
    BY DEF Sched!SendExtVoltage, SchedT!SendExtVoltage, Sched!Offer,
           SchedT!Offer, Sched!HasRoom, SchedT!HasRoom, Sched!AtMost,
           SchedT!AtMost, Sched!MaySendExtVoltage, SchedT!MaySendExtVoltage,
           Sched!ExtVoltageReady, SchedT!ExtVoltageReady
  <1>14. Sched!SkipExtVoltage => SchedT!SkipExtVoltage
    BY DEF Sched!SkipExtVoltage, SchedT!SkipExtVoltage, Sched!Offer,
           SchedT!Offer, Sched!HasRoom, SchedT!HasRoom, Sched!AtMost,
           SchedT!AtMost, Sched!MaySendExtVoltage, SchedT!MaySendExtVoltage,
           Sched!ExtVoltageReady, SchedT!ExtVoltageReady
  <1>15. Sched!ConsumeEvent => SchedT!ConsumeEvent
    BY DEF Sched!ConsumeEvent, SchedT!ConsumeEvent
  <1>16. Sched!NextThermistor => SchedT!NextThermistor
    BY DEF Sched!NextThermistor, SchedT!NextThermistor
  <1>17. Sched!ServiceVolt => SchedT!ServiceVolt
    BY DEF Sched!ServiceVolt, SchedT!ServiceVolt, Sched!AtMost, SchedT!AtMost
  <1>18. Sched!BusTransmit => SchedT!BusTransmit
    BY DEF Sched!BusTransmit, SchedT!BusTransmit
  <1>19. UNCHANGED schedVars => UNCHANGED SchedT!vars
    BY DEF schedVars, SchedT!vars
  <1> QED
    BY <1>1, <1>2, <1>3, <1>4, <1>5, <1>6, <1>7, <1>8, <1>9, <1>10, <1>11,
           <1>12, <1>13, <1>14, <1>15, <1>16, <1>17, <1>18, <1>19 DEF
           Sched!Next, SchedT!Next, Sched!MainLoop, SchedT!MainLoop

LEMMA SameService ==
  /\ Bq!Init => BqT!Init
  /\ [Bq!Next]_serviceVars => [BqT!Next]_(BqT!vars)
  <1> USE DEF Bq!codeVars, BqT!codeVars, Bq!envVars, BqT!envVars,
              Bq!Servicing, BqT!Servicing, Bq!Job, BqT!Job, Bq!Counted,
              BqT!Counted, Bq!Disable, BqT!Disable, Bq!Stamp, BqT!Stamp,
              Bq!TurnOff, BqT!TurnOff, Bq!TurnOn, BqT!TurnOn
  <1>1. Bq!Init => BqT!Init
    BY DEF Bq!Init, BqT!Init
  <1>2. Bq!BlockingStartup => BqT!BlockingStartup
    BY DEF Bq!BlockingStartup, BqT!BlockingStartup
  <1>3. Bq!ThermTask => BqT!ThermTask
    BY DEF Bq!ThermTask, BqT!ThermTask
  <1>4. Bq!CanTask => BqT!CanTask
    BY DEF Bq!CanTask, BqT!CanTask, Bq!BmsBroadcast, BqT!BmsBroadcast,
           Bq!NoBroadcast, BqT!NoBroadcast
  <1>5. Bq!ForceDisable => BqT!ForceDisable
    BY DEF Bq!ForceDisable, BqT!ForceDisable
  <1>6. Bq!LeaveAlone => BqT!LeaveAlone
    BY DEF Bq!LeaveAlone, BqT!LeaveAlone, Bq!Serviceable, BqT!Serviceable
  <1>7. \A elapsed \in 0..MaxTurn : Bq!StartService(elapsed)
         => BqT!StartService(elapsed)
    BY DEF Bq!StartService, BqT!StartService, Bq!Serviceable, BqT!Serviceable
  <1>8. \A j \in Bq!Job : Bq!NotDue(j) => BqT!NotDue(j)
    BY DEF Bq!NotDue, BqT!NotDue, Bq!Due, BqT!Due, Bq!After, BqT!After
  <1>9. \A k \in Bq!Counted : Bq!CountedSuccess(k)
         => BqT!CountedSuccess(k)
    BY DEF Bq!CountedSuccess, BqT!CountedSuccess, Bq!Due, BqT!Due, Bq!After,
           BqT!After
  <1>10. \A k \in Bq!Counted : Bq!CountedFailure(k)
         => BqT!CountedFailure(k)
    BY DEF Bq!CountedFailure, BqT!CountedFailure, Bq!Due, BqT!Due, Bq!AtMost,
           BqT!AtMost
  <1>11. Bq!FaultSnapshot => BqT!FaultSnapshot
    BY DEF Bq!FaultSnapshot, BqT!FaultSnapshot, Bq!Due, BqT!Due, Bq!After,
           BqT!After
  <1>12. Bq!CellSnapshot => BqT!CellSnapshot
    BY DEF Bq!CellSnapshot, BqT!CellSnapshot, Bq!Due, BqT!Due, Bq!After,
           BqT!After
  <1>13. Bq!DeviceDies => BqT!DeviceDies
    BY DEF Bq!DeviceDies, BqT!DeviceDies
  <1>14. UNCHANGED serviceVars => UNCHANGED BqT!vars
    BY DEF serviceVars, BqT!vars
  <1> QED
    BY <1>1, <1>2, <1>3, <1>4, <1>5, <1>6, <1>7, <1>8, <1>9, <1>10, <1>11,
           <1>12, <1>13, <1>14 DEF Bq!Next, BqT!Next, Bq!MainLoop,
           BqT!MainLoop, Bq!VoltTask, BqT!VoltTask, Bq!Service, BqT!Service,
           Bq!KeepAlive, BqT!KeepAlive, Bq!FaultPoll, BqT!FaultPoll

-----------------------------------------------------------------------------
(* The firmware implements both of its components.                         *)
LEMMA ScheduleImplemented == Spec => SchedT!Spec
  <1>1. Init => SchedT!Init
    BY SameSchedule DEF Init
  <1>2. [Next]_vars => [SchedT!Next]_(SchedT!vars)
    BY ScheduleStep, SameSchedule
  <1> QED
    BY <1>1, <1>2, PTL DEF Spec, SchedT!Spec

LEMMA ServiceImplemented == Spec => BqT!Spec
  <1>1. Init => BqT!Init
    BY SameService DEF Init
  <1>2. ClockOK /\ [Next]_vars => [BqT!Next]_(BqT!vars)
    BY ServiceStep, SameService
  <1> QED
    BY <1>1, <1>2, ClockInit, ClockStep, PTL DEF Spec, BqT!Spec

(* The safety part of ImplementsSchedule and ImplementsService: the loop   *)
(* behaves towards each component as that component's module says.         *)
THEOREM ScheduleRefined == Spec => Sched!Spec
  <1>1. UNCHANGED schedVars => UNCHANGED Sched!vars
    BY DEF schedVars, Sched!vars, Sched!timerVars, Sched!loopVars, Sched!busVars,
           Sched!paceVars, Sched!histVars
  <1>2. [Next]_vars => [Sched!Next]_(Sched!vars)
    BY <1>1, ScheduleStep
  <1> QED
    BY <1>2, PTL DEF Spec, Init, Sched!Spec

THEOREM ServiceRefined == Spec => Bq!Spec
  <1>1. UNCHANGED serviceVars => UNCHANGED Bq!vars
    BY DEF serviceVars, Bq!vars, Bq!codeVars, Bq!envVars
  <1>2. ClockOK /\ [Next]_vars => [Bq!Next]_(Bq!vars)
    BY <1>1, ServiceStep
  <1> QED
    BY <1>2, ClockInit, ClockStep, PTL DEF Spec, Init, Bq!Spec

(* Whatever the service does between two turns of the schedule, the        *)
(* external-voltage frames keep the promise of the mailbox.                *)
THEOREM MailboxInFirmware == Spec => SchedT!ImplementsMailbox
  BY ScheduleImplemented, SchedAssumption, SchedT!MailboxRefined, PTL

(* In the firmware as in the service alone, the status words agree and     *)
(* nothing is said to a monitor that is not in service.                    *)
THEOREM StatusesAgreeInFirmware == Spec => []Bq!StatusAgrees
  <1>1. BqT!StatusAgrees => Bq!StatusAgrees
    BY DEF Bq!StatusAgrees, BqT!StatusAgrees, Bq!Serviceable, BqT!Serviceable,
           Bq!Servicing, BqT!Servicing, Bq!Job, BqT!Job, Bq!TurnOn, BqT!TurnOn,
           Bq!Counted, BqT!Counted
  <1> QED
    BY <1>1, ServiceImplemented, BqAssumption, BqT!StatusesAgree, PTL

(* The segments of the cell stack reach the bus in rotation, whatever the  *)
(* service of the monitor does to the pace of the loop.                    *)
THEOREM SegmentsInFirmware == Spec => SchedT!SegmentsInOrder
  BY ScheduleImplemented, SchedAssumption, SchedT!SegmentsRotateOnBus, PTL

(* In the loop it shares with the CAN task the service still gives up a    *)
(* dead monitor in time.                                                   *)
THEOREM DeathDetectedInFirmware == Spec => []Bq!DeathDetectedInTime
  <1>1. BqT!DeathDetectedInTime => Bq!DeathDetectedInTime
    BY DEF Bq!DeathDetectedInTime, BqT!DeathDetectedInTime, Bq!DetectionBound,
           BqT!DetectionBound
  <1> QED
    BY <1>1, ServiceImplemented, BqAssumption, BqT!DeathDetected, PTL

-----------------------------------------------------------------------------
(* What a receiver may believe.  Once a frame of the queue was built after *)
(* the failure, or the bus has told of it, every later frame says so; and  *)
(* a voltage frame built after the failure has a summary that says so      *)
(* before it, on the bus or in the queue.                                  *)
Telling(before) == \E j \in 1..before : fifo[j].id = "bms" /\ marks[j] = "fault"

Marked ==
  /\ marks \in Seq({"fault", "healthy"})
  /\ Len(marks) = Len(fifo)
  /\ \A i \in 1..Len(marks), j \in 1..Len(marks) :
       i < j /\ marks[i] = "fault" => marks[j] = "fault"
  /\ (told = "fault" \/ \E i \in 1..Len(marks) : marks[i] = "fault")
       => bqState = "FAILED"
  /\ told = "fault" => \A i \in 1..Len(marks) : marks[i] = "fault"

Preceded ==
  /\ \A i \in 1..Len(fifo) :
       fifo[i].id = "extv" /\ marks[i] = "fault"
         => told = "fault" \/ Telling(i - 1)
  /\ pc \in {"general", "extv"} /\ bqState = "FAILED"
       => told = "fault" \/ Telling(Len(fifo))

(* A slot that begins with an empty queue starts afresh.                   *)
Flagged == calm # "no" => Preceded

(* Before the summary of a turn the queue holds at most the claim.         *)
RoomForSummary == calm # "no" /\ pc = "bms" => Len(fifo) <= 1

(* The facts about the components that the argument rests on.              *)
Components ==
  /\ fifo \in Seq(Sched!Frame) /\ thermIndex \in Nat /\ segment \in Nat
  /\ BqT!TypeOK /\ BqT!Lifecycle

LEMMA MarkedInit == Init => Marked /\ Flagged
  BY DEF Init, Sched!Init, Marked, Flagged, Preceded

(* The failure is for good.                                                *)
LEMMA FailedStays ==
  Components /\ ClockOK /\ [Next]_vars /\ bqState = "FAILED" => bqState' = "FAILED"
  <1>1. BqT!TypeOK /\ BqT!Lifecycle /\ [BqT!Next]_(BqT!vars)
          => [BqT!FailureKept]_(BqT!vars)
    BY BqT!FinalStep, BqAssumption
  <1>2. UNCHANGED BqT!vars => bqState' = bqState
    BY DEF BqT!vars, BqT!codeVars
  <1> QED
    BY <1>1, <1>2, ServiceStep, SameService DEF Components, BqT!FailureKept

(* A frame offered carries the monitor's state as it is.                   *)
LEMMA OfferMarked ==
  ASSUME Components, Marked, NEW frame \in Sched!Frame, Sched!Offer(frame),
         Mark(Verdict(bqState = "FAILED")), told' = told, bqState' = bqState
  PROVE  /\ Marked'
         /\ fifo' = fifo \/ fifo' = Append(fifo, frame)
         /\ fifo' = fifo => marks' = marks
         /\ fifo' # fifo => marks' = Append(marks, Verdict(bqState = "FAILED"))
         /\ Sched!HasRoom => fifo' = Append(fifo, frame)
  <1> DEFINE verdict == Verdict(bqState = "FAILED")
  <1>1. verdict \in {"fault", "healthy"} /\ (verdict = "fault" <=> bqState = "FAILED")
    BY DEF Verdict
  <1> HIDE DEF verdict
  <1>2. CASE Sched!HasRoom
    <2>1. fifo' = Append(fifo, frame) /\ marks' = Append(marks, verdict)
      BY <1>2 DEF Sched!Offer, Mark, verdict
    <2>2. fifo' # fifo
      BY <2>1 DEF Components
    <2>3. Marked'
      BY <1>1, <2>1 DEF Marked, Components
    <2> QED
      BY <1>2, <2>1, <2>2, <2>3 DEF verdict
  <1>3. CASE ~Sched!HasRoom
    BY <1>3 DEF Sched!Offer, Mark, Marked
  <1> QED
    BY <1>2, <1>3

LEMMA MarkedStep ==
  Components /\ ClockOK /\ Marked /\ [Next]_vars => Marked'
  <1> SUFFICES ASSUME Components, ClockOK, Marked, [Next]_vars PROVE Marked'
    OBVIOUS
  <1>0. bqState = "FAILED" => bqState' = "FAILED"
    BY FailedStays
  <1>1. CASE HalTick \/ Startup \/ EnterLoop \/ ThermTask \/ PollSlots \/ NoSlot
             \/ FinishSlot \/ VoltTask \/ DeviceDies \/ UNCHANGED vars
    <2>1. UNCHANGED <<fifo, marks, told>>
      BY <1>1 DEF HalTick, Startup, EnterLoop, ThermTask, PollSlots, NoSlot,
                  FinishSlot, VoltTask, NotServed, StartService, Serve, DeviceDies,
                  vars, schedVars, outputVars, Sched!busVars, Sched!Tim7Elapsed,
                  Sched!ReleaseSchedule, Sched!EnterLoop, Sched!SampleTherms,
                  Sched!ReadFlag, Sched!ClearFlag, Sched!SkipExtVoltage,
                  Sched!ConsumeEvent, Sched!NextThermistor, Sched!ServiceVolt
    <2> QED
      BY <1>0, <2>1 DEF Marked
  <1>2. CASE SendSummary
    <2>1. [id |-> "bms", index |-> 0] \in Sched!Frame
      BY DEF Sched!Frame
    <2>2. faultBit' = (bqState = "FAILED") /\ bqState' = bqState /\ told' = told
      BY <1>2 DEF SendSummary, Bq!BmsBroadcast, Bq!codeVars
    <2> QED
      BY <1>2, <2>1, <2>2, OfferMarked DEF SendSummary, Sched!SendBms
  <1>3. CASE SendOther
    <2>1. /\ [id |-> "claim", index |-> 0] \in Sched!Frame
          /\ [id |-> "general", index |-> thermIndex] \in Sched!Frame
          /\ [id |-> "extv", index |-> segment] \in Sched!Frame
      BY DEF Components, Sched!Frame
    <2>2. bqState' = bqState /\ told' = told
      BY <1>3 DEF SendOther, serviceVars
    <2> QED
      BY <1>3, <2>1, <2>2, OfferMarked
         DEF SendOther, Sched!SendClaim, Sched!SendGeneral, Sched!SendExtVoltage
  <1>4. CASE BusTransmit
    <2>1. /\ fifo # <<>> /\ fifo' = Tail(fifo) /\ marks' = Tail(marks)
          /\ told' = IF Head(fifo).id = "bms" THEN Head(marks) ELSE told
          /\ bqState' = bqState
      BY <1>4 DEF BusTransmit, Sched!BusTransmit, serviceVars
    <2> QED
      BY <2>1 DEF Marked, Components
  <1> QED
    BY <1>1, <1>2, <1>3, <1>4 DEF Next, MainLoop, CanTask

LEMMA AlwaysRoom == Spec => []RoomForSummary
  <1>1. SchedT!TypeOK /\ SchedT!TurnFitsFifo => RoomForSummary
    BY DEF SchedT!TypeOK, SchedT!TurnFitsFifo, SchedT!OfferedSoFar, SchedT!Claims,
           RoomForSummary
  <1>2. Spec => [](SchedT!TypeOK /\ SchedT!TurnFitsFifo)
    BY ScheduleImplemented, SchedAssumption, SchedT!TypeCorrect,
       SchedT!AlwaysFits, PTL
  <1> QED
    BY <1>1, <1>2, PTL

(* A broadcast that finds the one before it over is what the summary needs *)
(* to be in front of the voltages of its turn.                             *)
LEMMA FlaggedStep ==
  ASSUME TxFifoDepth \in Nat, TxFifoDepth >= 2
  PROVE  Components /\ ClockOK /\ Marked /\ RoomForSummary /\ Flagged /\ [Next]_vars
           => Flagged'
  <1> SUFFICES ASSUME Components, ClockOK, Marked, RoomForSummary, Flagged,
                      [Next]_vars, calm' # "no"
               PROVE  Preceded'
    BY DEF Flagged
  <1> USE DEF Sched!Goto
  <1>0. bqState = "FAILED" => bqState' = "FAILED"
    BY FailedStays
  <1>1. CASE HalTick /\ Sched!Tim7Elapsed
    <2>1. fifo' = <<>> /\ pc' \notin {"general", "extv"}
      <3>1. Sched!BroadcastOver /\ fifo' = fifo /\ pc' = pc
        BY <1>1 DEF Sched!Tim7Elapsed, Sched!busVars
      <3> QED
        BY <3>1 DEF Sched!BroadcastOver
    <2> QED
      BY <2>1 DEF Preceded
  <1>2. CASE \/ HalTick /\ ~Sched!Tim7Elapsed
             \/ Startup \/ EnterLoop \/ ThermTask \/ PollSlots \/ NoSlot
             \/ FinishSlot \/ VoltTask \/ DeviceDies \/ UNCHANGED vars
    <2>1. UNCHANGED <<fifo, marks, told, calm>>
      BY <1>2 DEF HalTick, Startup, EnterLoop, ThermTask, PollSlots, NoSlot,
                  FinishSlot, VoltTask, NotServed, StartService, Serve, DeviceDies,
                  vars, schedVars, outputVars, Sched!busVars, Sched!histVars,
                  Sched!ReleaseSchedule, Sched!EnterLoop, Sched!SampleTherms,
                  Sched!ReadFlag, Sched!ClearFlag, Sched!SkipExtVoltage,
                  Sched!ConsumeEvent, Sched!NextThermistor, Sched!ServiceVolt
    <2>2. CASE (HalTick /\ ~Sched!Tim7Elapsed) \/ DeviceDies \/ UNCHANGED vars
      <3>1. pc' = pc /\ bqState' = bqState
        BY <2>2 DEF HalTick, DeviceDies, Bq!DeviceDies, vars, schedVars, serviceVars,
                    Bq!codeVars
      <3> QED
        BY <2>1, <3>1 DEF Flagged, Preceded, Telling
    <2>3. CASE Startup \/ EnterLoop \/ ThermTask \/ PollSlots \/ NoSlot \/ FinishSlot
               \/ VoltTask
      <3>1. pc' \notin {"general", "extv"}
        BY <2>3 DEF Startup, EnterLoop, ThermTask, PollSlots, NoSlot, FinishSlot,
                    VoltTask, schedVars, Sched!ReleaseSchedule, Sched!EnterLoop,
                    Sched!SampleTherms, Sched!ReadFlag, Sched!ClearFlag,
                    Sched!SkipExtVoltage, Sched!ConsumeEvent,
                    Sched!NextThermistor, Sched!ServiceVolt
      <3> QED
        BY <2>1, <3>1 DEF Flagged, Preceded, Telling
    <2> QED
      BY <1>2, <2>2, <2>3
  <1>p. ASSUME SendSummary \/ SendOther \/ BusTransmit
        PROVE  Preceded
    BY <1>p DEF SendSummary, SendOther, BusTransmit, Sched!SendBms, Sched!SendClaim,
                Sched!SendGeneral, Sched!SendExtVoltage, Sched!BusTransmit,
                Sched!histVars, Flagged
  <1>3. CASE SendSummary
    <2>0. Preceded
      BY <1>p, <1>3
    <2>1. [id |-> "bms", index |-> 0] \in Sched!Frame
      BY DEF Sched!Frame
    <2>2. /\ faultBit' = (bqState = "FAILED") /\ bqState' = bqState /\ told' = told
          /\ pc' = "general"
      BY <1>3 DEF SendSummary, Sched!SendBms, Bq!BmsBroadcast, Bq!codeVars
    <2>3. Sched!HasRoom
      BY <1>3 DEF SendSummary, Sched!SendBms, RoomForSummary, Sched!HasRoom,
                  Components
    <2>4. /\ fifo' = Append(fifo, [id |-> "bms", index |-> 0])
          /\ marks' = Append(marks, Verdict(bqState = "FAILED"))
      BY <1>3, <2>2, <2>3 DEF SendSummary, Sched!SendBms, Sched!Offer, Mark
    <2>5. /\ Len(fifo') = Len(fifo) + 1 /\ Len(fifo) \in Nat
          /\ \A i \in 1..Len(fifo) : fifo'[i] = fifo[i] /\ marks'[i] = marks[i]
          /\ fifo'[Len(fifo')].id = "bms"
          /\ marks'[Len(fifo')] = Verdict(bqState = "FAILED")
      BY <2>1, <2>4 DEF Components, Marked
    <2>6. \A n \in 0..Len(fifo) : Telling(n) => Telling(n)'
      BY <2>5 DEF Telling
    <2>7. ASSUME NEW i \in 1..Len(fifo'),
                 fifo'[i].id = "extv" /\ marks'[i] = "fault"
          PROVE  told' = "fault" \/ Telling(i - 1)'
      <3>1. i \in 1..Len(fifo) /\ i - 1 \in 0..Len(fifo)
        BY <2>5, <2>7
      <3>2. told = "fault" \/ Telling(i - 1)
        BY <2>0, <2>5, <2>7, <3>1 DEF Preceded
      <3> QED
        BY <2>2, <2>6, <3>1, <3>2
    <2>8. ASSUME bqState' = "FAILED"
          PROVE  Telling(Len(fifo))'
      <3>1. marks'[Len(fifo')] = "fault" /\ Len(fifo') \in 1..Len(fifo')
        BY <2>2, <2>5, <2>8 DEF Verdict
      <3> QED
        BY <2>5, <3>1 DEF Telling
    <2> QED
      BY <2>0, <2>7, <2>8, Zenon DEF Preceded
  <1>4. CASE SendOther
    <2>0. Preceded
      BY <1>p, <1>4
    <2>1. /\ [id |-> "claim", index |-> 0] \in Sched!Frame
          /\ [id |-> "general", index |-> thermIndex] \in Sched!Frame
          /\ [id |-> "extv", index |-> segment] \in Sched!Frame
      BY DEF Components, Sched!Frame
    <2>2. /\ bqState' = bqState /\ told' = told
          /\ Mark(Verdict(bqState = "FAILED"))
      BY <1>4 DEF SendOther, serviceVars
    <2>3. ASSUME NEW frame \in Sched!Frame, Sched!Offer(frame),
                 frame.id = "extv" /\ bqState = "FAILED"
                   => told = "fault" \/ Telling(Len(fifo))
          PROVE  /\ \A i \in 1..Len(fifo') :
                      fifo'[i].id = "extv" /\ marks'[i] = "fault"
                        => told' = "fault" \/ Telling(i - 1)'
                 /\ Telling(Len(fifo)) => Telling(Len(fifo))'
      <3>1. CASE fifo' = fifo /\ marks' = marks
        BY <2>0, <2>2, <3>1 DEF Preceded, Telling
      <3>2. CASE /\ fifo' = Append(fifo, frame)
                 /\ marks' = Append(marks, Verdict(bqState = "FAILED"))
        <4>1. /\ Len(fifo') = Len(fifo) + 1 /\ Len(fifo) \in Nat
              /\ \A i \in 1..Len(fifo) : fifo'[i] = fifo[i] /\ marks'[i] = marks[i]
              /\ fifo'[Len(fifo')] = frame
              /\ marks'[Len(fifo')] = Verdict(bqState = "FAILED")
          BY <3>2 DEF Components, Marked
        <4>2. \A n \in 0..Len(fifo) : Telling(n) => Telling(n)' /\ Telling(Len(fifo))'
          BY <4>1 DEF Telling
        <4>3. Verdict(bqState = "FAILED") = "fault" => bqState = "FAILED"
          BY DEF Verdict
        <4>4. ASSUME NEW i \in 1..Len(fifo'),
                     fifo'[i].id = "extv" /\ marks'[i] = "fault"
              PROVE  told' = "fault" \/ Telling(i - 1)'
          <5>1. CASE i = Len(fifo')
            <6>1. i - 1 = Len(fifo)
              BY <4>1, <5>1
            <6>2. told = "fault" \/ Telling(i - 1)
              BY <2>3, <4>1, <4>3, <4>4, <5>1, <6>1
            <6> QED
              BY <2>2, <4>1, <4>2, <6>1, <6>2
          <5>2. CASE i # Len(fifo')
            <6>1. i \in 1..Len(fifo) /\ i - 1 \in 0..Len(fifo)
              BY <4>1, <5>2
            <6>2. told = "fault" \/ Telling(i - 1)
              BY <2>0, <4>1, <4>4, <6>1 DEF Preceded
            <6> QED
              BY <2>2, <4>2, <6>1, <6>2
          <5> QED
            BY <5>1, <5>2
        <4> QED
          BY <4>1, <4>2, <4>4
      <3> QED
        BY <2>2, <2>3, <3>1, <3>2, OfferMarked
    <2>4. CASE Sched!SendClaim
      <3>1. pc' = "check100" /\ Sched!Offer([id |-> "claim", index |-> 0])
        BY <2>4 DEF Sched!SendClaim
      <3> QED
        BY <2>0, <2>1, <2>3, <3>1 DEF Preceded
    <2>5. CASE Sched!SendGeneral
      <3>1. /\ pc = "general" /\ pc' = "extv"
            /\ Sched!Offer([id |-> "general", index |-> thermIndex])
        BY <2>5 DEF Sched!SendGeneral
      <3> QED
        BY <2>0, <2>1, <2>2, <2>3, <3>1 DEF Preceded
    <2>6. CASE Sched!SendExtVoltage
      <3>1. /\ pc = "extv" /\ pc' = "consume"
            /\ Sched!Offer([id |-> "extv", index |-> segment])
        BY <2>6 DEF Sched!SendExtVoltage
      <3> QED
        BY <2>0, <2>1, <2>3, <3>1 DEF Preceded
    <2> QED
      BY <1>4, <2>4, <2>5, <2>6 DEF SendOther
  <1>5. CASE BusTransmit
    <2>0. Preceded
      BY <1>p, <1>5
    <2>1. /\ fifo # <<>> /\ fifo' = Tail(fifo) /\ marks' = Tail(marks)
          /\ told' = IF Head(fifo).id = "bms" THEN Head(marks) ELSE told
          /\ bqState' = bqState /\ pc' = pc
      BY <1>5 DEF BusTransmit, Sched!BusTransmit, serviceVars
    <2>2. /\ Len(fifo') = Len(fifo) - 1 /\ Len(fifo) \in Nat \ {0}
          /\ \A i \in 1..Len(fifo') : fifo'[i] = fifo[i + 1] /\ marks'[i] = marks[i + 1]
          /\ Head(fifo) = fifo[1] /\ Head(marks) = marks[1]
      BY <2>1 DEF Marked, Components
    <2>3. told = "fault" => told' = "fault"
      BY <2>1, <2>2 DEF Marked
    <2>4. ASSUME NEW n \in 1..Len(fifo), told = "fault" \/ Telling(n)
          PROVE  told' = "fault" \/ Telling(n - 1)'
      <3>1. CASE told = "fault"
        BY <2>3, <3>1
      <3>2. CASE Telling(n)
        <4>1. PICK j \in 1..n : fifo[j].id = "bms" /\ marks[j] = "fault"
          BY <3>2 DEF Telling
        <4>2. CASE j = 1
          BY <2>1, <2>2, <4>1, <4>2
        <4>3. CASE j > 1
          <5>1. j - 1 \in 1..n - 1 /\ j - 1 \in 1..Len(fifo') /\ (j - 1) + 1 = j
            BY <2>2, <4>3
          <5> QED
            BY <2>2, <4>1, <5>1 DEF Telling
        <4> QED
          BY <4>2, <4>3
      <3> QED
        BY <2>4, <3>1, <3>2
    <2>5. ASSUME NEW i \in 1..Len(fifo'),
                 fifo'[i].id = "extv" /\ marks'[i] = "fault"
          PROVE  told' = "fault" \/ Telling(i - 1)'
      <3>1. i + 1 \in 1..Len(fifo) /\ (i + 1) - 1 = i /\ i \in 1..Len(fifo)
        BY <2>2
      <3>2. told = "fault" \/ Telling(i)
        BY <2>0, <2>2, <2>5, <3>1 DEF Preceded
      <3> QED
        BY <2>4, <3>1, <3>2
    <2>6. ASSUME pc' \in {"general", "extv"}, bqState' = "FAILED"
          PROVE  told' = "fault" \/ Telling(Len(fifo))'
      <3>1. told = "fault" \/ Telling(Len(fifo))
        BY <2>0, <2>1, <2>6 DEF Preceded
      <3>2. PICK n \in 1..Len(fifo) : n = Len(fifo) /\ n - 1 = Len(fifo')
        BY <2>2
      <3>3. told' = "fault" \/ Telling(n - 1)'
        BY <2>4, <3>1, <3>2
      <3> QED
        BY <3>2, <3>3
    <2> QED
      BY <2>0, <2>5, <2>6, Zenon DEF Preceded
  <1> QED
    BY <1>1, <1>2, <1>3, <1>4, <1>5 DEF Next, MainLoop, CanTask

LEMMA AlwaysComponents == Spec => []Components
  <1>1. SchedT!TypeOK => /\ fifo \in Seq(Sched!Frame)
                         /\ thermIndex \in Nat /\ segment \in Nat
    BY SchedAssumption DEF SchedT!TypeOK, SchedT!ScheduleAssumption,
                           Sched!Frame, SchedT!Frame
  <1>2. Spec => []SchedT!TypeOK
    BY ScheduleImplemented, SchedAssumption, SchedT!TypeCorrect, PTL
  <1>3. Spec => [](BqT!TypeOK /\ BqT!Lifecycle)
    BY ServiceImplemented, BqAssumption, BqT!AlwaysLifecycle, PTL
  <1>4. SchedT!TypeOK /\ BqT!TypeOK /\ BqT!Lifecycle => Components
    BY <1>1 DEF Components
  <1> QED
    BY <1>2, <1>3, <1>4, PTL

(* With a transmit FIFO of at least two elements, no voltages built after  *)
(* the failure of the monitor reach the bus before a summary that reports  *)
(* it (CAN_SendMessages, CAN_ModuleFaultActive), as long as the last       *)
(* interrupt found no broadcast under way.                                 *)
THEOREM FrozenFlagged ==
  ASSUME TxFifoDepth >= 2
  PROVE  Spec => FrozenVoltagesFlagged
  <1>1. TxFifoDepth \in Nat
    BY FirmwareAssumption DEF Sched!ScheduleAssumption
  <1>2. Components /\ Marked /\ Flagged
          => [calm # "no" /\ fifo # <<>> /\ fifo' = Tail(fifo)
                /\ Head(fifo).id = "extv" /\ Head(marks) = "fault"
                => told = "fault"]_vars
    <2> SUFFICES ASSUME Components, Marked, Flagged, calm # "no", fifo # <<>>,
                        Head(fifo).id = "extv", Head(marks) = "fault"
                 PROVE  told = "fault"
      OBVIOUS
    <2>1. 1 \in 1..Len(fifo) /\ fifo[1] = Head(fifo) /\ marks[1] = Head(marks)
      BY DEF Components, Marked
    <2> QED
      BY <2>1 DEF Flagged, Preceded, Telling
  <1>3. Components /\ ClockOK /\ Marked /\ RoomForSummary /\ Flagged /\ [Next]_vars
          => Flagged'
    BY <1>1, FlaggedStep
  <1> QED
    BY <1>2, <1>3, AlwaysComponents, AlwaysRoom, ClockInit, ClockStep,
       MarkedInit, MarkedStep, PTL DEF Spec, FrozenVoltagesFlagged

-----------------------------------------------------------------------------
(* How many summaries call a dead monitor healthy: FewSummariesMiss, with  *)
(* no assumption on the bus or on the pace of the loop.                    *)

P100 == Period["100ms"]

(* Ticks from one 100 ms slot to the next, and since the last one.         *)
SlotTicks == P100 * TicksPerInterrupt
SlotPhase == counter["100ms"] * TicksPerInterrupt + sub

-----------------------------------------------------------------------------
(* Arithmetic.                                                             *)

LEMMA NextProduct ==
  ASSUME NEW a \in Nat, NEW b \in Nat
  PROVE  a * b \in Nat /\ (a + 1) * b = a * b + b
  BY Z3

LEMMA ProductOrder ==
  ASSUME NEW a \in Nat, NEW b \in Nat \ {0}, NEW c \in Nat, NEW d \in 0..b - 1, a < c
  PROVE  a * b + d <= c * b - 1
  <1>1. (a + 1) * b <= c * b
    <2>1. PICK k \in Nat : c = a + 1 + k
      BY SMT
    <2>2. c * b = (a + 1) * b + k * b /\ k * b \in Nat
      BY <2>1, Z3
    <2>3. (a + 1) * b \in Nat
      BY Z3
    <2> QED
      BY <2>2, <2>3
  <1> QED
    BY <1>1, NextProduct

LEMMA OneMore ==
  ASSUME NEW a \in Nat, NEW b \in Nat, NEW q \in Nat, b <= a + 1
  PROVE  a * q \in Nat /\ b * q \in Nat /\ b * q <= a * q + q
  <1>1. PICK k \in Nat : a + 1 = b + k
    BY SMT
  <1>2. (a + 1) * q = b * q + k * q /\ k * q \in Nat
    BY <1>1, Z3
  <1>3. b * q \in Nat
    BY Z3
  <1> QED
    BY <1>2, <1>3, NextProduct

LEMMA Quotient ==
  ASSUME NEW a \in Nat, NEW b \in Nat, NEW q \in Nat \ {0}, a * q <= b
  PROVE  a <= b \div q /\ b \div q \in Nat
  BY Z3

LEMMA FactorGrows ==
  ASSUME NEW a \in Nat, NEW b \in Nat, NEW q \in Nat, a <= b
  PROVE  a * q <= b * q
  <1>1. PICK k \in Nat : b = a + k
    BY SMT
  <1>2. b * q = a * q + k * q /\ k * q \in Nat /\ a * q \in Nat
    BY <1>1, Z3
  <1> QED
    BY <1>2

LEMMA WrapAround ==
  ASSUME NEW m \in Nat \ {0}, NEW n \in 0..m - 1
  PROVE  (n + 1) % m = IF n + 1 = m THEN 0 ELSE n + 1
  BY Z3

-----------------------------------------------------------------------------
(* The argument.  Pending counts the summaries that are due or about to be *)
(* built.  From the monitor's death on, summaries built and pending take   *)
(* up no more whole slots than have passed, but for two: the one of the    *)
(* slot the death falls into, and one that was already due.  That two can  *)
(* be pending at the death costs nothing, because the second of them fell  *)
(* due after the service was last called, and the ticks since then count   *)
(* for deadFor.                                                            *)
Pending == (IF flag["100ms"] THEN 1 ELSE 0) + (IF pc = "bms" THEN 1 ELSE 0)

Clocked == counter["100ms"] \in 0..P100 - 1 /\ sub \in 0..TicksPerInterrupt - 1

Turned ==
  /\ pc = "clear100" => flag["100ms"]
  /\ pc = "bms" /\ flag["100ms"] => SlotPhase + 1 <= sinceCall
  /\ pc \in Sched!Boot => unaware = 0
  /\ device = "alive" => unaware = 0

Fits == (unaware + Pending) * SlotTicks + SlotPhase + 1
          <= 2 * SlotTicks + deadFor + sinceCall

Owing ==
  /\ unaware \in Nat /\ unaware <= SummaryBound
  /\ device = "dead" /\ bqState # "FAILED" => Fits

Types ==
  /\ flag["100ms"] \in BOOLEAN /\ DOMAIN flag = Sched!Slot
  /\ counter["100ms"] \in Nat
  /\ pc \in Sched!Boot \union Sched!LoopStep
  /\ deadFor \in Nat /\ device \in {"alive", "dead"}

LEMMA Constants ==
  /\ P100 \in Nat \ {0} /\ TicksPerInterrupt \in Nat \ {0} /\ MaxTurn \in Nat \ {0}
  /\ SlotTicks \in Nat \ {0}
  /\ Bq!DetectionBound \in Nat
  /\ SummaryBound = 2 + (Bq!DetectionBound + MaxTurn) \div SlotTicks
  /\ SummaryBound \in Nat /\ SummaryBound >= 2
  <1>1. P100 \in Nat \ {0} /\ TicksPerInterrupt \in Nat \ {0}
    BY FirmwareAssumption DEF Sched!ScheduleAssumption, Sched!Counter, Sched!Slot, P100
  <1>2. SlotTicks \in Nat \ {0}
    BY <1>1, ProductOrder, Z3 DEF SlotTicks
  <1>3. /\ FailureThreshold \in Nat /\ Interval["faultPoll"] \in Nat \ {0}
        /\ MaxTurn \in Nat \ {0}
    BY FirmwareAssumption DEF Bq!BqAssumption, Bq!Job
  <1>4. Bq!DetectionBound \in Nat
    <2>1. FailureThreshold * MaxTurn \in Nat
      BY <1>3, NextProduct
    <2>2. Interval["faultPoll"] - 1 + FailureThreshold * MaxTurn \in Nat
      BY <1>3, <2>1
    <2> QED
      BY <1>3, <2>2, NextProduct DEF Bq!DetectionBound
  <1>5. TicksPerInterrupt * Period["100ms"] = SlotTicks
    BY <1>1, Z3 DEF SlotTicks, P100
  <1>6. (Bq!DetectionBound + MaxTurn) \div SlotTicks \in Nat
    BY <1>2, <1>3, <1>4, Quotient, 0 * SlotTicks = 0
  <1> QED
    BY <1>1, <1>2, <1>3, <1>4, <1>5, <1>6 DEF SummaryBound

LEMMA PhaseInSlot ==
  ASSUME NEW c \in 0..P100 - 1, NEW t \in 0..TicksPerInterrupt - 1
  PROVE  c * TicksPerInterrupt + t \in 0..SlotTicks - 1
  <1>1. c * TicksPerInterrupt \in Nat
    BY Constants, NextProduct
  <1> QED
    BY <1>1, Constants, ProductOrder DEF SlotTicks

(* With nothing built yet, the debt fits.                                  *)
LEMMA NoneBuilt ==
  ASSUME NEW pending \in 0..2, NEW at \in 0..SlotTicks - 1, NEW dead \in Nat,
         NEW since \in Nat, pending = 2 => at + 1 <= since
  PROVE  (0 + pending) * SlotTicks + at + 1 <= 2 * SlotTicks + dead + since
  <1>1. 0 * SlotTicks = 0 /\ 1 * SlotTicks = SlotTicks
    BY Constants
  <1> QED
    BY <1>1, Constants

-----------------------------------------------------------------------------
(* The clock.                                                              *)

(* A tick is the next of its slot, or the first of the next slot, which is *)
(* then due.                                                               *)
LEMMA Tick ==
  ASSUME Clocked, Types, HalTick
  PROVE  /\ Clocked'
         /\ \/ SlotPhase' = 0 /\ SlotPhase = SlotTicks - 1 /\ flag'["100ms"]
            \/ SlotPhase' = SlotPhase + 1 /\ flag'["100ms"] = flag["100ms"]
  <1> DEFINE c == counter["100ms"]
             n == TicksPerInterrupt
  <1>0. /\ c \in 0..P100 - 1 /\ sub \in 0..n - 1 /\ n \in Nat \ {0} /\ P100 \in Nat \ {0}
        /\ flag["100ms"] \in BOOLEAN
    BY Constants DEF Clocked, Types
  <1>1. sub' = IF sub + 1 = n THEN 0 ELSE sub + 1
    BY <1>0, WrapAround DEF HalTick
  <1>2. c * n \in Nat /\ (c + 1) * n = c * n + n
    BY <1>0, NextProduct
  <1>3. CASE sub + 1 # n
    <2>1. UNCHANGED schedVars /\ sub' = sub + 1
      BY <1>0, <1>1, <1>3 DEF HalTick
    <2>2. counter' = counter /\ flag' = flag
      BY <2>1 DEF schedVars
    <2>3. sub' \in 0..n - 1
      BY <1>0, <1>3, <2>1
    <2>4. SlotPhase' = SlotPhase + 1
      BY <1>0, <1>2, <2>1, <2>2 DEF SlotPhase
    <2> QED
      BY <1>0, <2>2, <2>3, <2>4 DEF Clocked
  <1>4. CASE sub + 1 = n
    <2>1. Sched!Tim7Elapsed /\ sub' = 0
      BY <1>1, <1>4 DEF HalTick
    <2>2. counter'["100ms"] = IF Sched!Elapsed("100ms") THEN 0 ELSE c + 1
      BY <2>1 DEF Sched!Tim7Elapsed, Sched!Counter, Sched!Slot
    <2>3. Sched!Elapsed("100ms") <=> c + 1 = P100
      BY <1>0 DEF Sched!Elapsed, P100
    <2>4. flag'["100ms"] = (flag["100ms"] \/ Sched!Elapsed("100ms"))
      BY <2>1 DEF Sched!Tim7Elapsed, Sched!RaisedFlag, Sched!Slot
    <2>5. CASE c + 1 = P100
      <3>1. counter'["100ms"] = 0 /\ flag'["100ms"]
        BY <2>2, <2>3, <2>4, <2>5
      <3>2. SlotPhase' = 0 /\ Clocked'
        BY <1>0, <2>1, <3>1, 0 * n = 0 DEF SlotPhase, Clocked
      <3>3. SlotPhase = SlotTicks - 1
        BY <1>0, <1>2, <1>4, <2>5 DEF SlotPhase, SlotTicks
      <3> QED
        BY <3>1, <3>2, <3>3
    <2>6. CASE c + 1 # P100
      <3>1. counter'["100ms"] = c + 1 /\ flag'["100ms"] = flag["100ms"]
        BY <1>0, <2>2, <2>3, <2>4, <2>6
      <3>2. SlotPhase' = SlotPhase + 1
        BY <1>0, <1>2, <1>4, <2>1, <3>1 DEF SlotPhase
      <3>3. Clocked'
        BY <1>0, <2>1, <2>6, <3>1 DEF Clocked
      <3> QED
        BY <3>1, <3>2, <3>3
    <2> QED
      BY <2>5, <2>6
  <1> QED
    BY <1>3, <1>4

LEMMA TickStep ==
  ASSUME Clocked, Types, Types', ClockOK, ClockOK', Turned, Owing, HalTick
  PROVE  Clocked' /\ Turned' /\ Owing'
  <1>1. /\ UNCHANGED <<pc, unaware, device, bqState, deadFor>>
        /\ sinceCall' = IF pc \in Sched!Boot THEN 0 ELSE sinceCall + 1
    BY DEF HalTick, serviceVars, outputVars, schedVars, Sched!Tim7Elapsed
  <1>2. SummaryBound' = SummaryBound
    BY DEF SummaryBound, Bq!DetectionBound
  <1>3. /\ SlotPhase \in 0..SlotTicks - 1 /\ SlotTicks \in Nat \ {0}
        /\ deadFor \in Nat /\ sinceCall \in Nat /\ unaware \in Nat
        /\ flag["100ms"] \in BOOLEAN
    <2>1. SlotPhase \in 0..SlotTicks - 1
      BY PhaseInSlot DEF Clocked, SlotPhase
    <2> QED
      BY <2>1, Constants DEF Types, ClockOK, Owing
  <1>4. /\ Clocked'
        /\ \/ SlotPhase' = 0 /\ SlotPhase = SlotTicks - 1 /\ flag'["100ms"]
           \/ SlotPhase' = SlotPhase + 1 /\ flag'["100ms"] = flag["100ms"]
    BY Tick
  <1>5. SlotTicks' = SlotTicks
    BY DEF SlotTicks, P100
  <1>6. CASE pc \in Sched!Boot
    <2>1. Turned' /\ unaware' = 0
      BY <1>1, <1>6 DEF Turned, Sched!Boot
    <2>2. Pending' \in 0..1
      BY <1>1, <1>6 DEF Pending, Sched!Boot
    <2>3. SlotPhase' \in 0..SlotTicks - 1 /\ deadFor' \in Nat /\ sinceCall' \in Nat
      BY <1>1, <1>3, <1>4, <1>6, PhaseInSlot DEF Clocked, SlotPhase
    <2>4. Fits'
      BY <1>5, <2>1, <2>2, <2>3, NoneBuilt DEF Fits
    <2> QED
      BY <1>1, <1>2, <1>4, <2>1, <2>4 DEF Owing
  <1>7. CASE pc \notin Sched!Boot
    <2>1. Turned'
      BY <1>1, <1>3, <1>4, <1>7 DEF Turned
    <2>2. ASSUME Fits PROVE Fits'
      <3>1. CASE SlotPhase' = 0
        <4> DEFINE a == unaware + Pending
                   b == unaware + Pending'
        <4>1. a \in Nat /\ b \in Nat /\ b <= a + 1
          BY <1>1, <1>3 DEF Pending
        <4> HIDE DEF a, b
        <4>2. a * SlotTicks + SlotPhase + 1 <= 2 * SlotTicks + deadFor + sinceCall
          BY <2>2 DEF Fits, a
        <4>3. Fits' <=> b * SlotTicks + SlotPhase' + 1
                          <= 2 * SlotTicks + deadFor' + sinceCall'
          BY <1>1, <1>5 DEF Fits, b
        <4>4. /\ a * SlotTicks \in Nat /\ b * SlotTicks \in Nat
              /\ b * SlotTicks <= a * SlotTicks + SlotTicks
          BY <1>3, <4>1, OneMore
        <4>5. SlotPhase = SlotTicks - 1
          BY <1>3, <1>4, <3>1
        <4> QED
          BY <1>1, <1>3, <1>7, <3>1, <4>2, <4>3, <4>4, <4>5
      <3>2. CASE SlotPhase' = SlotPhase + 1 /\ flag'["100ms"] = flag["100ms"]
        <4>1. Pending' = Pending /\ (unaware + Pending) * SlotTicks \in Nat
          BY <1>1, <1>3, <3>2, NextProduct DEF Pending
        <4> QED
          BY <1>1, <1>3, <1>5, <1>7, <2>2, <3>2, <4>1 DEF Fits
      <3> QED
        BY <1>4, <3>1, <3>2
    <2> QED
      BY <1>1, <1>2, <1>4, <2>1, <2>2 DEF Owing
  <1> QED
    BY <1>6, <1>7

-----------------------------------------------------------------------------
(* The summary built in this turn.                                         *)
LEMMA SummaryStep ==
  ASSUME Clocked, Types, ClockOK, Turned, Owing, Components,
         Bq!DeathDetectedInTime, SendSummary
  PROVE  Clocked' /\ Turned' /\ Owing'
  <1>1. /\ pc = "bms" /\ pc' = "general"
        /\ UNCHANGED <<flag, counter, sub, device, bqState, deadFor, sinceCall>>
        /\ faultBit' = (bqState = "FAILED")
        /\ unaware' = IF device = "dead" /\ ~faultBit'
                        THEN Sched!AtMost(SummaryBound + 1, unaware + 1) ELSE unaware
    <2>1. pc = "bms" /\ pc' = "general" /\ UNCHANGED <<flag, counter>>
      BY DEF SendSummary, Sched!SendBms, Sched!Goto, Sched!timerVars
    <2>2. UNCHANGED <<device, bqState, deadFor>> /\ faultBit' = (bqState = "FAILED")
      BY DEF SendSummary, Bq!BmsBroadcast, Bq!codeVars, Bq!envVars
    <2>3. UNCHANGED <<sub, sinceCall>>
      BY DEF SendSummary, clockVars
    <2> QED
      BY <2>1, <2>2, <2>3 DEF SendSummary
  <1>2. /\ SummaryBound' = SummaryBound /\ SlotTicks' = SlotTicks
        /\ SlotPhase' = SlotPhase
    BY <1>1 DEF SummaryBound, Bq!DetectionBound, SlotTicks, P100, SlotPhase
  <1>3. SlotPhase \in 0..SlotTicks - 1
    BY PhaseInSlot DEF Clocked, SlotPhase
  <1>4. /\ deadFor \in Nat /\ sinceCall \in 0..MaxTurn /\ unaware \in Nat
        /\ flag["100ms"] \in BOOLEAN
    BY DEF Types, ClockOK, Owing
  <1>5. Clocked'
    BY <1>1 DEF Clocked
  <1>6. CASE device = "dead" /\ bqState # "FAILED"
    <2> DEFINE a == unaware + Pending
               u == unaware - 1
    <2>1. a \in Nat /\ a = unaware + 1 + Pending' /\ Pending' \in 0..1
      BY <1>1, <1>4 DEF Pending
    <2>2. deadFor <= Bq!DetectionBound
      BY <1>4, <1>6, Constants DEF Bq!DeathDetectedInTime
    <2>3. Fits
      BY <1>6 DEF Owing
    <2>4. unaware + 1 <= SummaryBound
      <3>1. CASE unaware = 0
        BY <3>1, Constants
      <3>2. CASE unaware > 0
        <4>1. u \in Nat /\ u + 2 <= a /\ u + 2 \in Nat
          BY <1>4, <2>1, <3>2
        <4>2. a * SlotTicks + SlotPhase + 1 <= 2 * SlotTicks + deadFor + sinceCall
          BY <2>3 DEF Fits
        <4> HIDE DEF a, u
        <4>3. (u + 2) * SlotTicks <= a * SlotTicks
          BY <2>1, <4>1, Constants, FactorGrows
        <4>4. (u + 2) * SlotTicks = u * SlotTicks + 2 * SlotTicks
          BY <4>1, Constants, Z3
        <4>5. /\ a * SlotTicks \in Nat /\ u * SlotTicks \in Nat
              /\ 2 * SlotTicks \in Nat
          BY <2>1, <4>1, Constants, NextProduct
        <4>6. u * SlotTicks <= Bq!DetectionBound + MaxTurn
          BY <1>3, <1>4, <2>2, <4>2, <4>3, <4>4, <4>5, Constants
        <4>7. u <= (Bq!DetectionBound + MaxTurn) \div SlotTicks
          BY <4>1, <4>6, Constants, Quotient
        <4>8. unaware = u + 1
          BY <1>4 DEF u
        <4> QED
          BY <4>1, <4>7, <4>8, Constants
      <3> QED
        BY <1>4, <3>1, <3>2
    <2>5. unaware' = unaware + 1
      <3>1. unaware' = Sched!AtMost(SummaryBound + 1, unaware + 1)
        BY <1>1, <1>6
      <3> QED
        BY <1>4, <2>4, <3>1, Constants DEF Sched!AtMost
    <2>6. Fits'
      <3>1. unaware' + Pending' = unaware + Pending
        BY <1>4, <2>1, <2>5
      <3> QED
        BY <1>1, <1>2, <2>3, <3>1 DEF Fits
    <2>7. Turned'
      BY <1>1, <1>6 DEF Turned, Sched!Boot
    <2> QED
      BY <1>2, <1>4, <1>5, <2>4, <2>5, <2>6, <2>7 DEF Owing
  <1>7. CASE ~(device = "dead" /\ bqState # "FAILED")
    <2>1. unaware' = unaware
      BY <1>1, <1>7 DEF Types
    <2> QED
      BY <1>1, <1>2, <1>5, <1>7, <2>1 DEF Turned, Owing, Sched!Boot
  <1> QED
    BY <1>6, <1>7

(* The other steps build no summary and take no time.                      *)
LEMMA OtherStep ==
  ASSUME Clocked, Types, Types', ClockOK, ClockOK', Turned, Owing, Components,
         bqState = "FAILED" => bqState' = "FAILED",
         \/ Startup \/ EnterLoop \/ ThermTask \/ PollSlots \/ NoSlot \/ SendOther
         \/ FinishSlot \/ VoltTask \/ BusTransmit \/ DeviceDies \/ UNCHANGED vars
  PROVE  Clocked' /\ Turned' /\ Owing'
  <1>1. /\ deadFor \in Nat /\ sinceCall \in Nat /\ unaware \in Nat
        /\ flag["100ms"] \in BOOLEAN /\ DOMAIN flag = Sched!Slot
        /\ SlotTicks \in Nat \ {0} /\ SlotPhase \in 0..SlotTicks - 1
        /\ SummaryBound' = SummaryBound /\ SlotTicks' = SlotTicks
    <2>1. SlotPhase \in 0..SlotTicks - 1
      BY PhaseInSlot DEF Clocked, SlotPhase
    <2>2. sinceCall \in Nat
      BY Constants DEF ClockOK
    <2>3. SummaryBound' = SummaryBound /\ SlotTicks' = SlotTicks
      BY DEF SummaryBound, Bq!DetectionBound, SlotTicks, P100
    <2> QED
      BY <2>1, <2>2, <2>3, Constants DEF Types, Owing
  <1> USE <1>1 DEF Sched!Goto, clockVars
  <1>2. CASE Startup \/ EnterLoop
    <2>1. /\ pc \in Sched!Boot /\ pc' \in {"pulse", "therm"}
          /\ UNCHANGED <<sub, sinceCall, unaware, device, deadFor>>
          /\ counter'["100ms"] \in {0, counter["100ms"]}
      <3>1. CASE Startup
        <4>1. /\ pc = "startup" /\ pc' = "pulse" /\ counter'["100ms"] = 0
          BY <3>1 DEF Startup, Sched!ReleaseSchedule, Sched!SetSchedulingEnabled,
                      Sched!ResetCanSchedule, Sched!Counter, Sched!Slot
        <4>2. UNCHANGED <<sub, sinceCall, unaware, device, deadFor>>
          BY <3>1 DEF Startup, Bq!BlockingStartup, Bq!envVars, outputVars
        <4> QED
          BY <4>1, <4>2 DEF Sched!Boot
      <3>2. CASE EnterLoop
        BY <3>2 DEF EnterLoop, Sched!EnterLoop, Sched!Boot, Sched!timerVars,
                    serviceVars
      <3> QED
        BY <1>2, <3>1, <3>2
    <2>2. /\ unaware = 0 /\ unaware' = 0
          /\ Pending' \in 0..2 /\ (Pending' = 2 => SlotPhase' + 1 <= sinceCall')
      BY <2>1 DEF Turned, Pending
    <2>3. Clocked'
      BY <2>1, Constants DEF Clocked
    <2>4. /\ SlotPhase' \in 0..SlotTicks - 1
          /\ deadFor' \in Nat /\ sinceCall' \in Nat
      BY <1>1, <2>1, <2>3, PhaseInSlot DEF Clocked, SlotPhase
    <2>5. Fits'
      BY <2>2, <2>4, NoneBuilt DEF Fits
    <2>6. Turned'
      BY <2>1, <2>2 DEF Turned
    <2> QED
      BY <2>1, <2>2, <2>3, <2>5, <2>6, Constants DEF Owing
  <1>3. CASE ThermTask \/ PollSlots \/ NoSlot \/ SendOther \/ FinishSlot
    <2>1. UNCHANGED <<counter, sub, sinceCall, unaware, device, deadFor, bqState>>
      <3>1. UNCHANGED <<counter, sub, sinceCall, unaware>>
        BY <1>3 DEF ThermTask, PollSlots, NoSlot, SendOther, FinishSlot, outputVars,
             Sched!timerVars, Sched!SampleTherms, Sched!ReadFlag, Sched!ClearFlag,
             Sched!SendClaim, Sched!SendGeneral, Sched!SendExtVoltage,
             Sched!SkipExtVoltage, Sched!ConsumeEvent, Sched!NextThermistor
      <3>2. UNCHANGED <<device, deadFor, bqState>>
        BY <1>3 DEF ThermTask, PollSlots, NoSlot, SendOther, FinishSlot, serviceVars,
             Bq!ThermTask, Bq!NoBroadcast, Bq!codeVars, Bq!envVars
      <3> QED
        BY <3>1, <3>2
    <2>2. CASE PollSlots /\ Sched!ClearFlag("100ms", "clear100", "bms")
      <3>1. pc = "clear100" /\ pc' = "bms" /\ flag["100ms"] /\ ~flag'["100ms"]
        BY <2>2 DEF Sched!ClearFlag, Turned, Sched!Slot
      <3>2. Pending' = Pending
        BY <3>1 DEF Pending
      <3> QED
        BY <2>1, <3>1, <3>2
           DEF Clocked, Turned, Owing, Fits, SlotPhase, Sched!Boot
    <2>3. CASE ~(PollSlots /\ Sched!ClearFlag("100ms", "clear100", "bms"))
      <3>1. /\ flag'["100ms"] = flag["100ms"]
            /\ pc # "bms" /\ pc' \notin Sched!Boot \union {"bms"}
            /\ pc' = "clear100" => flag["100ms"]
        BY <1>3, <2>3 DEF ThermTask, PollSlots, NoSlot, SendOther, FinishSlot,
             Sched!timerVars, Sched!SampleTherms, Sched!ReadFlag, Sched!ClearFlag,
             Sched!SendClaim, Sched!SendGeneral, Sched!SendExtVoltage,
             Sched!SkipExtVoltage, Sched!ConsumeEvent, Sched!NextThermistor,
             Sched!Boot, Sched!Slot
      <3>2. Pending' = Pending
        BY <3>1 DEF Pending
      <3> QED
        BY <2>1, <3>1, <3>2 DEF Clocked, Turned, Owing, Fits, SlotPhase
    <2> QED
      BY <2>2, <2>3
  <1>4. CASE VoltTask
    <2>1. /\ pc = "volt" /\ pc' \in {"volt", "therm"}
          /\ UNCHANGED <<flag, counter, sub, unaware>>
      BY <1>4 DEF VoltTask, schedVars, Sched!ServiceVolt, Sched!timerVars
    <2>2. /\ Pending' = Pending /\ SlotPhase' = SlotPhase
          /\ Clocked'
      BY <2>1 DEF Pending, SlotPhase, Clocked
    <2>3. device' = device
      BY <1>4 DEF VoltTask, NotServed, StartService, Serve, Bq!ForceDisable,
           Bq!LeaveAlone, Bq!StartService, Bq!Service, Bq!NotDue, Bq!KeepAlive,
           Bq!FaultPoll, Bq!CountedSuccess, Bq!CountedFailure, Bq!FaultSnapshot,
           Bq!CellSnapshot, Bq!codeVars, Bq!envVars
    <2>4. Turned'
      BY <2>1, <2>3 DEF Turned, Sched!Boot
    <2>5. CASE NotServed
      <3>1. bqState' = "FAILED"
        BY <2>5 DEF NotServed, Bq!ForceDisable, Bq!Disable, Bq!LeaveAlone,
             Bq!Serviceable, Bq!codeVars, Components, BqT!TypeOK, BqT!Lifecycle,
             BqT!State
      <3> QED
        BY <2>1, <2>2, <2>4, <3>1 DEF Owing
    <2>6. CASE StartService
      <3>1. /\ sinceCall' = 0 /\ bqState' = bqState
            /\ device = "dead" => deadFor' = deadFor + sinceCall
        BY <2>6 DEF StartService, Bq!StartService
      <3> QED
        BY <2>1, <2>2, <2>3, <2>4, <3>1 DEF Owing, Fits
    <2>7. CASE Serve
      <3>1. sinceCall' = sinceCall /\ deadFor' = deadFor
        BY <2>7 DEF Serve, Bq!Service, Bq!NotDue, Bq!KeepAlive, Bq!FaultPoll,
             Bq!CountedSuccess, Bq!CountedFailure, Bq!FaultSnapshot,
             Bq!CellSnapshot, Bq!codeVars, Bq!envVars
      <3> QED
        BY <2>1, <2>2, <2>3, <2>4, <3>1 DEF Owing, Fits
    <2> QED
      BY <1>4, <2>5, <2>6, <2>7 DEF VoltTask
  <1>5. CASE DeviceDies
    <2>1. /\ UNCHANGED <<flag, counter, pc, sub, sinceCall, unaware, deadFor>>
          /\ device = "alive" /\ device' = "dead"
      BY <1>5 DEF DeviceDies, Bq!DeviceDies, schedVars, outputVars
    <2>2. unaware = 0 /\ unaware' = 0
      BY <2>1 DEF Turned
    <2>3. Pending' \in 0..2 /\ (Pending' = 2 => SlotPhase' + 1 <= sinceCall')
      BY <2>1 DEF Pending, Turned, SlotPhase
    <2>4. SlotPhase' \in 0..SlotTicks - 1 /\ Clocked' /\ Turned'
      BY <2>1, <2>2 DEF SlotPhase, Clocked, Turned
    <2>5. Fits'
      BY <2>1, <2>2, <2>3, <2>4, NoneBuilt DEF Fits
    <2> QED
      BY <2>2, <2>4, <2>5, Constants DEF Owing
  <1>6. CASE BusTransmit \/ UNCHANGED vars
    <2>1. UNCHANGED <<flag, counter, pc, sub, sinceCall, unaware, device, deadFor,
                      bqState>>
      BY <1>6 DEF BusTransmit, Sched!BusTransmit, Sched!timerVars, vars, schedVars,
                  serviceVars, outputVars
    <2> QED
      BY <2>1 DEF Clocked, Turned, Owing, Fits, Pending, SlotPhase
  <1> QED
    BY <1>2, <1>3, <1>4, <1>5, <1>6

-----------------------------------------------------------------------------
(* SchedT's type invariant gives the types used here.                      *)
LEMMA TypesOK ==
  ASSUME SchedT!TypeOK, BqT!TypeOK
  PROVE  Types
  BY DEF SchedT!TypeOK, BqT!TypeOK, Types, SchedT!Slot, Sched!Slot, SchedT!Counter,
         SchedT!Boot, Sched!Boot, SchedT!LoopStep, Sched!LoopStep

LEMMA OwingInit == Init => Clocked /\ Turned /\ Owing
  <1> SUFFICES ASSUME Init PROVE Clocked /\ Turned /\ Owing
    OBVIOUS
  <1>1. /\ counter["100ms"] = 0 /\ sub = 0 /\ unaware = 0
        /\ pc = "startup" /\ device = "alive"
    BY DEF Init, Sched!Init, Bq!Init, Sched!Counter, Sched!Slot
  <1> QED
    BY <1>1, Constants DEF Clocked, Turned, Owing

(* The summaries built with a healthy monitor that is in fact dead are no  *)
(* more than SummaryBound, whatever the bus does and however the turns of  *)
(* the loop fall against the interrupt (EncodeBmsBroadcast and             *)
(* bq79616_service_task).                                                  *)
THEOREM FewMiss == Spec => []FewSummariesMiss
  <1> DEFINE Known == Types /\ Components /\ ClockOK /\ Bq!DeathDetectedInTime
  <1>1. Spec => []Known
    <2>1. SchedT!TypeOK /\ Components => Types
      BY TypesOK DEF Components
    <2>2. Spec => []SchedT!TypeOK
      BY ScheduleImplemented, SchedAssumption, SchedT!TypeCorrect, PTL
    <2>3. Spec => []ClockOK
      BY ClockInit, ClockStep, PTL DEF Spec
    <2> QED
      BY <2>1, <2>2, <2>3, AlwaysComponents, DeathDetectedInFirmware, PTL
  <1>2. Known /\ Known' /\ Clocked /\ Turned /\ Owing /\ [Next]_vars
          => Clocked' /\ Turned' /\ Owing'
    <2> SUFFICES ASSUME Known, Known', Clocked, Turned, Owing, [Next]_vars
                 PROVE  Clocked' /\ Turned' /\ Owing'
      OBVIOUS
    <2>1. bqState = "FAILED" => bqState' = "FAILED"
      BY FailedStays
    <2>2. CASE HalTick
      BY <2>2, TickStep
    <2>3. CASE SendSummary
      BY <2>3, SummaryStep
    <2>4. CASE \/ Startup \/ EnterLoop \/ ThermTask \/ PollSlots \/ NoSlot
               \/ SendOther \/ FinishSlot \/ VoltTask \/ BusTransmit
               \/ DeviceDies \/ UNCHANGED vars
      BY <2>1, <2>4, OtherStep
    <2> QED
      BY <2>2, <2>3, <2>4 DEF Next, MainLoop, CanTask
  <1>3. Owing => FewSummariesMiss
    BY DEF Owing, FewSummariesMiss
  <1> QED
    BY <1>1, <1>2, <1>3, OwingInit, PTL DEF Spec
=============================================================================
