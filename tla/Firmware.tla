------------------------------ MODULE Firmware ------------------------------
(***************************************************************************)
(* The whole main loop (main.c): the CAN schedule of CanSchedule and the   *)
(* cell-monitor service of BqService run by one thread, against one clock. *)
(* A tick is a SysTick millisecond; every TicksPerInterrupt of them TIM7   *)
(* interrupts, and the service measures its intervals in the same ticks,   *)
(* so that what each of the two modules takes from its environment (time   *)
(* that moves on, a broadcast slot that comes again, turns that end) is    *)
(* here what the other one and the clock give it.                          *)
(*                                                                         *)
(* A step of the loop is a step of the component whose code runs and, at   *)
(* the boundary of two tasks, of both: pc is the position in main.c and    *)
(* CAN_SendMessages, bqPc the position in bq79616_service_task, and        *)
(* `cells' the one variable both components hold.                          *)
(***************************************************************************)
EXTENDS Naturals, Sequences

CONSTANTS
  Period, EventCountMax, Segments, ThermCount, TxFifoDepth, BusKeepsPace,
  Interval, FailureThreshold, PhaseCount, BootTime, MaxTurn,
  TicksPerInterrupt    \* TIMER7_PERIOD in SysTick milliseconds


VARIABLES
  \* CanSchedule
  counter, flag, events, pc, sentClaim, thermIndex, segment, cells, fifo,
  lastSeg, lastTherm, tickAt, laps, deferrals, bmsSince, calm,
  \* BqService
  shutdown, voltStatus, bqState, bqPc, age, failures, phase, faultBit,
  device, deadFor, missed,
  \* the clock
  sub,          \* ticks since TIM7 interrupted
  sinceCall,    \* ticks since Volt_ServiceTask was last entered
  \* outputs
  marks,        \* per frame of fifo: the monitor's state when it was built
  told,         \* what the last summary on the bus said of the monitor
  voltLed,      \* VOLT_LED
  unaware       \* history: summaries built since the device died that do
                \* not say so (at most SummaryBound + 1)

Sched == INSTANCE CanSchedule WITH LoopKeepsPace <- FALSE
Bq    == INSTANCE BqService WITH pc <- bqPc

ASSUME FirmwareAssumption ==
  /\ Sched!ScheduleAssumption
  /\ Bq!BqAssumption
  /\ TicksPerInterrupt \in Nat \ {0}

schedVars   == <<counter, flag, events, pc, sentClaim, thermIndex, segment, cells,
                 fifo, lastSeg, lastTherm, tickAt, laps, deferrals, bmsSince, calm>>
serviceVars == <<shutdown, voltStatus, bqState, bqPc, age, failures, phase,
                 cells, faultBit, device, deadFor, missed>>
clockVars   == <<sub, sinceCall>>
outputVars  == <<marks, told, voltLed, unaware>>
vars        == <<schedVars, serviceVars, clockVars, outputVars>>

Init ==
  /\ Sched!Init
  /\ Bq!Init
  /\ sub = 0
  /\ sinceCall = 0
  /\ marks = <<>>
  /\ told = "nothing"
  /\ voltLed = FALSE
  /\ unaware = 0

(* From the death of the device to the FAILED state no more ticks pass     *)
(* than BqService's DetectionBound and the turn in progress; a summary is  *)
(* built for each 100 ms slot of that time, one for the slot it starts in, *)
(* and one for a slot already due.                                         *)
SummaryBound ==
  2 + (Bq!DetectionBound + MaxTurn) \div (TicksPerInterrupt * Period["100ms"])

-----------------------------------------------------------------------------
(* SysTick, and TIM7 with it.  A turn of the loop takes at most MaxTurn    *)
(* ticks; start-up takes as long as it takes.                              *)
HalTick ==
  /\ sinceCall < MaxTurn
  /\ sinceCall' = IF pc \in Sched!Boot THEN 0 ELSE sinceCall + 1
  /\ sub' = (sub + 1) % TicksPerInterrupt
  /\ IF sub' = 0 THEN Sched!Tim7Elapsed ELSE UNCHANGED schedVars
  /\ UNCHANGED <<serviceVars, outputVars>>

(* System_AppInit: the bring-up, then the schedule released according to   *)
(* its outcome.                                                            *)
Startup ==
  /\ Bq!BlockingStartup
  /\ Sched!ReleaseSchedule(bqState' = "FAILED")
  /\ UNCHANGED <<clockVars, outputVars>>

(* LED_All_Pulse leaves every LED off.                                     *)
EnterLoop ==
  /\ Sched!EnterLoop
  /\ voltLed' = FALSE
  /\ UNCHANGED <<serviceVars, clockVars, marks, told, unaware>>

-----------------------------------------------------------------------------
(* Therm_ServiceTask.                                                      *)
ThermTask ==
  /\ Sched!SampleTherms
  /\ Bq!ThermTask
  /\ UNCHANGED <<clockVars, outputVars>>

(* CAN_ServiceTask up to its last poll: the claim, and a 100 ms slot that  *)
(* is due or is not.                                                       *)
PollSlots ==
  /\ \/ Sched!ReadFlag("200ms", "check200", "clear200", "check100")
     \/ Sched!ClearFlag("200ms", "clear200", "claim")
     \/ flag["100ms"] /\ Sched!ReadFlag("100ms", "check100", "clear100", "volt")
     \/ Sched!ClearFlag("100ms", "clear100", "bms")
  /\ UNCHANGED <<serviceVars, clockVars, outputVars>>

NoSlot ==
  /\ ~flag["100ms"]
  /\ Sched!ReadFlag("100ms", "check100", "clear100", "volt")
  /\ Bq!NoBroadcast
  /\ UNCHANGED <<clockVars, outputVars>>

Verdict(failed) == IF failed THEN "fault" ELSE "healthy"

(* A frame the FIFO takes carries its mark with it.                        *)
Mark(verdict) == marks' = IF Sched!HasRoom THEN Append(marks, verdict) ELSE marks

(* A mistake: the summary sent with the fault bit of the one before.       *)
SendStaleSummary ==
  /\ Sched!SendBms
  /\ Bq!NoBroadcast
  /\ Mark(Verdict(faultBit))
  /\ unaware' = IF device = "dead" /\ ~faultBit
                  THEN Sched!AtMost(SummaryBound + 1, unaware + 1) ELSE unaware
  /\ UNCHANGED <<clockVars, told, voltLed>>

(* EncodeBmsBroadcast takes the fault bit from the monitor's state as it   *)
(* is in this turn.                                                        *)
SendSummary ==
  /\ Sched!SendBms
  /\ Bq!BmsBroadcast
  /\ Mark(Verdict(faultBit'))
  /\ unaware' = IF device = "dead" /\ ~faultBit'
                  THEN Sched!AtMost(SummaryBound + 1, unaware + 1) ELSE unaware
  /\ UNCHANGED <<clockVars, told, voltLed>>

(* The other frames.                                                       *)
SendOther ==
  /\ Sched!SendClaim \/ Sched!SendGeneral \/ Sched!SendExtVoltage
  /\ Mark(Verdict(bqState = "FAILED"))
  /\ UNCHANGED <<serviceVars, clockVars, told, voltLed, unaware>>

(* The rest of CAN_SendMessages.                                           *)
FinishSlot ==
  /\ Sched!SkipExtVoltage \/ Sched!ConsumeEvent \/ Sched!NextThermistor
  /\ UNCHANGED <<serviceVars, clockVars, outputVars>>

-----------------------------------------------------------------------------
(* A mistake: VOLT_LED lit for a monitor shut down by setting only.        *)
NotServedDark ==
  /\ Bq!ForceDisable \/ Bq!LeaveAlone
  /\ sinceCall' = 0
  /\ voltLed' = (voltLed \/ shutdown = Bq!TurnOff)

(* Volt_ServiceTask.  A call that leaves at once lights VOLT_LED; one that *)
(* serves the monitor reads the clock and runs its jobs.                   *)
NotServed ==
  /\ Bq!ForceDisable \/ Bq!LeaveAlone
  /\ sinceCall' = 0
  /\ voltLed' = TRUE

StartService ==
  /\ Bq!StartService(sinceCall)
  /\ sinceCall' = 0
  /\ UNCHANGED voltLed

Serve ==
  /\ Bq!Service
  /\ UNCHANGED <<sinceCall, voltLed>>

(* The turn ends where the monitor's code returns.                         *)
VoltTask ==
  /\ pc = "volt"
  /\ NotServed \/ StartService \/ Serve
  /\ IF bqPc' = "therm" THEN Sched!ServiceVolt ELSE UNCHANGED schedVars
  /\ UNCHANGED <<sub, marks, told, unaware>>

-----------------------------------------------------------------------------
(* The environment.                                                        *)

BusTransmit ==
  /\ Sched!BusTransmit
  /\ marks' = Tail(marks)
  /\ told' = IF Head(fifo).id = "bms" THEN Head(marks) ELSE told
  /\ UNCHANGED <<serviceVars, clockVars, voltLed, unaware>>

DeviceDies ==
  /\ Bq!DeviceDies
  /\ UNCHANGED <<schedVars, clockVars, outputVars>>

CanTask == PollSlots \/ NoSlot \/ SendSummary \/ SendOther \/ FinishSlot

MainLoop == EnterLoop \/ ThermTask \/ CanTask \/ VoltTask

Next == HalTick \/ Startup \/ MainLoop \/ BusTransmit \/ DeviceDies

Spec == Init /\ [][Next]_vars

(* The clock runs, the bring-up ends, no step of the loop blocks, and a    *)
(* bus that keeps pace drains.  Nothing is assumed of the broadcast slots  *)
(* or of the time the service sees: those follow.                          *)
FairSpec ==
  /\ Spec
  /\ WF_vars(HalTick)
  /\ WF_vars(Startup)
  /\ WF_vars(MainLoop)
  /\ WF_vars(BusKeepsPace /\ BusTransmit)

-----------------------------------------------------------------------------
(* The monitor's service, in the loop it really runs in, is BqService with *)
(* the fairness that module assumes: the time between two calls is         *)
(* bounded and keeps passing, and the summary with the fault bit is built  *)
(* again and again, whatever the TIM7 interrupt meets.                     *)
ImplementsService == Bq!FairSpec

(* The CAN schedule, with the monitor's service in its loop, is            *)
(* CanSchedule with its fairness: the jobs of the service return.          *)
ImplementsSchedule == Sched!FairSpec

(* Nobody takes frozen voltages for live ones: by the time a voltage frame *)
(* built after the failure is on the bus, a summary with the fault bit has *)
(* preceded it, if the last interrupt found no broadcast under way.        *)
(* (Otherwise the FIFO may refuse the summary and, one frame time later,   *)
(* take the voltages of the same turn.)                                    *)
FrozenVoltagesFlagged ==
  [][calm # "no" /\ fifo # <<>> /\ fifo' = Tail(fifo)
       /\ Head(fifo).id = "extv" /\ Head(marks) = "fault"
       => told = "fault"]_vars

(* The summaries that still call a dead monitor healthy are few: as many   *)
(* as there are 100 ms slots in the time the fault polls need to notice.   *)
FewSummariesMiss == unaware <= SummaryBound

(* The death of the monitor reaches the bus and the panel, for good, once  *)
(* the interrupts no longer meet a broadcast: a dead monitor stalls the    *)
(* loop no more when it is given up.                                       *)
DeathIsSeen ==
  <>[](calm # "no") => (device = "dead" ~> [](told = "fault" /\ voltLed))
=============================================================================
