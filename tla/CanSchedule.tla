---------------------------- MODULE CanSchedule ----------------------------
(***************************************************************************)
(* The CAN transmit schedule: the TIM7 interrupt (timer.c) raises a flag   *)
(* every 100 ms and every 200 ms and counts one external-voltage event per *)
(* second; the main loop (main.c, CAN_SendMessages in can_messages.c)      *)
(* polls them and hands frames to the three-element transmit FIFO of the   *)
(* FDCAN peripheral.  The interrupt may fire between any two statements of *)
(* the loop that touch what it shares, so a poll is a read step and a      *)
(* clear step; the event counter is consumed with interrupts masked and is *)
(* one step.                                                               *)
(*                                                                         *)
(* Two constants restrict the environment.  LoopKeepsPace: one turn of the *)
(* loop takes less than one TIM7 period; otherwise it may stall for any    *)
(* number of them (blocking UART logging, BQ79616 timeouts).               *)
(* BusKeepsPace: the frames of a slot have left when the interrupt that    *)
(* ends it comes; otherwise the bus sends a frame whenever it likes, or    *)
(* never again (no acknowledge, bus off).  Within a slot it is free either *)
(* way, and nothing in the loop waits for it.  The history variable calm   *)
(* tells the properties that need it when loop and bus were done with one  *)
(* broadcast before the next interrupt.                                    *)
(***************************************************************************)
EXTENDS Naturals, Sequences

CONSTANTS
  Period,          \* TIM7 interrupts per "100ms", "200ms" and "1000ms"
  EventCountMax,   \* TIMER_CAN_EVENT_COUNT_MAX
  Segments,        \* EXTERNAL_ADC_VOLTAGE_FRAMES
  ThermCount,      \* s_cache.count: thermistors sampled
  TxFifoDepth,     \* elements of the FDCAN transmit FIFO
  LoopKeepsPace,
  BusKeepsPace

Slot    == {"100ms", "200ms"}
Counter == Slot \union {"1000ms"}

ASSUME ScheduleAssumption ==
  /\ Period \in [Counter -> Nat \ {0}]
  /\ EventCountMax \in Nat
  /\ Segments \in Nat \ {0}
  /\ ThermCount \in Nat \ {0}
  /\ TxFifoDepth \in Nat \ {0}
  /\ LoopKeepsPace \in BOOLEAN
  /\ BusKeepsPace \in BOOLEAN

VARIABLES
  \* shared with the interrupt
  counter,      \* s_can_counter_100ms, _200ms, _1000ms
  flag,         \* g_flag_can_100ms, g_flag_can_200ms
  events,       \* s_can_ext_voltage_event_count
  \* the main loop
  pc,
  sentClaim,    \* sent_claim_this_pass
  thermIndex,   \* therm_index
  segment,      \* ext_voltage_segment_rr
  cells,        \* g_can_ctx.voltages.num_active > 0
  \* the FDCAN peripheral
  fifo,         \* frames accepted and not yet on the bus
  lastSeg,      \* segment of the last external-voltage frame on the bus
  lastTherm,    \* thermistor of the last general frame on the bus
  \* the pace of the interrupt relative to the loop (LoopKeepsPace)
  tickAt,       \* step of the loop at which the last interrupt came
  laps,         \* loop starts since then, at most 2
  \* history, read by properties only
  deferrals,    \* consecutive 100 ms slots a ready event lost to a claim,
                \* at most 3, kept while LoopKeepsPace
  bmsSince,     \* BMS broadcasts since the last interrupt, at most 3
  calm          \* whether the interrupts found BroadcastOver: "always",
                \* "again" (the last one did, one before did not) or "no"

timerVars == <<counter, flag, events>>
loopVars  == <<sentClaim, thermIndex, segment, cells>>
busVars   == <<fifo, lastSeg, lastTherm>>
paceVars  == <<tickAt, laps>>
histVars  == <<deferrals, bmsSince, calm>>
vars      == <<timerVars, pc, loopVars, busVars, paceVars, histVars>>

(* The steps of one turn of the loop, in program order.                    *)
Position ==
  [therm    |-> 0, check200 |-> 1, clear200 |-> 2, claim   |-> 3,
   check100 |-> 4, clear100 |-> 5, bms      |-> 6, general |-> 7,
   extv     |-> 8, consume  |-> 9, advance  |-> 10, volt   |-> 11]

Boot      == {"startup", "pulse"}
LoopStep  == {"therm", "check200", "clear200", "claim", "check100", "clear100",
              "bms", "general", "extv", "consume", "advance", "volt"}

Frame == [id : {"claim", "bms", "general", "extv"}, index : Nat]

AtMost(bound, n) == IF n > bound THEN bound ELSE n

(* HAL_TIM starts with all counters and flags clear (zero-initialised      *)
(* statics), and the loop has not been entered.                            *)
Init ==
  /\ counter = [c \in Counter |-> 0]
  /\ flag = [s \in Slot |-> FALSE]
  /\ events = 0
  /\ pc = "startup"
  /\ sentClaim = FALSE
  /\ thermIndex = 0
  /\ segment = 0
  /\ cells = FALSE
  /\ fifo = <<>>
  /\ lastSeg = Segments - 1
  /\ lastTherm = ThermCount - 1
  /\ tickAt = "therm"
  /\ laps = 2
  /\ deferrals = 0
  /\ bmsSince = 1
  /\ calm = "always"

-----------------------------------------------------------------------------
(* The TIM7 branch of HAL_TIM_PeriodElapsedCallback.                       *)

(* A mistake: one interrupt too many per period.                           *)
ElapsedLate(c) == counter[c] >= Period[c]

Elapsed(c) == counter[c] + 1 >= Period[c]

(* A mistake: a flag nobody has polled yet overwritten.                    *)
FlagOverwritten(s) == Elapsed(s)

RaisedFlag(s) == flag[s] \/ Elapsed(s)

(* A mistake: the counter without its ceiling.                             *)
EventsUnbounded == IF Elapsed("1000ms") THEN events + 1 ELSE events

RaisedEvents ==
  IF Elapsed("1000ms") /\ events < EventCountMax THEN events + 1 ELSE events

(* With LoopKeepsPace an interrupt comes only after the loop has returned  *)
(* to the step at which the previous one came.  Start-up is not paced: it  *)
(* blocks in the BQ79616 bring-up and in LED_All_Pulse.                    *)
MayTick ==
  \/ ~LoopKeepsPace
  \/ pc \in Boot
  \/ laps = 2
  \/ laps = 1 /\ Position[pc] >= Position[tickAt]

(* No broadcast is under way: the loop is not between the clearing of the  *)
(* 100 ms flag and the last frame, and all frames offered have left.  A    *)
(* broadcast of three frames is over half a millisecond after it began,    *)
(* so an interrupt finds one under way only when the loop came to its poll *)
(* a whole slot late; and on a bus that sends too slowly or not at all.    *)
BroadcastOver == fifo = <<>> /\ pc \notin {"bms", "general", "extv"}

Tim7Elapsed ==
  /\ MayTick
  /\ BusKeepsPace => fifo = <<>>
  /\ counter' = [c \in Counter |-> IF Elapsed(c) THEN 0 ELSE counter[c] + 1]
  /\ flag' = [s \in Slot |-> RaisedFlag(s)]
  /\ events' = RaisedEvents
  /\ IF LoopKeepsPace /\ pc \in LoopStep
       THEN tickAt' = pc /\ laps' = 0 /\ bmsSince' = 0
       ELSE UNCHANGED <<paceVars, bmsSince>>
  /\ calm' = IF BroadcastOver
               THEN IF calm = "always" THEN "always" ELSE "again"
               ELSE "no"
  /\ UNCHANGED <<pc, loopVars, busVars, deferrals>>

-----------------------------------------------------------------------------
(* Start-up.                                                               *)

(* Timer_ResetCanSchedule but for the flags, which a trigger may follow.   *)
ResetCanSchedule ==
  /\ counter' = [c \in Counter |-> 0]
  /\ events' = 0

(* CAN_SetSchedulingEnabled(true, sendImmediately): the reset clears both  *)
(* flags and Timer_TriggerCanScheduleNow sets both.  An interrupt between  *)
(* the two masked sections leaves what one just after them does.           *)
SetSchedulingEnabled(sendImmediately) ==
  /\ ResetCanSchedule
  /\ flag' = [s \in Slot |-> sendImmediately]

(* Volt_RunBlockingStartup has ended: the schedule is released, and if the *)
(* BQ79616 did not come up both slots are due at once.                     *)
ReleaseSchedule(failed) ==
  /\ pc = "startup"
  /\ SetSchedulingEnabled(failed)
  /\ pc' = "pulse"
  /\ UNCHANGED <<loopVars, busVars, paceVars, histVars>>

(* LED_All_Pulse returns and the loop is entered; the next interrupt may   *)
(* come at once.                                                           *)
EnterLoop ==
  /\ pc = "pulse"
  /\ pc' = "therm"
  /\ UNCHANGED <<timerVars, loopVars, busVars, paceVars, histVars>>

-----------------------------------------------------------------------------
(* One turn of the main loop.                                              *)

Goto(from, to) == pc = from /\ pc' = to

(* A mistake: the claim of an earlier turn remembered.                     *)
SampleThermsOnly ==
  /\ Goto("therm", "check200")
  /\ UNCHANGED <<timerVars, loopVars, busVars, paceVars, histVars>>

(* Therm_ServiceTask, and the start of CAN_SendMessages: the snapshot of   *)
(* ThermCount thermistors is in the cache before the first frame.          *)
SampleTherms ==
  /\ Goto("therm", "check200")
  /\ sentClaim' = FALSE
  /\ UNCHANGED <<timerVars, thermIndex, segment, cells, busVars, paceVars,
                 histVars>>

(* Timer_CheckCan200msFlag and Timer_CheckCan100msFlag: a read ...         *)
ReadFlag(slot, at, clear, skip) ==
  /\ pc = at
  /\ pc' = IF flag[slot] THEN clear ELSE skip
  /\ UNCHANGED <<timerVars, loopVars, busVars, paceVars, histVars>>

(* ... and, if it was set, a store that does not look again.               *)
ClearFlag(slot, at, to) ==
  /\ Goto(at, to)
  /\ flag' = [flag EXCEPT ![slot] = FALSE]
  /\ UNCHANGED <<counter, events, loopVars, busVars, paceVars, histVars>>

(* CAN_Comm_SendExt: the FIFO takes the frame or the frame is dropped.     *)
HasRoom == Len(fifo) < TxFifoDepth

Offer(frame) ==
  /\ fifo' = IF HasRoom THEN Append(fifo, frame) ELSE fifo
  /\ UNCHANGED <<lastSeg, lastTherm>>

SendClaim ==
  /\ Goto("claim", "check100")
  /\ Offer([id |-> "claim", index |-> 0])
  /\ sentClaim' = TRUE
  /\ UNCHANGED <<timerVars, thermIndex, segment, cells, paceVars, histVars>>

SendBms ==
  /\ Goto("bms", "general")
  /\ Offer([id |-> "bms", index |-> 0])
  /\ bmsSince' = IF LoopKeepsPace THEN AtMost(3, bmsSince + 1) ELSE bmsSince
  /\ UNCHANGED <<timerVars, loopVars, paceVars, deferrals, calm>>

SendGeneral ==
  /\ Goto("general", "extv")
  /\ Offer([id |-> "general", index |-> thermIndex])
  /\ UNCHANGED <<timerVars, loopVars, paceVars, histVars>>

(* An event waits and there are voltages to send.                          *)
ExtVoltageReady == events > 0 /\ cells

(* A mistake: the frame sent in the claim's turn too.                      *)
ExtVoltageAnyTurn == ExtVoltageReady

(* The frame is sent only in a turn without a claim.                       *)
MaySendExtVoltage == ~sentClaim /\ ExtVoltageReady

(* A mistake: the frame counted as sent whatever the FIFO did with it.     *)
SendExtVoltageUnchecked ==
  /\ Goto("extv", "consume")
  /\ MaySendExtVoltage
  /\ Offer([id |-> "extv", index |-> segment])
  /\ deferrals' = 0
  /\ UNCHANGED <<timerVars, loopVars, paceVars, bmsSince, calm>>

SendExtVoltage ==
  /\ Goto("extv", "consume")
  /\ MaySendExtVoltage
  /\ HasRoom
  /\ Offer([id |-> "extv", index |-> segment])
  /\ deferrals' = 0
  /\ UNCHANGED <<timerVars, loopVars, paceVars, bmsSince, calm>>

SkipExtVoltage ==
  /\ Goto("extv", "advance")
  /\ ~(MaySendExtVoltage /\ HasRoom)
  /\ deferrals' = IF LoopKeepsPace /\ sentClaim /\ ExtVoltageReady
                    THEN AtMost(3, deferrals + 1) ELSE 0
  /\ UNCHANGED <<timerVars, loopVars, busVars, paceVars, bmsSince, calm>>

(* Mistakes: all events consumed at once; none consumed; the segment left  *)
(* where it is.                                                            *)
ConsumeAll ==
  /\ Goto("consume", "advance")
  /\ events' = 0
  /\ segment' = (segment + 1) % Segments
  /\ UNCHANGED <<counter, flag, sentClaim, thermIndex, cells, busVars,
                 paceVars, histVars>>

ConsumeNone ==
  /\ Goto("consume", "advance")
  /\ segment' = (segment + 1) % Segments
  /\ UNCHANGED <<timerVars, sentClaim, thermIndex, cells, busVars,
                 paceVars, histVars>>

ConsumeSameSegment ==
  /\ Goto("consume", "advance")
  /\ events' = IF events > 0 THEN events - 1 ELSE events
  /\ UNCHANGED <<counter, flag, loopVars, busVars, paceVars, histVars>>

(* Timer_ConsumeCanExternalVoltageEvent, masked, then the next segment.    *)
ConsumeEvent ==
  /\ Goto("consume", "advance")
  /\ events' = IF events > 0 THEN events - 1 ELSE events
  /\ segment' = (segment + 1) % Segments
  /\ UNCHANGED <<counter, flag, sentClaim, thermIndex, cells, busVars,
                 paceVars, histVars>>

(* A mistake: an index past the last thermistor.                           *)
NextThermistorPastEnd ==
  /\ Goto("advance", "volt")
  /\ thermIndex' = (thermIndex + 1) % (ThermCount + 1)
  /\ UNCHANGED <<timerVars, sentClaim, segment, cells, busVars, paceVars,
                 histVars>>

(* The next thermistor, whether or not this one's frame was dropped.       *)
NextThermistor ==
  /\ Goto("advance", "volt")
  /\ thermIndex' = (thermIndex + 1) % ThermCount
  /\ UNCHANGED <<timerVars, sentClaim, segment, cells, busVars, paceVars,
                 histVars>>

(* Volt_ServiceTask: a cell snapshot that succeeds makes voltages          *)
(* available, and nothing withdraws them.  The turn ends.                  *)
ServiceVolt ==
  /\ Goto("volt", "therm")
  /\ cells' \in {cells, TRUE}
  /\ laps' = IF LoopKeepsPace THEN AtMost(2, laps + 1) ELSE laps
  /\ UNCHANGED <<timerVars, sentClaim, thermIndex, segment, busVars, tickAt,
                 histVars>>

-----------------------------------------------------------------------------
(* The peripheral sends the oldest frame (FIFO operation, automatic        *)
(* retransmission until acknowledged).                                     *)
BusTransmit ==
  /\ fifo # <<>>
  /\ fifo' = Tail(fifo)
  /\ lastSeg' = IF Head(fifo).id = "extv" THEN Head(fifo).index ELSE lastSeg
  /\ lastTherm' = IF Head(fifo).id = "general" THEN Head(fifo).index
                                               ELSE lastTherm
  /\ UNCHANGED <<timerVars, pc, loopVars, paceVars, histVars>>

-----------------------------------------------------------------------------
MainLoop ==
  \/ EnterLoop
  \/ SampleTherms
  \/ ReadFlag("200ms", "check200", "clear200", "check100")
  \/ ClearFlag("200ms", "clear200", "claim")
  \/ SendClaim
  \/ ReadFlag("100ms", "check100", "clear100", "volt")
  \/ ClearFlag("100ms", "clear100", "bms")
  \/ SendBms
  \/ SendGeneral
  \/ SendExtVoltage
  \/ SkipExtVoltage
  \/ ConsumeEvent
  \/ NextThermistor
  \/ ServiceVolt

Startup == \E failed \in BOOLEAN : ReleaseSchedule(failed)

Next == Tim7Elapsed \/ Startup \/ MainLoop \/ BusTransmit

Spec == Init /\ [][Next]_vars

(* The timer never stops, the bring-up ends, the loop has no blocking      *)
(* step.  Only a bus that keeps pace is obliged to drain the FIFO.         *)
FairSpec ==
  /\ Spec
  /\ WF_vars(Tim7Elapsed)
  /\ WF_vars(Startup)
  /\ WF_vars(MainLoop)
  /\ WF_vars(BusKeepsPace /\ BusTransmit)

-----------------------------------------------------------------------------
TypeOK ==
  /\ counter \in [Counter -> Nat]
  /\ flag \in [Slot -> BOOLEAN]
  /\ events \in 0..EventCountMax
  /\ pc \in Boot \union LoopStep
  /\ sentClaim \in BOOLEAN
  /\ thermIndex \in 0..ThermCount - 1
  /\ segment \in 0..Segments - 1
  /\ cells \in BOOLEAN
  /\ fifo \in Seq(Frame)
  /\ lastSeg \in Nat
  /\ lastTherm \in Nat
  /\ tickAt \in LoopStep
  /\ laps \in 0..2
  /\ deferrals \in 0..3
  /\ bmsSince \in 0..3
  /\ calm \in {"always", "again", "no"}

-----------------------------------------------------------------------------
(* Safety.                                                                 *)

(* From an interrupt that found no broadcast under way to the next one, a  *)
(* FIFO of three has room for every frame but one: the late claim.  An     *)
(* interrupt between the two polls of a turn leaves its claim to the next  *)
(* turn, which may follow at once, while summary, general broadcast and    *)
(* external-voltage frame of this one (three, because the last stands back *)
(* in a turn with a claim) still wait; the slot's broadcast is never what  *)
(* suffers.                                                                *)
OnlyLateClaimRefused ==
  /\ calm # "no" /\ ~HasRoom
  /\ \/ pc \in {"claim", "bms", "general"}
     \/ pc = "extv" /\ MaySendExtVoltage
  => pc = "claim" /\ ~flag["100ms"]

(* Whatever is dropped and however the loop stalls, the bus carries the    *)
(* segments of the cell stack in rotation, none skipped and none repeated: *)
(* event and segment advance only when the FIFO has taken the frame.       *)
SegmentsInOrder ==
  [][fifo # <<>> /\ fifo' = Tail(fifo) /\ Head(fifo).id = "extv"
       => Head(fifo).index = (lastSeg + 1) % Segments]_vars

(* As long as every interrupt has found the broadcast before it over, the  *)
(* general broadcasts name the thermistors in rotation.  (The index        *)
(* advances even when the frame is refused, so otherwise one may be        *)
(* missed.)                                                                *)
ThermistorsInOrder ==
  [][calm = "always" /\ fifo # <<>> /\ fifo' = Tail(fifo) /\ Head(fifo).id = "general"
       => Head(fifo).index = (lastTherm + 1) % ThermCount]_vars

(* "Allow at most one 100 ms deferral when a claim frame shares this slot" *)
(* (can_messages.c, at the external-voltage branch).                       *)
AtMostOneClaimDeferral == deferrals <= 1

(* What a loop that keeps pace does guarantee: a ready event never loses   *)
(* more than two 100 ms slots in a row to claims.  Two, because an         *)
(* interrupt between the poll of the 200 ms flag and that of the 100 ms    *)
(* flag leaves its claim to the next turn, where the next interrupt's      *)
(* 100 ms slot can meet it.                                                *)
AtMostTwoClaimDeferrals == deferrals <= 2

(* A loop that keeps pace broadcasts the summary once per 100 ms slot: no  *)
(* slot is coalesced with the next or lost between the read of a flag and  *)
(* its clearing.  Two broadcasts fall between two interrupts only when the *)
(* first is late.                                                          *)
BmsEverySlot ==
  [][LoopKeepsPace /\ Tim7Elapsed /\ pc \in LoopStep => bmsSince \in 1..2]_vars

(* The shared work of interrupt and loop implements the mailbox.  Between  *)
(* the FIFO's acceptance and the masked decrement the debt is already      *)
(* paid.                                                                   *)
Mailbox == INSTANCE ExtVoltageMailbox WITH
  Capacity <- EventCountMax,
  released <- pc # "startup",
  owed     <- IF pc = "consume" THEN events - 1 ELSE events,
  next     <- IF pc = "consume" THEN (segment + 1) % Segments ELSE segment

ImplementsMailbox == Mailbox!Spec

-----------------------------------------------------------------------------
(* Liveness.                                                               *)

(* However the loop stalls, the claim and the summary are tried again and  *)
(* again: a flag may be coalesced but is never left clear for good.        *)
ClaimAndBmsKeepComing == []<>(pc = "claim") /\ []<>(pc = "bms")

(* With a loop that keeps pace, once the interrupts no longer meet a       *)
(* broadcast, every segment of the cell stack is sent again and again if   *)
(* voltages are available.                                                 *)
EverySegmentBroadcast ==
  <>[](calm # "no") => \A s \in 0..Segments - 1 : cells ~> lastSeg = s

(* ... and the events that piled up while no voltages were available, or   *)
(* no room for their frames, are worked off.                               *)
BacklogDrains == <>[](calm # "no") => <>[](~cells \/ events <= 1)
=============================================================================
