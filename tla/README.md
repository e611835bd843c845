# Orion BMS firmware: TLA+ models, checks and proofs

The firmware of a battery module board (STM32G474, one `main` loop, timer
interrupts, no operating system).  It measures up to ten thermistors and, over
a UART, a BQ79616 cell monitor, and reports both on a CAN bus.  This directory
holds TLA+ models of it, the TLC runs that check them and the TLAPS proofs.
File names below are those of `src/src` and `src/include`.

Contents: 1 the system, 2 models, 3 runs, 4 fairness, 5 proofs, 6 assumptions
about hardware, 7 disagreements found, 8 what is not modelled, 9 history and
further work.

## 1. The system

`main` starts everything (`System_AppInit`, which blocks in the bring-up of the
cell monitor and then releases the CAN schedule), blinks the LEDs for a second,
and turns for ever: `Therm_ServiceTask`, `CAN_ServiceTask`, `Volt_ServiceTask`.
Nothing in the loop is preempted but by the timer interrupts, and the only state
an interrupt shares with the loop is in `timer.c`.

| Component | State | Operations | Hard behaviour | Correct means |
|---|---|---|---|---|
| CAN schedule: `timer.c` (TIM7), `CAN_SendMessages`, `CAN_Comm_SendExt`, `init.c` | three interrupt counters, two flags, a saturating event counter; thermistor and segment index; transmit FIFO | interrupt; poll of a flag (read, then clear, unmasked); masked consume, reset and trigger; four kinds of send | interrupt between any two steps of the loop; loop stalled for seconds; bus without acknowledge; full FIFO | nothing refused but a claim that comes late; no slot lost; segments in rotation whatever is dropped; debts of external-voltage frames bounded and paid |
| Cell monitor service: `volt.c`, `bq79616_service_task` | two status words, four time stamps, two failure counters, poll phase | blocking start-up; keep-alive, fault poll, fault snapshot, cell snapshot | early returns on failure, glitches, a monitor that dies, two copies of one status | disabled exactly for three failures of one kind in a row; dead monitor noticed in bounded time and reported; no job starved |
| Cell monitor link: `bq7961x_single_read` | one-byte UART receiver, overrun flag, receive buffer | request, first byte, rest, checks | lost, short, damaged and late answers; noise; nothing flushes the receiver | never another register's data; a failed read leaves nothing behind |
| Cell monitor bring-up: `bq79616_try_init` | step of a long script; the monitor's address, configuration, checksum and faults | writes nobody acknowledges, reads that time out, wake tones | any access fails; order of configuration, checksum and clearing | ends always; READY means in service unless something was lost |
| Cell voltages: `bq79616_read_all_cells_with_timeout_`, `CAN_EncodeExternalADCVoltage` | voltages, segment | snapshot, send of a segment | registers arrive in reverse, frames are seconds apart | every cell in its own slot |
| Thermistors: `therm.c`, `thermistor_table.c`, `ConvertAllThermistors`, encoders | readings, cache, index | sample, convert, encode, send | broken and hot sensors, signed bytes, no valid sensor | frames say what the sensors say and agree |
| Dual-module emulation: second half of `CAN_SendMessages`, `CAN_BuildModuleCacheFromAdc` | claim and module rotation, an index per module | as above, per module | second copy of the fold, second numbering | a receiver learns the same |
| Developer overrides: `can_debugging.c` | debug mode, forced faults, forced temperatures | compiled in | they change what is valid | folded in as the code says |
| Main loop: `main.c`, `init.c` | one thread, one clock; what waits in the FIFO and what a receiver has been told | bring-up, then the three tasks for ever | each task's pace depends on the others; frames of one turn are built from state that the next task changes | each component is what its own model says; a receiver is warned before it is misled |
| CAN bit timing: `CAN_FindTiming`, `CAN_Comm_Init_kbps` | none | search, fallback | rounding | legal fields, exact or nearest rate |
| TIM6 log cycle, TIM5 wake flag, console, other LEDs, clocks, pins, vectors | | | | not modelled (section 8) |

How they interact.  TIM7 raises flags and events that `CAN_SendMessages` polls.
The thermistor task fills the cache that the summary (BMS broadcast) and the
general broadcast encode.  The volt task publishes the cell voltages, whose
presence enables the external-voltage frames, and its FAILED state is the
module-fault bit of the summary; as the voltages are never withdrawn, that bit is
all that tells a receiver they are frozen.  The bring-up must end before the
schedule is released.  Every blocking step of monitor or console is a stall of the loop, and
hence of the CAN schedule.

## 2. Models

| Module | Code | Remarks |
|---|---|---|
| `ExtVoltageMailbox` | (abstract) | What the external-voltage broadcast promises: each second owes a frame, debts are bounded, frames are paid against debts in rotation, debts of the start-up are forgotten once. |
| `CanSchedule` | `timer.c` 200-299, `can_messages.c` 795-871, `can.c` 168-176 and 249-303, `init.c`, `main.c` | One action per step of the loop that touches shared state, so the interrupt `Tim7Elapsed` falls between any two. A poll is `ReadFlag` and `ClearFlag`; the masked sections are single steps. Implements the mailbox (`ImplementsMailbox`). |
| `BqService` | `volt.c`, `bq79616.c` 661-842, `CAN_ModuleFaultActive` | The clock is read once per call, as in the code. `age` is the difference `now - last`. Each job is an action per outcome. |
| `BqLink` | `bq79616.c` 65-147, 407-477 | Bytes are told apart by place, origin and damage. The host consumes them one by one; each `GlitchKinds` is something that happens on the line. |
| `BqStartup` | `bq79616.c` 312-329, 503-523, 844-970, 1025-1209, `volt.c` 23-46 | The script of transactions is data (`Transaction`): what is sent, where the code goes on success and on failure. Ten actions interpret it against a small model of the monitor. |
| `Firmware` | `main.c`, `init.c`, `can.c` 184-194, `volt.c` 69-86 | `CanSchedule` and `BqService` as instances, over one thread, one SysTick clock and the TIM7 interrupt that comes with it. A step is a step of the component whose code runs, and of both at the boundary of two tasks: `SendBms` of the one is `BmsBroadcast` of the other, an end of the service's turn is `ServiceVolt`. Adds what a receiver has been told and `VOLT_LED`. Implements both components, fairness included. |
| `CellVoltages` | `bq79616.c` 1217-1247, `can_messages.c` 203-224, 284-309, 641-654 | Decoding, calibration and encoding, with a receiver that keeps a table. |
| `ThermistorTable` | `thermistor_table.c` | Table and binary search. |
| `ThermistorReport` | `can_messages.c` 71-105, 226-282, 425-540, `therm.c` | The fold and the bytes of the frames. |
| `DualReport` | `can_messages.c` 311-418, 678-787 | Puts the actions of `ThermistorReport` together with those of the emulation. |
| `CanTiming` | `can.c` 62-90, 203-244 | Pure functions. |
| `InputSweep` | - | Drives the two pure computations through all inputs. |
| `CanScheduleProofs`, `BqServiceProofs`, `FirmwareProofs`, `BqLinkProofs`, `BqStartupProofs`, `CellVoltagesProofs`, `ReportProofs`, `SweepProofs` | - | Theorems (section 5). |
| `MC*` | - | Constants for TLC. |

Operators introduced by a comment "A mistake: ..." are wrong variants of the
definition that follows.  Nothing uses them; substituting one for its neighbour
must make the property named in `PROJECT.json` fail, which shows that the
property depends on that line of the code.

Names follow the source where they can.  Variables marked "history" exist for
properties only and no guard reads them, with one exception: `hits < MaxGlitches`
bounds what the line of `BqLink` may do.  Counters that would grow without bound are
capped where a larger value would tell nothing more (`missed` at the threshold,
`deferrals` and `bmsSince` at 3, `fresh` at the number of frames); `deferrals` is
kept only while `LoopKeepsPace`.  `tickAt` and `laps` of `CanSchedule` describe the
pace of the interrupt against the loop; with `LoopKeepsPace = FALSE` they are never
looked at.  `calm` records whether each interrupt found the broadcast before it over
(`BroadcastOver`): all frames have left, and the loop is not between the 100 ms poll
and the last frame.  `"always"`: every interrupt did; `"again"`: the last one did;
`"no"`: it did not.  Properties that need an undisturbed slot say so by `calm`, and
hold of any bus.  `marks` of `Firmware` is no variable of the code but the bytes of
the frames in the FIFO, as far as they tell of the monitor, and `told` is the
receiver.

## 3. Runs

Passing runs:

* **`sched_paced`**: `CanSchedule` with a loop that turns at least once per
  interrupt and a bus that has sent the frames of a slot by the interrupt that ends
  it.  Turns need not wait for the bus: any number of them may pass while frames of
  a slot are queued, and an interrupt may come anywhere in a turn.  The periods 1, 2
  and 10 are those of `timer.h`, the FIFO has its three elements, four segments;
  three thermistors for ten and a ceiling of three events for 255, which the backlog
  of the start-up reaches.  Shows: since an interrupt that found no broadcast under
  way nothing is refused but a claim that comes after its slot's broadcast
  (`OnlyLateClaimRefused`; the refusal does occur: the late claim at once after
  three frames), no slot coalesced (`BmsEverySlot`), a ready event loses at most two
  slots in a row to claims, thermistors are named in turn, every segment comes
  round, backlogs drain.  An interrupt in the midst of a broadcast is part of the
  run; what it can spoil is in section 6.  The invariants were also checked of a
  loop that keeps pace and a bus that does not, with the second of four interrupts,
  one and two segments and events and one to three thermistors.
* **`sched_stalled`**: the same machine with no assumption on pace or bus; the
  second is four interrupts, still a multiple of the claim period, so that events
  fall into claim slots; a FIFO of two is full more often than one of three.
  Shows: the mailbox is implemented, segments leave in rotation although frames
  are refused, claim and summary are tried for ever.
* **`bq_service`**: the four jobs with intervals 1, 2, 3, 4 and turns of up to
  two ticks, so that turns are longer than the shortest interval and every
  alignment of due jobs occurs; all jobs are due at the first call, as in the
  code; the threshold is three; two poll registers for four, since nothing
  depends on which one it is.  A failed access, the death of the monitor and a
  broadcast may come in any turn.
* **`firmware`**: both components in one loop.  Every job of the service is due in a
  call that comes a tick after the last and not in one that comes sooner; a turn
  takes at most a tick, and every tick brings a TIM7 interrupt, which falls before,
  between or after the polls; two failures disable the monitor; one thermistor, one
  segment and one event, whose rotation the schedule's own runs check.  The
  properties relate the two: each component is implemented with the fairness its
  own module assumes, few summaries call a dead monitor healthy, no frozen
  voltages precede the warning, and bus and panel learn of the death for good.
  `FewSummariesMiss` was also checked with two to seven ticks to an interrupt and
  turns of up to two; its bound is reached with three and with seven.
* **`link`**: three requests (a polled fault register, another of the same size, a
  longer one) and up to three disturbances of any kind between two good polls;
  threshold three.  A read may come while the answer of the one before, up to a
  whole frame, is still on its way; only the answer of an earlier poll has arrived
  when the next is sent.  `NoForeignAnswer` holds of everything; `CleanReadSucceeds`
  and `OwnAnswer` hold until a byte has gone astray (a late answer, a damaged first
  byte, noise), after which the code really can fail reads whose answers are fine
  (section 7) or deliver a late answer to an earlier read of the same register.
* **`startup`**: the whole script, with eight dummy registers and ten detail
  reads as in the code; any write or answer may be lost and any frame unsent.
* **`report`**: three channels and, for the emulation, modules of two channels
  and of one (uneven, the case the second numbering has to get right); readings
  at the boundaries (failed conversion, 66 degrees, open circuit at its
  threshold), one override below zero, every combination of forced faults,
  overrides and modes.  Three channels suffice for a minimum, a maximum and one
  in between to be in any order; a channel is folded independently of the others.
* **`cells`**: registers that all differ, all zero and all full scale, changing
  between any two frames; counts of cells, frames and segments are the code's.
* **`sweep`**: all 4096 readings and all rates from 1 to 1000 kbit/s, so nothing is
  left to a bound.

Runs that are expected to fail, one property each, are explained in section 7:
`sched_one_deferral`, `link_tolerates`, `sweep_coldest`.

Deadlock is checked except where the model really may stop: `link` (the monitor
is disabled), `startup` (the bring-up is over), `sweep` (no further reading).

## 4. Fairness

* `CanSchedule`: weak fairness of the interrupt (the timer is never stopped), of
  the start-up (`BqStartup` shows that it ends) and of the loop (no step waits for
  anything without a time-out but the console, which has no flow control and
  always drains).  `BusTransmit` is fair only when `BusKeepsPace`, which also says that
  the FIFO is empty when an interrupt comes: the four frames a slot can have take
  less than 0.6 ms at 1 Mbit/s, and a slot is 100 ms.  It says nothing of single
  turns, of which many fit into a slot, and several into the time of three frames.  A
  bus without acknowledge is obliged to nothing.
* `EverySegmentBroadcast`, `BacklogDrains` and `DeathIsSeen` are stated of behaviours
  in which, from some point on, interrupts find the broadcast before them over.  A
  broadcast begins at the poll after an interrupt and takes half a millisecond; to
  meet one, an interrupt must come when the loop has reached its poll a whole slot
  late.  The code does not exclude that this happens every time (turns of just one
  period), and then the FIFO could refuse the same kind of frame every time.
* `LoopKeepsPace = FALSE` is not far-fetched: `Docs/CAN_TIMING_ISSUE_AND_FIX.md`
  reports turns of two seconds.
* `Firmware`: weak fairness of the clock (and of the interrupt with it), of the
  bring-up, of the loop and, if the bus keeps pace, of the FIFO.  That a turn takes at
  most `MaxTurn` ticks is a condition on the clock: every access of the service has
  a time-out, and the console drains.  Nothing is assumed of the broadcast slots.
* `BqService`: weak fairness of the loop; strong fairness of a call of the service
  that sees the millisecond clock advanced, and of the turn with a summary.  Both
  are checked, not trusted: `ImplementsService` says that the loop of `Firmware`
  provides them.
* `BqStartup`: weak fairness of the host; every HAL call there has a time-out.

## 5. Proofs

All proofs are for arbitrary values of the constants, subject to the named
assumptions of the modules (`ScheduleAssumption`, `BqAssumption`,
`FirmwareAssumption`, `LinkAssumption`, `StartupAssumption`, `ReportAssumption`,
`DualAssumption`, `MeasurementsAssumption`), which only say that periods, capacities
and thresholds are natural numbers, positive where the code has them so, that
registers are 16-bit words, readings 12-bit and overrides signed bytes, that there
are at most ten channels, that the modules share out all of them and none is empty,
and that the monitor's address is neither 0, which auto-addressing assigns, nor the
broadcast.  What a theorem assumes beyond that stands in its ASSUME.

`CanScheduleProofs`:

* `TypeCorrect`: `Spec => []TypeOK`.  Contains the ceiling of the event counter
  and the ranges of both round-robin indices.  By actions.
* `OnlyLateClaimsRefused`: with `TxFifoDepth >= 3`, `Spec => []OnlyLateClaimRefused`,
  for any pace of loop and bus.  The property alone is not inductive: whether there is
  room for the third frame depends on how many went before.  `OfferedSoFar` counts the
  frames that can be in the FIFO at each step since an interrupt that found no
  broadcast under way: none while the slot is due, but for this turn's claim between
  the polls; then the claim at most, then one and two more.  Once the slot is served,
  no other falls due before the next interrupt, so nothing but a claim is offered to a
  FIFO that may be full.
* `MailboxRefined`: `Spec => ImplementsMailbox`, for any pace, any stall, any
  congestion.  The refinement mapping pays a debt when the FIFO takes the frame,
  not when the counter is decremented; `EventToConsume` (at `consume` there is an
  event) keeps `events - 1` a natural number in between.  An interrupt between
  acceptance and decrement maps to `Owe`, or to a stutter at the ceiling.
* `SegmentsRotateOnBus`, `ThermistorsRotateOnBus`: the frames of a kind in the FIFO
  are a chain of successors that starts at the last one sent and ends at the
  index the code will offer next.  For the segments this needs nothing, because
  the index moves only with an accepted frame; for the thermistors it needs the
  FIFO of three, and that every interrupt so far found the broadcast before it over
  (`OfferedSoFar` then says that the general broadcast had room).

and there too, for a loop that keeps pace and the periods of `timer.h`:

* `SummaryEverySlot`: `Spec => BmsEverySlot`.  `Owed` adds up the summaries of the
  last interrupt that are sent, under way or due: one, or two if the interrupt came
  while the one before was under way.  `Served` says by when the flag is clear,
  depending on the step the interrupt came at; together they leave no room for a
  summary still due when the next interrupt comes.
* `DeferralsBounded`: `Spec => []AtMostTwoClaimDeferrals`.  Claims and slots are
  booked against each other: an interrupt brings half a claim and a slot, a
  deferral uses up a whole claim and a slot, so `deferrals + ClaimHalves` never
  outgrows `2 + Slots`.  That there are voltages only after the first turn, in
  which the slots of the start-up are worked off, is part of the argument.

`BqServiceProofs`:

* `TypeCorrect`: `Spec => []TypeOK`.
* `StatusesAgree`, `DisablingJustified`, `FailureFinal`: the invariants
  `Lifecycle` (which status words go with which place in the program, and that
  the fault bit was never sent without cause) and `CountersTrue` (unless FAILED,
  each counter of the code equals the true run of failures and is below the
  threshold) are needed for all three: without them a monitor with two status
  words that disagree, or a counter already at the threshold, is not excluded.
  That no counter sits there is part of `StatusAgrees`.
* `JobsPunctual`: each call that returns early raises a counter, and a counter is
  only reset by an access of its own kind.  `OnTime` bounds the age of a job by
  its interval and the number of turns that the failures still possible can cost.
* `DeathDetected`: once the device is dead no fault poll succeeds.  `Noticing` bounds
  `deadFor` by the polls failed so far, each at most one `PollGap` after the last,
  and the age of the poll under way.

`FirmwareProofs`:

* `ScheduleRefined`, `ServiceRefined`: a step of the firmware is a step of each
  component or leaves it alone (for the service, because `ClockOK` bounds the time
  it is told of).  Hence the theorems about a component hold in the firmware;
  `MailboxInFirmware`, `SegmentsInFirmware`, `StatusesAgreeInFirmware` and
  `DeathDetectedInFirmware` carry over those that a receiver relies on.
* `FrozenFlagged`: with `TxFifoDepth >= 2`, `Spec => FrozenVoltagesFlagged`, for any
  bus; the property speaks of slots that began with no broadcast under way.
  `Marked`: along the FIFO and onto the bus the verdicts only ever change from
  healthy to fault.  `Flagged`: before every voltage frame built after the failure
  there is a summary that says so, in the FIFO or already sent; in the turn itself,
  because `RoomForSummary` gives the summary its place ahead of the voltages.
* `FewMiss`: `Spec => []FewSummariesMiss`, for any bus and any pace.  From the death
  on, the summaries built and pending take up no more slots than the ticks that
  have passed, but for two (`Fits`); the ticks are bounded by `DeathDetected`.  Two
  summaries can be pending at the death; `Turned` shows that the second fell due
  after the service was last called, so that its ticks are counted.

`BqLinkProofs`:

* `TypeCorrect`: `Spec => []TypeOK`.
* `NoForeign`: `Spec => []NoForeignAnswer`, whatever the line does.  `Received`: what
  has come in of the answer being read starts with a byte that announced the size asked
  for, and is never longer than that answer; the check of CRC and register does the rest.
* `CleanReads`, `OwnAnswers`: both follow from one invariant, `Clean`: while nothing
  has gone astray, no byte of another answer is about (`Tidy`), and what has come in,
  what is in the receiver and what is still to come are, in this order, the answer
  to the request under way (`Truthful`).

`CellVoltagesProofs`: `PictureRight`, `Spec => []PictureSettles`.  `Kept`: the voltages
on board are those of the registers measured.  `Shown`: since they changed, the
frames of the last `fresh` segments have been heard, in rotation and in place.

`BqStartupProofs`, for any address and any number of dummy registers:

* `TypeCorrect`: `Spec => []TypeOK`: the script never leads to a step it does not
  have, and no command leaves the monitor in a state it cannot be in.
* `FailedUnsent`: `Spec => []FailedOnlyIfUnsent`.  The script reaches `FAILED` only by
  a frame the UART did not take (`Ended`).
* `LossTolerated`: `Spec => []OneLostAnswerTolerated`.  The property speaks of the
  end only.  `Known` says, for each step of the script, what is then true of a
  monitor that woke, was told everything and lost at most one answer: from when its
  address is set, which registers are configured, that its checksum is stale until
  it is renewed, and which faults are still latched.  That the
  retry of the fault summary is reached only after a lost answer, so that its own
  answer comes, is part of it.

`ReportProofs`, for any number of channels, any readings, overrides and forced
faults, both modes and any split of the channels over modules:

* `ReportTypeCorrect`: `DualSpec => []DualTypeOK`: every byte of every frame is one.
* `SummaryTrue`, `HotShown`, `FramesConsistent`, `ModulesTruthful`: the code has two
  copies of the fold over the channels, one of them with an offset.  Both are the
  function `Gathered`, and `FoldTotals` says by induction over the channels what it
  gathers: the healthy ones, their number, their sum, their minimum and maximum.
  `Tells` is what a cache then says of its channels; that each cache tells is the
  invariant (`ReportInv`), and `BmsSays` and `GeneralSays` derive the bytes from it.
* `SummariesConsistent`: the counts of the modules add up to that of the single
  module, by induction over the modules; minimum and maximum are found in one.
* `NothingStale`: `DualSpec => []NoneGoesStale`.  The bound on an age is inductive
  only together with the turns since its channel's own: `Punctual` says, of every
  channel, that its age is at most what index and turn of its module account for.

`SweepProofs`.  The run goes through all inputs; the proofs say why it must pass:

* `ConversionBracketed`: `Spec => []WithinBracket`.  Each turn of the search keeps
  the reading in the bracket and halves it (`Halves`), so that seven turns leave two
  neighbouring entries; the table rises, so there is only one such pair.  The mean of
  its two temperatures, a degree apart, is cut off to the one nearer to zero (`Mean`).
* `ConversionMonotone`: `Spec => MonotoneInSmallSteps`.  A reading one higher lies in the
  same pair of entries or the next.
* `TimingLegalAlways`: `Spec => []FieldsLegal`, from the number of quanta alone.
* `RateNearest`: `Spec => []NearestRate`.  `HitsExactly`: the search's two conditions
  are one product; `Nearest` and `Cut`: a rounded quotient gives the nearest multiple,
  and where it leaves the range of the prescaler, the nearer end does.

Induction.  The library's theorems of induction take an operator as a parameter,
which the provers cannot instantiate.  `NatInduct` states induction for a set of
natural numbers instead and follows from the well-foundedness of `<`.  That a
recursive function exists at all (its definition is a CHOOSE) is proved by the same
means (`FoldExists`, `SearchExists`), or by writing down its eight values.

Only model-checked:

* liveness under fairness (`EverySegmentBroadcast`, `BacklogDrains`,
  `ClaimAndBmsKeepComing`, `DeathIsSeen`, `BringUpEnds`) and the fairness parts of
  `ImplementsService` and `ImplementsSchedule`: out of the prover's reach.  Every other
  property of a passing run is a theorem.

## 6. Assumptions about hardware

* The CRC of 16 bits rejects everything but one undamaged answer, whole and in
  order (`CrcHolds`).
* A UART byte takes longer than one poll of `HAL_UART_Receive`, so a waiting host
  never overruns.  The UART's FIFO is not enabled in `uart.c`; the receiver holds
  one byte.  The HAL is not in the repository: whether `HAL_UART_Receive` gives up
  on an overrun is the constant `OverrunReported`.  The runs set it to TRUE; with
  FALSE the same properties hold and the same one fails.
* Fault polls are 200 ms apart, so the answer of one has arrived before the next is
  sent, late or not; answers of other reads may still be on their way (`MayFollow`).
* No more than a frame's bytes are on their way when a request is sent.
* Loop and bus are quick: an interrupt that comes between the 100 ms poll of a turn
  and the departure of its frames is rare (`calm`).  After one, until an interrupt
  again finds no broadcast under way, summary, general broadcast or voltages may be
  refused, a thermistor may be left out, and frozen voltages may go out before the
  warning.  The properties that do not speak of `calm` hold throughout.
* The monitor starts in SHUTDOWN, as after a power cycle; wake tones reset it to
  `DEVICE_ADDR`; `FAULT_RST1` clears faults of power, `FAULT_RST2` those of
  communication and checksum; its own check of the customer registers passes
  within the delays of the bring-up.
* The FDCAN sends its FIFO in order and repeats a frame until acknowledged.
* ADC conversions that fail read 0.

## 7. Disagreements between code and comments

* `sched_one_deferral`: a comment allows one deferral of an external-voltage event
  by a claim; an interrupt between the two polls of a turn makes it two, even on
  time and on a bus that sends every slot's frames in time.  Two is what holds (`AtMostTwoClaimDeferrals`).
* `link_tolerates`: one damaged first byte disables the monitor for good.  The read
  returns at once, the rest of the answer arrives afterwards, the receiver keeps
  one byte of it, and from then on each read starts with a byte of the previous
  answer and leaves its own behind.  Glitches were meant to be tolerated.
* `sweep_coldest`: the size of the table leaves its last entry out.

Also seen while modelling, without a run: a comment says to set `bq_shutdown_status`
to 1 to force the monitor into shutdown (`main.c` 25), where 1 is `BQ_TURN_ON` and
0, the value it ships with, is what shuts it down (`bq79616.h` 35, `volt.c` 70); the
claim that an interrupt between the two polls leaves to the next turn comes at once
after up to three frames and may find the FIFO full, and be dropped, on a bus in good order, where the
log says "CAN TX congested/no-ack" (`can_messages.c` 140); after an interrupt in the
midst of a broadcast, or on a congested bus, the FIFO may refuse the summary of a
turn and have room again for the voltages of the same turn, so that frozen voltages
go out unannounced (`FrozenVoltagesFlagged` speaks of `calm`); a cell snapshot that
fails is not counted (`bq79616.c` 816), so that as long as the fault polls succeed
the bus may carry old voltages for ever without a fault; with the intervals of the
code a dead monitor counts as alive for up to 3 * (200 - 1 + 3 * T) ms, where T is
the longest turn; the header of the table and `Docs/DATA_HANDLING.md` promise linear
interpolation where the code takes the mean of the two entries, cut off toward zero,
so that even a reading of the table is not reported as its temperature above zero
(90 is the 84 degrees of the table and yields 83); the comment at the retry of the
fault summary says "a couple of times" where there is one; temperature overrides are
loaded at initialisation and debug mode, without which they do not count, is
switched off in the same place; a monitor that sleeps costs eight time-outs of a
second before the first CAN frame; and if the monitor is awake when bring-up begins,
its answers to the throw-away reads are written into an array that is too small
(`ReadReg`), which is why a warm start is not modelled.

## 8. Not modelled

* The TIM6 log cycle, the TIM5 wake flag and everything that only decides what is
  logged: `log_fault_registers`, change-of-state logs, throttled streams, the debug
  snapshot of `can_debugging.c`.  Nothing the models keep depends on them but the
  length of a turn, which they leave open.
* Console output but for its effect, a stall of the loop.
* LEDs other than `VOLT_LED`, clocks, pins, vectors, `Error_Handler`: register writes
  without protocol, and a handler that stops the program.
* `bq79616_shutdown`, `bq79616_read_cell_voltage` and `log_fault_registers` are
  never called; nor are the unused flag checks of `timer.c`.
* A start with the monitor already awake: the throw-away reads are then answered
  into an array that is too small, which is undefined behaviour, so there is no
  set of outcomes to choose from.
* The J1939 identifiers and the constant claim payload.
* Vendored code (`src/TI_Ref_Code`: a sample for another microcontroller, generated
  drivers), CMake probes, prebuilt libraries, log files and host scripts.  They are
  most of the repository's C lines and no part of the firmware; of the firmware's
  own 4,400 lines the models stand for about four tenths, and most of the rest is
  logging, tables of names and register set-up.

## 9. History and further work

Order in which the models were written: the schedule and its mailbox (the core of
the program and its only real concurrency), the service, the thermistor chain,
the link, the bring-up, voltages and timing; then `Firmware`, which puts schedule
and service together and turns what each assumed of the other into a checked
property; then the proofs of the bounds in time, of the link and of the voltages, and last
those of the bring-up, of the thermistor chain and of the two pure computations.

What remains worth doing: an abstract link (each request ends in its own answer or
in a failure) that `BqLink` implements until a byte goes astray, and from which
`BqService` and `BqStartup` draw their outcomes; the thermistor chain in the loop of
`Firmware`, so that summary and general broadcast are checked against a sampling
that may lie turns back; and, if the firmware comes to read the log flags for more
than logging, the TIM6 cycle as a third flag protocol.
