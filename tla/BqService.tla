----------------------------- MODULE BqService -----------------------------
(***************************************************************************)
(* The life of the BQ79616 cell monitor as the firmware sees it: the       *)
(* blocking bring-up, the periodic service (keep-alive writes, one fault   *)
(* register per poll, fault and cell snapshots), the failure counters, and *)
(* the one-way fall into FAILED, which the CAN task reports as a module    *)
(* fault (volt.c, bq79616_service_task in bq79616.c, CAN_ModuleFaultActive *)
(* in can_messages.c).                                                     *)
(*                                                                         *)
(* Time is counted in ticks of an arbitrary length; a turn of the main     *)
(* loop takes at most MaxTurn of them.  The service reads the clock once   *)
(* per call and every job compares with that reading.                      *)
(***************************************************************************)
EXTENDS Naturals

Job == {"keepAlive", "faultPoll", "faultSnapshot", "cellSnapshot"}

CONSTANTS
  Interval,            \* BQ_KEEP_ALIVE_INTERVAL_MS, BQ_FAULT_POLL_INTERVAL_MS, ...
  FailureThreshold,    \* BQ_COMM_FAILURE_THRESHOLD
  PhaseCount,          \* BQ_FAULT_POLL_PHASE_COUNT
  BootTime,            \* HAL_GetTick at the first call of the service
  MaxTurn              \* longest turn of the main loop

ASSUME BqAssumption ==
  /\ Interval \in [Job -> Nat \ {0}]
  /\ FailureThreshold \in Nat \ {0}
  /\ PhaseCount \in Nat \ {0}
  /\ BootTime \in Nat
  /\ MaxTurn \in Nat \ {0}

VARIABLES
  shutdown,      \* bq_shutdown_status: 0 is BQ_TURN_OFF, 1 is BQ_TURN_ON
  voltStatus,    \* volt_status
  bqState,       \* s_bq_state
  pc,            \* where the single thread of the main loop is
  age,           \* now - last_keep_alive, now - fault_check_tick, ...
  failures,      \* consecutive_keepalive_failures, consecutive_fault_failures
  phase,         \* fault_poll_phase
  cells,         \* g_can_ctx.voltages.num_active > 0
  faultBit,      \* module-fault bit of the last BMS broadcast, as far as
                 \* the BQ79616 is concerned
  device,        \* the BQ79616 and its wiring: "alive" or "dead"
  \* history, read by properties only
  deadFor,       \* ticks the service has run with a dead device
  missed         \* per counter, accesses that failed since one succeeded
                 \* (at most FailureThreshold)

codeVars == <<shutdown, voltStatus, bqState, age, failures, phase, cells>>
envVars  == <<device, deadFor>>
vars     == <<codeVars, pc, faultBit, envVars, missed>>

Counted   == {"keepAlive", "faultPoll"}
Servicing == Job
State     == {"PENDING", "READY", "FAILED"}

AtMost(bound, n) == IF n > bound THEN bound ELSE n

TurnOff == 0
TurnOn  == 1

(* bq_shutdown_status is compiled in; the repository ships TurnOff.        *)
Init ==
  /\ shutdown \in {TurnOff, TurnOn}
  /\ voltStatus = "ACTIVE"
  /\ bqState = "PENDING"
  /\ pc = "startup"
  /\ age = [j \in Job |-> BootTime]
  /\ failures = [k \in Counted |-> 0]
  /\ phase = 0
  /\ cells = FALSE
  /\ faultBit = FALSE
  /\ device = "alive"
  /\ deadFor = 0
  /\ missed = [k \in Counted |-> 0]

(* A mistake: only one of the two status words updated.                    *)
DisableHalf == voltStatus' = "FAILED" /\ UNCHANGED bqState

Disable == voltStatus' = "FAILED" /\ bqState' = "FAILED"

-----------------------------------------------------------------------------
(* Volt_RunBlockingStartup.  bq79616_try_init may report success whether   *)
(* or not the device answers: its writes are not acknowledged, and a       *)
(* failing part-id or fault read is tolerated.                             *)
BlockingStartup ==
  /\ pc = "startup"
  /\ pc' = "therm"
  /\ IF shutdown = TurnOff THEN Disable
       ELSE \/ voltStatus' = "ACTIVE" /\ bqState' = "READY"
            \/ Disable
  /\ UNCHANGED <<shutdown, age, failures, phase, cells, faultBit, envVars, missed>>

(* Therm_ServiceTask has nothing to do with the monitor.                   *)
ThermTask ==
  /\ pc = "therm"
  /\ pc' = "can"
  /\ UNCHANGED <<codeVars, faultBit, envVars, missed>>

(* CAN_ServiceTask in a turn whose 100 ms slot is due: the BMS broadcast   *)
(* carries the fault bit of Volt_IsFaultReportingMode.                     *)
BmsBroadcast ==
  /\ pc = "can"
  /\ pc' = "volt"
  /\ faultBit' = (bqState = "FAILED")
  /\ UNCHANGED <<codeVars, envVars, missed>>

(* ... and in any other turn.                                              *)
NoBroadcast ==
  /\ pc = "can"
  /\ pc' = "volt"
  /\ UNCHANGED <<codeVars, faultBit, envVars, missed>>

-----------------------------------------------------------------------------
(* Volt_ServiceTask: shut down, not serviceable, or a call of the service. *)

ForceDisable ==
  /\ pc = "volt"
  /\ shutdown = TurnOff
  /\ pc' = "therm"
  /\ shutdown' = TurnOff
  /\ Disable
  /\ UNCHANGED <<age, failures, phase, cells, faultBit, envVars, missed>>

(* A mistake: the state not looked at.                                     *)
AlwaysServiceable == TRUE

Serviceable == voltStatus = "ACTIVE" /\ bqState = "READY"

LeaveAlone ==
  /\ pc = "volt"
  /\ shutdown # TurnOff
  /\ ~Serviceable
  /\ pc' = "therm"
  /\ UNCHANGED <<codeVars, faultBit, envVars, missed>>

(* The service starts by reading the clock: elapsed ticks have passed      *)
(* since its previous call.                                                *)
StartService(elapsed) ==
  /\ pc = "volt"
  /\ shutdown # TurnOff
  /\ Serviceable
  /\ pc' = "keepAlive"
  /\ age' = [j \in Job |-> age[j] + elapsed]
  /\ deadFor' = IF device = "dead" THEN deadFor + elapsed ELSE deadFor
  /\ UNCHANGED <<shutdown, voltStatus, bqState, failures, phase, cells, faultBit,
                 device, missed>>

-----------------------------------------------------------------------------
(* bq79616_service_task, one action per job and outcome.                   *)

Due(j) == age[j] >= Interval[j]

Stamp(j) == age' = [age EXCEPT ![j] = 0]

(* The next job, or the end of the call.                                   *)
After(j) == CASE j = "keepAlive"     -> "faultPoll"
              [] j = "faultPoll"     -> "faultSnapshot"
              [] j = "faultSnapshot" -> "cellSnapshot"
              [] j = "cellSnapshot"  -> "therm"

NotDue(j) ==
  /\ pc = j
  /\ ~Due(j)
  /\ pc' = After(j)
  /\ UNCHANGED <<codeVars, faultBit, envVars, missed>>

(* Mistakes: a failed access tried again until it succeeds; a failure that *)
(* is not counted.                                                         *)
RetryFailure(k) ==
  /\ pc = k
  /\ Due(k)
  /\ UNCHANGED vars

UncountedFailure(k) ==
  /\ pc = k
  /\ Due(k)
  /\ Stamp(k)
  /\ missed' = [missed EXCEPT ![k] = AtMost(FailureThreshold, @ + 1)]
  /\ pc' = "therm"
  /\ UNCHANGED <<shutdown, voltStatus, bqState, failures, phase, cells, faultBit,
                 envVars>>

(* A counted access fails: the call ends, and at the threshold it returns  *)
(* false and Volt_ServiceTask disables the monitor.                        *)
CountedFailure(k) ==
  /\ pc = k
  /\ Due(k)
  /\ Stamp(k)
  /\ failures' = [failures EXCEPT ![k] = @ + 1]
  /\ missed' = [missed EXCEPT ![k] = AtMost(FailureThreshold, @ + 1)]
  /\ pc' = "therm"
  /\ IF failures[k] + 1 >= FailureThreshold
       THEN Disable
       ELSE UNCHANGED <<voltStatus, bqState>>
  /\ UNCHANGED <<shutdown, phase, cells, faultBit, envVars>>

(* Mistakes: the counter not reset; both counters reset; no next register  *)
(* after the last.                                                         *)
SuccessWithoutReset(k) ==
  /\ pc = k
  /\ Due(k)
  /\ Stamp(k)
  /\ missed' = [missed EXCEPT ![k] = 0]
  /\ pc' = After(k)
  /\ phase' = IF k = "faultPoll" THEN (phase + 1) % PhaseCount ELSE phase
  /\ UNCHANGED <<shutdown, voltStatus, bqState, failures, cells, faultBit, envVars>>

SuccessResetsBoth(k) ==
  /\ pc = k
  /\ Due(k)
  /\ Stamp(k)
  /\ failures' = [c \in Counted |-> 0]
  /\ missed' = [missed EXCEPT ![k] = 0]
  /\ pc' = After(k)
  /\ phase' = IF k = "faultPoll" THEN (phase + 1) % PhaseCount ELSE phase
  /\ UNCHANGED <<shutdown, voltStatus, bqState, cells, faultBit, envVars>>

SuccessPastLastPhase(k) ==
  /\ pc = k
  /\ Due(k)
  /\ Stamp(k)
  /\ failures' = [failures EXCEPT ![k] = 0]
  /\ missed' = [missed EXCEPT ![k] = 0]
  /\ pc' = After(k)
  /\ phase' = IF k = "faultPoll" THEN phase + 1 ELSE phase
  /\ UNCHANGED <<shutdown, voltStatus, bqState, cells, faultBit, envVars>>

CountedSuccess(k) ==
  /\ pc = k
  /\ Due(k)
  /\ Stamp(k)
  /\ failures' = [failures EXCEPT ![k] = 0]
  /\ missed' = [missed EXCEPT ![k] = 0]
  /\ pc' = After(k)
  /\ phase' = IF k = "faultPoll" THEN (phase + 1) % PhaseCount ELSE phase
  /\ UNCHANGED <<shutdown, voltStatus, bqState, cells, faultBit, envVars>>

(* A write is acknowledged by nobody: it fails only in the local UART,     *)
(* whatever the device does.                                               *)
KeepAlive == CountedSuccess("keepAlive") \/ CountedFailure("keepAlive")

(* A read needs the device; even an alive one may garble an answer.        *)
FaultPoll ==
  \/ device = "alive" /\ CountedSuccess("faultPoll")
  \/ CountedFailure("faultPoll")

(* The fault snapshot is for the log: its outcome changes nothing here.    *)
FaultSnapshot ==
  /\ pc = "faultSnapshot"
  /\ Due("faultSnapshot")
  /\ Stamp("faultSnapshot")
  /\ pc' = After("faultSnapshot")
  /\ UNCHANGED <<shutdown, voltStatus, bqState, failures, phase, cells, faultBit,
                 envVars, missed>>

(* The cell snapshot publishes the voltages if it succeeds; if it fails    *)
(* nothing is counted and the voltages on the bus stay what they were.     *)
CellSnapshot ==
  /\ pc = "cellSnapshot"
  /\ Due("cellSnapshot")
  /\ Stamp("cellSnapshot")
  /\ pc' = After("cellSnapshot")
  /\ cells' \in IF device = "alive" THEN {cells, TRUE} ELSE {cells}
  /\ UNCHANGED <<shutdown, voltStatus, bqState, failures, phase, faultBit,
                 envVars, missed>>

-----------------------------------------------------------------------------
(* The device loses power or its wiring breaks, at any moment, for good.   *)
DeviceDies ==
  /\ device = "alive"
  /\ device' = "dead"
  /\ UNCHANGED <<codeVars, pc, faultBit, deadFor, missed>>

Service ==
  \/ \E j \in Job : NotDue(j)
  \/ KeepAlive
  \/ FaultPoll
  \/ FaultSnapshot
  \/ CellSnapshot

VoltTask ==
  \/ ForceDisable
  \/ LeaveAlone
  \/ \E elapsed \in 0..MaxTurn : StartService(elapsed)

CanTask == BmsBroadcast \/ NoBroadcast

MainLoop == BlockingStartup \/ ThermTask \/ CanTask \/ VoltTask \/ Service

Next == MainLoop \/ DeviceDies

Spec == Init /\ [][Next]_vars

(* The loop has no blocking step; the millisecond clock moves on; and the  *)
(* BMS broadcast is due again and again.  In the loop shared with the CAN  *)
(* schedule all three follow from its clock and its single thread          *)
(* (ImplementsService of Firmware).                                        *)
FairSpec ==
  /\ Spec
  /\ WF_vars(MainLoop)
  /\ SF_vars(\E elapsed \in 1..MaxTurn : StartService(elapsed))
  /\ SF_vars(BmsBroadcast)

-----------------------------------------------------------------------------
TypeOK ==
  /\ shutdown \in {TurnOff, TurnOn}
  /\ voltStatus \in {"ACTIVE", "FAILED"}
  /\ bqState \in State
  /\ pc \in {"startup", "therm", "can", "volt"} \union Servicing
  /\ age \in [Job -> Nat]
  /\ failures \in [Counted -> Nat]
  /\ phase \in 0..PhaseCount - 1
  /\ cells \in BOOLEAN
  /\ faultBit \in BOOLEAN
  /\ device \in {"alive", "dead"}
  /\ deadFor \in Nat
  /\ missed \in [Counted -> 0..FailureThreshold]

(* The two status words agree once the bring-up is over, no counter ever   *)
(* sits at the threshold while the monitor is not given up, and the        *)
(* monitor is spoken to only while both words and the shutdown setting     *)
(* allow it: a monitor given up for lost is never written to or waited for *)
(* again.                                                                  *)
StatusAgrees ==
  /\ pc # "startup" => (Serviceable <=> bqState # "FAILED")
  /\ pc # "startup" => (voltStatus = "FAILED" <=> bqState = "FAILED")
  /\ pc \in Servicing => Serviceable /\ shutdown = TurnOn
  /\ bqState # "FAILED" => \A k \in Counted : failures[k] < FailureThreshold

(* The monitor is disabled by FailureThreshold failures of one kind in a   *)
(* row, by nothing less, and at once.  Scattered glitches, however many,   *)
(* are absorbed.                                                           *)
DisablingIsDue ==
  bqState = "READY" =>
    (bqState' = "FAILED" <=> \E k \in Counted : missed'[k] >= FailureThreshold)

DisabledForCause == [][DisablingIsDue]_vars

(* FAILED is final: nothing serves the monitor again, the voltages on the  *)
(* bus stay frozen, and a summary once sent with the fault bit is never    *)
(* followed by one without it.                                             *)
FailureKept ==
  /\ bqState = "FAILED" => bqState' = "FAILED" /\ cells' = cells
  /\ faultBit => faultBit'

FailureIsFinal == [][FailureKept]_vars

(* The early returns on failed accesses never put a job off for long: in   *)
(* service every job runs within FailureThreshold^2 turns of being due (at *)
(* boot: of the first call), so the unsigned difference to its last run    *)
(* cannot wrap.                                                            *)
DueBy(j) == IF Interval[j] > BootTime THEN Interval[j] ELSE BootTime

JobsOnTime ==
  Serviceable /\ pc # "startup" =>
    \A j \in Job : age[j] <= DueBy(j) + FailureThreshold * FailureThreshold * MaxTurn

(* Fault polls are what notices a dead device: FailureThreshold of them,   *)
(* each at most FailureThreshold turns late.                               *)
DetectionBound ==
  FailureThreshold * (Interval["faultPoll"] - 1 + FailureThreshold * MaxTurn)

(* While the monitor counts as READY, cell voltages on the bus are at most *)
(* DetectionBound ticks older than the device's death.                     *)
DeathDetectedInTime == deadFor > DetectionBound => bqState = "FAILED"
=============================================================================
