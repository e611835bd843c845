-------------------------- MODULE BqServiceProofs --------------------------
(***************************************************************************)
(* Proofs about BqService, for every interval, threshold and turn length.  *)
(***************************************************************************)
EXTENDS BqService, TLAPS

(* The operator % of a positive modulus stays below it: the phase of the   *)
(* fault poll wraps.                                                       *)
LEMMA PhaseInRange ==
  ASSUME NEW n \in Nat, NEW m \in Nat \ {0}
  PROVE  n % m \in 0..m - 1
  BY Z3

-----------------------------------------------------------------------------
(* Type correctness.  In particular the history of failures and the phase  *)
(* of the fault poll stay in range.                                        *)
LEMMA TypeInit == Init => TypeOK
  <1> USE BqAssumption
  <1> SUFFICES ASSUME Init PROVE TypeOK
    OBVIOUS
  <1>1. age \in [Job -> Nat] /\ failures \in [Counted -> Nat]
    BY DEF Init
  <1>2. missed \in [Counted -> 0..FailureThreshold] /\ phase \in 0..PhaseCount - 1
    BY DEF Init
  <1> QED
    BY <1>1, <1>2 DEF Init, TypeOK, State

LEMMA TypeStep == TypeOK /\ [Next]_vars => TypeOK'
  <1> USE BqAssumption
  <1> SUFFICES ASSUME TypeOK, [Next]_vars PROVE TypeOK'
    OBVIOUS
  <1> USE DEF TypeOK, codeVars, envVars, Servicing, Disable, Stamp
  <1>1. CASE BlockingStartup
    BY <1>1 DEF BlockingStartup, State
  <1>2. CASE ThermTask \/ BmsBroadcast \/ NoBroadcast
    BY <1>2 DEF ThermTask, BmsBroadcast, NoBroadcast
  <1>3. CASE ForceDisable \/ LeaveAlone
    BY <1>3 DEF ForceDisable, LeaveAlone, State
  <1>4. ASSUME NEW elapsed \in 0..MaxTurn, StartService(elapsed)
        PROVE  TypeOK'
    <2>1. age' \in [Job -> Nat] /\ deadFor' \in Nat
      BY <1>4 DEF StartService
    <2> QED
      BY <1>4, <2>1 DEF StartService, Job
  <1>5. ASSUME NEW j \in Job, NotDue(j)
        PROVE  TypeOK'
    BY <1>5 DEF NotDue, After, Job
  <1>6. ASSUME NEW k \in Counted, CountedSuccess(k)
        PROVE  TypeOK'
    <2>1. phase' \in 0..PhaseCount - 1
      BY <1>6, PhaseInRange DEF CountedSuccess
    <2>2. age' \in [Job -> Nat]
      BY <1>6 DEF CountedSuccess, Job
    <2>3. failures' \in [Counted -> Nat]
      BY <1>6 DEF CountedSuccess
    <2>4. missed' \in [Counted -> 0..FailureThreshold]
      BY <1>6 DEF CountedSuccess
    <2> QED
      BY <1>6, <2>1, <2>2, <2>3, <2>4 DEF CountedSuccess, After, Counted, Job
  <1>7. ASSUME NEW k \in Counted, CountedFailure(k)
        PROVE  TypeOK'
    <2>1. age' \in [Job -> Nat]
      BY <1>7 DEF CountedFailure, Job
    <2>2. failures' \in [Counted -> Nat]
      BY <1>7 DEF CountedFailure
    <2>3. AtMost(FailureThreshold, missed[k] + 1) \in 0..FailureThreshold
      BY <1>7 DEF AtMost
    <2>4. missed' \in [Counted -> 0..FailureThreshold]
      BY <1>7, <2>3 DEF CountedFailure
    <2> QED
      BY <1>7, <2>1, <2>2, <2>4 DEF CountedFailure, State
  <1>8. CASE FaultSnapshot
    BY <1>8 DEF FaultSnapshot, After, Job
  <1>9. CASE CellSnapshot
    <2>1. cells' \in BOOLEAN
      BY <1>9, Zenon DEF CellSnapshot
    <2> QED
      BY <1>9, <2>1 DEF CellSnapshot, After, Job
  <1>10. CASE DeviceDies
    BY <1>10 DEF DeviceDies
  <1>11. CASE UNCHANGED vars
    BY <1>11 DEF vars
  <1> QED
    BY <1>1, <1>2, <1>3, <1>4, <1>5, <1>6, <1>7, <1>8, <1>9, <1>10, <1>11
       DEF Next, MainLoop, CanTask, VoltTask, Service, KeepAlive, FaultPoll,
           Counted

THEOREM TypeCorrect == Spec => []TypeOK
  BY TypeInit, TypeStep, PTL DEF Spec

-----------------------------------------------------------------------------
(* The life of the monitor.  The invariant says which states go together:  *)
(* before the bring-up nothing has happened yet; in service both counters  *)
(* are the true runs of failures and below the threshold; and the fault    *)
(* bit on the bus was never set without cause.                             *)
CountersTrue ==
  bqState # "FAILED" =>
    \A k \in Counted : failures[k] = missed[k] /\ missed[k] < FailureThreshold

Lifecycle ==
  /\ pc = "startup" <=> bqState = "PENDING"
  /\ voltStatus = "FAILED" <=> bqState = "FAILED"
  /\ bqState = "READY" => shutdown = TurnOn
  /\ pc \in Servicing => bqState = "READY"
  /\ faultBit => bqState = "FAILED"

LEMMA LifecycleInit == Init => Lifecycle /\ CountersTrue
  BY BqAssumption DEF Init, Lifecycle, CountersTrue, Servicing, Job

LEMMA LifecycleStep ==
  TypeOK /\ Lifecycle /\ CountersTrue /\ [Next]_vars
    => Lifecycle' /\ CountersTrue'
  <1> USE BqAssumption
  <1> SUFFICES ASSUME TypeOK, Lifecycle, CountersTrue, [Next]_vars
               PROVE  Lifecycle' /\ CountersTrue'
    OBVIOUS
  <1> USE DEF Lifecycle, CountersTrue, codeVars, envVars, Servicing, Job,
              Disable, TurnOff, TurnOn
  <1>0. /\ shutdown \in {0, 1}
        /\ failures \in [Counted -> Nat]
        /\ missed \in [Counted -> 0..FailureThreshold]
        /\ voltStatus \in {"ACTIVE", "FAILED"} /\ bqState \in State
    BY DEF TypeOK
  <1>1. CASE BlockingStartup
    <2>1. CASE shutdown = TurnOff
      BY <1>0, <1>1, <2>1 DEF BlockingStartup, State
    <2>2. CASE shutdown # TurnOff
      BY <1>0, <1>1, <2>2 DEF BlockingStartup, State
    <2> QED
      BY <2>1, <2>2
  <1>2. CASE ThermTask \/ BmsBroadcast \/ NoBroadcast
    <2>1. CASE BmsBroadcast
      BY <2>1 DEF BmsBroadcast
    <2>2. CASE ThermTask \/ NoBroadcast
      BY <2>2 DEF ThermTask, NoBroadcast
    <2> QED
      BY <1>2, <2>1, <2>2
  <1>3. CASE ForceDisable \/ LeaveAlone
    BY <1>3 DEF ForceDisable, LeaveAlone
  <1>4. ASSUME NEW elapsed \in 0..MaxTurn, StartService(elapsed)
        PROVE  Lifecycle' /\ CountersTrue'
    BY <1>4 DEF StartService, Serviceable
  <1>5. ASSUME NEW j \in Job, NotDue(j)
        PROVE  Lifecycle' /\ CountersTrue'
    BY <1>5 DEF NotDue, After
  <1>6. ASSUME NEW k \in Counted, CountedSuccess(k)
        PROVE  Lifecycle' /\ CountersTrue'
    <2>1. Lifecycle'
      BY <1>6 DEF CountedSuccess, After, Counted
    <2>2. CountersTrue'
      BY <1>0, <1>6 DEF CountedSuccess
    <2> QED
      BY <2>1, <2>2
  <1>7. ASSUME NEW k \in Counted, CountedFailure(k)
        PROVE  Lifecycle' /\ CountersTrue'
    <2>1. Lifecycle'
      BY <1>7 DEF CountedFailure, Counted
    <2>2. CountersTrue'
      BY <1>0, <1>7 DEF CountedFailure, AtMost, Counted
    <2> QED
      BY <2>1, <2>2
  <1>8. CASE FaultSnapshot \/ CellSnapshot
    <2>1. CASE FaultSnapshot
      BY <1>8, <2>1 DEF FaultSnapshot, After
    <2>2. CASE CellSnapshot
      BY <1>8, <2>2 DEF CellSnapshot, After
    <2> QED
      BY <1>8, <2>1, <2>2
  <1>9. CASE DeviceDies
    BY <1>9 DEF DeviceDies
  <1>10. CASE UNCHANGED vars
    BY <1>10 DEF vars
  <1> QED
    BY <1>1, <1>2, <1>3, <1>4, <1>5, <1>6, <1>7, <1>8, <1>9, <1>10
       DEF Next, MainLoop, CanTask, VoltTask, Service, KeepAlive, FaultPoll,
           Counted

LEMMA AlwaysLifecycle == Spec => [](TypeOK /\ Lifecycle /\ CountersTrue)
  BY TypeInit, TypeStep, LifecycleInit, LifecycleStep, PTL DEF Spec

(* The two status words never disagree in the loop, no counter sits at the *)
(* threshold of a monitor not given up, and nothing is written to the      *)
(* monitor or waited for unless both words allow it (volt.c).              *)
THEOREM StatusesAgree == Spec => []StatusAgrees
  <1>1. TypeOK /\ Lifecycle /\ CountersTrue => StatusAgrees
    BY DEF TypeOK, Lifecycle, CountersTrue, StatusAgrees, Serviceable, State,
           TurnOn
  <1> QED
    BY <1>1, AlwaysLifecycle, PTL

-----------------------------------------------------------------------------
(* In service, a step disables the monitor exactly if it completes a run   *)
(* of FailureThreshold failures of one kind.                               *)
LEMMA DisablingStep ==
  TypeOK /\ Lifecycle /\ CountersTrue /\ [Next]_vars => [DisablingIsDue]_vars
  <1> USE BqAssumption
  <1> SUFFICES ASSUME TypeOK, Lifecycle, CountersTrue, [Next]_vars,
                      bqState = "READY"
               PROVE  bqState' = "FAILED"
                        <=> \E k \in Counted : missed'[k] >= FailureThreshold
    BY DEF DisablingIsDue
  <1> DEFINE Goal == bqState' = "FAILED"
                       <=> \E k \in Counted : missed'[k] >= FailureThreshold
  <1>0. /\ shutdown = TurnOn /\ pc # "startup"
        /\ failures \in [Counted -> Nat]
        /\ missed \in [Counted -> 0..FailureThreshold]
        /\ FailureThreshold \in Nat
        /\ \A k \in Counted : failures[k] = missed[k] /\ missed[k] < FailureThreshold
    BY DEF TypeOK, Lifecycle, CountersTrue
  <1>1. CASE missed' = missed /\ bqState' = bqState
    BY <1>0, <1>1
  <1>2. ASSUME NEW k \in Counted, CountedSuccess(k)
        PROVE  Goal
    <2>1. \A c \in Counted : missed'[c] \in Nat /\ missed'[c] < FailureThreshold
      BY <1>0, <1>2 DEF CountedSuccess
    <2>2. bqState' = "READY"
      BY <1>2 DEF CountedSuccess
    <2> QED
      BY <1>0, <2>1, <2>2
  <1>3. ASSUME NEW k \in Counted, CountedFailure(k)
        PROVE  Goal
    <2>1. missed'[k] = missed[k] + 1
      BY <1>0, <1>3 DEF CountedFailure, AtMost
    <2>2. \A c \in Counted \ {k} : missed'[c] = missed[c] /\ missed[c] \in Nat
      BY <1>0, <1>3 DEF CountedFailure
    <2>3. (\E c \in Counted : missed'[c] >= FailureThreshold)
            <=> missed[k] + 1 >= FailureThreshold
      BY <1>0, <2>1, <2>2
    <2>4. bqState' = "FAILED" <=> failures[k] + 1 >= FailureThreshold
      BY <1>3 DEF CountedFailure, Disable
    <2> QED
      BY <1>0, <2>3, <2>4
  <1>4. CASE ThermTask \/ CanTask \/ LeaveAlone \/ FaultSnapshot \/ CellSnapshot
             \/ DeviceDies \/ UNCHANGED vars
    BY <1>1, <1>4 DEF ThermTask, CanTask, BmsBroadcast, NoBroadcast, LeaveAlone,
                      FaultSnapshot, CellSnapshot, DeviceDies, vars, codeVars
  <1>5. ASSUME NEW j \in Job, NotDue(j)
        PROVE  Goal
    BY <1>1, <1>5 DEF NotDue, codeVars
  <1>6. ASSUME NEW elapsed \in 0..MaxTurn, StartService(elapsed)
        PROVE  Goal
    BY <1>1, <1>6 DEF StartService
  <1>7. ~BlockingStartup /\ ~ForceDisable
    BY <1>0 DEF BlockingStartup, ForceDisable, TurnOff, TurnOn
  <1> QED
    BY <1>2, <1>3, <1>4, <1>5, <1>6, <1>7
       DEF Next, MainLoop, VoltTask, Service, KeepAlive, FaultPoll, Counted

(* The monitor is given up for FailureThreshold failures of one kind in a  *)
(* row and for nothing less (bq79616_service_task).                        *)
THEOREM DisablingJustified == Spec => DisabledForCause
  BY AlwaysLifecycle, DisablingStep, PTL DEF Spec, DisabledForCause

(* A step never revives a monitor given up for lost, nor touches its last  *)
(* voltages, nor withdraws its fault bit.                                  *)
LEMMA FinalStep ==
  TypeOK /\ Lifecycle /\ [Next]_vars => [FailureKept]_vars
  <1> SUFFICES ASSUME TypeOK, Lifecycle, [Next]_vars PROVE FailureKept
    OBVIOUS
  <1> USE DEF FailureKept, Lifecycle, codeVars
  <1>1. CASE bqState # "FAILED"
    BY <1>1
  <1>2. CASE bqState = "FAILED"
    <2>1. pc \notin Servicing /\ pc # "startup" /\ ~Serviceable
      BY <1>2 DEF Serviceable
    <2>2. ~Service /\ ~BlockingStartup
      BY <2>1 DEF Service, NotDue, KeepAlive, FaultPoll, CountedSuccess,
                  CountedFailure, FaultSnapshot, CellSnapshot, Servicing, Job,
                  BlockingStartup
    <2>3. ASSUME NEW elapsed \in 0..MaxTurn PROVE ~StartService(elapsed)
      BY <2>1 DEF StartService
    <2>4. CASE ThermTask \/ NoBroadcast \/ LeaveAlone \/ DeviceDies
               \/ UNCHANGED vars
      BY <1>2, <2>4 DEF ThermTask, NoBroadcast, LeaveAlone, DeviceDies, vars
    <2>5. CASE BmsBroadcast
      BY <1>2, <2>5 DEF BmsBroadcast
    <2>6. CASE ForceDisable
      BY <1>2, <2>6 DEF ForceDisable, Disable
    <2> QED
      BY <2>2, <2>3, <2>4, <2>5, <2>6 DEF Next, MainLoop, CanTask, VoltTask
  <1> QED
    BY <1>1, <1>2

(* FAILED is final, for the state machine, the voltages and the bus.       *)
THEOREM FailureFinal == Spec => FailureIsFinal
  BY AlwaysLifecycle, FinalStep, PTL DEF Spec, FailureIsFinal

-----------------------------------------------------------------------------
(* Time.  n turns of the loop take at most Delay(n) ticks.                 *)
Delay(n) == n * MaxTurn

LEMMA ProductGrows ==
  ASSUME NEW n \in Nat, NEW m \in Nat, NEW factor \in Nat, n <= m
  PROVE  /\ n * factor <= m * factor
         /\ factor * n <= factor * m
  <1>1. PICK k \in Nat : m = n + k
    <2>1. m - n \in Nat /\ m = n + (m - n)
      OBVIOUS
    <2> QED
      BY <2>1
  <1>2. m * factor = n * factor + k * factor
    BY <1>1
  <1>3. k * factor \in Nat /\ n * factor \in Nat
    OBVIOUS
  <1>4. factor * n = n * factor /\ factor * m = m * factor
    OBVIOUS
  <1> QED
    BY <1>2, <1>3, <1>4

LEMMA DelayGrows ==
  ASSUME NEW n \in Nat, NEW m \in Nat, n <= m
  PROVE  /\ Delay(n) \in Nat /\ Delay(n) <= Delay(m)
         /\ Delay(n + 1) = Delay(n) + MaxTurn
  <1>0. MaxTurn \in Nat
    BY BqAssumption
  <1>1. n * MaxTurn <= m * MaxTurn
    BY <1>0, ProductGrows
  <1>2. (n + 1) * MaxTurn = n * MaxTurn + MaxTurn /\ n * MaxTurn \in Nat
    BY <1>0
  <1> QED
    BY <1>1, <1>2 DEF Delay

(* A call that returns early has counted a failure.  Waited counts such    *)
(* calls for the snapshots, the last jobs of a call: a failed keep-alive   *)
(* adds one, a failed fault poll may clear the failures of the keep-alive  *)
(* but adds a whole FailureThreshold for one.                              *)
Waited == FailureThreshold * failures["faultPoll"] + failures["keepAlive"]

Snapshots == {"faultSnapshot", "cellSnapshot"}

(* How late each job can be, outside a call and at each job of a call.     *)
OnTime ==
  /\ pc = "startup" => \A j \in Job : age[j] <= DueBy(j)
  /\ pc \in {"therm", "can", "volt"} /\ bqState = "READY" =>
       /\ age["keepAlive"] <= DueBy("keepAlive")
       /\ age["faultPoll"] <= DueBy("faultPoll") + Delay(failures["keepAlive"])
       /\ \A j \in Snapshots : age[j] <= DueBy(j) + Delay(Waited)
  /\ pc = "keepAlive" =>
       /\ age["keepAlive"] <= DueBy("keepAlive") + MaxTurn
       /\ age["faultPoll"] <= DueBy("faultPoll") + Delay(failures["keepAlive"] + 1)
       /\ \A j \in Snapshots : age[j] <= DueBy(j) + Delay(Waited + 1)
  /\ pc = "faultPoll" =>
       /\ age["keepAlive"] <= DueBy("keepAlive")
       /\ age["faultPoll"] <= DueBy("faultPoll") + Delay(FailureThreshold)
       /\ \A j \in Snapshots :
            age[j] <= DueBy(j) + Delay(FailureThreshold * (failures["faultPoll"] + 1))
  /\ pc \in Snapshots =>
       /\ \A j \in Counted : age[j] <= DueBy(j)
       /\ pc = "cellSnapshot" => age["faultSnapshot"] <= DueBy("faultSnapshot")
       /\ \A j \in Snapshots :
            age[j] <= DueBy(j) + Delay(FailureThreshold * FailureThreshold)

LEMMA OnTimeInit == Init => OnTime
  BY BqAssumption DEF Init, OnTime, DueBy, Job, Snapshots

(* The values that OnTime compares are numbers.                            *)
LEMMA Numbers ==
  ASSUME TypeOK
  PROVE  /\ FailureThreshold \in Nat \ {0} /\ MaxTurn \in Nat \ {0}
         /\ \A j \in Job : /\ age[j] \in Nat /\ Interval[j] \in Nat \ {0}
                           /\ DueBy(j) \in Nat /\ Interval[j] <= DueBy(j)
         /\ \A k \in Counted : failures[k] \in Nat
         /\ Waited \in Nat
  BY BqAssumption DEF TypeOK, DueBy, Waited, Counted, Job

LEMMA OnTimeStep ==
  TypeOK /\ Lifecycle /\ CountersTrue /\ OnTime /\ [Next]_vars => OnTime'
  <1> SUFFICES ASSUME TypeOK, Lifecycle, CountersTrue, OnTime, [Next]_vars
               PROVE  OnTime'
    OBVIOUS
  <1>0. /\ FailureThreshold \in Nat \ {0} /\ MaxTurn \in Nat \ {0}
        /\ \A j \in Job : /\ age[j] \in Nat /\ Interval[j] \in Nat \ {0}
                          /\ DueBy(j) \in Nat /\ Interval[j] <= DueBy(j)
        /\ \A k \in Counted : failures[k] \in Nat
        /\ Waited \in Nat
        /\ age \in [Job -> Nat] /\ failures \in [Counted -> Nat]
    BY Numbers DEF TypeOK
  <1>1. \A k \in Counted : bqState = "READY" => failures[k] < FailureThreshold
    BY DEF CountersTrue
  <1>2. \A j \in Job : DueBy(j)' = DueBy(j)
    BY DEF DueBy
  <1>3. CASE /\ UNCHANGED <<age, failures, bqState>>
             /\ pc \in {"therm", "can", "volt"}
             /\ pc' \in {"therm", "can", "volt"}
    BY <1>2, <1>3 DEF OnTime, Waited, Delay, Snapshots, Job
  <1>4. CASE ThermTask \/ CanTask \/ LeaveAlone
    BY <1>3, <1>4 DEF ThermTask, CanTask, BmsBroadcast, NoBroadcast, LeaveAlone,
                      codeVars
  <1>5. CASE DeviceDies \/ UNCHANGED vars
    BY <1>2, <1>5 DEF DeviceDies, vars, codeVars, OnTime, Waited, Delay
  <1>6. CASE ForceDisable
    BY <1>6 DEF ForceDisable, Disable, OnTime, Snapshots
  <1>7. CASE BlockingStartup
    <2>1. /\ pc = "startup" /\ pc' = "therm" /\ age' = age /\ failures' = failures
      BY <1>7 DEF BlockingStartup
    <2>2. Delay(failures["keepAlive"]) \in Nat /\ Delay(Waited) \in Nat
      BY <1>0, DelayGrows DEF Counted
    <2> QED
      BY <1>0, <1>2, <2>1, <2>2 DEF OnTime, Waited, Delay, Snapshots, Job
  <1>8. ASSUME NEW elapsed \in 0..MaxTurn, StartService(elapsed)
        PROVE  OnTime'
    <2>1. /\ pc = "volt" /\ pc' = "keepAlive" /\ failures' = failures
          /\ bqState = "READY"
          /\ \A j \in Job : age'[j] <= age[j] + MaxTurn
      BY <1>0, <1>8 DEF StartService, Serviceable
    <2>2. /\ \A j \in Job : age'[j] \in Nat
          /\ Waited' = Waited
      BY <1>0, <1>8, <2>1 DEF StartService, Waited
    <2>3. /\ Delay(failures["keepAlive"]) \in Nat
          /\ Delay(failures["keepAlive"] + 1) = Delay(failures["keepAlive"]) + MaxTurn
          /\ Delay(Waited) \in Nat /\ Delay(Waited + 1) = Delay(Waited) + MaxTurn
      BY <1>0, DelayGrows DEF Counted
    <2>4. /\ Delay(failures["keepAlive"] + 1)' = Delay(failures["keepAlive"] + 1)
          /\ Delay(Waited + 1)' = Delay(Waited + 1)
      BY <2>1, <2>2 DEF Delay
    <2> QED
      BY <1>0, <1>2, <2>1, <2>2, <2>3, <2>4 DEF OnTime, Snapshots, Job
  <1>9. CASE NotDue("keepAlive") \/ CountedSuccess("keepAlive")
    <2>1. /\ pc = "keepAlive" /\ pc' = "faultPoll" /\ bqState = "READY"
          /\ failures'["faultPoll"] = failures["faultPoll"]
          /\ age'["keepAlive"] <= DueBy("keepAlive")
          /\ \A j \in Job \ {"keepAlive"} : age'[j] = age[j]
      BY <1>0, <1>9 DEF NotDue, CountedSuccess, Due, Stamp, After, codeVars, Job,
                        Counted, Lifecycle, Servicing
    <2>2. Delay(failures["keepAlive"] + 1) <= Delay(FailureThreshold)
      BY <1>0, <1>1, <2>1, DelayGrows DEF Counted
    <2>3. Waited + 1 <= FailureThreshold * (failures["faultPoll"] + 1)
      BY <1>0, <1>1, <2>1 DEF Waited, Counted
    <2>4. Delay(Waited + 1) <= Delay(FailureThreshold * (failures["faultPoll"] + 1))
      BY <1>0, <2>3, DelayGrows DEF Counted
    <2>5. \A n \in {Delay(Waited + 1), Delay(failures["keepAlive"] + 1),
                    Delay(FailureThreshold),
                    Delay(FailureThreshold * (failures["faultPoll"] + 1))} : n \in Nat
      BY <1>0, DelayGrows DEF Counted
    <2>6. /\ Delay(FailureThreshold)' = Delay(FailureThreshold)
          /\ Delay(FailureThreshold * (failures["faultPoll"] + 1))'
               = Delay(FailureThreshold * (failures["faultPoll"] + 1))
      BY <2>1 DEF Delay
    <2> QED
      BY <1>0, <1>2, <2>1, <2>2, <2>4, <2>5, <2>6 DEF OnTime, Snapshots, Job
  <1>10. CASE NotDue("faultPoll") \/ CountedSuccess("faultPoll")
    <2>1. /\ pc = "faultPoll" /\ pc' = "faultSnapshot" /\ bqState = "READY"
          /\ age'["faultPoll"] <= DueBy("faultPoll")
          /\ \A j \in Job \ {"faultPoll"} : age'[j] = age[j]
      BY <1>0, <1>10 DEF NotDue, CountedSuccess, Due, Stamp, After, codeVars, Job,
                         Counted, Lifecycle, Servicing
    <2>2. failures["faultPoll"] + 1 <= FailureThreshold
      BY <1>0, <1>1, <2>1 DEF Counted
    <2>3. FailureThreshold * (failures["faultPoll"] + 1)
            <= FailureThreshold * FailureThreshold
      BY <1>0, <2>2, ProductGrows DEF Counted
    <2>4. /\ Delay(FailureThreshold * (failures["faultPoll"] + 1))
               <= Delay(FailureThreshold * FailureThreshold)
          /\ Delay(FailureThreshold * (failures["faultPoll"] + 1)) \in Nat
          /\ Delay(FailureThreshold * FailureThreshold) \in Nat
      BY <1>0, <2>3, DelayGrows DEF Counted
    <2> QED
      BY <1>0, <1>2, <2>1, <2>4 DEF OnTime, Snapshots, Job, Counted, Delay
  <1>11. CASE CountedFailure("keepAlive")
    <2>1. /\ pc = "keepAlive" /\ pc' = "therm" /\ bqState = "READY"
          /\ failures' = [failures EXCEPT !["keepAlive"] = @ + 1]
          /\ age' = [age EXCEPT !["keepAlive"] = 0]
      BY <1>11 DEF CountedFailure, Stamp, Lifecycle, Servicing, Job
    <2>2. Waited' = Waited + 1 /\ failures'["keepAlive"] = failures["keepAlive"] + 1
      BY <1>0, <2>1 DEF Waited, Counted
    <2> QED
      BY <1>0, <1>2, <2>1, <2>2 DEF OnTime, Snapshots, Job, Delay
  <1>12. CASE CountedFailure("faultPoll")
    <2>1. /\ pc = "faultPoll" /\ pc' = "therm" /\ bqState = "READY"
          /\ failures' = [failures EXCEPT !["faultPoll"] = @ + 1]
          /\ age' = [age EXCEPT !["faultPoll"] = 0]
      BY <1>12 DEF CountedFailure, Stamp, Lifecycle, Servicing, Job
    <2>2. FailureThreshold * (failures["faultPoll"] + 1) <= Waited'
      BY <1>0, <2>1 DEF Waited, Counted
    <2>3. Waited' \in Nat
      BY <1>0, <2>1 DEF Waited, Counted
    <2>4. /\ Delay(FailureThreshold * (failures["faultPoll"] + 1)) <= Delay(Waited')
          /\ Delay(FailureThreshold * (failures["faultPoll"] + 1)) \in Nat
          /\ Delay(Waited') \in Nat /\ Delay(failures["keepAlive"]) \in Nat
      BY <1>0, <2>2, <2>3, DelayGrows DEF Counted
    <2>5. Delay(Waited)' = Delay(Waited')
      BY DEF Delay
    <2>6. Delay(failures["keepAlive"])' = Delay(failures["keepAlive"])
      BY <1>0, <2>1 DEF Delay, Counted
    <2> QED
      BY <1>0, <1>2, <2>1, <2>4, <2>5, <2>6 DEF OnTime, Snapshots, Job
  <1>13. CASE NotDue("faultSnapshot") \/ FaultSnapshot
    <2>1. /\ pc = "faultSnapshot" /\ pc' = "cellSnapshot"
          /\ age'["faultSnapshot"] <= DueBy("faultSnapshot")
          /\ \A j \in Job \ {"faultSnapshot"} : age'[j] = age[j]
      BY <1>0, <1>13 DEF NotDue, FaultSnapshot, Due, Stamp, After, codeVars, Job
    <2>2. /\ Delay(FailureThreshold * FailureThreshold) \in Nat
          /\ Delay(FailureThreshold * FailureThreshold)'
               = Delay(FailureThreshold * FailureThreshold)
      BY <1>0, DelayGrows DEF Delay
    <2>3. \A j \in Counted : age'[j] <= DueBy(j)
      BY <2>1 DEF OnTime, Snapshots, Counted, Job
    <2>4. \A j \in Snapshots :
            age'[j] <= DueBy(j) + Delay(FailureThreshold * FailureThreshold)
      <3>1. age' \in [Job -> Nat]
        BY TypeStep DEF TypeOK
      <3>2. age["cellSnapshot"] <= DueBy("cellSnapshot") + Delay(FailureThreshold * FailureThreshold)
        BY <2>1 DEF OnTime, Snapshots
      <3>3. \A j \in Snapshots : j \in Job
        BY DEF Snapshots, Job
      <3> QED
        BY <1>0, <2>1, <2>2, <3>1, <3>2, <3>3 DEF Snapshots, Job
    <2> QED
      BY <1>2, <2>1, <2>2, <2>3, <2>4 DEF OnTime, Snapshots, Job, Counted
  <1>14. CASE NotDue("cellSnapshot") \/ CellSnapshot
    <2>1. /\ pc = "cellSnapshot" /\ pc' = "therm" /\ failures' = failures
          /\ age'["cellSnapshot"] <= DueBy("cellSnapshot")
          /\ \A j \in Job \ {"cellSnapshot"} : age'[j] = age[j]
      <3>1. CASE NotDue("cellSnapshot")
        BY <1>0, <3>1 DEF NotDue, Due, After, codeVars, Job
      <3>2. CASE CellSnapshot
        BY <1>0, <3>2 DEF CellSnapshot, Stamp, After, Job
      <3> QED
        BY <1>14, <3>1, <3>2
    <2>2. /\ Delay(failures["keepAlive"]) \in Nat /\ Delay(Waited) \in Nat
          /\ Delay(failures["keepAlive"])' = Delay(failures["keepAlive"])
          /\ Delay(Waited)' = Delay(Waited)
      BY <1>0, <2>1, DelayGrows DEF Counted, Delay, Waited
    <2>3. \A j \in Job : age'[j] \in Nat /\ age'[j] <= DueBy(j)
      <3>1. \A j \in Job \ {"cellSnapshot"} : age[j] <= DueBy(j)
        BY <2>1 DEF OnTime, Snapshots, Counted, Job
      <3>2. age' \in [Job -> Nat]
        BY TypeStep DEF TypeOK
      <3> QED
        BY <2>1, <3>1, <3>2
    <2> QED
      BY <1>0, <1>2, <2>1, <2>2, <2>3 DEF OnTime, Snapshots, Job
  <1> QED
    BY <1>4, <1>5, <1>6, <1>7, <1>8, <1>9, <1>10, <1>11, <1>12, <1>13, <1>14
       DEF Next, MainLoop, VoltTask, Service, KeepAlive, FaultPoll, Job

(* Within FailureThreshold^2 turns of being due every job has run.         *)
THEOREM JobsPunctual == Spec => []JobsOnTime
  <1>1. TypeOK /\ Lifecycle /\ CountersTrue /\ OnTime => JobsOnTime
    <2> SUFFICES ASSUME TypeOK, Lifecycle, CountersTrue, OnTime,
                        Serviceable, pc # "startup", NEW j \in Job
                 PROVE  age[j] <= DueBy(j) + FailureThreshold * FailureThreshold * MaxTurn
      BY DEF JobsOnTime
    <2> DEFINE limit == FailureThreshold * FailureThreshold
    <2>0. /\ FailureThreshold \in Nat \ {0} /\ MaxTurn \in Nat \ {0}
          /\ \A i \in Job : age[i] \in Nat /\ DueBy(i) \in Nat
          /\ \A k \in Counted : failures[k] \in Nat /\ failures[k] < FailureThreshold
          /\ Waited \in Nat /\ bqState = "READY" /\ limit \in Nat
      BY Numbers DEF CountersTrue, Serviceable
    <2>1. limit * MaxTurn = Delay(limit) /\ Delay(limit) \in Nat
      BY <2>0, DelayGrows DEF Delay
    <2>2. FailureThreshold * (failures["faultPoll"] + 1) <= limit
      BY <2>0, ProductGrows DEF Counted
    <2>3. /\ Waited + 1 <= FailureThreshold * (failures["faultPoll"] + 1)
          /\ FailureThreshold * (failures["faultPoll"] + 1) \in Nat
      BY <2>0 DEF Waited, Counted
    <2>4. FailureThreshold <= limit /\ 1 <= limit
      BY <2>0, <2>2, <2>3 DEF Waited, Counted
    <2>5. failures["keepAlive"] + 1 <= limit
      BY <2>0, <2>4 DEF Counted
    <2> HIDE DEF limit
    <2>6. /\ Delay(Waited) <= Delay(limit) /\ Delay(Waited) \in Nat
          /\ Delay(Waited + 1) <= Delay(limit) /\ Delay(Waited + 1) \in Nat
      BY <2>0, <2>2, <2>3, DelayGrows
    <2>7. /\ Delay(FailureThreshold * (failures["faultPoll"] + 1)) <= Delay(limit)
          /\ Delay(FailureThreshold * (failures["faultPoll"] + 1)) \in Nat
          /\ Delay(FailureThreshold) <= Delay(limit) /\ Delay(FailureThreshold) \in Nat
      BY <2>0, <2>2, <2>3, <2>4, DelayGrows
    <2>8. /\ Delay(failures["keepAlive"]) <= Delay(limit)
          /\ Delay(failures["keepAlive"]) \in Nat
          /\ Delay(failures["keepAlive"] + 1) <= Delay(limit)
          /\ Delay(failures["keepAlive"] + 1) \in Nat
          /\ MaxTurn <= Delay(failures["keepAlive"] + 1)
      BY <2>0, <2>5, DelayGrows DEF Counted
    <2>9. age[j] <= DueBy(j) + Delay(limit)
      <3>1. CASE pc \in {"therm", "can", "volt"}
        BY <2>0, <2>1, <2>6, <2>8, <3>1 DEF OnTime, Snapshots, Job
      <3>2. CASE pc = "keepAlive"
        BY <2>0, <2>1, <2>6, <2>8, <3>2 DEF OnTime, Snapshots, Job
      <3>3. CASE pc = "faultPoll"
        BY <2>0, <2>1, <2>7, <3>3 DEF OnTime, Snapshots, Job
      <3>4. CASE pc \in Snapshots
        <4>1. \A i \in Snapshots : age[i] <= DueBy(i) + Delay(limit)
          BY <3>4 DEF OnTime, limit
        <4>2. \A i \in Counted : age[i] <= DueBy(i)
          BY <3>4 DEF OnTime
        <4> QED
          BY <2>0, <2>1, <4>1, <4>2 DEF Snapshots, Counted, Job
      <3> QED
        BY <3>1, <3>2, <3>3, <3>4 DEF TypeOK, Servicing, Snapshots, Job
    <2> QED
      BY <2>1, <2>9 DEF limit
  <1> QED
    BY <1>1, AlwaysLifecycle, OnTimeInit, OnTimeStep, PTL DEF Spec

-----------------------------------------------------------------------------
(* Detection.  PollGap is the longest time between two fault polls; while  *)
(* the monitor is dead each of them fails.                                 *)
PollGap == Interval["faultPoll"] - 1 + FailureThreshold * MaxTurn

Polls(n) == n * PollGap

LEMMA PollsGrow ==
  ASSUME NEW n \in Nat, NEW m \in Nat, n <= m
  PROVE  /\ Polls(n) \in Nat /\ Polls(n) <= Polls(m)
         /\ Polls(n + 1) = Polls(n) + PollGap
         /\ PollGap \in Nat
  <1>1. PollGap \in Nat
    BY BqAssumption DEF PollGap, Job
  <1>2. n * PollGap <= m * PollGap
    BY <1>1, ProductGrows
  <1>3. (n + 1) * PollGap = n * PollGap + PollGap /\ n * PollGap \in Nat
    BY <1>1
  <1> QED
    BY <1>1, <1>2, <1>3 DEF Polls

(* How long the device can have been dead, by what has been noticed of it: *)
(* the polls that failed, and the time since the last of them, which is    *)
(* less than the interval and the calls that returned before the poll.     *)
Noticing ==
  /\ device = "alive" => deadFor = 0
  /\ pc = "startup" => deadFor = 0
  /\ bqState = "READY" =>
       deadFor <= Polls(failures["faultPoll"]) + age["faultPoll"]
  /\ pc \in {"therm", "can", "volt"} /\ bqState = "READY" =>
       deadFor <= Polls(failures["faultPoll"]) + (Interval["faultPoll"] - 1)
                    + Delay(failures["keepAlive"])
  /\ pc = "keepAlive" =>
       deadFor <= Polls(failures["faultPoll"]) + (Interval["faultPoll"] - 1)
                    + Delay(failures["keepAlive"] + 1)
  /\ pc = "faultPoll" => deadFor <= Polls(failures["faultPoll"] + 1)
  /\ pc \in Snapshots =>
       deadFor <= Polls(failures["faultPoll"]) + (Interval["faultPoll"] - 1)

LEMMA NoticingInit == Init => Noticing
  <1> SUFFICES ASSUME Init PROVE Noticing
    OBVIOUS
  <1>1. /\ deadFor = 0 /\ pc = "startup" /\ bqState = "PENDING"
    BY DEF Init
  <1> QED
    BY <1>1 DEF Noticing, Snapshots

(* The values that Noticing compares are numbers.                          *)
LEMMA NoticingNumbers ==
  ASSUME TypeOK, NEW n \in Nat
  PROVE  /\ deadFor \in Nat /\ age["faultPoll"] \in Nat
         /\ failures["faultPoll"] \in Nat /\ failures["keepAlive"] \in Nat
         /\ Interval["faultPoll"] - 1 \in Nat
         /\ Polls(n) \in Nat /\ Polls(n + 1) = Polls(n) + PollGap
         /\ Delay(n) \in Nat /\ Delay(n + 1) = Delay(n) + MaxTurn
  <1>1. /\ deadFor \in Nat /\ age["faultPoll"] \in Nat
        /\ failures["faultPoll"] \in Nat /\ failures["keepAlive"] \in Nat
        /\ Interval["faultPoll"] - 1 \in Nat
    BY BqAssumption DEF TypeOK, Job, Counted
  <1>2. n <= n
    OBVIOUS
  <1>3. /\ Polls(n) \in Nat /\ Polls(n + 1) = Polls(n) + PollGap
    BY <1>2, PollsGrow
  <1>4. /\ Delay(n) \in Nat /\ Delay(n + 1) = Delay(n) + MaxTurn
    BY <1>2, DelayGrows
  <1> QED
    BY <1>1, <1>3, <1>4

LEMMA NoticingStep ==
  TypeOK /\ Lifecycle /\ CountersTrue /\ Noticing /\ [Next]_vars => Noticing'
  <1> SUFFICES ASSUME TypeOK, Lifecycle, CountersTrue, Noticing, [Next]_vars
               PROVE  Noticing'
    OBVIOUS
  <1> DEFINE fp == failures["faultPoll"]
             ka == failures["keepAlive"]
  <1>0. /\ deadFor \in Nat /\ age["faultPoll"] \in Nat /\ fp \in Nat /\ ka \in Nat
        /\ Interval["faultPoll"] - 1 \in Nat /\ Interval["faultPoll"] \in Nat
        /\ age \in [Job -> Nat] /\ failures \in [Counted -> Nat]
        /\ FailureThreshold \in Nat \ {0} /\ MaxTurn \in Nat \ {0}
    BY NoticingNumbers, BqAssumption DEF TypeOK, Job
  <1>1. /\ Polls(fp) \in Nat /\ Polls(fp + 1) = Polls(fp) + PollGap
        /\ Polls(fp + 1) \in Nat
        /\ Delay(ka) \in Nat /\ Delay(ka + 1) = Delay(ka) + MaxTurn
        /\ Delay(ka + 1) \in Nat
    BY <1>0, NoticingNumbers
  <1>2. /\ \A n : Polls(n)' = Polls(n') /\ Delay(n)' = Delay(n')
        /\ PollGap' = PollGap
    BY DEF Polls, Delay, PollGap
  <1>3. CASE /\ UNCHANGED <<age, failures, bqState, device, deadFor>>
             /\ pc \in {"therm", "can", "volt"}
             /\ pc' \in {"therm", "can", "volt"}
    BY <1>3 DEF Noticing, Polls, PollGap, Delay, Snapshots, Job
  <1>4. CASE ThermTask \/ CanTask \/ LeaveAlone
    BY <1>3, <1>4 DEF ThermTask, CanTask, BmsBroadcast, NoBroadcast, LeaveAlone,
                      codeVars, envVars
  <1>5. CASE DeviceDies
    BY <1>5 DEF DeviceDies, codeVars, Noticing, Polls, PollGap, Delay, Snapshots
  <1>6. CASE UNCHANGED vars
    BY <1>6 DEF vars, codeVars, envVars, Noticing, Polls, PollGap, Delay, Snapshots
  <1>7. CASE ForceDisable
    BY <1>7 DEF ForceDisable, Disable, envVars, Noticing, Snapshots
  <1>8. CASE BlockingStartup
    <2>1. /\ pc = "startup" /\ pc' = "therm" /\ deadFor' = deadFor /\ deadFor = 0
          /\ age' = age /\ failures' = failures /\ device' = device
      BY <1>8 DEF BlockingStartup, envVars, Noticing
    <2> QED
      BY <1>0, <1>1, <2>1 DEF Noticing, Polls, PollGap, Delay, Snapshots
  <1>9. ASSUME NEW elapsed \in 0..MaxTurn, StartService(elapsed)
        PROVE  Noticing'
    <2>1. /\ pc = "volt" /\ pc' = "keepAlive" /\ failures' = failures
          /\ bqState = "READY" /\ bqState' = "READY" /\ device' = device
          /\ age'["faultPoll"] = age["faultPoll"] + elapsed
          /\ deadFor' = IF device = "dead" THEN deadFor + elapsed ELSE deadFor
      BY <1>0, <1>9 DEF StartService, Serviceable, Job
    <2>2. /\ deadFor <= Polls(fp) + age["faultPoll"]
          /\ deadFor <= Polls(fp) + (Interval["faultPoll"] - 1) + Delay(ka)
      BY <2>1 DEF Noticing
    <2>3. /\ deadFor' <= Polls(fp) + (age["faultPoll"] + elapsed)
          /\ deadFor' <= Polls(fp) + (Interval["faultPoll"] - 1) + Delay(ka + 1)
      BY <1>0, <1>1, <2>1, <2>2
    <2>4. /\ device' = "alive" => deadFor' = 0
          /\ Polls(fp)' = Polls(fp) /\ Delay(ka + 1)' = Delay(ka + 1)
      BY <2>1 DEF Noticing, Polls, PollGap, Delay
    <2> QED
      BY <2>1, <2>3, <2>4 DEF Noticing, Snapshots
  <1>10. CASE NotDue("keepAlive") \/ CountedSuccess("keepAlive")
    <2>1. /\ pc = "keepAlive" /\ pc' = "faultPoll" /\ bqState = "READY"
          /\ bqState' = bqState /\ device' = device /\ deadFor' = deadFor
          /\ failures'["faultPoll"] = fp /\ age'["faultPoll"] = age["faultPoll"]
      BY <1>0, <1>10 DEF NotDue, CountedSuccess, Stamp, After, codeVars, envVars,
                         Job, Counted, Lifecycle, Servicing
    <2>2. ka + 1 <= FailureThreshold
      BY <1>0, <2>1 DEF CountersTrue, Counted
    <2>3. Delay(ka + 1) <= FailureThreshold * MaxTurn
      BY <1>0, <2>2, DelayGrows DEF Delay
    <2>4. /\ deadFor <= Polls(fp) + age["faultPoll"]
          /\ deadFor <= Polls(fp) + (Interval["faultPoll"] - 1) + Delay(ka + 1)
      BY <2>1 DEF Noticing
    <2>5. PollGap = (Interval["faultPoll"] - 1) + FailureThreshold * MaxTurn
      BY DEF PollGap
    <2>6. FailureThreshold * MaxTurn \in Nat
      BY <1>0
    <2> HIDE DEF fp, ka
    <2>7. deadFor <= Polls(fp + 1)
      BY <1>0, <1>1, <2>3, <2>4, <2>5, <2>6
    <2> USE DEF fp, ka
    <2>8. Polls(fp)' = Polls(fp) /\ Polls(fp + 1)' = Polls(fp + 1)
      BY <2>1 DEF Polls, PollGap
    <2> QED
      BY <2>1, <2>4, <2>7, <2>8 DEF Noticing, Snapshots
  <1>11. CASE NotDue("faultPoll")
    <2>1. /\ pc = "faultPoll" /\ pc' = "faultSnapshot" /\ bqState = "READY"
          /\ UNCHANGED <<bqState, device, deadFor, failures, age>>
          /\ age["faultPoll"] <= Interval["faultPoll"] - 1
      BY <1>0, <1>11 DEF NotDue, Due, After, codeVars, envVars, Job, Lifecycle,
                         Servicing
    <2>2. deadFor <= Polls(fp) + (Interval["faultPoll"] - 1)
      BY <1>0, <1>1, <2>1 DEF Noticing
    <2> QED
      BY <2>1, <2>2 DEF Noticing, Snapshots, Polls, PollGap
  <1>12. CASE device = "alive" /\ CountedSuccess("faultPoll")
    <2>1. /\ pc' = "faultSnapshot" /\ deadFor' = 0 /\ age' \in [Job -> Nat]
          /\ failures' \in [Counted -> Nat]
      BY <1>0, <1>12, TypeStep DEF CountedSuccess, After, envVars, Noticing, TypeOK
    <2>2. /\ failures'["faultPoll"] \in Nat /\ age'["faultPoll"] \in Nat
      BY <2>1 DEF Counted, Job
    <2>3. Polls(failures'["faultPoll"]) \in Nat
      BY <2>2, PollsGrow
    <2>4. Polls(failures["faultPoll"])' = Polls(failures'["faultPoll"])
      BY DEF Polls, PollGap
    <2> QED
      BY <1>0, <2>1, <2>2, <2>3, <2>4 DEF Noticing, Snapshots
  <1>13. CASE CountedFailure("keepAlive")
    <2>1. /\ pc = "keepAlive" /\ pc' = "therm" /\ bqState = "READY"
          /\ device' = device /\ deadFor' = deadFor
          /\ failures'["faultPoll"] = fp /\ failures'["keepAlive"] = ka + 1
          /\ age'["faultPoll"] = age["faultPoll"]
      BY <1>0, <1>13 DEF CountedFailure, Stamp, Lifecycle, Servicing, Job, Counted,
                         envVars
    <2>2. /\ Polls(failures["faultPoll"])' = Polls(fp)
          /\ Delay(failures["keepAlive"])' = Delay(ka + 1)
      BY <2>1 DEF Polls, PollGap, Delay
    <2> QED
      BY <2>1, <2>2 DEF Noticing, Snapshots
  <1>14. CASE CountedFailure("faultPoll")
    <2>1. /\ pc = "faultPoll" /\ pc' = "therm" /\ bqState = "READY"
          /\ device' = device /\ deadFor' = deadFor
          /\ failures'["faultPoll"] = fp + 1 /\ failures'["keepAlive"] = ka
          /\ age'["faultPoll"] = 0
      BY <1>0, <1>14 DEF CountedFailure, Stamp, Lifecycle, Servicing, Job, Counted,
                         envVars
    <2>2. /\ Polls(failures["faultPoll"])' = Polls(fp + 1)
          /\ Delay(failures["keepAlive"])' = Delay(ka)
      BY <2>1 DEF Polls, PollGap, Delay
    <2>3. deadFor <= Polls(fp + 1) /\ (device = "alive" => deadFor = 0)
      BY <2>1 DEF Noticing
    <2> QED
      BY <1>0, <1>1, <2>1, <2>2, <2>3 DEF Noticing, Snapshots
  <1>15. CASE /\ UNCHANGED <<failures, bqState, device, deadFor>>
              /\ pc \in Snapshots /\ age'["faultPoll"] = age["faultPoll"]
              /\ pc' \in {"cellSnapshot", "therm"}
    <2>1. deadFor <= Polls(fp) + (Interval["faultPoll"] - 1)
      BY <1>15 DEF Noticing
    <2>2. deadFor <= Polls(fp) + (Interval["faultPoll"] - 1) + Delay(ka)
      BY <1>0, <1>1, <2>1
    <2>3. Polls(failures["faultPoll"])' = Polls(fp) /\ Delay(failures["keepAlive"])' = Delay(ka)
      BY <1>15 DEF Polls, PollGap, Delay
    <2> QED
      BY <1>15, <2>1, <2>2, <2>3 DEF Noticing, Snapshots
  <1>16. CASE \/ NotDue("faultSnapshot") \/ FaultSnapshot
              \/ NotDue("cellSnapshot") \/ CellSnapshot
    BY <1>0, <1>15, <1>16 DEF NotDue, FaultSnapshot, CellSnapshot, After, Stamp,
                              codeVars, envVars, Snapshots, Job
  <1> QED
    BY <1>4, <1>5, <1>6, <1>7, <1>8, <1>9, <1>10, <1>11, <1>12, <1>13, <1>14, <1>16
       DEF Next, MainLoop, VoltTask, Service, KeepAlive, FaultPoll, Job

(* A device that dies while the monitor counts as READY is given up for    *)
(* lost within FailureThreshold polls, and its voltages are at most        *)
(* DetectionBound ticks old until then.                                    *)
THEOREM DeathDetected == Spec => []DeathDetectedInTime
  <1>1. TypeOK /\ Lifecycle /\ CountersTrue /\ Noticing => DeathDetectedInTime
    <2> SUFFICES ASSUME TypeOK, Lifecycle, CountersTrue, Noticing,
                        bqState # "FAILED"
                 PROVE  deadFor <= DetectionBound
      BY BqAssumption DEF DeathDetectedInTime, DetectionBound, TypeOK, Job
    <2> DEFINE fp == failures["faultPoll"]
               ka == failures["keepAlive"]
    <2>0. /\ deadFor \in Nat /\ fp \in Nat /\ ka \in Nat
          /\ Interval["faultPoll"] - 1 \in Nat
          /\ FailureThreshold \in Nat \ {0} /\ MaxTurn \in Nat \ {0}
          /\ fp < FailureThreshold /\ ka < FailureThreshold
      BY NoticingNumbers, BqAssumption DEF CountersTrue, Counted
    <2>1. /\ Polls(FailureThreshold) = DetectionBound
          /\ Polls(FailureThreshold) \in Nat
      BY <2>0, PollsGrow DEF Polls, PollGap, DetectionBound
    <2>2. CASE pc = "startup"
      BY <2>0, <2>1, <2>2 DEF Noticing
    <2>3. CASE pc # "startup"
      <3>1. bqState = "READY"
        BY <2>3 DEF Lifecycle, TypeOK, State
      <3>2. /\ fp \in Nat /\ fp + 1 \in Nat /\ fp + 1 <= FailureThreshold
            /\ ka \in Nat /\ ka + 1 \in Nat /\ ka + 1 <= FailureThreshold
        BY <2>0
      <3>3. ASSUME NEW n \in Nat, n + 1 \in Nat, n + 1 <= FailureThreshold
            PROVE  /\ Polls(n) \in Nat /\ Polls(n + 1) = Polls(n) + PollGap
                   /\ Polls(n + 1) \in Nat
                   /\ Polls(n + 1) <= Polls(FailureThreshold)
                   /\ Delay(n) \in Nat /\ Delay(n + 1) = Delay(n) + MaxTurn
                   /\ Delay(n + 1) \in Nat
                   /\ Delay(n + 1) <= Delay(FailureThreshold)
                   /\ Delay(n) <= Delay(FailureThreshold)
                   /\ Delay(FailureThreshold) \in Nat
        <4>1. n <= n /\ FailureThreshold \in Nat /\ FailureThreshold <= FailureThreshold
          BY <2>0
        <4>2. /\ Polls(n) \in Nat /\ Polls(n + 1) = Polls(n) + PollGap
              /\ Polls(n + 1) \in Nat /\ Polls(n + 1) <= Polls(FailureThreshold)
          BY <3>3, <4>1, PollsGrow
        <4>3. /\ Delay(n) \in Nat /\ Delay(n + 1) = Delay(n) + MaxTurn
              /\ Delay(n + 1) \in Nat /\ Delay(n + 1) <= Delay(FailureThreshold)
          BY <3>3, <4>1, DelayGrows
        <4>4. n <= FailureThreshold
          BY <3>3, <4>1
        <4>5. Delay(n) <= Delay(FailureThreshold) /\ Delay(FailureThreshold) \in Nat
          BY <4>1, <4>4, DelayGrows
        <4> QED
          BY <4>2, <4>3, <4>5
      <3>4. PollGap = (Interval["faultPoll"] - 1) + Delay(FailureThreshold)
        BY DEF PollGap, Delay
      <3>5. \/ deadFor <= Polls(fp) + (Interval["faultPoll"] - 1) + Delay(ka)
            \/ deadFor <= Polls(fp) + (Interval["faultPoll"] - 1) + Delay(ka + 1)
            \/ deadFor <= Polls(fp + 1)
            \/ deadFor <= Polls(fp) + (Interval["faultPoll"] - 1)
        BY <2>3, <3>1 DEF Noticing, TypeOK, Servicing, Job, Snapshots
      <3> HIDE DEF fp, ka
      <3>6. /\ Polls(fp) \in Nat /\ Polls(fp + 1) = Polls(fp) + PollGap
            /\ Polls(fp + 1) <= Polls(FailureThreshold)
            /\ Delay(FailureThreshold) \in Nat
        BY <3>2, <3>3, Zenon
      <3>7. /\ Delay(ka) \in Nat /\ Delay(ka) <= Delay(FailureThreshold)
            /\ Delay(ka + 1) \in Nat /\ Delay(ka + 1) <= Delay(FailureThreshold)
        BY <3>2, <3>3, Zenon
      <3> QED
        BY <2>0, <2>1, <3>4, <3>5, <3>6, <3>7
    <2> QED
      BY <2>2, <2>3
  <1> QED
    BY <1>1, AlwaysLifecycle, NoticingInit, NoticingStep, PTL DEF Spec
=============================================================================
