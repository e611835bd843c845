--------------------------- MODULE BqStartupProofs ---------------------------
(***************************************************************************)
(* Proofs about the bring-up of the cell monitor, for every address of the *)
(* monitor and any number of throw-away accesses.                          *)
(***************************************************************************)
EXTENDS BqStartup, TLAPS

Steps ==
  AddressSteps \union InitSteps \union {"partid"} \union ClearSteps \union CrcSteps
    \union {"start", "wake", "settle", "faultSettle", "branch", "READY", "FAILED"}

Monitor ==
  [awake : BOOLEAN, addr : {DeviceAddr, 0}, addrWrite : BOOLEAN,
   configured : SUBSET {"ACTIVE_CELL", "ADC_CONF1", "ADC_CTRL1"},
   crcFresh : BOOLEAN, masked : BOOLEAN, latched : SUBSET {"power", "comm", "crc"}]

TypeOK ==
  /\ step \in Steps
  /\ count \in Nat
  /\ outcome \in {"pending", "READY", "FAILED"}
  /\ crcFault \in BOOLEAN
  /\ dev \in Monitor
  /\ lost \in [answers : 0..3, writes : BOOLEAN]
  /\ unsent \in BOOLEAN

(* The bring-up ends where its last step says, and nothing but a frame     *)
(* that was not sent leads to FAILED.                                      *)
Ended ==
  /\ outcome # "pending" => outcome = step
  /\ step = "FAILED" => unsent

-----------------------------------------------------------------------------
(* What is known of the monitor at each step, if it woke, nothing it was   *)
(* told was lost and at most one of its answers was.                       *)
Undisturbed == dev.awake /\ lost.answers <= 1 /\ ~lost.writes /\ ~unsent

Woken == [Asleep EXCEPT !.awake = TRUE, !.latched = {"power"}]

(* Set up with the given registers, its checksum stale.                    *)
SetUp(registers) ==
  /\ dev.addr = DeviceAddr /\ ~dev.masked /\ ~dev.crcFresh
  /\ dev.configured = registers /\ dev.latched \subseteq {"crc"}

AllSet == SetUp({"ACTIVE_CELL", "ADC_CONF1", "ADC_CTRL1"})

(* Its checksum renewed, or the fault masked.                              *)
Renewed ==
  /\ dev.addr = DeviceAddr
  /\ dev.configured = {"ACTIVE_CELL", "ADC_CONF1", "ADC_CTRL1"}
  /\ dev.crcFresh \/ dev.masked
  /\ dev.latched \subseteq {"crc"}

Cleared == Renewed /\ (dev.latched = {} \/ dev.masked)

(* A monitor that sleeps stays as it is.                                   *)
Sleeping ==
  /\ ~dev.awake => dev = Asleep
  /\ step \in AddressSteps \union {"start", "wake"} => ~dev.awake

Known ==
  /\ step = "reset" => dev = Woken
  /\ step = "cells" => dev = [Woken EXCEPT !.latched = {}]
  /\ step = "conf" => SetUp({"ACTIVE_CELL"})
  /\ step = "go" => SetUp({"ACTIVE_CELL", "ADC_CONF1"})
  /\ step = "settle" => AllSet
  /\ step \in {"partid", "faultSettle", "summary", "retry", "details", "branch",
               "crcRead", "crcWrite", "mask"} =>
       AllSet /\ dev.latched = {"crc"}
  /\ step = "retry" => lost.answers = 1
  /\ step \in {"details", "branch"} => crcFault
  /\ step \in {"crcClear1", "crcClear2"} => Renewed /\ dev.crcFresh
  /\ step \in {"clear1", "clear2", "verify", "READY"} => Cleared
  /\ step # "FAILED"

Progressing == Sleeping /\ (Undisturbed => Known)

-----------------------------------------------------------------------------
(* The script.                                                             *)
Scripted ==
  AddressSteps \union InitSteps \union {"partid"} \union ClearSteps \union CrcSteps

LEMMA Groups ==
  /\ \A s \in AddressSteps : Transaction(s) = AutoAddress(s)
  /\ \A s \in InitSteps : Transaction(s) = InitDevice(s)
  /\ Transaction("partid") = ReadPartId
  /\ \A s \in ClearSteps : Transaction(s) = ClearStartupFaults(s)
  /\ \A s \in CrcSteps : Transaction(s) = UpdateCustCrc(s)
  BY DEF Transaction, AddressSteps, InitSteps, ClearSteps, CrcSteps

LEMMA AddressScript ==
  /\ Transaction("dummyWrite") =
       Repeat(DummyCount, Write(Broadcast, "OTP_ECC_DATAIN", "enable", "wake"))
  /\ Transaction("enable") = Write(Broadcast, "CONTROL1", "address", "wake")
  /\ Transaction("address") = Write(Broadcast, "DIR0_ADDR", "stack", "wake")
  /\ Transaction("stack") = Write(Broadcast, "COMM_CTRL", "base", "wake")
  /\ Transaction("base") = Write(0, "COMM_CTRL", "dummyRead", "wake")
  /\ Transaction("dummyRead") =
       Repeat(DummyCount, Read(0, "OTP_ECC_DATAIN", "commClear", "commClear"))
  /\ Transaction("commClear") = Write(Broadcast, "FAULT_RST2", "wake", "wake")
  BY Groups DEF AutoAddress, AddressSteps

LEMMA InitScript ==
  /\ Transaction("reset") = Write(DeviceAddr, "FAULT_RST1", "cells", "cells")
  /\ Transaction("cells") = Write(DeviceAddr, "ACTIVE_CELL", "conf", "FAILED")
  /\ Transaction("conf") = Write(DeviceAddr, "ADC_CONF1", "go", "FAILED")
  /\ Transaction("go") = Write(DeviceAddr, "ADC_CTRL1", "settle", "FAILED")
  BY Groups DEF InitDevice, InitSteps

LEMMA PartIdScript ==
  Transaction("partid") = Read(DeviceAddr, "PARTID", "faultSettle", "faultSettle")
  BY Groups DEF ReadPartId

LEMMA ClearScript ==
  /\ Transaction("summary") = Read(DeviceAddr, "FAULT_SUMMARY", "details", "retry")
  /\ Transaction("retry") = Read(DeviceAddr, "FAULT_SUMMARY", "details", "READY")
  /\ Transaction("details") =
       Repeat(10, Read(DeviceAddr, "FAULT_DETAIL", "branch", "branch"))
  /\ Transaction("clear1") = Write(DeviceAddr, "FAULT_RST1", "clear2", "READY")
  /\ Transaction("clear2") = Write(DeviceAddr, "FAULT_RST2", "verify", "READY")
  /\ Transaction("verify") = Read(DeviceAddr, "FAULT_SUMMARY", "READY", "READY")
  BY Groups DEF ClearStartupFaults, ReadSummary, RetrySummary, ClearSteps

LEMMA CrcScript ==
  /\ Transaction("crcRead") = Read(DeviceAddr, "CUST_CRC_RSLT", "crcWrite", "mask")
  /\ Transaction("crcWrite") = Write(DeviceAddr, "CUST_CRC", "crcClear1", "mask")
  /\ Transaction("crcClear1") = Write(DeviceAddr, "FAULT_RST1", "crcClear2", "crcClear2")
  /\ Transaction("crcClear2") = Write(DeviceAddr, "FAULT_RST2", "clear1", "clear1")
  /\ Transaction("mask") = Write(Broadcast, "FAULT_MSK2", "clear1", "clear1")
  BY Groups DEF UpdateCustCrc, CrcSteps

LEMMA TransactionsLead ==
  ASSUME NEW s \in Scripted
  PROVE  /\ Transaction(s).ok \in Steps \ {"FAILED"}
         /\ Transaction(s).fail \in Steps
         /\ Transaction(s).kind \in {"read", "write"}
         /\ Transaction(s).kind = "read" => Transaction(s).fail # "FAILED"
  <1> USE DEF Write, Read, Repeat, Steps, AddressSteps, InitSteps, ClearSteps, CrcSteps
  <1>1. CASE s \in AddressSteps
    BY <1>1, AddressScript
  <1>2. CASE s \in InitSteps
    BY <1>2, InitScript
  <1>3. CASE s = "partid"
    BY <1>3, PartIdScript
  <1>4. CASE s \in ClearSteps
    BY <1>4, ClearScript
  <1>5. CASE s \in CrcSteps
    BY <1>5, CrcScript
  <1> QED
    BY <1>1, <1>2, <1>3, <1>4, <1>5 DEF Scripted

LEMMA InitOK == Init => TypeOK /\ Ended /\ Progressing
  <1> SUFFICES ASSUME Init PROVE TypeOK /\ Ended /\ Progressing
    OBVIOUS
  <1>1. Asleep \in Monitor /\ ~Asleep.awake
    BY DEF Asleep, Monitor
  <1>2. TypeOK
    <2>1. [answers |-> 0, writes |-> FALSE] \in [answers : 0..3, writes : BOOLEAN]
      OBVIOUS
    <2> QED
      BY <1>1, <2>1 DEF Init, TypeOK, Steps
  <1>3. Ended
    BY DEF Init, Ended
  <1>4. Progressing
    BY <1>1 DEF Init, Progressing, Sleeping, Undisturbed
  <1> QED
    BY <1>2, <1>3, <1>4

-----------------------------------------------------------------------------
(* The monitor.                                                            *)
LEMMA Taken ==
  /\ Take("ACTIVE_CELL") =
       [dev EXCEPT !.configured = @ \union {"ACTIVE_CELL"}, !.crcFresh = FALSE]
  /\ Take("ADC_CONF1") =
       [dev EXCEPT !.configured = @ \union {"ADC_CONF1"}, !.crcFresh = FALSE]
  /\ Take("ADC_CTRL1") = [dev EXCEPT !.configured = @ \union {"ADC_CTRL1"}]
  /\ Take("CUST_CRC") = [dev EXCEPT !.crcFresh = TRUE]
  /\ Take("FAULT_RST1") = [dev EXCEPT !.latched = @ \ {"power"}]
  /\ Take("FAULT_RST2") = [dev EXCEPT !.latched = @ \ {"comm", "crc"}]
  /\ Take("FAULT_MSK2") = [dev EXCEPT !.masked = TRUE, !.crcFresh = FALSE]
  BY DEF Take

LEMMA TakeType ==
  ASSUME dev \in Monitor, NEW reg
  PROVE  Take(reg) \in Monitor /\ Take(reg).awake = dev.awake
  BY DEF Take, Monitor

LEMMA CheckedType ==
  ASSUME dev \in Monitor
  PROVE  Checked(dev) \in Monitor /\ Checked(dev).awake = dev.awake
  BY DEF Checked, Monitor

LEMMA WakeType ==
  /\ Asleep \in Monitor /\ ~Asleep.awake
  /\ [Asleep EXCEPT !.awake = TRUE, !.latched = {"power"}] \in Monitor
  BY DEF Asleep, Monitor

LEMMA GoOnLeads ==
  ASSUME NEW next \in Steps, NEW again \in BOOLEAN, TypeOK, GoOn(next, again)
  PROVE  /\ step' \in {step, next} /\ step' \in Steps /\ count' \in Nat
         /\ ~again => step' = next
  BY DEF TypeOK, GoOn

LEMMA TypeStep == TypeOK /\ [Next]_vars => TypeOK'
  <1> SUFFICES ASSUME TypeOK, [Next]_vars PROVE TypeOK'
    OBVIOUS
  <1>0. Busy => step \in Scripted
    BY DEF Busy, Scripted
  <1>1. CASE Start
    BY <1>1 DEF Start, TypeOK, Steps, AddressSteps
  <1>2. CASE NotSent
    <2>1. GoOn(Transaction(step).fail,
               Transaction(step).kind = "read" /\ Transaction(step).ok = Transaction(step).fail)
      BY <1>2 DEF NotSent
    <2>2. step' \in Steps /\ count' \in Nat
      BY <1>0, <1>2, <2>1, TransactionsLead, GoOnLeads DEF NotSent
    <2> QED
      BY <1>2, <2>2 DEF NotSent, TypeOK
  <1>3. CASE WriteSent
    <2>1. step' \in Steps /\ count' \in Nat
      BY <1>0, <1>3, TransactionsLead, GoOnLeads DEF WriteSent
    <2>2. dev' \in Monitor
      BY <1>3, TakeType DEF WriteSent, TypeOK
    <2> QED
      BY <1>3, <2>1, <2>2 DEF WriteSent, TypeOK
  <1>4. CASE WriteLost
    <2>1. step' \in Steps /\ count' \in Nat
      BY <1>0, <1>4, TransactionsLead, GoOnLeads DEF WriteLost
    <2>2. dev' \in Monitor
      BY <1>4 DEF WriteLost, TypeOK, Monitor
    <2>3. lost' \in [answers : 0..3, writes : BOOLEAN]
      BY <1>4 DEF WriteLost, TypeOK
    <2> QED
      BY <1>4, <2>1, <2>2, <2>3 DEF WriteLost, TypeOK
  <1>5. CASE ReadAnswered
    <2>1. step' \in Steps /\ count' \in Nat
      BY <1>0, <1>5, TransactionsLead, GoOnLeads DEF ReadAnswered
    <2>2. crcFault' = crcFault \/ crcFault' = ("crc" \in Summary)
      BY <1>5, Zenon DEF ReadAnswered
    <2>3. ("crc" \in Summary) \in BOOLEAN
      OBVIOUS
    <2>4. crcFault' \in BOOLEAN
      BY <2>2, <2>3, Zenon DEF TypeOK
    <2> QED
      BY <1>5, <2>1, <2>4 DEF ReadAnswered, TypeOK
  <1>6. CASE ReadTimesOut
    <2>1. step' \in Steps /\ count' \in Nat
      BY <1>0, <1>6, TransactionsLead, GoOnLeads DEF ReadTimesOut
    <2>2. lost' \in [answers : 0..3, writes : BOOLEAN]
      BY <1>6 DEF ReadTimesOut, TypeOK
    <2> QED
      BY <1>6, <2>1, <2>2 DEF ReadTimesOut, TypeOK
  <1>7. CASE Wake
    BY <1>7, WakeType DEF Wake, TypeOK, Steps, InitSteps
  <1>8. CASE Settle
    BY <1>8, CheckedType DEF Settle, TypeOK, Steps, ClearSteps
  <1>9. CASE Branch
    BY <1>9 DEF Branch, TypeOK, Steps, ClearSteps, CrcSteps
  <1>10. CASE Finish
    BY <1>10 DEF Finish, TypeOK
  <1>11. CASE CrcCheck
    BY <1>11, CheckedType DEF CrcCheck, TypeOK
  <1>12. CASE UNCHANGED vars
    BY <1>12 DEF vars, TypeOK
  <1> QED
    BY <1>1, <1>2, <1>3, <1>4, <1>5, <1>6, <1>7, <1>8, <1>9, <1>10, <1>11, <1>12
       DEF Next, Host

LEMMA EndedStep == TypeOK /\ Ended /\ [Next]_vars => Ended'
  <1> SUFFICES ASSUME TypeOK, Ended, [Next]_vars PROVE Ended'
    OBVIOUS
  <1>0. Busy => step \in Scripted
    BY DEF Busy, Scripted
  <1>1. step \in Scripted => step \notin {"READY", "FAILED"}
    BY DEF Scripted, AddressSteps, InitSteps, ClearSteps, CrcSteps
  <1>2. CASE NotSent
    BY <1>0, <1>1, <1>2 DEF NotSent, Ended, TypeOK
  <1>3. CASE WriteSent \/ WriteLost \/ ReadAnswered
    <2>1. step' # "FAILED" /\ outcome' = outcome /\ step \in Scripted
      BY <1>0, <1>1, <1>3, TransactionsLead
         DEF WriteSent, WriteLost, ReadAnswered, GoOn
    <2> QED
      BY <1>1, <2>1 DEF Ended, TypeOK
  <1>4. CASE ReadTimesOut
    <2>1. step' # "FAILED" /\ outcome' = outcome /\ step \in Scripted
      BY <1>0, <1>1, <1>4, TransactionsLead DEF ReadTimesOut, GoOn
    <2> QED
      BY <1>1, <2>1 DEF Ended, TypeOK
  <1>5. CASE Start \/ Wake \/ Settle \/ Branch
    BY <1>5 DEF Start, Wake, Settle, Branch, Ended, TypeOK
  <1>6. CASE Finish
    BY <1>6 DEF Finish, Ended
  <1>7. CASE CrcCheck \/ UNCHANGED vars
    BY <1>7 DEF CrcCheck, vars, Ended
  <1> QED
    BY <1>2, <1>3, <1>4, <1>5, <1>6, <1>7 DEF Next, Host

-----------------------------------------------------------------------------
(* A monitor that sleeps stays as it is, and none is awake before the      *)
(* tones.                                                                  *)
LEMMA SleepingStep == TypeOK /\ Sleeping /\ [Next]_vars => Sleeping'
  <1> SUFFICES ASSUME TypeOK, Sleeping, [Next]_vars PROVE Sleeping'
    OBVIOUS
  <1> DEFINE Early == AddressSteps \union {"start", "wake"}
  <1>0. Busy => step \in Scripted
    BY DEF Busy, Scripted
  <1>1. ASSUME step' \in Early => step \in Early, dev'.awake = dev.awake,
               dev.awake \/ dev' = dev
        PROVE  Sleeping'
    BY <1>1 DEF Sleeping
  <1>2. ASSUME step \in Scripted, step \notin AddressSteps
        PROVE  Transaction(step).ok \notin Early /\ Transaction(step).fail \notin Early
    BY <1>2, InitScript, PartIdScript, ClearScript, CrcScript
       DEF Scripted, AddressSteps, InitSteps, ClearSteps, CrcSteps, Write, Read, Repeat
  <1>3. CASE NotSent \/ ReadAnswered \/ ReadTimesOut
    <2>1. dev' = dev /\ step \in Scripted
          /\ step' \in {step, Transaction(step).ok, Transaction(step).fail}
      BY <1>0, <1>3 DEF NotSent, ReadAnswered, ReadTimesOut, GoOn
    <2>2. step' \in Early => step \in Early
      BY <1>2, <2>1
    <2> QED
      BY <1>1, <2>1, <2>2
  <1>4. CASE WriteSent
    <2>1. step \in Scripted /\ step' \in {step, Transaction(step).ok}
      BY <1>0, <1>4 DEF WriteSent, GoOn
    <2>2. step' \in Early => step \in Early
      BY <1>2, <2>1
    <2>3. dev'.awake = dev.awake /\ (dev.awake \/ dev' = dev)
      BY <1>4, TakeType DEF WriteSent, Hears, TypeOK
    <2> QED
      BY <1>1, <2>2, <2>3
  <1>5. CASE WriteLost
    <2>1. step \in Scripted /\ step' \in {step, Transaction(step).ok}
      BY <1>0, <1>5 DEF WriteLost, GoOn
    <2>2. step' \in Early => step \in Early
      BY <1>2, <2>1
    <2>3. dev'.awake = dev.awake /\ dev.awake
      BY <1>5 DEF WriteLost, Hears, TypeOK, Monitor
    <2> QED
      BY <1>1, <2>2, <2>3
  <1>6. CASE Start \/ Branch \/ Finish \/ UNCHANGED vars
    BY <1>1, <1>6 DEF Start, Branch, Finish, vars, AddressSteps
  <1>7. CASE Wake
    <2>1. dev' = dev \/ dev'.awake
      BY <1>7, WakeType DEF Wake, Asleep
    <2>2. step' \notin Early /\ step = "wake"
      BY <1>7 DEF Wake, AddressSteps
    <2> QED
      BY <2>1, <2>2 DEF Sleeping
  <1>8. CASE Settle \/ CrcCheck
    <2>1. step' \in Early => step \in Early
      BY <1>8 DEF Settle, CrcCheck, AddressSteps
    <2>2. dev'.awake = dev.awake /\ (dev.awake \/ dev' = dev)
      BY <1>8, CheckedType DEF Settle, CrcCheck, Checked, TypeOK
    <2> QED
      BY <1>1, <2>1, <2>2
  <1> QED
    BY <1>3, <1>4, <1>5, <1>6, <1>7, <1>8 DEF Next, Host

-----------------------------------------------------------------------------
(* What is known of a monitor that woke.                                   *)

(* Steps made once lead on at the first time.                              *)
LEMMA OnceLeads ==
  ASSUME TypeOK, NEW next, NEW again \in BOOLEAN, GoOn(next, again),
         Transaction(step).times = 1
  PROVE  step' = next
  BY DEF GoOn, TypeOK

(* A write that the monitor takes.                                         *)
LEMMA KnownAfterWrite ==
  ASSUME TypeOK, Sleeping, Undisturbed, Known, WriteSent
  PROVE  Known'
  <1>1. step \in Scripted /\ step \notin AddressSteps /\ Transaction(step).kind = "write"
    BY DEF WriteSent, Busy, Scripted, Sleeping, Undisturbed
  <1>2. step \in {"reset", "cells", "conf", "go", "clear1", "clear2", "crcWrite",
                  "crcClear1", "crcClear2", "mask"}
    BY <1>1, PartIdScript, ClearScript, CrcScript
       DEF Scripted, InitSteps, ClearSteps, CrcSteps, Read, Repeat
  <1>3. Transaction(step).times = 1
    BY <1>2, InitScript, ClearScript, CrcScript DEF Write
  <1>4. step' = Transaction(step).ok
    BY <1>3, OnceLeads DEF WriteSent
  <1>5. dev.addr = DeviceAddr /\ dev.awake
    BY <1>2 DEF Known, Undisturbed, Woken, Asleep, SetUp, AllSet, Renewed, Cleared
  <1>6. dev' = Take(Transaction(step).reg)
    <2>1. Transaction(step).to \in {Broadcast, DeviceAddr}
      BY <1>2, InitScript, ClearScript, CrcScript DEF Write
    <2> QED
      BY <1>5, <2>1 DEF WriteSent, Hears
  <1>7. CASE step = "reset"
    <2>1. step' = "cells" /\ dev' = [dev EXCEPT !.latched = @ \ {"power"}]
      BY <1>4, <1>6, <1>7, InitScript, Taken DEF Write
    <2>2. dev' = [Woken EXCEPT !.latched = {}]
      BY <1>7, <2>1 DEF Known, Woken, Asleep
    <2> QED
      BY <2>1, <2>2 DEF Known, Woken, Asleep
  <1>8. CASE step = "cells"
    <2>1. step' = "conf"
          /\ dev' = [dev EXCEPT !.configured = @ \union {"ACTIVE_CELL"}, !.crcFresh = FALSE]
      BY <1>4, <1>6, <1>8, InitScript, Taken DEF Write
    <2>2. SetUp({"ACTIVE_CELL"})'
      BY <1>8, <2>1 DEF Known, SetUp, Woken, Asleep
    <2> QED
      BY <2>1, <2>2 DEF Known
  <1>9. CASE step = "conf"
    <2>1. step' = "go"
          /\ dev' = [dev EXCEPT !.configured = @ \union {"ADC_CONF1"}, !.crcFresh = FALSE]
      BY <1>4, <1>6, <1>9, InitScript, Taken DEF Write
    <2>2. SetUp({"ACTIVE_CELL", "ADC_CONF1"})'
      BY <1>9, <2>1 DEF Known, SetUp, TypeOK, Monitor
    <2> QED
      BY <2>1, <2>2 DEF Known
  <1>10. CASE step = "go"
    <2>1. step' = "settle" /\ dev' = [dev EXCEPT !.configured = @ \union {"ADC_CTRL1"}]
      BY <1>4, <1>6, <1>10, InitScript, Taken DEF Write
    <2>2. AllSet'
      BY <1>10, <2>1 DEF Known, SetUp, AllSet, TypeOK, Monitor
    <2> QED
      BY <2>1, <2>2 DEF Known
  <1>11. CASE step = "clear1"
    <2>0. Transaction(step).ok = "clear2" /\ Transaction(step).reg = "FAULT_RST1"
      BY <1>11, ClearScript DEF Write
    <2>1. step' = "clear2" /\ dev' = [dev EXCEPT !.latched = @ \ {"power"}]
      BY <1>4, <1>6, <2>0, Taken
    <2>2. Cleared'
      BY <1>11, <2>1 DEF Known, Cleared, Renewed, TypeOK, Monitor
    <2> QED
      BY <2>1, <2>2 DEF Known
  <1>12. CASE step = "clear2"
    <2>0. Transaction(step).ok = "verify" /\ Transaction(step).reg = "FAULT_RST2"
      BY <1>12, ClearScript DEF Write
    <2>1. step' = "verify" /\ dev' = [dev EXCEPT !.latched = @ \ {"comm", "crc"}]
      BY <1>4, <1>6, <2>0, Taken
    <2>2. Cleared'
      BY <1>12, <2>1 DEF Known, Cleared, Renewed, TypeOK, Monitor
    <2> QED
      BY <2>1, <2>2 DEF Known
  <1>13. CASE step = "crcWrite"
    <2>0. Transaction(step).ok = "crcClear1" /\ Transaction(step).reg = "CUST_CRC"
      BY <1>13, CrcScript DEF Write
    <2>1. step' = "crcClear1" /\ dev' = [dev EXCEPT !.crcFresh = TRUE]
      BY <1>4, <1>6, <2>0, Taken
    <2>2. Renewed' /\ dev'.crcFresh
      BY <1>13, <2>1 DEF Known, AllSet, SetUp, Renewed, TypeOK, Monitor
    <2> QED
      BY <2>1, <2>2 DEF Known
  <1>14. CASE step = "crcClear1"
    <2>0. Transaction(step).ok = "crcClear2" /\ Transaction(step).reg = "FAULT_RST1"
      BY <1>14, CrcScript DEF Write
    <2>1. step' = "crcClear2" /\ dev' = [dev EXCEPT !.latched = @ \ {"power"}]
      BY <1>4, <1>6, <2>0, Taken
    <2>2. Renewed' /\ dev'.crcFresh
      BY <1>14, <2>1 DEF Known, Renewed, TypeOK, Monitor
    <2> QED
      BY <2>1, <2>2 DEF Known
  <1>15. CASE step = "crcClear2"
    <2>0. Transaction(step).ok = "clear1" /\ Transaction(step).reg = "FAULT_RST2"
      BY <1>15, CrcScript DEF Write
    <2>1. step' = "clear1" /\ dev' = [dev EXCEPT !.latched = @ \ {"comm", "crc"}]
      BY <1>4, <1>6, <2>0, Taken
    <2>2. Cleared'
      BY <1>15, <2>1 DEF Known, Cleared, Renewed, TypeOK, Monitor
    <2> QED
      BY <2>1, <2>2 DEF Known
  <1>16. CASE step = "mask"
    <2>0. Transaction(step).ok = "clear1" /\ Transaction(step).reg = "FAULT_MSK2"
      BY <1>16, CrcScript DEF Write
    <2>1. step' = "clear1" /\ dev' = [dev EXCEPT !.masked = TRUE, !.crcFresh = FALSE]
      BY <1>4, <1>6, <2>0, Taken
    <2>2. Cleared'
      BY <1>16, <2>1 DEF Known, AllSet, SetUp, Cleared, Renewed, TypeOK, Monitor
    <2> QED
      BY <2>1, <2>2 DEF Known
  <1> QED
    BY <1>2, <1>7, <1>8, <1>9, <1>10, <1>11, <1>12, <1>13, <1>14, <1>15, <1>16

(* A read of a monitor that woke, by where the script goes after it.       *)
LEMMA ReadingSteps ==
  ASSUME Sleeping, dev.awake, Busy, Transaction(step).kind = "read"
  PROVE  step \in {"partid", "summary", "retry", "details", "verify", "crcRead"}
  <1>1. step \in Scripted /\ step \notin AddressSteps
    BY DEF Busy, Scripted, Sleeping
  <1> QED
    BY <1>1, InitScript, ClearScript, CrcScript
       DEF Scripted, InitSteps, ClearSteps, CrcSteps, Write

LEMMA KnownAfterAnswer ==
  ASSUME TypeOK, Sleeping, Undisturbed, Known, ReadAnswered
  PROVE  Known'
  <1>1. step \in {"partid", "summary", "retry", "details", "verify", "crcRead"}
    BY ReadingSteps DEF ReadAnswered, Undisturbed
  <1>2. dev' = dev /\ lost' = lost
    BY DEF ReadAnswered
  <1>3. CASE step \in {"partid", "verify", "crcRead"}
    <2>0. Transaction(step).times = 1
      BY <1>3, PartIdScript, ClearScript, CrcScript DEF Read
    <2>1. step' = Transaction(step).ok
      BY <2>0, OnceLeads DEF ReadAnswered
    <2> QED
      BY <1>2, <1>3, <2>1, PartIdScript, ClearScript, CrcScript
         DEF Read, Known, AllSet, SetUp, Cleared, Renewed
  <1>4. CASE step \in {"summary", "retry"}
    <2>0. Transaction(step).times = 1 /\ Transaction(step).ok = "details"
      BY <1>4, ClearScript DEF Read
    <2>1. step' = "details"
      BY <2>0, OnceLeads DEF ReadAnswered
    <2>2. crcFault'
      BY <1>4 DEF ReadAnswered, Known, AllSet, SetUp, Summary
    <2> QED
      BY <1>2, <1>4, <2>1, <2>2 DEF Known, AllSet, SetUp
  <1>5. CASE step = "details"
    <2>1. step' \in {"details", "branch"} /\ crcFault' = crcFault
      BY <1>5, ClearScript DEF ReadAnswered, GoOn, Read, Repeat
    <2> QED
      BY <1>2, <1>5, <2>1 DEF Known, AllSet, SetUp
  <1> QED
    BY <1>1, <1>3, <1>4, <1>5

(* An answer lost: the first, since only one is.                           *)
LEMMA KnownAfterTimeOut ==
  ASSUME TypeOK, Sleeping, Undisturbed, Undisturbed', Known, ReadTimesOut
  PROVE  Known'
  <1>1. step \in {"partid", "summary", "retry", "details", "verify", "crcRead"}
    BY ReadingSteps DEF ReadTimesOut, Undisturbed
  <1>2. dev' = dev /\ crcFault' = crcFault
    BY DEF ReadTimesOut
  <1>3. lost.answers = 0 /\ lost'.answers = 1
    <2>1. dev.addr = DeviceAddr
      BY <1>1 DEF Known, AllSet, SetUp, Cleared, Renewed
    <2>2. Hears(Transaction(step).to)
      BY <1>1, <2>1, PartIdScript, ClearScript, CrcScript
         DEF Hears, Undisturbed, Read, Repeat
    <2>3. lost.answers < 3 /\ lost'.answers = lost.answers + 1
      BY <2>2 DEF ReadTimesOut, Undisturbed, TypeOK
    <2> QED
      BY <2>3 DEF Undisturbed, TypeOK
  <1>4. CASE step \in {"partid", "verify", "crcRead", "summary"}
    <2>0. Transaction(step).times = 1
      BY <1>4, PartIdScript, ClearScript, CrcScript DEF Read
    <2>1. step' = Transaction(step).fail
      BY <2>0, OnceLeads DEF ReadTimesOut
    <2> QED
      BY <1>2, <1>3, <1>4, <2>1, PartIdScript, ClearScript, CrcScript
         DEF Read, Known, AllSet, SetUp, Cleared, Renewed
  <1>5. CASE step = "retry"
    BY <1>3, <1>5 DEF Known
  <1>6. CASE step = "details"
    <2>1. step' \in {"details", "branch"}
      BY <1>6, ClearScript DEF ReadTimesOut, GoOn, Read, Repeat
    <2> QED
      BY <1>2, <1>6, <2>1 DEF Known, AllSet, SetUp
  <1> QED
    BY <1>1, <1>4, <1>5, <1>6

(* The monitor's own check.                                                *)
LEMMA KnownAfterCheck ==
  ASSUME TypeOK, Undisturbed, Known, dev' = Checked(dev), UNCHANGED lost,
         UNCHANGED crcFault,
         \/ step' = step
         \/ step = "settle" /\ step' = "partid"
         \/ step = "faultSettle" /\ step' = "summary"
  PROVE  Known'
  <1>1. CASE dev.crcFresh
    <2>1. dev' = dev
      BY <1>1 DEF Checked
    <2>2. step \notin {"settle", "faultSettle"} /\ step' = step
      BY <1>1 DEF Known, AllSet, SetUp
    <2> QED
      BY <2>1, <2>2 DEF Known, SetUp, AllSet, Renewed, Cleared
  <1>2. CASE ~dev.crcFresh
    <2>1. dev' = [dev EXCEPT !.latched = @ \union {"crc"}]
      BY <1>2 DEF Checked, Undisturbed
    <2>2. step \notin {"reset", "cells", "crcClear1", "crcClear2"}
      BY <1>2 DEF Known, Woken, Asleep
    <2>3. ASSUME NEW registers, SetUp(registers)
          PROVE  SetUp(registers)' /\ dev'.latched = {"crc"}
      BY <2>1, <2>3 DEF SetUp, TypeOK, Monitor
    <2>4. AllSet => AllSet' /\ dev'.latched = {"crc"}
      BY <2>3 DEF AllSet
    <2>5. ASSUME Cleared PROVE Cleared'
      BY <1>2, <2>1, <2>5 DEF Cleared, Renewed, TypeOK, Monitor
    <2>6. CASE step' = step
      BY <2>2, <2>3, <2>4, <2>5, <2>6 DEF Known
    <2>7. CASE step' # step
      BY <2>4, <2>7 DEF Known
    <2> QED
      BY <2>6, <2>7
  <1> QED
    BY <1>1, <1>2

LEMMA ProgressStep == TypeOK /\ Progressing /\ [Next]_vars => Progressing'
  <1> SUFFICES ASSUME TypeOK, Sleeping, Undisturbed => Known, [Next]_vars, Undisturbed'
               PROVE  Known'
    BY SleepingStep DEF Progressing
  <1>1. CASE Start
    BY <1>1 DEF Start, Known
  <1>2. CASE NotSent \/ WriteLost
    BY <1>2 DEF NotSent, WriteLost, Undisturbed, TypeOK
  <1>3. CASE WriteSent
    <2>1. dev.awake
      BY <1>3, TakeType DEF WriteSent, Undisturbed, TypeOK
    <2>2. Undisturbed
      BY <1>3, <2>1 DEF WriteSent, Undisturbed
    <2> QED
      BY <1>3, <2>2, KnownAfterWrite
  <1>4. CASE ReadAnswered
    <2>1. Undisturbed
      BY <1>4 DEF ReadAnswered, Undisturbed
    <2> QED
      BY <1>4, <2>1, KnownAfterAnswer
  <1>5. CASE ReadTimesOut
    <2>1. Undisturbed
      BY <1>5 DEF ReadTimesOut, Undisturbed, TypeOK
    <2> QED
      BY <1>5, <2>1, KnownAfterTimeOut
  <1>6. CASE Wake
    <2>1. dev' = Woken /\ step' = "reset"
      BY <1>6 DEF Wake, Woken, Sleeping, Undisturbed
    <2> QED
      BY <2>1 DEF Known
  <1>7. CASE Settle \/ CrcCheck
    <2>1. dev.awake
      BY <1>7, CheckedType DEF Settle, CrcCheck, Undisturbed, TypeOK
    <2>2. Undisturbed
      BY <1>7, <2>1 DEF Settle, CrcCheck, Undisturbed
    <2>3. \/ step' = step
          \/ step = "settle" /\ step' = "partid"
          \/ step = "faultSettle" /\ step' = "summary"
      BY <1>7 DEF Settle, CrcCheck
    <2>4. dev' = Checked(dev) /\ UNCHANGED <<lost, crcFault>>
      BY <1>7 DEF Settle, CrcCheck
    <2> QED
      BY <2>2, <2>3, <2>4, KnownAfterCheck
  <1>8. CASE Branch
    <2>1. Undisturbed
      BY <1>8 DEF Branch, Undisturbed
    <2> QED
      BY <1>8, <2>1 DEF Branch, Known, AllSet, SetUp
  <1>9. CASE Finish \/ UNCHANGED vars
    <2>1. UNCHANGED <<step, dev, lost, crcFault, unsent>>
      BY <1>9 DEF Finish, vars
    <2>2. Undisturbed
      BY <2>1 DEF Undisturbed
    <2> QED
      BY <2>1, <2>2 DEF Known, AllSet, SetUp, Renewed, Cleared
  <1> QED
    BY <1>1, <1>2, <1>3, <1>4, <1>5, <1>6, <1>7, <1>8, <1>9 DEF Next, Host

-----------------------------------------------------------------------------
LEMMA Tolerating == TypeOK /\ Ended /\ Progressing => OneLostAnswerTolerated
  <1> SUFFICES ASSUME TypeOK, Ended, Progressing,
                      outcome # "pending", dev.awake,
                      lost.answers <= 1, ~lost.writes, ~unsent
               PROVE  outcome = "READY" /\ Served
    BY DEF OneLostAnswerTolerated
  <1>1. Known
    BY DEF Progressing, Undisturbed
  <1>2. outcome = "READY" /\ step = "READY"
    BY <1>1 DEF Ended, TypeOK, Known
  <1>3. Cleared
    BY <1>1, <1>2 DEF Known
  <1> QED
    BY <1>2, <1>3 DEF Cleared, Renewed, Served, Summary

(* The steps and the monitor keep their types: the script never leads to a *)
(* step there is not, and a command leaves the monitor one it can be.      *)
THEOREM TypeCorrect == Spec => []TypeOK
  <1>1. Init => TypeOK
    BY InitOK
  <1>2. TypeOK /\ [Next]_vars => TypeOK'
    BY TypeStep
  <1> QED
    BY <1>1, <1>2, PTL DEF Spec

(* Only a frame the UART does not take makes the bring-up fail             *)
(* (bq79616_try_init): no silence of the monitor does.                     *)
THEOREM FailedUnsent == Spec => []FailedOnlyIfUnsent
  <1>1. TypeOK /\ Ended => FailedOnlyIfUnsent
    BY DEF Ended, FailedOnlyIfUnsent
  <1> QED
    BY <1>1, InitOK, EndedStep, TypeCorrect, PTL DEF Spec

(* A monitor that woke, and of whose answers at most one was lost, ends up *)
(* in service: its checksum is renewed or masked, and no fault of the      *)
(* start-up is left to show.                                               *)
THEOREM LossTolerated == Spec => []OneLostAnswerTolerated
  BY InitOK, EndedStep, ProgressStep, Tolerating, TypeCorrect, PTL DEF Spec

=============================================================================
