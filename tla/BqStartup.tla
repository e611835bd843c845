------------------------------ MODULE BqStartup ------------------------------
(***************************************************************************)
(* The blocking bring-up of the cell monitor: Volt_RunBlockingStartup      *)
(* (volt.c) and bq79616_try_init with everything it calls (bq79616.c),     *)
(* down to single writes and reads.  Nobody acknowledges a write; a read   *)
(* is answered or times out.  The CAN schedule waits until the bring-up    *)
(* has ended, one way or the other.                                        *)
(*                                                                         *)
(* The monitor starts in SHUTDOWN, as after a power cycle.  The two wake   *)
(* tones bring it to ACTIVE with its faults of power-up latched, and every *)
(* change of its customer registers makes their checksum stale until       *)
(* CUST_CRC is written anew.                                               *)
(***************************************************************************)
EXTENDS Naturals

CONSTANTS
  DeviceAddr,    \* DEVICE_ADDR
  DummyCount     \* the OTP_ECC_DATAIN registers written and read in vain

ASSUME StartupAssumption ==
  /\ DeviceAddr \in 1..63
  /\ DummyCount \in Nat \ {0}

Broadcast == 64   \* no device address: the request goes to everybody

VARIABLES
  step,      \* the transaction the bring-up is about to make
  count,     \* how many of the same kind it has made before it
  outcome,   \* s_bq_state: "pending", "READY" or "FAILED"
  crcFault,  \* CUST_CRC bit of the summary that was read
  dev,       \* the monitor
  lost,      \* history: what the line lost, [answers |-> 0..3, writes |-> BOOLEAN]
  unsent     \* history: a frame the UART did not take

vars == <<step, count, outcome, crcFault, dev, lost, unsent>>

-----------------------------------------------------------------------------
(* The transactions, in the order of the code.  "ok" is the step after a   *)
(* call that returned 0, "fail" the one after any other result; they are   *)
(* the same where the code ignores the result.  "times" repeats a step     *)
(* that returned 0, or whose result is ignored.                            *)

Write(to, reg, ok, fail) ==
  [kind |-> "write", to |-> to, reg |-> reg, times |-> 1, ok |-> ok, fail |-> fail]

Read(to, reg, ok, fail) ==
  [kind |-> "read", to |-> to, reg |-> reg, times |-> 1, ok |-> ok, fail |-> fail]

Repeat(times, transaction) == [transaction EXCEPT !.times = times]

(* bq79616_auto_address_single: its own result is ignored too.  The device *)
(* it means to address is 0.                                               *)
AddressSteps ==
  {"dummyWrite", "enable", "address", "stack", "base", "dummyRead", "commClear"}

AutoAddress(s) ==
  CASE s = "dummyWrite" -> Repeat(DummyCount, Write(Broadcast, "OTP_ECC_DATAIN", "enable", "wake"))
    [] s = "enable"     -> Write(Broadcast, "CONTROL1", "address", "wake")
    [] s = "address"    -> Write(Broadcast, "DIR0_ADDR", "stack", "wake")
    [] s = "stack"      -> Write(Broadcast, "COMM_CTRL", "base", "wake")
    [] s = "base"       -> Write(0, "COMM_CTRL", "dummyRead", "wake")
    [] s = "dummyRead"  -> Repeat(DummyCount, Read(0, "OTP_ECC_DATAIN", "commClear", "commClear"))
    [] s = "commClear"  -> Write(Broadcast, "FAULT_RST2", "wake", "wake")

(* bq79616_init_device after the wake tones, with ResetAllFaults and       *)
(* bq79616_config_main_adc.                                                *)
InitSteps == {"reset", "cells", "conf", "go"}

InitDevice(s) ==
  CASE s = "reset"  -> Write(DeviceAddr, "FAULT_RST1", "cells", "cells")
    [] s = "cells"  -> Write(DeviceAddr, "ACTIVE_CELL", "conf", "FAILED")
    [] s = "conf"   -> Write(DeviceAddr, "ADC_CONF1", "go", "FAILED")
    [] s = "go"     -> Write(DeviceAddr, "ADC_CTRL1", "settle", "FAILED")

(* A mistake: a bring-up that insists on the part number.                  *)
ReadPartIdStrictly == Read(DeviceAddr, "PARTID", "faultSettle", "FAILED")

ReadPartId == Read(DeviceAddr, "PARTID", "faultSettle", "faultSettle")

(* The fault summary is read a second time if need be; first a mistake:    *)
(* it is not.                                                              *)
ReadSummaryOnce == Read(DeviceAddr, "FAULT_SUMMARY", "details", "READY")

ReadSummary == Read(DeviceAddr, "FAULT_SUMMARY", "details", "retry")

(* A mistake: tries without end.                                           *)
RetrySummaryForever == Read(DeviceAddr, "FAULT_SUMMARY", "details", "summary")

RetrySummary == Read(DeviceAddr, "FAULT_SUMMARY", "details", "READY")

(* bq79616_clear_startup_faults; "details" are the reads that are logged.  *)
ClearSteps == {"summary", "retry", "details", "clear1", "clear2", "verify"}

ClearStartupFaults(s) ==
  CASE s = "summary" -> ReadSummary
    [] s = "retry"   -> RetrySummary
    [] s = "details" -> Repeat(10, Read(DeviceAddr, "FAULT_DETAIL", "branch", "branch"))
    [] s = "clear1"  -> Write(DeviceAddr, "FAULT_RST1", "clear2", "READY")
    [] s = "clear2"  -> Write(DeviceAddr, "FAULT_RST2", "verify", "READY")
    [] s = "verify"  -> Read(DeviceAddr, "FAULT_SUMMARY", "READY", "READY")

(* bq79616_update_cust_crc, and the mask its caller falls back on.         *)
CrcSteps == {"crcRead", "crcWrite", "crcClear1", "crcClear2", "mask"}

UpdateCustCrc(s) ==
  CASE s = "crcRead"   -> Read(DeviceAddr, "CUST_CRC_RSLT", "crcWrite", "mask")
    [] s = "crcWrite"  -> Write(DeviceAddr, "CUST_CRC", "crcClear1", "mask")
    [] s = "crcClear1" -> Write(DeviceAddr, "FAULT_RST1", "crcClear2", "crcClear2")
    [] s = "crcClear2" -> Write(DeviceAddr, "FAULT_RST2", "clear1", "clear1")
    [] s = "mask"      -> Write(Broadcast, "FAULT_MSK2", "clear1", "clear1")

Transaction(s) ==
  CASE s \in AddressSteps -> AutoAddress(s)
    [] s \in InitSteps    -> InitDevice(s)
    [] s = "partid"       -> ReadPartId
    [] s \in ClearSteps   -> ClearStartupFaults(s)
    [] s \in CrcSteps     -> UpdateCustCrc(s)

-----------------------------------------------------------------------------
(* The monitor, as far as the bring-up relies on it.                       *)

Asleep ==
  [awake |-> FALSE, addr |-> DeviceAddr, addrWrite |-> FALSE, configured |-> {},
   crcFresh |-> TRUE, masked |-> FALSE, latched |-> {}]

Hears(to) == dev.awake /\ to \in {Broadcast, dev.addr}

(* A stale checksum is noticed by the next pass of the monitor's own check.*)
Checked(d) ==
  IF d.awake /\ ~d.crcFresh THEN [d EXCEPT !.latched = @ \union {"crc"}] ELSE d

Take(reg) ==
  CASE reg = "CONTROL1"   -> [dev EXCEPT !.addrWrite = TRUE]
    [] reg = "DIR0_ADDR"  -> IF dev.addrWrite THEN [dev EXCEPT !.addr = 0] ELSE dev
    [] reg \in {"ACTIVE_CELL", "ADC_CONF1"} ->
         [dev EXCEPT !.configured = @ \union {reg}, !.crcFresh = FALSE]
    [] reg = "ADC_CTRL1"  -> [dev EXCEPT !.configured = @ \union {reg}]
    [] reg = "CUST_CRC"   -> [dev EXCEPT !.crcFresh = TRUE]
    [] reg = "FAULT_RST1" -> [dev EXCEPT !.latched = @ \ {"power"}]
    [] reg = "FAULT_RST2" -> [dev EXCEPT !.latched = @ \ {"comm", "crc"}]
    [] reg = "FAULT_MSK2" -> [dev EXCEPT !.masked = TRUE, !.crcFresh = FALSE]
    [] OTHER              -> dev

(* FAULT_SUMMARY.                                                          *)
Summary == {f \in dev.latched : f = "crc" => ~dev.masked}

-----------------------------------------------------------------------------
Init ==
  /\ outcome = "pending"
  /\ step = "start"
  /\ count = 0
  /\ crcFault = FALSE
  /\ dev = Asleep
  /\ lost = [answers |-> 0, writes |-> FALSE]
  /\ unsent = FALSE

(* Volt_RunBlockingStartup, with the monitor turned on.                    *)
Start ==
  /\ step = "start"
  /\ step' = "dummyWrite"
  /\ UNCHANGED <<count, outcome, crcFault, dev, lost, unsent>>

(* After a transaction: the same again, or on to the given step.           *)
GoOn(next, again) ==
  IF again /\ count + 1 < Transaction(step).times
    THEN step' = step /\ count' = count + 1
    ELSE step' = next /\ count' = 0

Busy == step \in AddressSteps \union InitSteps \union {"partid"} \union ClearSteps \union CrcSteps

(* A frame the UART does not take.                                         *)
NotSent ==
  /\ Busy
  /\ GoOn(Transaction(step).fail, Transaction(step).kind = "read" /\ Transaction(step).ok = Transaction(step).fail)
  /\ unsent' = TRUE
  /\ UNCHANGED <<outcome, crcFault, dev, lost>>

WriteSent ==
  /\ Busy /\ Transaction(step).kind = "write"
  /\ GoOn(Transaction(step).ok, TRUE)
  /\ dev' = IF Hears(Transaction(step).to) THEN Take(Transaction(step).reg) ELSE dev
  /\ UNCHANGED <<outcome, crcFault, lost, unsent>>

(* The line spoils a write: the monitor notes it, the program does not.    *)
WriteLost ==
  /\ Busy /\ Transaction(step).kind = "write" /\ Hears(Transaction(step).to)
  /\ GoOn(Transaction(step).ok, TRUE)
  /\ dev' = [dev EXCEPT !.latched = @ \union {"comm"}]
  /\ lost' = [lost EXCEPT !.writes = TRUE]
  /\ UNCHANGED <<outcome, crcFault, unsent>>

ReadAnswered ==
  /\ Busy /\ Transaction(step).kind = "read" /\ Hears(Transaction(step).to)
  /\ GoOn(Transaction(step).ok, TRUE)
  /\ crcFault' = IF step \in {"summary", "retry"} THEN "crc" \in Summary ELSE crcFault
  /\ UNCHANGED <<outcome, dev, lost, unsent>>

(* Nobody answers, or the answer is lost.                                  *)
ReadTimesOut ==
  /\ Busy /\ Transaction(step).kind = "read"
  /\ GoOn(Transaction(step).fail, Transaction(step).ok = Transaction(step).fail)
  /\ lost' = IF Hears(Transaction(step).to) /\ lost.answers < 3
               THEN [lost EXCEPT !.answers = @ + 1] ELSE lost
  /\ UNCHANGED <<outcome, crcFault, dev, unsent>>

(* bq79616_wake: the tones reset a monitor that hears them; one that is    *)
(* not there, or has no power, does not.                                   *)
Wake ==
  /\ step = "wake"
  /\ dev' \in {dev, [Asleep EXCEPT !.awake = TRUE, !.latched = {"power"}]}
  /\ step' = "reset"
  /\ UNCHANGED <<count, outcome, crcFault, lost, unsent>>

(* The delays for the low-pass filter and before the faults are read, long *)
(* enough for the monitor's check of its customer registers.               *)
Settle ==
  /\ step \in {"settle", "faultSettle"}
  /\ step' = IF step = "settle" THEN "partid" ELSE "summary"
  /\ dev' = Checked(dev)
  /\ UNCHANGED <<count, outcome, crcFault, lost, unsent>>

(* Does the summary show the CUST_CRC fault?                               *)
Branch ==
  /\ step = "branch"
  /\ step' = IF crcFault THEN "crcRead" ELSE "clear1"
  /\ UNCHANGED <<count, outcome, crcFault, dev, lost, unsent>>

Finish ==
  /\ step \in {"READY", "FAILED"} /\ outcome = "pending"
  /\ outcome' = step
  /\ UNCHANGED <<step, count, crcFault, dev, lost, unsent>>

(* The monitor's own check may come at any other time as well.             *)
CrcCheck ==
  /\ dev' = Checked(dev)
  /\ dev' # dev
  /\ UNCHANGED <<step, count, outcome, crcFault, lost, unsent>>

Host ==
  \/ Start \/ NotSent \/ WriteSent \/ WriteLost \/ ReadAnswered \/ ReadTimesOut
  \/ Wake \/ Settle \/ Branch \/ Finish

Next == Host \/ CrcCheck

(* Every call of the bring-up returns: transmissions and receptions have   *)
(* time-outs.                                                              *)
Spec == Init /\ [][Next]_vars /\ WF_vars(Host)

-----------------------------------------------------------------------------
(* The monitor is in service: it answers to the address the service uses,  *)
(* converts with its cells configured, shows no fault that the start-up    *)
(* itself has caused, and will show none at its next check.                *)
Served ==
  /\ dev.addr = DeviceAddr
  /\ dev.configured = {"ACTIVE_CELL", "ADC_CONF1", "ADC_CTRL1"}
  /\ Summary = {}
  /\ dev.crcFresh \/ dev.masked

(* One answer lost on the way, whichever it is, does not spoil the         *)
(* bring-up of a monitor that woke: it ends READY with the monitor in      *)
(* service, by a second try, by the mask, or because the answer was not    *)
(* needed.                                                                 *)
OneLostAnswerTolerated ==
  (/\ outcome # "pending" /\ dev.awake
   /\ lost.answers <= 1 /\ ~lost.writes /\ ~unsent)
  => outcome = "READY" /\ Served

(* The monitor is optional: only a UART that does not transmit makes the   *)
(* bring-up fail, never a monitor that is silent, asleep or not there.     *)
FailedOnlyIfUnsent == outcome = "FAILED" => unsent

(* The CAN schedule is released only after it: the bring-up ends, whatever *)
(* the monitor and the line do.                                            *)
BringUpEnds == <>(outcome # "pending")
===============================================================================
