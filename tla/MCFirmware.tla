----------------------------- MODULE MCFirmware -----------------------------
(* Constants of Firmware for TLC.  Every job of the service is due in a    *)
(* call that comes at least one tick after the last, and not in one that   *)
(* comes sooner; every tick brings a TIM7 interrupt, which may fall before *)
(* or after the call, so two polls of the CAN schedule see none, one or    *)
(* two of them.                                                            *)
EXTENDS Firmware

ShortPeriod ==
  [c \in {"100ms", "200ms", "1000ms"} |-> IF c = "100ms" THEN 1 ELSE 2]

ShortInterval ==
  [j \in {"keepAlive", "faultPoll", "faultSnapshot", "cellSnapshot"} |-> 1]
=============================================================================
