--------------------------- MODULE MCCanSchedule ---------------------------
(* Constants of CanSchedule for TLC.                                       *)
EXTENDS CanSchedule

(* The real periods of timer.h, with the second shortened from ten         *)
(* interrupts to four: it stays a multiple of the claim period, so that,   *)
(* as in the firmware, every external-voltage event arrives in a slot that *)
(* also owes a claim.                                                      *)
ShortPeriod == [c \in Counter |-> CASE c = "100ms" -> 1
                                    [] c = "200ms" -> 2
                                    [] c = "1000ms" -> 4]

(* The periods of timer.h as they are.                                     *)
RealPeriod == [ShortPeriod EXCEPT !["1000ms"] = 10]
=============================================================================
