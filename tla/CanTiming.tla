----------------------------- MODULE CanTiming -----------------------------
(***************************************************************************)
(* The bit timing of the CAN controller (can.c): CAN_FindTiming searches   *)
(* for a number of time quanta per bit and a prescaler that hit the bit    *)
(* rate exactly; CAN_Comm_Init_kbps falls back on ten quanta and the       *)
(* nearest prescaler.                                                      *)
(***************************************************************************)
EXTENDS Integers, FiniteSetsExt

Clock      == 85000000   \* CAN_FDCAN_KERNEL_CLK_HZ
Quanta     == 8..25      \* CAN_TIMING_TQ_MIN .. CAN_TIMING_TQ_MAX
Prescalers == 1..512     \* CAN_TIMING_PRESC_MIN .. CAN_TIMING_PRESC_MAX
Fallback   == 10         \* CAN_TIMING_FALLBACK_TQ

BitRate(kbps) == kbps * 1000

-----------------------------------------------------------------------------
Hits(kbps, tq, presc) ==
  /\ Clock % (presc * tq) = 0
  /\ Clock \div (presc * tq) = BitRate(kbps)

(* A mistake: an eighth of the bit, which may be nothing.                  *)
Seg2Short(tq) == (tq - 1) \div 8

(* A quarter of the bit, without the sync quantum, follows the sample      *)
(* point.                                                                  *)
Seg2(tq) == Max({1, (tq - 1) \div 4})

Timing(tq, presc) ==
  [presc |-> presc, tq |-> tq, seg1 |-> tq - 1 - Seg2(tq), seg2 |-> Seg2(tq),
   sjw |-> Min({4, Seg2(tq)})]

(* CAN_FindTiming: fewest quanta first, then the smallest prescaler.       *)
Exact(kbps) == {e \in Quanta \X Prescalers : Hits(kbps, e[1], e[2])}

FindTiming(exact) ==
  LET tq == Min({e[1] : e \in exact})
  IN Timing(tq, Min({e[2] : e \in {x \in exact : x[1] = tq}}))

(* A mistake: the prescaler cut off instead of rounded.                    *)
FallbackCut(kbps) == Max({1, Min({512, Clock \div (BitRate(kbps) * Fallback)})})

FallbackPrescaler(kbps) ==
  Max({1, Min({512, (Clock + (BitRate(kbps) * Fallback) \div 2) \div (BitRate(kbps) * Fallback)})})

(* CAN_Comm_Init_kbps.                                                     *)
InitTiming(kbps) ==
  LET exact == Exact(kbps)
  IN IF exact # {} THEN FindTiming(exact) ELSE Timing(Fallback, FallbackPrescaler(kbps))
=============================================================================
