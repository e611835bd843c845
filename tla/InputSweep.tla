----------------------------- MODULE InputSweep -----------------------------
(***************************************************************************)
(* The two pure computations of the firmware put through all their inputs: *)
(* the thermistor conversion through every reading of the 12-bit           *)
(* converter, from the hottest to the coldest, and the bit timing of the   *)
(* CAN controller through every rate from 1 to MaxRate kbit/s.             *)
(***************************************************************************)
EXTENDS ThermistorTable, CanTiming

CONSTANT MaxRate   \* the highest bit rate considered, in kbit/s

ASSUME RateAssumption == MaxRate \in 1..1000

VARIABLES adc, temp, kbps, timing

vars == <<adc, temp, kbps, timing>>

Init ==
  /\ adc = 0
  /\ temp = ADCToTemp(0)
  /\ kbps = 1
  /\ timing = InitTiming(1)

(* The next reading, and the next rate while there is one.                 *)
Step ==
  /\ adc + 1 \in Reading
  /\ adc' = adc + 1
  /\ temp' = ADCToTemp(adc')
  /\ IF kbps < MaxRate
       THEN kbps' = kbps + 1 /\ timing' = InitTiming(kbps')
       ELSE UNCHANGED <<kbps, timing>>

Next == Step

Spec == Init /\ [][Next]_vars

-----------------------------------------------------------------------------
(* Whatever path the search takes, it ends at the two entries around the   *)
(* reading, and of their temperatures the one nearer to zero is reported:  *)
(* the mean that the code takes of them is cut off there, so the result    *)
(* may be a whole degree off (90 is the table's reading of 84 degrees and  *)
(* yields 83).                                                             *)
(* From the ends on outwards it is the temperature of the end.             *)
WithinBracket ==
  /\ adc <= EntryAdc(0) => temp = EntryTemp(0)
  /\ adc >= EntryAdc(TableSize - 1) => temp = EntryTemp(TableSize - 1)
  /\ \A i \in 0..TableSize - 2 :
       adc > EntryAdc(0) /\ EntryAdc(i) <= adc /\ adc < EntryAdc(i + 1)
         => temp = IF EntryTemp(i) > 0 THEN EntryTemp(i + 1) ELSE EntryTemp(i)

(* A lower reading is never reported as colder, and two neighbouring       *)
(* readings differ by a degree at most: across the table, past its ends    *)
(* and where the rounding changes sides, at zero.                          *)
MonotoneInSmallSteps == [][temp' <= temp /\ temp - temp' <= 1]_vars

(* The controller takes the values: every field is in its range, a bit is  *)
(* made of exactly the quanta asked for, a resynchronisation never jumps   *)
(* past the sample point, and the sample point lies between 75 and 87.5    *)
(* per cent of the bit.                                                    *)
FieldsLegal ==
  LET t == timing
  IN /\ t.presc \in Prescalers
     /\ t.seg1 \in 2..256 /\ t.seg2 \in 1..128
     /\ 1 + t.seg1 + t.seg2 = t.tq
     /\ t.sjw \in 1..t.seg2
     /\ 75 * t.tq <= 100 * (1 + t.seg1) /\ 1000 * (1 + t.seg1) <= 875 * t.tq

(* A rate that some prescaler and some number of quanta hit exactly is hit *)
(* exactly; any other gets the nearest bit time that ten quanta allow.     *)
NearestRate ==
  LET t == timing
      possible == \E tq \in Quanta :
                    85000 % (tq * kbps) = 0 /\ 85000 \div (tq * kbps) \in Prescalers
      error(presc) == LET d == presc * Fallback * kbps - 85000
                      IN IF d < 0 THEN -d ELSE d
  IN IF possible THEN t.presc * t.tq * kbps = 85000
     ELSE t.tq = Fallback /\ \A presc \in Prescalers : error(t.presc) <= error(presc)

(* "high counts = coldest" (thermistor_table.c): from the reading of the   *)
(* coldest entry of the table on, its temperature is reported.             *)
ClampsToColdest ==
  adc >= EntryAdc(Len(TableAdc) - 1) => temp = EntryTemp(Len(TableAdc) - 1)
=============================================================================
