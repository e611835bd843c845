-------------------------- MODULE ThermistorTable --------------------------
(***************************************************************************)
(* Conversion of a 12-bit ADC reading to degrees Celsius: the table and    *)
(* the binary search of thermistor_table.c.                                *)
(***************************************************************************)
EXTENDS Integers, Sequences

(* s_temp_table: the readings of 85, 84, 83 ... degrees.                   *)
TableAdc ==
  << 88,  90,  92,  95,  97,  99, 102, 104, 107, 109, 112, 114, 117, 120, 123,
    126, 129, 132, 135, 139, 142, 145, 149, 152, 156, 160, 163, 167, 171, 176,
    180, 184, 189, 193, 198, 202, 207, 212, 217, 222, 227, 233, 238, 243, 249,
    254, 260, 266, 272, 278, 284, 290, 296, 302, 309, 315, 322, 328, 335, 341,
    348, 355, 361, 368, 375, 382, 389, 396, 403, 410, 417, 424, 431, 438, 444,
    451, 458, 465, 471, 478, 484, 491, 497, 504, 510, 516, 522, 528, 534, 540,
    546, 551, 557, 562, 568, 573, 578, 582, 587, 592, 596, 601, 605, 610, 614,
    618, 621, 625, 629, 632, 635, 639, 642, 645, 648, 650 >>

HottestTemp == 85

TableSize == 115     \* THERMISTOR_TABLE_SIZE

(* The columns of the table, indexed from 0 as in the source.              *)
EntryAdc(i)  == TableAdc[i + 1]
EntryTemp(i) == HottestTemp - i

Reading == 0..4095

(* Integer division of C: the quotient is rounded toward zero.             *)
DivC(a, b) == IF a >= 0 THEN a \div b ELSE -((-a) \div b)

(* A mistake: a reading equal to the middle entry sent to the lower half.  *)
HalveBelow(bracket, adc) ==
  LET mid == (bracket.low + bracket.high) \div 2
  IN IF bracket.high - bracket.low <= 1 THEN bracket
     ELSE IF adc <= EntryAdc(mid) THEN [bracket EXCEPT !.high = mid]
     ELSE [bracket EXCEPT !.low = mid]

(* One turn of the loop of Thermistor_ADCToTemp.                           *)
Halve(bracket, adc) ==
  LET mid == (bracket.low + bracket.high) \div 2
  IN IF bracket.high - bracket.low <= 1 THEN bracket
     ELSE IF adc < EntryAdc(mid) THEN [bracket EXCEPT !.high = mid]
     ELSE [bracket EXCEPT !.low = mid]

(* The loop ends within seven turns: it halves 114 <= 2^7 intervals.       *)
MaxTurns == 7

(* The bracket after each turn, and the entry `low' of the last one.       *)
Search(adc) ==
  LET after[n \in 0..MaxTurns] ==
        IF n = 0 THEN [low |-> 0, high |-> TableSize - 1]
        ELSE Halve(after[n - 1], adc)
  IN after

Bracket(adc) == Search(adc)[MaxTurns].low

(* A mistake: no clamp at the cold end.                                    *)
ADCToTempUnclamped(adc) ==
  IF adc <= EntryAdc(0) \/ adc >= EntryAdc(TableSize - 1) THEN EntryTemp(0)
  ELSE LET low == Bracket(adc)
       IN DivC(EntryTemp(low + 1) + EntryTemp(low), 2)

ADCToTemp(adc) ==
  IF adc <= EntryAdc(0) THEN EntryTemp(0)
  ELSE IF adc >= EntryAdc(TableSize - 1) THEN EntryTemp(TableSize - 1)
  ELSE LET low == Bracket(adc)
       IN DivC(EntryTemp(low + 1) + EntryTemp(low), 2)
=============================================================================
