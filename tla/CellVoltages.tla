---------------------------- MODULE CellVoltages ----------------------------
(***************************************************************************)
(* What the external-voltage frames say: from the cell registers of the    *)
(* monitor, read in one transaction from the highest cell down             *)
(* (bq79616_read_all_cells_with_timeout_, bq79616.c), through the          *)
(* millivolts kept for the bus (CAN_UpdateExternalADCVoltages) to the      *)
(* four frames of four values each (CAN_EncodeExternalADCVoltage,          *)
(* can_messages.c) that are sent one a second.  When they are sent is the  *)
(* subject of CanSchedule; here is what a receiver learns from them.       *)
(***************************************************************************)
EXTENDS Integers, Sequences

CONSTANT Measurements   \* the readings considered: a 16-bit number for each register

RegisterCount == 16   \* BQ_READ_ALL_CELLS_COUNT
CellCount     == 14   \* MAX_VOLTAGE
Frames        == 4    \* EXTERNAL_ADC_VOLTAGE_FRAMES
PerFrame      == 4    \* EXTERNAL_ADC_VOLTAGES_PER_FRAME

Word == 0..65535          \* uint16_t
AsWord(v) == v % 65536

ASSUME MeasurementsAssumption == Measurements \subseteq [1..RegisterCount -> Word]

VARIABLES
  cells,      \* the monitor's registers, by cell
  voltages,   \* voltage_adc_values; empty while num_active is 0
  segment,    \* ext_voltage_segment_rr
  measured,   \* history: the registers behind voltages
  fresh,      \* history: frames sent since voltages changed, up to Frames
  heard       \* history: the receiver's table, in millivolts; -1 before it heard

vars == <<cells, voltages, segment, measured, fresh, heard>>

-----------------------------------------------------------------------------
(* raw[i]: the registers in the order in which they come over the line.    *)
Raw == [i \in 1..RegisterCount |-> cells[RegisterCount + 1 - i]]

(* 190.73 microvolts a count; the product fits the code's 32 bits.         *)
Millivolts(adc) == (adc * 19073) \div 100000

Calibration(cell) == IF cell = 1 THEN 1000 ELSE IF cell = 14 THEN 1300 ELSE 0

(* A mistake: the registers taken in the order of arrival.                 *)
ParsedInOrder(raw) ==
  [n \in 1..RegisterCount |-> AsWord(Millivolts(raw[n]) + Calibration(n))]

(* The i-th value on the line is cell 16 - i + 1.                          *)
Parsed(raw) ==
  [n \in 1..RegisterCount |->
     AsWord(Millivolts(raw[RegisterCount + 1 - n]) + Calibration(n))]

(* A slot of a frame beyond the cells there are is zero.                   *)
Value(n) == IF n <= Len(voltages) THEN voltages[n] ELSE 0

Bytes(value) == <<value % 256, value \div 256>>

(* CAN_EncodeExternalADCVoltage: the two bytes of each of the four slots.  *)
Frame(seg) == [slot \in 1..PerFrame |-> Bytes(Value(seg * PerFrame + slot))]

-----------------------------------------------------------------------------
Init ==
  /\ cells \in Measurements
  /\ voltages = <<>>
  /\ segment = 0
  /\ measured = cells
  /\ fresh = 0
  /\ heard = [n \in 1..Frames * PerFrame |-> -1]

CellsChange ==
  /\ cells' \in Measurements
  /\ UNCHANGED <<voltages, segment, measured, fresh, heard>>

(* A snapshot that succeeds; one that fails changes nothing.               *)
Snapshot ==
  /\ voltages' = SubSeq(Parsed(Raw), 1, CellCount)
  /\ measured' = cells
  /\ fresh' = IF voltages' = voltages THEN fresh ELSE 0
  /\ UNCHANGED <<cells, segment, heard>>

(* A frame that is sent; a receiver knows its segment by its identifier    *)
(* and takes the low byte of a value first.                                *)
SendSegment ==
  /\ voltages # <<>>
  /\ segment' = (segment + 1) % Frames
  /\ heard' = [n \in 1..Frames * PerFrame |->
                 IF (n - 1) \div PerFrame = segment
                   THEN LET b == Frame(segment)[((n - 1) % PerFrame) + 1]
                        IN b[1] + 256 * b[2]
                   ELSE heard[n]]
  /\ fresh' = IF fresh < Frames THEN fresh + 1 ELSE fresh
  /\ UNCHANGED <<cells, voltages, measured>>

Next == CellsChange \/ Snapshot \/ SendSegment

Spec == Init /\ [][Next]_vars

-----------------------------------------------------------------------------
(* A cell's voltage in millivolts, with what the calibration gives the     *)
(* first and the last cell of the pack.                                    *)
VoltageOf(n, registers) ==
  (registers[n] * 19073) \div 100000
    + (IF n = 1 THEN 1000 ELSE IF n = CellCount THEN 1300 ELSE 0)

(* Four frames after the voltages last changed, from whichever segment the *)
(* rotation stood at, a receiver knows the voltage of every cell, each in  *)
(* its own place and from the same snapshot; the slots behind the last     *)
(* cell stay at zero.                                                      *)
PictureSettles ==
  fresh = Frames =>
    /\ \A n \in 1..CellCount : heard[n] = VoltageOf(n, measured)
    /\ \A n \in CellCount + 1..Frames * PerFrame : heard[n] = 0

=============================================================================
