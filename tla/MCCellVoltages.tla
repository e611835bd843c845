--------------------------- MODULE MCCellVoltages ---------------------------
(* Constants of CellVoltages for TLC: registers that all differ, rising    *)
(* and falling with the cell, so that no value can pass for another's; all *)
(* at zero; and all at full scale, where two calibrations come on top.     *)
EXTENDS CellVoltages

DistinctMeasurements ==
  { [c \in 1..RegisterCount |-> 18000 + 257 * c],
    [c \in 1..RegisterCount |-> 22500 - 131 * c],
    [c \in 1..RegisterCount |-> 0],
    [c \in 1..RegisterCount |-> 65535] }
=============================================================================
