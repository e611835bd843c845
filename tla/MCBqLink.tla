------------------------------ MODULE MCBqLink ------------------------------
(* Constants of BqLink for TLC: a fault register that is polled, the fault *)
(* summary, of one byte as well, and the cell voltages, with two bytes     *)
(* instead of 32.                                                          *)
EXTENDS BqLink

FaultSys     == [reg |-> 1, size |-> 1]
FaultSummary == [reg |-> 2, size |-> 1]
CellVoltages == [reg |-> 3, size |-> 2]

FaultPolls  == {FaultSys}
AllRequests == {FaultSys, FaultSummary, CellVoltages}

AnyGlitch == {"unsent", "lost", "short", "damaged", "init", "late", "noise"}

DamagedInit == {"init"}
=============================================================================
