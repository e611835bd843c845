---------------------------- MODULE MCBqService ----------------------------
(* Constants of BqService for TLC.  One tick stands for 40 ms: the         *)
(* keep-alive is due after one, the cell snapshot after two, the fault     *)
(* poll after three and the fault snapshot after four.  The order of the   *)
(* intervals is that of bq79616.h, their ratios are smaller; as in the     *)
(* code, the bring-up takes so long that every job is due at first.        *)
EXTENDS BqService

ShortInterval == [j \in Job |-> CASE j = "keepAlive"     -> 1
                                  [] j = "cellSnapshot"  -> 2
                                  [] j = "faultPoll"     -> 3
                                  [] j = "faultSnapshot" -> 4]
=============================================================================
