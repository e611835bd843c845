----------------------------- MODULE MCBqStartup -----------------------------
(* Constants of BqStartup for TLC: the address and the eight registers of  *)
(* the code.                                                               *)
EXTENDS BqStartup
==============================================================================
