---------------------------- MODULE MCDualReport ----------------------------
(* Constants of DualReport for TLC: three channels, which the emulation    *)
(* splits into a module of two and one of a single channel.  The readings, *)
(* besides the 0 of a failed conversion: the first above the hot threshold *)
(* (66 degrees), and an open circuit at the threshold.  Below zero are the *)
(* overrides.                                                              *)
EXTENDS DualReport

BoundarySamples == {138, 4090}

ColdOverride == {-40}
=============================================================================
