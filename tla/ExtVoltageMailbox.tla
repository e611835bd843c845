------------------------- MODULE ExtVoltageMailbox -------------------------
(***************************************************************************)
(* What the external cell-voltage broadcast promises, without saying how   *)
(* the timer interrupt and the main loop share the work: every second owes *)
(* the bus one frame, a debt is never larger than Capacity, a frame is     *)
(* handed over only against a debt, and the frames carry the segments of   *)
(* the cell stack in rotation.  Debts of the time before the schedule is   *)
(* released are forgotten, once.                                           *)
(***************************************************************************)
EXTENDS Naturals

CONSTANTS
  Capacity,   \* most debts remembered, a natural number
  Segments    \* frames that make up one picture of the cell stack, positive

VARIABLES
  released,   \* the schedule has been released
  owed,       \* elapsed seconds not yet paid with a frame
  next        \* segment the next frame will carry

vars == <<released, owed, next>>

Init ==
  /\ released = FALSE
  /\ owed = 0
  /\ next = 0

(* A second elapses.                                                       *)
Owe ==
  /\ owed < Capacity
  /\ owed' = owed + 1
  /\ UNCHANGED <<released, next>>

(* The schedule starts from a clean slate.                                 *)
Release ==
  /\ ~released
  /\ released' = TRUE
  /\ owed' = 0
  /\ UNCHANGED next

(* One frame is handed to the bus.                                         *)
Deliver ==
  /\ released
  /\ owed > 0
  /\ owed' = owed - 1
  /\ next' = (next + 1) % Segments
  /\ UNCHANGED released

Next == Owe \/ Release \/ Deliver

Spec == Init /\ [][Next]_vars
=============================================================================
