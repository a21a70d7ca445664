---------------------------- MODULE MCScheduler -----------------------------
(***************************************************************************)
(* The main loop for TLC, its numbers scaled down: a second of 19 clocks   *)
(* in blocks of 4 (the last of 7) instead of 14318181 in blocks of 1500000 *)
(* (the last of 2318181), a controller that gets 3 clocks for 4, 7 at      *)
(* most, and counters of 5 bits.  As in the program the product that       *)
(* measures the controller's share wraps in the block in which it reaches  *)
(* its rate (the third of four here, the fourth of nine there), and the    *)
(* blocks' truncated times sum up to hardly more than a second.            *)
(***************************************************************************)
EXTENDS Scheduler
=============================================================================
