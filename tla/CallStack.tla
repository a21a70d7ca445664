------------------------------ MODULE CallStack -------------------------------
(***************************************************************************)
(* What calls and interrupts promise a program, with no memory and no      *)
(* stack pointer arithmetic in it: a routine that returns goes on in the   *)
(* code it was entered from, with that code's segment and stack pointer,   *)
(* less the arguments it drops, and the return from an interrupt gives     *)
(* back the flags too.  Between entries and returns anything may happen to *)
(* the registers.                                                          *)
(***************************************************************************)
EXTENDS Integers, Sequences

CONSTANT Dropped        \* bytes of arguments a return may drop

VARIABLES cs, ip, sp, flags,
          frames        \* the routines entered and not returned from, innermost first

callVars == <<cs, ip, sp, flags, frames>>

Init == frames = <<>>

\* Where the code that is left goes on: behind the instruction that leaves it or,
\* between two instructions, at the next.
Resumed(kind) == IF kind = "hardware" THEN ip ELSE (ip + 1) % 65536

Enter(kind) ==
  /\ frames' = <<[kind |-> kind, cs |-> cs, ip |-> Resumed(kind), sp |-> sp,
                  flags |-> flags]>> \o frames
  /\ kind \in {"near", "far"} => flags' = flags
  /\ kind = "near" => cs' = cs

Leave(dropped) ==
  /\ frames # <<>>
  /\ LET caller == Head(frames)
     IN  /\ cs' = caller.cs /\ ip' = caller.ip
         /\ sp' = (caller.sp + dropped) % 65536
         /\ flags' = IF caller.kind \in {"near", "far"} THEN flags ELSE caller.flags
  /\ frames' = Tail(frames)

\* A far jump is the only other step to another segment.
Within == frames' = frames

Next ==
  \/ \E kind \in {"near", "far", "INT", "hardware"} : Enter(kind)
  \/ \E dropped \in Dropped : Leave(dropped)
  \/ Within

Spec == Init /\ [][Next]_callVars
=============================================================================
