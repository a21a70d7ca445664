---------------------------- MODULE FDCProtocol -----------------------------
(***************************************************************************)
(* What a driver may rely on: the controller as a machine of four stages.  *)
(* A command is begun by its first word, which fixes how many more words   *)
(* follow; the last word starts its execution, offers its answer, or ends  *)
(* it; an execution ends by itself, a seek with one interrupt and an       *)
(* identification with an answer; and the last word read of an answer      *)
(* makes the controller idle again.  Drives, heads, clocks, and the bits   *)
(* of the status register are no part of the promise.                      *)
(***************************************************************************)
EXTENDS Integers

CONSTANTS
  Seeking,        \* commands whose execution ends with an interrupt
  Identifying,    \* commands whose execution ends with an answer
  Hanging,        \* commands whose execution never ends
  Capturing,      \* commands that take the ports and keep them
  Immediate,      \* commands that have neither execution nor answer
  Answering,      \* commands that answer without execution
  Words(_),       \* how many words configure a command
  Answer(_)       \* ... and how many it answers

VARIABLES stage, command, left, interrupt

pvars == <<stage, command, left, interrupt>>

AllCommands ==
  Seeking \cup Identifying \cup Hanging \cup Capturing \cup Immediate \cup Answering

At(s, c, n, i) == stage' = s /\ command' = c /\ left' = n /\ interrupt' = i

ProtocolInit == stage = "idle" /\ command = "None" /\ left = 0 /\ interrupt = FALSE

\* Where the last word of command c leads; the words may also be ones that end
\* the simulation.
Configured(c) ==
  \/ c \in Seeking \cup Identifying \cup Hanging /\ At("execution", c, 0, FALSE)
  \/ c \in Answering /\ At("result", c, Answer(c), FALSE)
  \/ c \in Immediate /\ At("idle", "None", 0, FALSE)
  \/ c \in Capturing /\ At("captured", c, 0, FALSE)
  \/ At("stopped", "None", 0, FALSE)

\* A word of command c, of which n are still to come, this one included.
Receive(c, n) ==
  IF n > 1 THEN At("configuration", c, n - 1, FALSE) ELSE Configured(c)

Begin == stage = "idle" /\ \E c \in AllCommands : Receive(c, Words(c))

Continue == stage = "configuration" /\ Receive(command, left)

EndSeek ==
  stage = "execution" /\ command \in Seeking /\ At("idle", "None", 0, TRUE)

EndIdentify ==
  /\ stage = "execution" /\ command \in Identifying
  /\ At("result", command, Answer(command), FALSE)

ReadAnswer ==
  /\ stage = "result"
  /\ IF left > 1 THEN At(stage, command, left - 1, FALSE) ELSE At("idle", "None", 0, FALSE)

\* Anything else the controller does withdraws the interrupt request.
Withdraw == At(stage, command, left, FALSE)

ProtocolNext ==
  \/ Begin
  \/ Continue
  \/ EndSeek
  \/ EndIdentify
  \/ ReadAnswer
  \/ Withdraw

ProtocolSafety == ProtocolInit /\ [][ProtocolNext]_pvars

\* An execution that can end does end.
ProtocolSpec == ProtocolSafety /\ WF_pvars(EndSeek \/ EndIdentify)
=============================================================================
