------------------------------ MODULE EventLog ------------------------------
(***************************************************************************)
(* What the log of server_state promises to the rest of the server: adding *)
(* a message and making a text of the log are each one step, whatever is   *)
(* done to the slots under the mutex.  VotingServer and Dashboard take     *)
(* such blocks as single steps; ServerLog implements this.                 *)
(***************************************************************************)
EXTENDS Naturals, Sequences

CONSTANTS Messages, Width,
          MAX_LOGS,   \* messages the log remembers
          TextSize    \* characters the text has room for, with its final 0

VARIABLES log,        \* the latest messages, oldest first
          screen      \* the text of the log, while it is shown

NoText == [open |-> FALSE, lines |-> <<>>, cut |-> FALSE]

Init == log = <<>> /\ screen = NoText

(* A full log forgets its oldest message.                                  *)
AddLog(m) ==
  /\ log' = Append(IF Len(log) < MAX_LOGS THEN log ELSE Tail(log), m)
  /\ UNCHANGED screen

(* end[j] is where line j, and the newline after it, ends in the text.     *)
Ends(lines, end) ==
  /\ end[0] = 0
  /\ \A j \in 1..Len(lines) : end[j] = end[j - 1] + Width[lines[j]] + 1

(* As many lines as fit are shown, from the oldest on.                     *)
Show ==
  /\ ~screen.open
  /\ \E k \in 0..Len(log) : \E end \in [0..k -> 0..(TextSize - 1)] :
       /\ Ends(SubSeq(log, 1, k), end)
       /\ k < Len(log) => end[k] + Width[log[k + 1]] + 1 >= TextSize
       /\ screen' = [open |-> TRUE, lines |-> SubSeq(log, 1, k),
                     cut |-> k < Len(log)]
  /\ UNCHANGED log

Hide ==
  /\ screen.open
  /\ screen' = NoText
  /\ UNCHANGED log

Next == (\E m \in Messages : AddLog(m)) \/ Show \/ Hide

vars == <<log, screen>>

Spec == Init /\ [][Next]_vars

=============================================================================
