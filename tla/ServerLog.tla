------------------------------ MODULE ServerLog ------------------------------
(***************************************************************************)
(* The event log of server_state: add_log of models/server_state.c, called *)
(* by every thread, and the copy of the log into a text that the main      *)
(* thread makes for the dashboard.  VotingServer takes a block under the   *)
(* mutex as one step; here the mutex and the steps inside are explicit.    *)
(***************************************************************************)
EXTENDS Naturals, Sequences

CONSTANTS Threads,    \* the threads of the server, each may call add_log
          Main,       \* the one that runs the dashboard
          NoOwner,    \* the mutex is free
          Messages,   \* what is logged
          NoMessage,  \* a slot never written
          Width,      \* Width[m]: characters of message m
          MAX_LOGS,   \* 200 in the code
          TextSize,   \* room for the lines of the log in the window's text
          MaxEvents   \* bound: messages logged

ASSUME NamesAssumption == /\ Main \in Threads
                          /\ NoOwner \notin Threads
                          /\ NoMessage \notin Messages
ASSUME WidthAssumption == Width \in [Messages -> Nat]
ASSUME LogSizesAssumption == /\ MAX_LOGS \in Nat \ {0}
                             /\ TextSize \in Nat \ {0}
                             /\ MaxEvents \in Nat

(***************************************************************************)
(* TextSize is 8192 for collect_logs_text.  show_logs_popup then puts a    *)
(* header before the lines and cuts both to 8192 again; what is left of    *)
(* the lines is what a copy into 8192 less the length of the header would  *)
(* have left.  So one number stands for both cuts.                         *)
(***************************************************************************)

VARIABLES mutex,      \* the thread that holds server_state_mutex
          logs,       \* logs[1..MAX_LOGS]
          log_count,
          pc,         \* pc[t]: where thread t is, "run" outside these calls
          msg,        \* msg[t]: the message t logs
          i,          \* i[t]: the loop index of t, counted from 1
          text,       \* what the main thread has copied
          history,    \* every message logged, in order (ghost)
          before      \* Len(history) when the last copy was asked (ghost)

vars == <<mutex, logs, log_count, pc, msg, i, text, history, before>>

Slots == 1..MAX_LOGS

(* lines: whole lines copied.  used: characters they take.  full: the next *)
(* line did not fit.                                                       *)
EmptyText == [lines |-> <<>>, used |-> 0, full |-> FALSE]

Init ==
  /\ mutex = NoOwner
  /\ logs = [k \in Slots |-> NoMessage]
  /\ log_count = 0
  /\ pc = [t \in Threads |-> "run"]
  /\ msg = [t \in Threads |-> NoMessage]
  /\ i = [t \in Threads |-> 1]
  /\ text = EmptyText
  /\ history = <<>>
  /\ before = 0

-----------------------------------------------------------------------------
(* add_log.                                                                *)

AddLog(t, m) ==
  /\ pc[t] = "run"
  /\ Len(history) < MaxEvents
  /\ pc' = [pc EXCEPT ![t] = "lock"]
  /\ msg' = [msg EXCEPT ![t] = m]
  /\ UNCHANGED <<mutex, logs, log_count, i, text, history, before>>

Lock(t) ==
  /\ pc[t] = "lock"
  /\ mutex = NoOwner
  /\ mutex' = t
  /\ pc' = [pc EXCEPT ![t] = IF log_count >= MAX_LOGS THEN "shift"
                             ELSE "write"]
  /\ i' = [i EXCEPT ![t] = 2]
  /\ UNCHANGED <<logs, log_count, msg, text, history, before>>

(* One iteration of the memmove loop.                                      *)
ShiftSlot(t) ==
  /\ pc[t] = "shift"
  /\ i[t] <= MAX_LOGS
  /\ logs' = [logs EXCEPT ![i[t] - 1] = logs[i[t]]]
  /\ i' = [i EXCEPT ![t] = @ + 1]
  /\ UNCHANGED <<mutex, log_count, pc, msg, text, history, before>>

(* Faulty variant: the loop stops one slot early.                          *)
ShiftEndEarly(t) ==
  /\ pc[t] = "shift"
  /\ i[t] >= MAX_LOGS
  /\ log_count' = log_count - 1
  /\ pc' = [pc EXCEPT ![t] = "write"]
  /\ UNCHANGED <<mutex, logs, msg, i, text, history, before>>

(* Faulty variant: log_count is not decremented.                           *)
ShiftEndKeepsCount(t) ==
  /\ pc[t] = "shift"
  /\ i[t] > MAX_LOGS
  /\ pc' = [pc EXCEPT ![t] = "write"]
  /\ UNCHANGED <<mutex, logs, log_count, msg, i, text, history, before>>

ShiftEnd(t) ==
  /\ pc[t] = "shift"
  /\ i[t] > MAX_LOGS
  /\ log_count' = log_count - 1
  /\ pc' = [pc EXCEPT ![t] = "write"]
  /\ UNCHANGED <<mutex, logs, msg, i, text, history, before>>

(* snprintf into the next slot, and log_count++.                           *)
Write(t) ==
  /\ pc[t] = "write"
  /\ logs' = [logs EXCEPT ![log_count + 1] = msg[t]]
  /\ log_count' = log_count + 1
  /\ history' = Append(history, msg[t])
  /\ pc' = [pc EXCEPT ![t] = "unlock"]
  /\ UNCHANGED <<mutex, msg, i, text, before>>

Unlock(t) ==
  /\ pc[t] = "unlock"
  /\ mutex' = NoOwner
  /\ pc' = [pc EXCEPT ![t] = "run"]
  /\ UNCHANGED <<logs, log_count, msg, i, text, history, before>>

-----------------------------------------------------------------------------
(* collect_logs_text, and the same loop in update_dashboard_text.          *)

CollectLogs ==
  /\ pc[Main] = "run"
  /\ pc' = [pc EXCEPT ![Main] = "collect"]
  /\ text' = EmptyText
  /\ before' = Len(history)
  /\ UNCHANGED <<mutex, logs, log_count, msg, i, history>>

CollectLock ==
  /\ pc[Main] = "collect"
  /\ mutex = NoOwner
  /\ mutex' = Main
  /\ pc' = [pc EXCEPT ![Main] = "copy"]
  /\ i' = [i EXCEPT ![Main] = 1]
  /\ UNCHANGED <<logs, log_count, msg, text, history, before>>

(* "%s\n" of the next message fits with its terminating 0.                 *)
Fits(m) == text.used + Width[m] + 1 < TextSize

CopyLine ==
  /\ pc[Main] = "copy"
  /\ i[Main] <= log_count
  /\ Fits(logs[i[Main]])
  /\ text' = [lines |-> Append(text.lines, logs[i[Main]]),
              used |-> text.used + Width[logs[i[Main]]] + 1, full |-> FALSE]
  /\ i' = [i EXCEPT ![Main] = @ + 1]
  /\ UNCHANGED <<mutex, logs, log_count, pc, msg, history, before>>

(* Faulty variant: a return instead of the break.                          *)
CopyFullReturns ==
  /\ pc[Main] = "copy"
  /\ i[Main] <= log_count
  /\ ~Fits(logs[i[Main]])
  /\ text' = [text EXCEPT !.full = TRUE]
  /\ pc' = [pc EXCEPT ![Main] = "run"]
  /\ UNCHANGED <<mutex, logs, log_count, msg, i, history, before>>

(* Faulty variant: the line is left out and the loop goes on.              *)
CopyFullSkips ==
  /\ pc[Main] = "copy"
  /\ i[Main] <= log_count
  /\ ~Fits(logs[i[Main]])
  /\ i' = [i EXCEPT ![Main] = @ + 1]
  /\ UNCHANGED <<mutex, logs, log_count, pc, msg, text, history, before>>

(* The break: the line is cut, or left out when no character of it fits.   *)
CopyFull ==
  /\ pc[Main] = "copy"
  /\ i[Main] <= log_count
  /\ ~Fits(logs[i[Main]])
  /\ text' = [text EXCEPT !.full = TRUE]
  /\ pc' = [pc EXCEPT ![Main] = "release"]
  /\ UNCHANGED <<mutex, logs, log_count, msg, i, history, before>>

CopyEnd ==
  /\ pc[Main] = "copy"
  /\ i[Main] > log_count
  /\ pc' = [pc EXCEPT ![Main] = "release"]
  /\ UNCHANGED <<mutex, logs, log_count, msg, i, text, history, before>>

Release ==
  /\ pc[Main] = "release"
  /\ mutex' = NoOwner
  /\ pc' = [pc EXCEPT ![Main] = "show"]
  /\ UNCHANGED <<logs, log_count, msg, i, text, history, before>>

(* The window stays on the screen for as long as the operator likes.       *)
Shown ==
  /\ pc[Main] = "show"
  /\ pc' = [pc EXCEPT ![Main] = "run"]
  /\ UNCHANGED <<mutex, logs, log_count, msg, i, text, history, before>>

-----------------------------------------------------------------------------

InAddLog(t) ==
  Lock(t) \/ ShiftSlot(t) \/ ShiftEnd(t) \/ Write(t) \/ Unlock(t)

InCollect == CollectLock \/ CopyLine \/ CopyFull \/ CopyEnd \/ Release

Next == \/ \E t \in Threads : InAddLog(t) \/ \E m \in Messages : AddLog(t, m)
        \/ CollectLogs \/ InCollect \/ Shown

Spec == Init /\ [][Next]_vars

(***************************************************************************)
(* Fairness: the scheduler runs every thread that can run, and the mutex   *)
(* does not starve a waiter for ever: its holders release it after a       *)
(* bounded number of steps (HoldIsShort in ServerLogProofs), and the main  *)
(* thread sleeps between two copies.  Nothing makes a thread log, the main *)
(* thread copy, or an operator close the window (Shown).                   *)
(***************************************************************************)
Fairness == /\ \A t \in Threads : SF_vars(Lock(t)) /\ WF_vars(InAddLog(t))
            /\ SF_vars(CollectLock) /\ WF_vars(InCollect)

FairSpec == Spec /\ Fairness

-----------------------------------------------------------------------------
(* Properties.                                                             *)

Location == {"run", "lock", "shift", "write", "unlock",
             "collect", "copy", "release", "show"}

Text == [lines : Seq(Messages), used : Nat, full : BOOLEAN]

TypeOK ==
  /\ mutex \in Threads \cup {NoOwner}
  /\ logs \in [Slots -> Messages \cup {NoMessage}]
  /\ log_count \in 0..MAX_LOGS
  /\ pc \in [Threads -> Location]
  /\ msg \in [Threads -> Messages \cup {NoMessage}]
  /\ i \in [Threads -> 1..(MAX_LOGS + 1)]
  /\ text \in Text
  /\ history \in Seq(Messages)
  /\ before \in Nat

(***************************************************************************)
(* Whenever no thread is inside add_log, the log is exactly the MAX_LOGS   *)
(* messages logged last, in the order in which they were logged: the shift *)
(* drops the oldest, no other is lost, doubled or out of order, however    *)
(* calls of different threads interleave.                                  *)
(***************************************************************************)
LogIsRecent ==
  mutex \in {NoOwner, Main} /\ pc[Main] \notin {"shift", "write", "unlock"} =>
    /\ log_count = IF Len(history) < MAX_LOGS THEN Len(history) ELSE MAX_LOGS
    /\ \A k \in 1..log_count :
         logs[k] = history[Len(history) - log_count + k]

(* The MAX_LOGS last of the first n messages.                              *)
RecentAt(n) ==
  SubSeq(history, IF n > MAX_LOGS THEN n - MAX_LOGS + 1 ELSE 1, n)

(***************************************************************************)
(* The text on the screen is the log as it was at ONE instant after it was *)
(* asked for: its lines are the first ones of that log, none missing in    *)
(* between, and all of them unless the next one did not fit.               *)
(***************************************************************************)
TextIsSnapshot ==
  pc[Main] = "show" =>
    \E n \in before..Len(history) :
      LET log   == RecentAt(n)
          shown == Len(text.lines)
      IN /\ shown <= Len(log)
         /\ text.lines = SubSeq(log, 1, shown)
         /\ IF text.full THEN shown < Len(log) /\ ~Fits(log[shown + 1])
            ELSE shown = Len(log)

(***************************************************************************)
(* add_log and the copy are atomic to one another: seen from outside, each *)
(* message is added in one step, and the text is made in one step, of as   *)
(* many lines of the log as fit, never past the end of the buffer.         *)
(***************************************************************************)
Atomic == INSTANCE EventLog WITH
  log <- RecentAt(Len(history)),
  screen <- [open |-> pc[Main] = "show",
             lines |-> IF pc[Main] = "show" THEN text.lines ELSE <<>>,
             cut |-> pc[Main] = "show" /\ text.full]

ImplementsEventLog == Atomic!Spec

(* Every call of add_log returns, and every copy gets as far as the window *)
(* with its text, which may stay open for ever: no thread waits for ever   *)
(* for a mutex that another one forgot to release.                         *)
CallsReturn == \A t \in Threads :
  pc[t] \notin {"run", "show"} ~> pc[t] \in {"run", "show"}

=============================================================================
