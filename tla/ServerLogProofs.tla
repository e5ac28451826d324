-------------------------- MODULE ServerLogProofs --------------------------
(***************************************************************************)
(* The log of server_state is the most recent messages, for any threads,   *)
(* messages, size of the log and size of the text; and the text that the   *)
(* main thread makes of it is the log of one instant.                      *)
(***************************************************************************)
EXTENDS ServerLog, SequenceTheorems, TLAPS

(* The statements between lock and unlock.                                 *)
Critical == {"shift", "write", "unlock", "copy", "release"}

(* Only the holder of the mutex is between lock and unlock, and only the   *)
(* main thread copies.                                                     *)
MutexInv ==
  /\ \A t \in Threads : pc[t] \in Critical <=> mutex = t
  /\ \A t \in Threads :
       pc[t] \in {"collect", "copy", "release", "show"} => t = Main
  /\ \A t \in Threads : pc[t] \in {"lock", "shift", "write"}
                         => msg[t] \in Messages

(* The first c slots hold the last c messages.                             *)
HoldsLast(c) == \A k \in 1..c : logs[k] = history[Len(history) - c + k]

Full == IF Len(history) < MAX_LOGS THEN Len(history) ELSE MAX_LOGS

(* Between two calls, and once the message is written.                     *)
Whole == log_count = Full /\ HoldsLast(log_count)

(* During the shift by t: the slots before i[t] - 1 are moved already.     *)
Shifting(t) ==
  /\ Len(history) >= MAX_LOGS
  /\ log_count = MAX_LOGS
  /\ i[t] \in 2..(MAX_LOGS + 1)
  /\ \A k \in Slots :
       logs[k] = history[Len(history) - MAX_LOGS
                         + (IF k < i[t] - 1 THEN k + 1 ELSE k)]

(* There is room for one more message.                                     *)
Room ==
  /\ log_count = IF Len(history) < MAX_LOGS THEN Len(history)
                 ELSE MAX_LOGS - 1
  /\ HoldsLast(log_count)

LogInv ==
  /\ \A t \in Threads : /\ pc[t] = "shift" => Shifting(t)
                        /\ pc[t] = "write" => Room
  /\ (\A t \in Threads : pc[t] \notin {"shift", "write"}) => Whole

IInv == TypeOK /\ MutexInv /\ LogInv

LEMMA InitInv == Init => IInv
<1> SUFFICES ASSUME Init
             PROVE  IInv
  OBVIOUS
<1> USE NamesAssumption, LogSizesAssumption
<1>1. TypeOK
  BY DEF Init, TypeOK, Slots, Location, EmptyText, Text
<1>2. MutexInv
  BY DEF Init, MutexInv, Critical
<1>3. LogInv
  BY DEF Init, LogInv, Whole, Full, HoldsLast
<1>4. QED BY <1>1, <1>2, <1>3 DEF IInv

-----------------------------------------------------------------------------
(* add_log.                                                                *)

(* When nobody holds the mutex, or its holder is not in the middle of      *)
(* add_log, nobody is.                                                     *)
LEMMA WholeWhenIdle ==
  ASSUME IInv, mutex \in Threads => pc[mutex] \notin {"shift", "write"}
  PROVE  Whole
<1>1. \A t \in Threads : pc[t] \notin {"shift", "write"}
  BY DEF IInv, MutexInv, Critical
<1>2. QED BY <1>1 DEF IInv, LogInv

LEMMA AddLogInv ==
  ASSUME IInv, NEW t \in Threads, NEW m \in Messages, AddLog(t, m)
  PROVE  IInv'
<1> USE NamesAssumption, LogSizesAssumption DEF IInv
<1>1. TypeOK'
  BY DEF AddLog, TypeOK, Location
<1>2. MutexInv'
  BY DEF AddLog, MutexInv, Critical, TypeOK
<1>3. LogInv'
  BY DEF AddLog, LogInv, TypeOK, Shifting, Room, Whole, Full, HoldsLast, Slots
<1>4. QED BY <1>1, <1>2, <1>3

LEMMA LockInv ==
  ASSUME IInv, NEW t \in Threads, Lock(t)
  PROVE  IInv'
<1> USE NamesAssumption, LogSizesAssumption DEF IInv
<1>1. Whole
  BY WholeWhenIdle DEF Lock
<1>2. TypeOK'
  BY DEF Lock, TypeOK, Location
<1>3. MutexInv'
  BY DEF Lock, MutexInv, Critical, TypeOK
<1>4. \A u \in Threads : /\ u # t => pc'[u] \notin {"shift", "write"}
                         /\ pc'[t] \in {"shift", "write"}
  BY DEF Lock, MutexInv, Critical, TypeOK
<1>n. /\ Len(history) \in Nat
      /\ log_count \in 0..MAX_LOGS
      /\ i'[t] = 2
      /\ logs' = logs /\ history' = history /\ log_count' = log_count
  BY DEF Lock, TypeOK
<1>w. pc'[t] = IF log_count >= MAX_LOGS THEN "shift" ELSE "write"
  BY DEF Lock, TypeOK
<1>5. ASSUME pc'[t] = "shift"
      PROVE  Shifting(t)'
  <2>1. log_count = MAX_LOGS
    BY <1>5, <1>n, <1>w
  <2>2. Len(history) >= MAX_LOGS
    BY <2>1, <1>1, <1>n DEF Whole, Full
  <2>3. \A k \in Slots : logs[k] = history[Len(history) - MAX_LOGS + k]
    BY <2>1, <1>1 DEF Whole, HoldsLast, Slots
  <2>4. \A k \in Slots : ~ (k < i'[t] - 1)
    BY <1>n DEF Slots
  <2>5. QED BY <2>1, <2>2, <2>3, <2>4, <1>n DEF Shifting, Slots
<1>6. ASSUME pc'[t] = "write"
      PROVE  Room'
  <2>1. log_count < MAX_LOGS
    BY <1>6, <1>n, <1>w
  <2>2. log_count = Len(history) /\ Len(history) < MAX_LOGS
    BY <2>1, <1>1, <1>n DEF Whole, Full
  <2>3. HoldsLast(log_count)'
    BY <1>1, <1>n DEF Whole, HoldsLast
  <2>4. QED BY <2>2, <2>3, <1>n DEF Room
<1>7. LogInv'
  BY <1>4, <1>5, <1>6 DEF LogInv
<1>8. QED BY <1>2, <1>3, <1>7

LEMMA ShiftSlotInv ==
  ASSUME IInv, NEW t \in Threads, ShiftSlot(t)
  PROVE  IInv'
<1> USE NamesAssumption, LogSizesAssumption DEF IInv
<1>1. Shifting(t)
  BY DEF ShiftSlot, LogInv
<1>2. TypeOK'
  BY <1>1 DEF ShiftSlot, TypeOK, Slots, Shifting
<1>3. MutexInv'
  BY DEF ShiftSlot, MutexInv, Critical, TypeOK
<1>4. \A u \in Threads : /\ u # t => pc'[u] \notin {"shift", "write"}
                         /\ pc'[t] = "shift"
  BY DEF ShiftSlot, MutexInv, Critical, TypeOK
<1>5. Shifting(t)'
  <2>1. /\ Len(history) \in Nat
        /\ i[t] \in 2..MAX_LOGS
        /\ i'[t] = i[t] + 1
        /\ history' = history /\ log_count' = log_count
    BY <1>1 DEF ShiftSlot, TypeOK, Shifting
  <2>2. \A k \in Slots : logs'[k] = IF k = i[t] - 1 THEN logs[i[t]] ELSE logs[k]
    BY <2>1 DEF ShiftSlot, TypeOK, Slots
  <2>a. \A k \in Slots :
          /\ k < i[t] - 1 => logs[k] = history[Len(history) - MAX_LOGS + (k + 1)]
          /\ ~ (k < i[t] - 1) => logs[k] = history[Len(history) - MAX_LOGS + k]
    BY <1>1 DEF Shifting
  <2>3. ASSUME NEW k \in Slots
        PROVE  logs'[k] = history[Len(history) - MAX_LOGS
                             + (IF k < i[t] THEN k + 1 ELSE k)]
    <3>1. CASE k = i[t] - 1
      <4>1. logs'[k] = logs[i[t]] /\ k < i[t] /\ k + 1 = i[t] /\ i[t] \in Slots
        BY <3>1, <2>1, <2>2 DEF Slots
      <4>2. logs[i[t]] = history[Len(history) - MAX_LOGS + i[t]]
        BY <4>1, <2>1, <2>a
      <4>3. QED BY <4>1, <4>2
    <3>2. CASE k < i[t] - 1
      BY <3>2, <2>1, <2>2, <2>a DEF Slots
    <3>3. CASE k > i[t] - 1
      BY <3>3, <2>1, <2>2, <2>a DEF Slots
    <3>4. QED BY <3>1, <3>2, <3>3, <2>1 DEF Slots
  <2>4. \A k \in Slots : k < i'[t] - 1 <=> k < i[t]
    BY <2>1 DEF Slots
  <2>5. QED BY <1>1, <2>1, <2>3, <2>4 DEF Shifting
<1>6. LogInv'
  BY <1>4, <1>5 DEF LogInv
<1>7. QED BY <1>2, <1>3, <1>6

LEMMA ShiftEndInv ==
  ASSUME IInv, NEW t \in Threads, ShiftEnd(t)
  PROVE  IInv'
<1> USE NamesAssumption, LogSizesAssumption DEF IInv
<1>1. Shifting(t)
  BY DEF ShiftEnd, LogInv
<1>2. TypeOK'
  BY <1>1 DEF ShiftEnd, TypeOK, Slots, Shifting, Location
<1>3. MutexInv'
  BY DEF ShiftEnd, MutexInv, Critical, TypeOK
<1>4. \A u \in Threads : /\ u # t => pc'[u] \notin {"shift", "write"}
                         /\ pc'[t] = "write"
  BY DEF ShiftEnd, MutexInv, Critical, TypeOK
<1>5. Room'
  BY <1>1 DEF ShiftEnd, TypeOK, Shifting, Room, HoldsLast, Slots
<1>6. LogInv'
  BY <1>4, <1>5 DEF LogInv
<1>7. QED BY <1>2, <1>3, <1>6

LEMMA WriteInv ==
  ASSUME IInv, NEW t \in Threads, Write(t)
  PROVE  IInv'
<1> USE NamesAssumption, LogSizesAssumption DEF IInv
<1>1. Room
  BY DEF Write, LogInv
<1>2. /\ Len(history) \in Nat
      /\ log_count + 1 \in Slots
  BY <1>1 DEF Room, TypeOK, Slots
<1>3. msg[t] \in Messages
  BY DEF Write, MutexInv
<1>4. TypeOK'
  BY <1>2, <1>3 DEF Write, TypeOK, Slots, Location
<1>5. MutexInv'
  BY DEF Write, MutexInv, Critical, TypeOK
<1>6. \A u \in Threads : pc'[u] \notin {"shift", "write"}
  BY DEF Write, MutexInv, Critical, TypeOK
<1>7. /\ Len(history') = Len(history) + 1
      /\ history'[Len(history) + 1] = msg[t]
      /\ \A k \in 1..Len(history) : history'[k] = history[k]
  BY <1>3 DEF Write, TypeOK
<1>8. log_count' = Full'
  BY <1>1, <1>2, <1>7 DEF Write, Room, Full
<1>9. HoldsLast(log_count)'
  <2> DEFINE n == Len(history)
  <2>0. /\ log_count' = log_count + 1
        /\ Len(history') = n + 1
        /\ n \in Nat
        /\ log_count \in Nat
    BY <1>2, <1>7 DEF Write, TypeOK
  <2> HIDE DEF n
  <2>1. SUFFICES \A k \in 1..(log_count + 1) :
                    logs'[k] = history'[n + 1 - (log_count + 1) + k]
    BY <2>0 DEF HoldsLast
  <2> USE DEF n
  <2> TAKE k \in 1..(log_count + 1)
  <2>2. log_count \in Nat /\ log_count <= n
    BY <1>1, <1>2 DEF TypeOK, Room
  <2>3. CASE k = log_count + 1
    <3>1. logs'[k] = msg[t]
      BY <2>3, <1>2 DEF Write, TypeOK
    <3>2. n + 1 - (log_count + 1) + k = n + 1
      BY <2>3, <2>2, <1>2
    <3>3. QED BY <3>1, <3>2, <1>7
  <2>4. CASE k # log_count + 1
    <3>1. k \in 1..log_count /\ k \in Slots
      BY <2>4, <2>2, <1>2 DEF TypeOK, Slots
    <3>2. logs'[k] = logs[k]
      BY <2>4, <3>1 DEF Write, TypeOK
    <3>3. logs[k] = history[n - log_count + k]
      BY <1>1, <3>1 DEF Room, HoldsLast
    <3>4. /\ n - log_count + k \in 1..n
          /\ n + 1 - (log_count + 1) + k = n - log_count + k
      BY <3>1, <2>2, <1>2
    <3>5. QED BY <3>2, <3>3, <3>4, <1>7
  <2>5. QED BY <2>3, <2>4
<1>10. LogInv'
  BY <1>6, <1>8, <1>9 DEF LogInv, Whole
<1>11. QED BY <1>4, <1>5, <1>10

LEMMA UnlockInv ==
  ASSUME IInv, NEW t \in Threads, Unlock(t)
  PROVE  IInv'
<1> USE NamesAssumption, LogSizesAssumption DEF IInv
<1>1. TypeOK'
  BY DEF Unlock, TypeOK, Location
<1>2. MutexInv'
  BY DEF Unlock, MutexInv, Critical, TypeOK
<1>3. LogInv'
  BY DEF Unlock, LogInv, TypeOK, Shifting, Room, Whole, Full, HoldsLast, Slots
<1>4. QED BY <1>1, <1>2, <1>3

-----------------------------------------------------------------------------
(* The copy.                                                               *)

(* A step of the main thread outside add_log that leaves the log alone.    *)
LEMMA LogUntouched ==
  ASSUME IInv, pc[Main] \notin {"shift", "write"},
         \E l \in Location \ {"shift", "write"} : pc' = [pc EXCEPT ![Main] = l],
         UNCHANGED <<logs, log_count, history>>,
         \A t \in Threads \ {Main} : i'[t] = i[t]
  PROVE  LogInv'
<1> USE NamesAssumption, LogSizesAssumption
<1>1. \A t \in Threads : /\ (pc'[t] = "shift") <=> (pc[t] = "shift")
                         /\ (pc'[t] = "write") <=> (pc[t] = "write")
                         /\ pc[t] \in {"shift", "write"} => i'[t] = i[t]
  BY DEF IInv, TypeOK
<1>2. ASSUME NEW t \in Threads, pc'[t] = "shift"
      PROVE  Shifting(t)'
  BY <1>1, <1>2 DEF IInv, LogInv, Shifting
<1>3. ASSUME NEW t \in Threads, pc'[t] = "write"
      PROVE  Room'
  BY <1>1, <1>3 DEF IInv, LogInv, Room, HoldsLast
<1>4. ASSUME \A t \in Threads : pc'[t] \notin {"shift", "write"}
      PROVE  Whole'
  BY <1>1, <1>4 DEF IInv, LogInv, Whole, Full, HoldsLast
<1>5. QED BY <1>2, <1>3, <1>4 DEF LogInv

LEMMA CollectLogsInv == ASSUME IInv, CollectLogs PROVE IInv'
<1> USE NamesAssumption, LogSizesAssumption
<1>1. TypeOK'
  BY DEF IInv, CollectLogs, TypeOK, Location, EmptyText, Text
<1>2. MutexInv'
  BY DEF IInv, CollectLogs, MutexInv, Critical, TypeOK
<1>3. LogInv'
  BY LogUntouched DEF CollectLogs, Location
<1>4. QED BY <1>1, <1>2, <1>3 DEF IInv

LEMMA CollectLockInv == ASSUME IInv, CollectLock PROVE IInv'
<1> USE NamesAssumption, LogSizesAssumption
<1>1. TypeOK'
  BY DEF IInv, CollectLock, TypeOK, Location
<1>2. MutexInv'
  BY DEF IInv, CollectLock, MutexInv, Critical, TypeOK
<1>3. LogInv'
  BY LogUntouched DEF IInv, TypeOK, CollectLock, Location
<1>4. QED BY <1>1, <1>2, <1>3 DEF IInv

(* The slots that are copied hold messages.                                *)
LEMMA CopiedIsMessage ==
  ASSUME IInv, pc[Main] = "copy", i[Main] <= log_count
  PROVE  /\ Whole
         /\ i[Main] \in 1..log_count
         /\ logs[i[Main]] \in Messages
<1> USE NamesAssumption, LogSizesAssumption
<1>1. mutex = Main
  BY DEF IInv, MutexInv, Critical
<1>2. Whole
  BY <1>1, WholeWhenIdle
<1>3. i[Main] \in 1..log_count /\ log_count <= Len(history)
      /\ Len(history) \in Nat /\ log_count \in Nat
  BY <1>2 DEF IInv, TypeOK, Whole, Full
<1>4. logs[i[Main]] = history[Len(history) - log_count + i[Main]]
  BY <1>2, <1>3 DEF Whole, HoldsLast
<1>5. Len(history) - log_count + i[Main] \in 1..Len(history)
  BY <1>3
<1>6. logs[i[Main]] \in Messages
  BY <1>4, <1>5 DEF IInv, TypeOK
<1>7. QED BY <1>2, <1>3, <1>6

LEMMA CopyLineInv == ASSUME IInv, CopyLine PROVE IInv'
<1> USE NamesAssumption, LogSizesAssumption
<1>1. logs[i[Main]] \in Messages /\ i[Main] \in 1..log_count
  BY CopiedIsMessage DEF CopyLine
<1>2. Width[logs[i[Main]]] \in Nat
  BY <1>1, WidthAssumption
<1>3. text' \in Text
  BY <1>1, <1>2 DEF IInv, CopyLine, TypeOK, Text
<1>a. i[Main] + 1 \in 1..(MAX_LOGS + 1)
  BY <1>1 DEF IInv, TypeOK
<1>b. i' \in [Threads -> 1..(MAX_LOGS + 1)]
  BY <1>a DEF IInv, CopyLine, TypeOK
<1>c. UNCHANGED <<mutex, logs, log_count, pc, msg, history, before>>
  BY DEF CopyLine
<1>4. TypeOK'
  BY <1>3, <1>b, <1>c DEF IInv, TypeOK
<1>5. MutexInv'
  BY DEF IInv, CopyLine, MutexInv, Critical, TypeOK
<1>6. pc' = [pc EXCEPT ![Main] = "copy"]
  BY DEF IInv, TypeOK, CopyLine
<1>7. LogInv'
  BY <1>6, LogUntouched DEF IInv, TypeOK, CopyLine, Location
<1>8. QED BY <1>4, <1>5, <1>7 DEF IInv

LEMMA CopyEndsInv == ASSUME IInv, CopyFull \/ CopyEnd PROVE IInv'
<1> USE NamesAssumption, LogSizesAssumption
<1>1. text' \in Text
  BY DEF IInv, CopyFull, CopyEnd, TypeOK, Text
<1>a. pc' \in [Threads -> Location]
  <2>1. pc' = [pc EXCEPT ![Main] = "release"] /\ "release" \in Location
    BY DEF CopyFull, CopyEnd, Location
  <2>2. QED BY <2>1 DEF IInv, TypeOK
<1>b. UNCHANGED <<mutex, logs, log_count, msg, i, history, before>>
  BY DEF CopyFull, CopyEnd
<1>2. TypeOK'
  BY <1>1, <1>a, <1>b DEF IInv, TypeOK
<1>3. MutexInv'
  BY DEF IInv, CopyFull, CopyEnd, MutexInv, Critical, TypeOK
<1>4. LogInv'
  BY LogUntouched DEF CopyFull, CopyEnd, Location
<1>5. QED BY <1>2, <1>3, <1>4 DEF IInv

LEMMA ReleaseInv == ASSUME IInv, Release \/ Shown PROVE IInv'
<1> USE NamesAssumption, LogSizesAssumption
<1>1. TypeOK'
  BY DEF IInv, Release, Shown, TypeOK, Location
<1>2. MutexInv'
  BY DEF IInv, Release, Shown, MutexInv, Critical, TypeOK
<1>3. LogInv'
  BY LogUntouched DEF Release, Shown, Location
<1>4. QED BY <1>1, <1>2, <1>3 DEF IInv

-----------------------------------------------------------------------------

LEMMA NextInv == IInv /\ [Next]_vars => IInv'
<1> SUFFICES ASSUME IInv, [Next]_vars
             PROVE  IInv'
  OBVIOUS
<1>1. ASSUME NEW t \in Threads, InAddLog(t) PROVE IInv'
  BY <1>1, LockInv, ShiftSlotInv, ShiftEndInv, WriteInv, UnlockInv
     DEF InAddLog
<1>2. ASSUME NEW t \in Threads, NEW m \in Messages, AddLog(t, m) PROVE IInv'
  BY <1>2, AddLogInv
<1>3. ASSUME CollectLogs PROVE IInv'
  BY <1>3, CollectLogsInv
<1>4. ASSUME InCollect \/ Shown PROVE IInv'
  BY <1>4, CollectLockInv, CopyLineInv, CopyEndsInv, ReleaseInv DEF InCollect
<1>5. ASSUME UNCHANGED vars PROVE IInv'
  <2> USE <1>5 DEF IInv, vars
  <2>1. TypeOK'
    BY DEF TypeOK
  <2>2. MutexInv'
    BY DEF MutexInv
  <2>3. LogInv'
    BY DEF LogInv, Shifting, Room, Whole, Full, HoldsLast
  <2>4. QED BY <2>1, <2>2, <2>3
<1>6. QED BY <1>1, <1>2, <1>3, <1>4, <1>5 DEF Next

(* Mutual exclusion and the state of the shift hold at every step of       *)
(* add_log and of the copy.                                                *)
THEOREM LogInvariant == Spec => []IInv
BY InitInv, NextInv, PTL DEF Spec

(* The types of server_state and of every local of add_log and of the copy *)
(* (server_state.c, dashboard.c), whatever threads do.                     *)
THEOREM LogTypeCorrect == Spec => []TypeOK
BY LogInvariant, PTL DEF IInv

(* When no thread is inside add_log, the log is the MAX_LOGS messages      *)
(* logged last, in order (server_state.c:26-54).                           *)
THEOREM LogRecent == Spec => []LogIsRecent
<1>1. ASSUME IInv PROVE LogIsRecent
  <2>1. SUFFICES ASSUME mutex \in {NoOwner, Main},
                        pc[Main] \notin {"shift", "write", "unlock"}
                 PROVE  Whole
    BY DEF LogIsRecent, Whole, Full, HoldsLast
  <2>2. QED BY <1>1, <2>1, WholeWhenIdle, NamesAssumption
<1>2. QED BY <1>1, LogInvariant, PTL

-----------------------------------------------------------------------------
(***************************************************************************)
(* The text.  The copy happens under the mutex, so that the log it copies  *)
(* is the log of one length n of the history, and what is copied stays a   *)
(* piece of the history however long that grows.                           *)
(***************************************************************************)
Size(n) == IF n > MAX_LOGS THEN MAX_LOGS ELSE n

CopyOf(n) ==
  /\ Len(text.lines) <= Size(n)
  /\ \A k \in 1..Len(text.lines) :
       text.lines[k] = history[n - Size(n) + k]

Snapshot(n) ==
  /\ CopyOf(n)
  /\ IF text.full
     THEN /\ Len(text.lines) < Size(n)
          /\ ~Fits(history[n - Size(n) + (Len(text.lines) + 1)])
     ELSE Len(text.lines) = Size(n)

TextInv ==
  /\ before <= Len(history)
  /\ pc[Main] = "collect" => text = EmptyText
  /\ pc[Main] = "copy" =>
       /\ Len(text.lines) = i[Main] - 1
       /\ text.full = FALSE
       /\ CopyOf(Len(history))
  /\ pc[Main] \in {"release", "show"} =>
       \E n \in before..Len(history) : Snapshot(n)

(* While the main thread copies, the log is whole and nobody changes it.   *)
LEMMA CopyingWhole ==
  ASSUME IInv, pc[Main] = "copy"
  PROVE  /\ log_count = Size(Len(history))
         /\ \A k \in 1..log_count :
              logs[k] = history[Len(history) - log_count + k]
<1>1. mutex = Main
  BY NamesAssumption DEF IInv, MutexInv, Critical
<1>2. Whole
  BY <1>1, WholeWhenIdle, NamesAssumption
<1>3. Len(history) \in Nat /\ MAX_LOGS \in Nat
  BY LogSizesAssumption DEF IInv, TypeOK
<1>4. Full = Size(Len(history))
  BY <1>3 DEF Full, Size
<1>5. QED BY <1>2, <1>4 DEF Whole, HoldsLast

(* A step that leaves the text alone, and the history but for its end.     *)
LEMMA TextUntouched ==
  ASSUME IInv, TextInv, UNCHANGED <<text, before>>,
         Len(history') \in Nat, Len(history') >= Len(history),
         \A k \in 1..Len(history) : history'[k] = history[k],
         pc[Main] \in {"collect", "copy", "release", "show"} =>
           pc'[Main] = pc[Main],
         pc[Main] \notin {"collect", "copy", "release", "show"} =>
           pc'[Main] \notin {"collect", "copy", "release", "show"},
         pc[Main] = "copy" => history' = history /\ i'[Main] = i[Main]
  PROVE  TextInv'
<1>1. /\ before \in Nat /\ Len(history) \in Nat /\ Len(text.lines) \in Nat
      /\ MAX_LOGS \in Nat
  BY LogSizesAssumption DEF IInv, TypeOK, Text
<1>2. before' <= Len(history')
  BY <1>1 DEF TextInv
<1>3. pc'[Main] = "copy" =>
        /\ Len(text'.lines) = i'[Main] - 1
        /\ text'.full = FALSE
        /\ CopyOf(Len(history))'
  BY DEF TextInv, CopyOf, Size
<1>4. ASSUME pc'[Main] \in {"release", "show"}
      PROVE  \E n \in before'..Len(history') : Snapshot(n)'
  <2>1. PICK n \in before..Len(history) : Snapshot(n)
    BY <1>4 DEF TextInv
  <2>2. n \in before'..Len(history') /\ n \in Nat
    BY <1>1
  <2>3. ASSUME NEW k \in 1..Size(n)
        PROVE  history'[n - Size(n) + k] = history[n - Size(n) + k]
    <3>1. n - Size(n) + k \in 1..Len(history)
      BY <1>1, <2>2 DEF Size
    <3>2. QED BY <3>1
  <2>4. Size(n) \in Nat
    BY <1>1, <2>2 DEF Size
  <2>5. CopyOf(n)'
    BY <1>1, <2>1, <2>3, <2>4 DEF Snapshot, CopyOf, Size
  <2>6. text.full => /\ Len(text.lines) + 1 \in 1..Size(n)
                     /\ ~Fits(history'[n - Size(n) + (Len(text.lines) + 1)])
    BY <1>1, <2>1, <2>3, <2>4 DEF Snapshot, CopyOf
  <2>7. Snapshot(n)'
    BY <1>1, <2>1, <2>4, <2>5, <2>6 DEF Snapshot, Fits, Size
  <2>8. QED BY <2>2, <2>7
<1>5. pc'[Main] = "collect" => text' = EmptyText
  BY DEF TextInv
<1>6. QED BY <1>2, <1>3, <1>4, <1>5 DEF TextInv, EmptyText

LEMMA AddLogText ==
  ASSUME IInv, TextInv, NEW t \in Threads,
         InAddLog(t) \/ \E m \in Messages : AddLog(t, m)
  PROVE  TextInv'
<1>1. UNCHANGED <<text, before>>
  BY DEF InAddLog, Lock, ShiftSlot, ShiftEnd, Write, Unlock, AddLog
<1>2. Len(history) \in Nat
  BY DEF IInv, TypeOK
<1>3. /\ Len(history') \in Nat /\ Len(history') >= Len(history)
      /\ \A k \in 1..Len(history) : history'[k] = history[k]
  <2>1. CASE Write(t)
    <3>1. msg[t] \in Messages /\ history \in Seq(Messages)
      BY <2>1 DEF Write, IInv, MutexInv, TypeOK
    <3>2. QED BY <2>1, <3>1 DEF Write
  <2>2. CASE ~Write(t)
    <3>1. history' = history
      BY <2>2 DEF InAddLog, Lock, ShiftSlot, ShiftEnd, Unlock, AddLog
    <3>2. QED BY <1>2, <3>1
  <2>3. QED BY <2>1, <2>2
<1>4. /\ pc \in [Threads -> Location] /\ Main \in Threads
      /\ i \in [Threads -> 1..(MAX_LOGS + 1)]
  BY NamesAssumption DEF IInv, TypeOK
<1>5. /\ pc[t] \in {"run", "lock", "shift", "write", "unlock"}
      /\ \E l \in {"run", "lock", "shift", "write", "unlock"} :
           pc' = [pc EXCEPT ![t] = l]
  <2>1. CASE ShiftSlot(t)
    <3>1. pc' = [pc EXCEPT ![t] = "shift"]
      BY <1>4, <2>1 DEF ShiftSlot
    <3>2. QED BY <2>1, <3>1 DEF ShiftSlot
  <2>2. CASE Lock(t)
    BY <2>2 DEF Lock
  <2>3. CASE ~ShiftSlot(t) /\ ~Lock(t)
    BY <2>3 DEF InAddLog, ShiftEnd, Write, Unlock, AddLog
  <2>4. QED BY <2>1, <2>2, <2>3
<1>6. ASSUME pc[Main] \in {"collect", "copy", "release", "show"}
      PROVE  pc'[Main] = pc[Main] /\ t # Main
  BY <1>4, <1>5, <1>6
<1>7. ASSUME pc[Main] \notin {"collect", "copy", "release", "show"}
      PROVE  pc'[Main] \notin {"collect", "copy", "release", "show"}
  BY <1>4, <1>5, <1>7
<1>8. ASSUME pc[Main] = "copy"
      PROVE  history' = history /\ i'[Main] = i[Main]
  <2>1. t # Main /\ mutex = Main
    BY <1>6, <1>8, <1>4 DEF IInv, MutexInv, Critical
  <2>2. pc[t] \notin {"shift", "write", "unlock"}
    BY <2>1 DEF IInv, MutexInv, Critical
  <2>3. QED BY <1>4, <2>1, <2>2 DEF InAddLog, Lock, ShiftSlot, ShiftEnd,
        Write, Unlock, AddLog
<1>9. QED BY <1>1, <1>3, <1>6, <1>7, <1>8, TextUntouched

(* The steps of the copy.                                                  *)
LEMMA CollectText ==
  ASSUME IInv, TextInv, CollectLogs \/ CollectLock
  PROVE  TextInv'
<1>1. /\ Len(history) \in Nat /\ log_count \in Nat
      /\ Main \in Threads /\ pc \in [Threads -> Location]
      /\ i \in [Threads -> 1..(MAX_LOGS + 1)]
      /\ history' = history
  BY NamesAssumption DEF IInv, TypeOK, CollectLogs, CollectLock
<1>2. CASE CollectLogs
  <2>1. pc'[Main] = "collect" /\ text' = EmptyText /\ before' = Len(history)
    BY <1>1, <1>2 DEF CollectLogs
  <2>2. QED BY <1>1, <2>1 DEF TextInv, EmptyText
<1>3. CASE CollectLock
  <2>1. /\ pc'[Main] = "copy" /\ text' = EmptyText /\ before' = before
        /\ i'[Main] = 1
    BY <1>1, <1>3 DEF CollectLock, TextInv
  <2>2. Len(EmptyText.lines) = 0 /\ EmptyText.full = FALSE
    BY DEF EmptyText
  <2>3. CopyOf(Len(history))'
    BY <1>1, <2>1, <2>2, LogSizesAssumption DEF CopyOf, Size
  <2>4. QED BY <1>1, <2>1, <2>2, <2>3 DEF TextInv
<1>4. QED BY <1>2, <1>3

LEMMA CopyLineText == ASSUME IInv, TextInv, CopyLine PROVE TextInv'
<1> DEFINE n == Len(history)
           line == logs[i[Main]]
<1>1. /\ n \in Nat /\ Main \in Threads
      /\ i \in [Threads -> 1..(MAX_LOGS + 1)]
      /\ pc[Main] = "copy" /\ i[Main] <= log_count
  BY NamesAssumption DEF IInv, TypeOK, CopyLine
<1>2. /\ UNCHANGED <<pc, history, before>>
      /\ text'.lines = Append(text.lines, line) /\ text'.full = FALSE
      /\ i'[Main] = i[Main] + 1
  BY <1>1 DEF CopyLine
<1>3. line \in Messages /\ i[Main] \in 1..log_count
  BY <1>1, CopiedIsMessage
<1>4. log_count = Size(n) /\ line = history[n - log_count + i[Main]]
  BY <1>1, <1>3, CopyingWhole
<1>5. /\ text.lines \in Seq(Messages) /\ Len(text.lines) = i[Main] - 1
      /\ CopyOf(n)
  BY <1>1 DEF IInv, TypeOK, Text, TextInv
<1>6. /\ Len(text'.lines) = i[Main]
      /\ text'.lines[i[Main]] = line
      /\ \A k \in 1..(i[Main] - 1) : text'.lines[k] = text.lines[k]
  BY <1>2, <1>3, <1>5
<1>7. ASSUME NEW k \in 1..i[Main]
      PROVE  text'.lines[k] = history[n - Size(n) + k]
  <2>1. CASE k = i[Main]
    BY <1>4, <1>6, <2>1
  <2>2. CASE k # i[Main]
    <3>1. k \in 1..(i[Main] - 1)
      BY <1>1, <2>2
    <3>2. QED BY <1>5, <1>6, <3>1 DEF CopyOf
  <2>3. QED BY <2>1, <2>2
<1>8. CopyOf(n)'
  BY <1>1, <1>2, <1>4, <1>6, <1>7 DEF CopyOf, Size
<1>9. QED BY <1>1, <1>2, <1>6, <1>8 DEF TextInv

(* The copy ends with a line that does not fit, or with the last.          *)
LEMMA CopyEndsSnapshot ==
  ASSUME IInv, TextInv, CopyFull \/ CopyEnd, NEW n, n = Len(history)
  PROVE  Snapshot(n)'
<1>1. /\ n \in Nat /\ log_count \in Nat
      /\ Main \in Threads /\ i \in [Threads -> 1..(MAX_LOGS + 1)]
      /\ pc[Main] = "copy" /\ text \in Text
  BY NamesAssumption DEF IInv, TypeOK, CopyFull, CopyEnd
<1>2. UNCHANGED history
  BY DEF CopyFull, CopyEnd
<1>3. /\ Len(text.lines) = i[Main] - 1 /\ text.full = FALSE /\ CopyOf(n)
      /\ log_count = Size(n)
  BY <1>1, CopyingWhole DEF TextInv
<1>4. CASE CopyFull
  <2>1. /\ text'.lines = text.lines /\ text'.used = text.used
        /\ text'.full = TRUE
        /\ i[Main] <= log_count /\ ~Fits(logs[i[Main]])
    BY <1>1, <1>4 DEF CopyFull, Text
  <2>2. i[Main] \in 1..log_count /\ i[Main] = Len(text.lines) + 1
    BY <1>1, <1>3, <2>1
  <2>3. logs[i[Main]] = history[n - Size(n) + (Len(text.lines) + 1)]
    BY <1>1, <1>3, <2>2, CopyingWhole
  <2>4. Len(text.lines) < Size(n)
    BY <1>1, <1>3, <2>1
  <2>5. QED
    BY <1>2, <1>3, <2>1, <2>3, <2>4 DEF Snapshot, CopyOf, Fits, Size
<1>5. CASE CopyEnd
  <2>1. text' = text /\ i[Main] > log_count
    BY <1>5 DEF CopyEnd
  <2>2. Len(text.lines) = Size(n)
    BY <1>1, <1>3, <2>1 DEF CopyOf
  <2>3. QED BY <1>2, <1>3, <2>1, <2>2 DEF Snapshot, CopyOf, Size
<1>6. QED BY <1>4, <1>5

LEMMA CopyEndsText == ASSUME IInv, TextInv, CopyFull \/ CopyEnd PROVE TextInv'
<1>1. /\ UNCHANGED <<history, before>> /\ pc'[Main] = "release"
      /\ before \in Nat /\ Len(history) \in Nat /\ before <= Len(history)
  BY NamesAssumption DEF IInv, TypeOK, TextInv, CopyFull, CopyEnd
<1>2. PICK n \in before..Len(history) : n = Len(history)
  BY <1>1
<1>3. n \in before'..Len(history') /\ Snapshot(n)'
  BY <1>1, <1>2, CopyEndsSnapshot
<1>4. QED BY <1>1, <1>3 DEF TextInv

LEMMA ShownText == ASSUME IInv, TextInv, Release \/ Shown PROVE TextInv'
<1>1. /\ UNCHANGED <<history, before, text>>
      /\ pc[Main] \in {"release", "show"} /\ pc'[Main] \in {"show", "run"}
  BY NamesAssumption DEF IInv, TypeOK, Release, Shown
<1>2. ASSUME NEW n, Snapshot(n) PROVE Snapshot(n)'
  BY <1>1, <1>2 DEF Snapshot, CopyOf, Fits, Size
<1>3. QED BY <1>1, <1>2 DEF TextInv

LEMMA NextText == ASSUME IInv, TextInv, [Next]_vars PROVE TextInv'
<1>1. CASE UNCHANGED vars
  BY <1>1 DEF vars, TextInv, CopyOf, Snapshot, Fits, Size
<1>2. QED BY <1>1, AddLogText, CollectText, CopyLineText, CopyEndsText,
      ShownText DEF Next, InCollect

(* The MAX_LOGS last of the first n members of a sequence.                 *)
Last(s, n) == SubSeq(s, IF n > MAX_LOGS THEN n - MAX_LOGS + 1 ELSE 1, n)

LEMMA LastMembers ==
  ASSUME NEW s \in Seq(Messages), NEW n \in Nat, n <= Len(s),
         MAX_LOGS \in Nat
  PROVE  /\ Last(s, n) \in Seq(Messages) /\ Len(Last(s, n)) = Size(n)
         /\ \A k \in 1..Size(n) : Last(s, n)[k] = s[n - Size(n) + k]
<1> DEFINE first == n - Size(n) + 1
<1>1. /\ first \in Int /\ n \in Int /\ Size(n) \in Nat /\ Size(n) <= n
      /\ \A k \in first..n : s[k] \in Messages
      /\ n - first + 1 = Size(n)
  BY DEF Size
<1>2. Last(s, n) = SubSeq(s, first, n)
  BY <1>1 DEF Last, Size
<1>3. /\ SubSeq(s, first, n) \in Seq(Messages)
      /\ Len(SubSeq(s, first, n)) = IF first <= n THEN n - first + 1 ELSE 0
      /\ \A k \in 1..(n - first + 1) :
           SubSeq(s, first, n)[k] = s[first + k - 1]
  BY <1>1, SubSeqProperties
<1>4. ASSUME NEW k \in 1..Size(n)
      PROVE  first + k - 1 = n - Size(n) + k
  BY <1>1
<1>5. (IF first <= n THEN n - first + 1 ELSE 0) = Size(n)
  BY <1>1
<1>6. QED BY <1>1, <1>2, <1>3, <1>4, <1>5

(* The same of history.                                                    *)
LEMMA RecentElements ==
  ASSUME IInv, NEW n \in Nat, n <= Len(history)
  PROVE  /\ RecentAt(n) \in Seq(Messages) /\ Len(RecentAt(n)) = Size(n)
         /\ \A k \in 1..Size(n) : RecentAt(n)[k] = history[n - Size(n) + k]
BY LastMembers, LogSizesAssumption DEF RecentAt, Last, IInv, TypeOK

(* A snapshot, told with pieces of sequences.                              *)
LEMMA SnapshotIsPrefix ==
  ASSUME IInv, NEW n \in before..Len(history), Snapshot(n)
  PROVE  LET log   == RecentAt(n)
             shown == Len(text.lines)
         IN /\ shown <= Len(log)
            /\ text.lines = SubSeq(log, 1, shown)
            /\ IF text.full THEN shown < Len(log) /\ ~Fits(log[shown + 1])
               ELSE shown = Len(log)
<1> DEFINE log == RecentAt(n)
           shown == Len(text.lines)
<1>1. /\ n \in Nat /\ n <= Len(history) /\ Len(history) \in Nat
      /\ Size(n) \in Nat /\ Size(n) <= n /\ shown \in Nat
      /\ history \in Seq(Messages) /\ text.lines \in Seq(Messages)
  BY LogSizesAssumption DEF IInv, TypeOK, Text, Size
<1>3. /\ log \in Seq(Messages) /\ Len(log) = Size(n)
      /\ \A k \in 1..Size(n) : log[k] = history[n - Size(n) + k]
  BY <1>1, RecentElements
<1> HIDE DEF log
<1>4. shown <= Size(n)
      /\ \A k \in 1..shown : text.lines[k] = history[n - Size(n) + k]
  BY DEF Snapshot, CopyOf
<1>5. text.lines = SubSeq(log, 1, shown)
  <2>1. \A k \in 1..shown : log[k] \in Messages
    BY <1>1, <1>3, <1>4
  <2>2. /\ SubSeq(log, 1, shown) \in Seq(Messages)
        /\ Len(SubSeq(log, 1, shown)) = shown
        /\ \A k \in 1..shown : SubSeq(log, 1, shown)[k] = log[k]
    BY <1>1, <2>1, SubSeqProperties
  <2>3. \A k \in 1..shown : text.lines[k] = SubSeq(log, 1, shown)[k]
    BY <1>1, <1>3, <1>4, <2>2
  <2>4. QED BY <1>1, <2>2, <2>3, SeqEqual
<1>6. IF text.full THEN shown < Len(log) /\ ~Fits(log[shown + 1])
      ELSE shown = Len(log)
  BY <1>1, <1>3 DEF Snapshot
<1>7. QED BY <1>3, <1>4, <1>5, <1>6 DEF log

(* What the dashboard shows is the log of one instant after it was asked   *)
(* for, whole or cut at its end, however often threads log meanwhile       *)
(* (dashboard.c:83-136).                                                   *)
THEOREM TextOfOneInstant == Spec => []TextIsSnapshot
<1>1. Init => TextInv
  BY NamesAssumption DEF Init, TextInv
<1>2. IInv /\ TextInv /\ [Next]_vars => TextInv'
  BY NextText
<1>3. IInv /\ TextInv => TextIsSnapshot
  BY SnapshotIsPrefix DEF TextInv, TextIsSnapshot
<1>4. QED BY <1>1, <1>2, <1>3, LogInvariant, PTL DEF Spec

-----------------------------------------------------------------------------
(***************************************************************************)
(* add_log and the copy are one step each: the steps that matter are Write *)
(* and Release, and the invariants of the loops say that what was done     *)
(* under the mutex amounts to the one step of EventLog.                    *)
(***************************************************************************)

Copying == {"collect", "copy", "release", "show"}

(* Where the lines copied so far end in the text, the last at used.        *)
Fills(copied, end) ==
  /\ Atomic!Ends(copied.lines, end)
  /\ end[Len(copied.lines)] = copied.used

BufferInv ==
  pc[Main] \in Copying =>
    \E end \in [0..Len(text.lines) -> 0..(TextSize - 1)] : Fills(text, end)

(* The copy is of the log as it still is when the mutex is given back.     *)
CopiedInv ==
  pc[Main] = "release" => \E n \in Nat : n = Len(history) /\ Snapshot(n)

AtomInv == BufferInv /\ CopiedInv

(* A step that leaves the text alone does not begin a copy.                *)
LEMMA BufferUntouched ==
  ASSUME BufferInv, UNCHANGED text, pc'[Main] \in Copying => pc[Main] \in Copying
  PROVE  BufferInv'
BY DEF BufferInv, Fills, Atomic!Ends

(* add_log is no step of the copy, and what it does under the mutex is not *)
(* done while the main thread holds it.                                    *)
LEMMA AddLogAside ==
  ASSUME IInv, NEW t \in Threads,
         InAddLog(t) \/ \E m \in Messages : AddLog(t, m)
  PROVE  /\ UNCHANGED <<text, before>>
         /\ pc[Main] \in Copying => pc'[Main] = pc[Main]
         /\ pc[Main] \notin Copying => pc'[Main] \notin Copying
         /\ pc[Main] = "release" => UNCHANGED history
<1>1. UNCHANGED <<text, before>>
  BY DEF InAddLog, Lock, ShiftSlot, ShiftEnd, Write, Unlock, AddLog
<1>2. pc \in [Threads -> Location] /\ Main \in Threads
  BY NamesAssumption DEF IInv, TypeOK
<1>3. /\ pc[t] \notin Copying
      /\ pc' = pc \/ \E l \in Location \ Copying : pc' = [pc EXCEPT ![t] = l]
  BY <1>2 DEF InAddLog, Lock, ShiftSlot, ShiftEnd, Write, Unlock, AddLog,
     Location, Copying
<1>4. pc[Main] = "release" => UNCHANGED history
  <2>1. pc[Main] = "release" => mutex = Main /\ t # Main
    BY <1>2, <1>3 DEF IInv, MutexInv, Critical, Copying
  <2>2. pc[Main] = "release" => pc[t] # "write"
    BY <2>1 DEF IInv, MutexInv, Critical
  <2>3. QED BY <2>2 DEF InAddLog, Lock, ShiftSlot, ShiftEnd, Write, Unlock,
        AddLog
<1>5. QED BY <1>1, <1>2, <1>3, <1>4

LEMMA AddLogAtom ==
  ASSUME IInv, AtomInv, NEW t \in Threads,
         InAddLog(t) \/ \E m \in Messages : AddLog(t, m)
  PROVE  AtomInv'
<1>1. BufferInv'
  BY AddLogAside, BufferUntouched DEF AtomInv
<1>2. CopiedInv'
  BY AddLogAside
     DEF AtomInv, CopiedInv, Copying, Snapshot, CopyOf, Fits, Size
<1>3. QED BY <1>1, <1>2 DEF AtomInv

LEMMA CollectAtom ==
  ASSUME IInv, AtomInv, CollectLogs \/ CollectLock \/ Release \/ Shown
  PROVE  AtomInv'
<1>1. pc \in [Threads -> Location] /\ Main \in Threads
  BY NamesAssumption DEF IInv, TypeOK
<1>2. CASE CollectLogs
  <2>1. text' = EmptyText /\ pc'[Main] = "collect"
    BY <1>1, <1>2 DEF CollectLogs
  <2> DEFINE end == [j \in 0..0 |-> 0]
  <2>2. end \in [0..0 -> 0..(TextSize - 1)] /\ end[0] = 0
    BY LogSizesAssumption
  <2>3. Len(text'.lines) = 0 /\ text'.used = 0
    BY <2>1 DEF EmptyText
  <2>4. Fills(text', end)
    BY <2>2, <2>3 DEF Fills, Atomic!Ends
  <2>5. QED BY <2>1, <2>2, <2>3, <2>4 DEF AtomInv, BufferInv, CopiedInv
<1>3. CASE CollectLock \/ Release \/ Shown
  <2>1. /\ UNCHANGED text /\ pc'[Main] # "release"
        /\ pc'[Main] \in Copying => pc[Main] \in Copying
    BY <1>1, <1>3 DEF CollectLock, Release, Shown, Copying
  <2>2. QED BY <2>1, BufferUntouched DEF AtomInv, CopiedInv
<1>4. QED BY <1>2, <1>3

(* A line is copied behind the others, where it fits.                      *)
LEMMA CopyLineAtom ==
  ASSUME IInv, TextInv, AtomInv, CopyLine
  PROVE  AtomInv'
<1> DEFINE n == Len(text.lines)
           line == logs[i[Main]]
<1>1. /\ pc[Main] = "copy" /\ pc' = pc
      /\ Fits(line)
      /\ text'.lines = Append(text.lines, line)
      /\ text'.used = text.used + Width[line] + 1
  BY DEF CopyLine
<1>2. /\ line \in Messages /\ Width[line] \in Nat
      /\ text.lines \in Seq(Messages) /\ text.used \in Nat
      /\ n \in Nat /\ TextSize \in Nat
  BY <1>1, CopiedIsMessage, WidthAssumption, LogSizesAssumption
     DEF CopyLine, IInv, TypeOK, Text
<1>3. /\ Len(text'.lines) = n + 1 /\ text'.lines[n + 1] = line
      /\ \A j \in 1..n : text'.lines[j] = text.lines[j]
  BY <1>1, <1>2
<1>4. PICK end \in [0..n -> 0..(TextSize - 1)] : Fills(text, end)
  BY <1>1 DEF AtomInv, BufferInv, Copying
<1> DEFINE more == [j \in 0..(n + 1) |-> IF j = n + 1 THEN text'.used ELSE end[j]]
<1> HIDE DEF n, line
<1>5. text'.used \in 0..(TextSize - 1)
  BY <1>1, <1>2 DEF Fits
<1>6. more \in [0..(n + 1) -> 0..(TextSize - 1)]
  BY <1>2, <1>4, <1>5
<1>7. /\ more[0] = 0 /\ more[n + 1] = text'.used /\ more[n] = text.used
      /\ \A j \in 0..n : more[j] = end[j]
  BY <1>2, <1>4 DEF Fills, Atomic!Ends, n
<1>8. ASSUME NEW j \in 1..(n + 1)
      PROVE  more[j] = more[j - 1] + Width[text'.lines[j]] + 1
  <2>1. CASE j = n + 1
    BY <1>1, <1>2, <1>3, <1>7, <2>1
  <2>2. CASE j # n + 1
    <3>1. j \in 1..n /\ j \in 0..n /\ j - 1 \in 0..n
      BY <1>2, <2>2
    <3>2. end[j] = end[j - 1] + Width[text.lines[j]] + 1
      BY <1>4, <3>1 DEF Fills, Atomic!Ends, n
    <3>3. QED BY <1>3, <1>7, <3>1, <3>2
  <2>3. QED BY <2>1, <2>2
<1> HIDE DEF more
<1>9. Fills(text', more)
  BY <1>3, <1>7, <1>8 DEF Fills, Atomic!Ends
<1>10. pc'[Main] # "release"
  BY <1>1
<1>11. QED
  BY <1>3, <1>6, <1>9, <1>10 DEF AtomInv, BufferInv, CopiedInv

LEMMA CopyEndsAtom ==
  ASSUME IInv, TextInv, AtomInv, CopyFull \/ CopyEnd
  PROVE  AtomInv'
<1>1. /\ text'.lines = text.lines /\ text'.used = text.used
      /\ pc[Main] \in Copying
  BY DEF CopyFull, CopyEnd, IInv, TypeOK, Text, Copying
<1>2. BufferInv'
  BY <1>1 DEF AtomInv, BufferInv, Fills, Atomic!Ends
<1>3. CopiedInv'
  <2>1. UNCHANGED history /\ Len(history) \in Nat
    BY DEF CopyFull, CopyEnd, IInv, TypeOK
  <2>2. QED BY <2>1, CopyEndsSnapshot DEF CopiedInv
<1>4. QED BY <1>2, <1>3 DEF AtomInv

LEMMA StepAtomInv ==
  ASSUME IInv, TextInv, AtomInv, [Next]_vars
  PROVE  AtomInv'
<1>1. CASE UNCHANGED vars
  BY <1>1 DEF vars, AtomInv, BufferInv, CopiedInv, Fills, Atomic!Ends,
     Snapshot, CopyOf, Fits, Size
<1>2. QED BY <1>1, AddLogAtom, CollectAtom, CopyLineAtom, CopyEndsAtom
      DEF Next, InCollect

(* A message more: the window over history moves by one.                   *)
LEMMA LastOneMore ==
  ASSUME NEW s \in Seq(Messages), NEW m \in Messages
  PROVE  LET old == Last(s, Len(s))
         IN Last(Append(s, m), Len(s) + 1)
              = Append(IF Len(old) < MAX_LOGS THEN old ELSE Tail(old), m)
<1> DEFINE t == Append(s, m)
           n == Len(s)
           q == n + 1
           old == Last(s, n)
           new == Last(t, q)
           kept == IF Len(old) < MAX_LOGS THEN old ELSE Tail(old)
<1>1. /\ n \in Nat /\ q \in Nat /\ q = n + 1 /\ MAX_LOGS \in Nat \ {0}
  BY LogSizesAssumption
<1>2. /\ t \in Seq(Messages) /\ Len(t) = q
      /\ t[q] = m
      /\ \A k \in 1..n : t[k] = s[k]
  OBVIOUS
<1>3. /\ old \in Seq(Messages) /\ Len(old) = Size(n)
      /\ \A k \in 1..Size(n) : old[k] = s[n - Size(n) + k]
  BY <1>1, LastMembers
<1> HIDE DEF n, q, old, t
<1>4. /\ new \in Seq(Messages) /\ Len(new) = Size(q)
      /\ \A k \in 1..Size(q) : new[k] = t[q - Size(q) + k]
  BY <1>1, <1>2, LastMembers
<1> HIDE DEF new
<1>5. /\ kept \in Seq(Messages) /\ Len(kept) = Size(q) - 1
      /\ \A k \in 1..(Size(q) - 1) : kept[k] = s[q - Size(q) + k]
  <2>1. CASE n < MAX_LOGS
    <3>1. Size(n) = n /\ Size(q) = q /\ kept = old
      BY <1>1, <1>3, <2>1 DEF Size
    <3>2. QED BY <1>1, <1>3, <3>1
  <2>2. CASE ~(n < MAX_LOGS)
    <3>1. Size(n) = MAX_LOGS /\ Size(q) = MAX_LOGS /\ kept = Tail(old)
      BY <1>1, <1>3, <2>2 DEF Size
    <3>2. /\ Tail(old) \in Seq(Messages) /\ Len(Tail(old)) = MAX_LOGS - 1
          /\ \A k \in 1..(MAX_LOGS - 1) : Tail(old)[k] = old[k + 1]
      BY <1>1, <1>3, <3>1
    <3>3. ASSUME NEW k \in 1..(MAX_LOGS - 1)
          PROVE  old[k + 1] = s[q - MAX_LOGS + k]
      <4>1. k + 1 \in 1..MAX_LOGS
            /\ n - MAX_LOGS + (k + 1) = q - MAX_LOGS + k
        BY <1>1
      <4>2. QED BY <1>3, <3>1, <4>1
    <3>4. QED BY <3>1, <3>2, <3>3
  <2>3. QED BY <2>1, <2>2
<1> HIDE DEF kept
<1>6. Size(q) \in 1..q
  BY <1>1 DEF Size
<1>7. /\ Append(kept, m) \in Seq(Messages)
      /\ Len(Append(kept, m)) = Size(q)
      /\ Append(kept, m)[Size(q)] = m
      /\ \A k \in 1..(Size(q) - 1) : Append(kept, m)[k] = kept[k]
  BY <1>5, <1>6
<1>8. ASSUME NEW k \in 1..Size(q)
      PROVE  new[k] = Append(kept, m)[k]
  <2>1. CASE k = Size(q)
    <3>1. q - Size(q) + k = q
      BY <1>1, <1>6, <2>1
    <3>2. QED BY <1>2, <1>4, <1>7, <2>1, <3>1
  <2>2. CASE k # Size(q)
    <3>1. k \in 1..(Size(q) - 1) /\ q - Size(q) + k \in 1..n
      BY <1>1, <1>6, <2>2
    <3>2. QED BY <1>2, <1>4, <1>5, <1>7, <3>1
  <2>3. QED BY <2>1, <2>2
<1>9. new = Append(kept, m)
  BY <1>4, <1>7, <1>8, SeqEqual
<1>10. QED BY <1>9 DEF new, kept, old, n, q, t

(* What EventLog sees of a state.                                          *)
Log == RecentAt(Len(history))
Screen == [open |-> pc[Main] = "show",
           lines |-> IF pc[Main] = "show" THEN text.lines ELSE <<>>,
           cut |-> pc[Main] = "show" /\ text.full]

(* Steps inside the critical sections, and before them, are not seen.      *)
LEMMA Unseen ==
  ASSUME UNCHANGED history, pc[Main] # "show", pc'[Main] # "show"
  PROVE  UNCHANGED <<Log, Screen>>
BY DEF Log, RecentAt, Screen

LEMMA AddLogRefines ==
  ASSUME IInv, NEW t \in Threads,
         InAddLog(t) \/ \E m \in Messages : AddLog(t, m)
  PROVE  [Atomic!Next]_(Atomic!vars)
<1>1. UNCHANGED text /\ (pc[Main] = "show" <=> pc'[Main] = "show")
  BY AddLogAside DEF Copying
<1>2. UNCHANGED Screen
  BY <1>1 DEF Screen
<1>3. CASE Write(t)
  <2>1. msg[t] \in Messages /\ history' = Append(history, msg[t])
    BY <1>3 DEF Write, IInv, MutexInv
  <2>2. history \in Seq(Messages) /\ Len(history') = Len(history) + 1
    BY <2>1 DEF IInv, TypeOK
  <2>3. /\ Log = Last(history, Len(history))
        /\ Log' = Last(Append(history, msg[t]), Len(history) + 1)
    BY <2>1, <2>2 DEF Log, RecentAt, Last
  <2>4. Log' = Append(IF Len(Log) < MAX_LOGS THEN Log ELSE Tail(Log), msg[t])
    BY <2>1, <2>2, <2>3, LastOneMore
  <2>5. Atomic!AddLog(msg[t])
    BY <1>2, <2>4 DEF Atomic!AddLog, Log, Screen
  <2>6. QED BY <2>1, <2>5 DEF Atomic!Next
<1>4. CASE ~Write(t)
  <2>1. UNCHANGED history
    BY <1>4 DEF InAddLog, Lock, ShiftSlot, ShiftEnd, Unlock, AddLog
  <2>2. UNCHANGED Log
    BY <2>1 DEF Log, RecentAt
  <2>3. QED BY <1>2, <2>2 DEF Atomic!vars, Log, Screen
<1>5. QED BY <1>3, <1>4

(* The text is made when the mutex is given back.                          *)
LEMMA ReleaseRefines ==
  ASSUME IInv, TextInv, AtomInv, Release
  PROVE  Atomic!Show
<1> DEFINE k == Len(text.lines)
<1>1. /\ pc[Main] = "release" /\ pc'[Main] = "show"
      /\ UNCHANGED <<text, history>>
  BY NamesAssumption DEF IInv, TypeOK, Release
<1>2. Len(history) \in before..Len(history) /\ Snapshot(Len(history))
  <2>1. Snapshot(Len(history))
    BY <1>1 DEF AtomInv, CopiedInv
  <2>2. QED BY <2>1 DEF IInv, TypeOK, TextInv
<1>3. /\ k <= Len(Log)
      /\ text.lines = SubSeq(Log, 1, k)
      /\ IF text.full THEN k < Len(Log) /\ ~Fits(Log[k + 1]) ELSE k = Len(Log)
  BY <1>2, SnapshotIsPrefix DEF Log
<1>4. PICK end \in [0..k -> 0..(TextSize - 1)] : Fills(text, end)
  BY <1>1 DEF AtomInv, BufferInv, Copying
<1>5. /\ k \in Nat /\ Len(Log) \in Nat /\ text.full \in BOOLEAN
  <2>1. Len(Log) = Size(Len(history)) /\ Len(history) \in Nat
    BY <1>2, RecentElements DEF Log, IInv, TypeOK
  <2>2. QED BY <2>1, LogSizesAssumption DEF Size, IInv, TypeOK, Text
<1>6. k \in 0..Len(Log) /\ text.full = (k < Len(Log))
  BY <1>3, <1>5
<1>7. ASSUME k < Len(Log)
      PROVE  end[k] + Width[Log[k + 1]] + 1 >= TextSize
  <2>1. ~(text.used + Width[Log[k + 1]] + 1 < TextSize)
    BY <1>3, <1>6, <1>7 DEF Fits
  <2>2. Log[k + 1] \in Messages
    <3>1. Log \in Seq(Messages)
      BY <1>2, RecentElements DEF Log
    <3>2. QED BY <1>5, <1>7, <3>1
  <2>3. Width[Log[k + 1]] \in Nat /\ TextSize \in Nat /\ text.used \in Nat
    BY <2>2, WidthAssumption, LogSizesAssumption DEF IInv, TypeOK, Text
  <2>4. QED BY <1>4, <2>1, <2>3 DEF Fills
<1>8. Atomic!Ends(SubSeq(Log, 1, k), end)
  BY <1>3, <1>4 DEF Fills
<1>9. Screen' = [open |-> TRUE, lines |-> SubSeq(Log, 1, k),
                 cut |-> k < Len(Log)]
  <2>1. Screen' = [open |-> TRUE, lines |-> text.lines,
                   cut |-> TRUE /\ text.full]
    BY <1>1 DEF Screen
  <2>2. (TRUE /\ text.full) = (k < Len(Log))
    BY <1>5, <1>6
  <2>3. QED BY <1>3, <2>1, <2>2
<1>10. ~Screen.open /\ UNCHANGED Log
  BY <1>1 DEF Screen, Log, RecentAt
<1> HIDE DEF k
<1>11. QED
  BY <1>4, <1>6, <1>7, <1>8, <1>9, <1>10 DEF Atomic!Show, Log, Screen

LEMMA ShownRefines ==
  ASSUME IInv, Shown
  PROVE  Atomic!Hide
<1>1. /\ pc[Main] = "show" /\ pc'[Main] = "run" /\ UNCHANGED history
  BY NamesAssumption DEF IInv, TypeOK, Shown
<1>2. Screen.open /\ Screen' = Atomic!NoText /\ UNCHANGED Log
  BY <1>1 DEF Screen, Log, RecentAt, Atomic!NoText
<1>3. QED BY <1>2 DEF Atomic!Hide, Screen, Log

LEMMA StepRefines ==
  ASSUME IInv, TextInv, AtomInv, [Next]_vars
  PROVE  [Atomic!Next]_(Atomic!vars)
<1>1. CASE CollectLogs \/ CollectLock \/ CopyLine \/ CopyFull \/ CopyEnd
  <2>1. UNCHANGED history /\ pc[Main] # "show" /\ pc'[Main] # "show"
    BY <1>1, NamesAssumption DEF IInv, TypeOK, CollectLogs, CollectLock,
       CopyLine, CopyFull, CopyEnd
  <2>2. QED BY <2>1, Unseen DEF Atomic!vars, Log, Screen
<1>2. CASE UNCHANGED vars
  BY <1>2 DEF vars, Atomic!vars, RecentAt
<1>3. QED
  BY <1>1, <1>2, AddLogRefines, ReleaseRefines, ShownRefines
  DEF Next, InCollect, Atomic!Next

(***************************************************************************)
(* The blocks under the mutex can be taken as single steps, as VotingServer*)
(* and Dashboard do: add_log is the step of its Write, and the copy the    *)
(* step of its Release (server_state.c:26-54, dashboard.c:83-136).         *)
(***************************************************************************)
THEOREM Atomicity == Spec => ImplementsEventLog
<1>1. Init => TextInv /\ AtomInv
  BY NamesAssumption
     DEF Init, TextInv, AtomInv, BufferInv, CopiedInv, Copying
<1>2. Init => Atomic!Init
  <2> SUFFICES ASSUME Init PROVE Atomic!Init
    OBVIOUS
  <2>1. pc[Main] = "run" /\ history = <<>>
    BY NamesAssumption DEF Init
  <2>2. IInv
    BY InitInv
  <2>3. Log \in Seq(Messages) /\ Len(Log) = 0
    BY <2>1, <2>2, RecentElements, LogSizesAssumption DEF Log, Size
  <2>4. Log = <<>>
    BY <2>3
  <2>5. Screen = Atomic!NoText
    BY <2>1 DEF Screen, Atomic!NoText
  <2>6. QED BY <2>4, <2>5 DEF Atomic!Init, Log, Screen
<1>3. IInv /\ TextInv /\ [Next]_vars => TextInv'
  BY NextText
<1>4. IInv /\ TextInv /\ AtomInv /\ [Next]_vars
        => AtomInv' /\ [Atomic!Next]_(Atomic!vars)
  BY StepAtomInv, StepRefines
<1>5. QED
  BY <1>1, <1>2, <1>3, <1>4, LogInvariant, PTL
  DEF Spec, ImplementsEventLog, Atomic!Spec

-----------------------------------------------------------------------------
(***************************************************************************)
(* The mutex is held for a bounded time.  Fairness of ServerLog assumes    *)
(* that a waiter gets it because "its holders release it after a bounded   *)
(* number of steps"; here is why they do.                                  *)
(***************************************************************************)

(* The steps the holder t has at most up to and with its unlock.           *)
HoldLeft(t) ==
  CASE pc[t] = "shift"   -> (MAX_LOGS + 1 - i[t]) + 3
    [] pc[t] = "write"   -> 2
    [] pc[t] = "unlock"  -> 1
    [] pc[t] = "copy"    -> (MAX_LOGS + 1 - i[t]) + 2
    [] pc[t] = "release" -> 1

(* A thread that waits for the mutex, or logs, disturbs no holder.         *)
HolderStands(t) == UNCHANGED <<mutex, pc[t], i[t], logs, log_count>>

HolderAdvances(t) == mutex' = t /\ HoldLeft(t)' < HoldLeft(t)

LEMMA HoldIsBounded ==
  ASSUME IInv, NEW t \in Threads, mutex = t
  PROVE  HoldLeft(t) \in 1..(MAX_LOGS + 2)
<1> USE LogSizesAssumption DEF HoldLeft
<1>1. pc[t] \in Critical /\ i[t] \in 1..(MAX_LOGS + 1)
  BY DEF IInv, MutexInv, TypeOK
<1>2. CASE pc[t] = "shift"
  BY <1>1, <1>2 DEF IInv, LogInv, Shifting
<1>3. CASE pc[t] = "copy"
  BY <1>1, <1>3
<1>4. CASE pc[t] \in {"write", "unlock", "release"}
  BY <1>4
<1>5. QED BY <1>1, <1>2, <1>3, <1>4 DEF Critical

(* The holder's own step in add_log.                                       *)
LEMMA AddLogAdvances ==
  ASSUME IInv, NEW t \in Threads, mutex = t, InAddLog(t)
  PROVE  mutex' = NoOwner \/ HolderAdvances(t)
<1> USE NamesAssumption, LogSizesAssumption
    DEF IInv, TypeOK, HoldLeft, HolderAdvances
<1>1. CASE Lock(t)
  BY <1>1 DEF Lock
<1>2. CASE ShiftSlot(t)
  BY <1>2 DEF ShiftSlot
<1>3. CASE ShiftEnd(t)
  BY <1>3 DEF ShiftEnd
<1>4. CASE Write(t)
  BY <1>4 DEF Write
<1>5. CASE Unlock(t)
  BY <1>5 DEF Unlock
<1>6. QED BY <1>1, <1>2, <1>3, <1>4, <1>5 DEF InAddLog

(* The holder's own step in the copy.                                      *)
LEMMA CopyAdvances ==
  ASSUME IInv, mutex = Main, InCollect
  PROVE  mutex' = NoOwner \/ HolderAdvances(Main)
<1> USE NamesAssumption, LogSizesAssumption
    DEF IInv, TypeOK, HoldLeft, HolderAdvances
<1>1. CASE CollectLock
  BY <1>1 DEF CollectLock
<1>2. CASE CopyLine
  BY <1>2 DEF CopyLine
<1>3. CASE CopyFull \/ CopyEnd
  BY <1>3 DEF CopyFull, CopyEnd
<1>4. CASE Release
  BY <1>4 DEF Release
<1>5. QED BY <1>1, <1>2, <1>3, <1>4 DEF InCollect

(* What a thread does without the mutex leaves its holder alone.           *)
LEMMA OthersLeaveHolder ==
  ASSUME IInv, NEW t \in Threads, mutex = t, [Next]_vars,
         NEW u \in Threads, u # t,
         InAddLog(u) \/ \E m \in Messages : AddLog(u, m)
  PROVE  HolderStands(t)
<1>1. pc[u] \notin Critical
  BY DEF IInv, MutexInv
<1>2. mutex # NoOwner
  BY NamesAssumption
<1>3. ~InAddLog(u)
  BY <1>1, <1>2 DEF InAddLog, Lock, ShiftSlot, ShiftEnd, Write, Unlock,
     Critical
<1>4. PICK m \in Messages : AddLog(u, m)
  BY <1>3
<1>5. QED BY <1>4 DEF AddLog, HolderStands, IInv, TypeOK

LEMMA StepOfHold ==
  ASSUME IInv, [Next]_vars, NEW t \in Threads, mutex = t
  PROVE  \/ mutex' = NoOwner
         \/ HolderStands(t)
         \/ HolderAdvances(t)
<1>0. pc[t] \in Critical /\ (t = Main \/ pc[Main] \notin Critical)
  BY NamesAssumption DEF IInv, MutexInv
<1>1. ASSUME NEW u \in Threads, u # t,
             InAddLog(u) \/ \E m \in Messages : AddLog(u, m)
      PROVE  HolderStands(t)
  BY <1>1, OthersLeaveHolder
<1>2. CASE InAddLog(t)
  BY <1>2, AddLogAdvances
<1>3. ASSUME NEW m \in Messages, AddLog(t, m)
      PROVE  FALSE
  BY <1>0, <1>3 DEF AddLog, Critical
<1>4. CASE CollectLogs
  BY <1>0, <1>4, NamesAssumption
     DEF CollectLogs, HolderStands, Critical, IInv, TypeOK
<1>5. CASE InCollect
  <2>1. t = Main
    BY <1>0, <1>5, NamesAssumption DEF InCollect, CollectLock, CopyLine,
       CopyFull, CopyEnd, Release, Critical
  <2>2. QED BY <1>5, <2>1, CopyAdvances
<1>6. CASE Shown
  BY <1>0, <1>6, NamesAssumption
     DEF Shown, HolderStands, Critical, IInv, TypeOK
<1>7. CASE UNCHANGED vars
  BY <1>7 DEF vars, HolderStands
<1>8. QED BY <1>1, <1>2, <1>3, <1>4, <1>5, <1>6, <1>7 DEF Next

(***************************************************************************)
(* Who holds server_state_mutex is at a statement between the lock and the *)
(* unlock, where nothing blocks, at most MAX_LOGS + 2 steps from giving it *)
(* back; and each of its steps brings it nearer, while no other thread can *)
(* take the mutex, touch the log or move the holder (server_state.c:16-56, *)
(* dashboard.c:86-136).                                                    *)
(***************************************************************************)
THEOREM HoldIsShort ==
  Spec => /\ [](\A t \in Threads : mutex = t =>
                  pc[t] \in Critical /\ HoldLeft(t) \in 1..(MAX_LOGS + 2))
          /\ [][\A t \in Threads : mutex = t =>
                  \/ mutex' = NoOwner
                  \/ HolderStands(t)
                  \/ HolderAdvances(t)]_vars
<1>1. ASSUME IInv
      PROVE  \A t \in Threads : mutex = t =>
               pc[t] \in Critical /\ HoldLeft(t) \in 1..(MAX_LOGS + 2)
  BY <1>1, HoldIsBounded DEF IInv, MutexInv
<1>2. ASSUME IInv, [Next]_vars
      PROVE  [\A t \in Threads : mutex = t =>
                  \/ mutex' = NoOwner
                  \/ HolderStands(t)
                  \/ HolderAdvances(t)]_vars
  BY <1>2, StepOfHold
<1>3. QED BY <1>1, <1>2, LogInvariant, PTL DEF Spec

=============================================================================
