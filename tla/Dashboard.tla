------------------------------ MODULE Dashboard ------------------------------
(***************************************************************************)
(* The main thread of the server, server/src/ui/dashboard.c, results.c and *)
(* security/auth.c: the window that shows the server's counters and is     *)
(* refreshed by a timer, and the windows an operator opens over it.  It    *)
(* reads votos and server_state while the threads of VotingServer change   *)
(* them; a block under the mutex and a query are one step each.            *)
(***************************************************************************)
EXTENDS VotingServer, FiniteSetsExt

CONSTANTS Passwords,    \* what VOTACAO_ADMIN_PASSWORD and an operator can hold
          Entry         \* Entry[p]: what the entry holds once p was typed

ASSUME PasswordsAssumption == None \notin Passwords
(* The entry has 24 columns and does not scroll: it holds as much of the   *)
(* beginning of p as fits, and drops the keys that find it full.           *)
ASSUME EntryAssumption == /\ Entry \in [Passwords -> Passwords]
                          /\ \A p \in Passwords : Entry[Entry[p]] = Entry[p]
(* is_valid_candidate accepts a fixed list of names.                       *)
ASSUME CandidatesAssumption == IsFiniteSet(Candidates)

VARIABLES at,              \* where the main thread is
          admin_password,  \* the environment variable, None when it is unset
          action,          \* action_name, the window asked for
          typed,           \* the keys that were typed for it
          read,            \* the numbers read so far for the next window
          status,          \* the numbers in the main window
          popup            \* the numbers in the window over it

memoryOfMain == <<at, action, typed, read, status, popup>>
ui == <<memoryOfMain, admin_password>>
dashboardVars == <<vars, ui>>

(***************************************************************************)
(* The numbers a window shows.  acked is a ghost: how many voters held an  *)
(* ACK when the count of the votes was read.                               *)
(***************************************************************************)
Numbers == [clients : Int, threads : Int, votes : Nat, acked : Nat,
            lines : [Candidates -> Nat]]
Blank == [clients |-> 0, threads |-> 1, votes |-> 0, acked |-> 0,
          lines |-> [c \in Candidates |-> 0]]

(* "Resumo" stands for "Logs" and "Clientes", whose code is the same up to *)
(* the log itself (ServerLog).                                             *)
Action == {"Resultados", "Resumo"}
Statement == {"update", "status", "run", "prompt", "counters", "total",
              "results", "window", "denied", "off"}

DashboardInit ==
  /\ Init
  /\ at = "update"
  /\ action = None /\ typed = None
  /\ read = Blank /\ status = Blank /\ popup = Blank
  /\ admin_password \in Passwords \cup {None}

-----------------------------------------------------------------------------
(* Reading.                                                                *)

(* A query and what was acknowledged before it.                            *)
Counted(n) == [read EXCEPT !.votes = n, !.acked = Cardinality(Confirmed)]

(* Both counters, under the mutex.                                         *)
WithCounters == [read EXCEPT !.clients = connected_clients,
                             !.threads = active_threads]

(* Faulty variant: the count in memory is shown.                           *)
CountForStatusInMemory ==
  /\ at = "update"
  /\ read' = Counted(total_votes)
  /\ at' = "status"
  /\ UNCHANGED <<vars, action, typed, status, popup, admin_password>>

(* update_dashboard_text: first the query ...                              *)
CountForStatus ==
  /\ at = "update"
  /\ \E n \in count_votes(votos) : read' = Counted(n)
  /\ at' = "status"
  /\ UNCHANGED <<vars, action, typed, status, popup, admin_password>>

(* ... then the counters, and the text of the window.                      *)
ShowStatus ==
  /\ at = "status"
  /\ status' = WithCounters
  /\ at' = "run"
  /\ UNCHANGED <<vars, action, typed, read, popup, admin_password>>

(* Faulty variant: newtFormSetTimer is not called.                         *)
NoTimer == FALSE /\ UNCHANGED dashboardVars

(* newtFormRun returns after a second without a key.                       *)
TimerExpires ==
  /\ at = "run"
  /\ at' = "update"
  /\ read' = Blank
  /\ UNCHANGED <<vars, action, typed, status, popup, admin_password>>

-----------------------------------------------------------------------------
(* The windows.  A key and its button run the same code.                   *)

FirstRead(a) == IF a = "Resultados" THEN "results" ELSE "counters"

PressKey(a) ==
  /\ at = "run"
  /\ action' = a
  /\ read' = Blank
  /\ at' = IF admin_password = None THEN FirstRead(a) ELSE "prompt"
  /\ UNCHANGED <<vars, typed, status, popup, admin_password>>

(* Faulty variant: strncmp with the width of the entry.                    *)
admin_action_allowed_prefix(p) == Entry[p] = Entry[admin_password]

(* strcmp of the entry with the whole of the configured password.  (That   *)
(* entered_password has 128 bytes changes nothing: 24 columns are less.)   *)
admin_action_allowed(p) == Entry[p] = admin_password

TypePassword(p) ==
  /\ at = "prompt"
  /\ typed' = p
  /\ at' = IF admin_action_allowed(p) THEN FirstRead(action) ELSE "denied"
  /\ UNCHANGED <<vars, action, read, status, popup, admin_password>>

(* show_logs_popup and show_clients_popup: the counters, then the query.   *)
ReadCounters ==
  /\ at = "counters"
  /\ read' = WithCounters
  /\ at' = "total"
  /\ UNCHANGED <<vars, action, typed, status, popup, admin_password>>

(* Faulty variant: entries past total_results are shown too.               *)
ReadResultsUnbounded ==
  /\ at = "results"
  /\ \E lines \in get_vote_results(votos, 16) :
       read' = [read EXCEPT !.lines = [c \in Candidates |->
                  IF c \in DOMAIN lines THEN lines[c] ELSE None]]
  /\ at' = "total"
  /\ UNCHANGED <<vars, action, typed, status, popup, admin_password>>

(* Faulty variant: the header, with the total, is made first.              *)
ReadResultsLast ==
  /\ at = "results"
  /\ \/ /\ read = Blank
        /\ \E n \in count_votes(votos) :
             read' = [Counted(n) EXCEPT !.threads = 2]
        /\ UNCHANGED <<at, popup>>
     \/ /\ read # Blank
        /\ \E lines \in get_vote_results(votos, 16) :
             popup' = [read EXCEPT !.lines = [c \in Candidates |->
                        IF c \in DOMAIN lines THEN lines[c] ELSE 0]]
        /\ at' = "window"
        /\ UNCHANGED read
  /\ UNCHANGED <<vars, action, typed, status, admin_password>>

(* show_results: get_vote_results, then the header with the total.         *)
ReadResults ==
  /\ at = "results"
  /\ \E lines \in get_vote_results(votos, 16) :
       read' = [read EXCEPT !.lines = [c \in Candidates |->
                  IF c \in DOMAIN lines THEN lines[c] ELSE 0]]
  /\ at' = "total"
  /\ UNCHANGED <<vars, action, typed, status, popup, admin_password>>

(* The last query, and the window.                                         *)
ShowWindow ==
  /\ at = "total"
  /\ \E n \in count_votes(votos) : popup' = Counted(n)
  /\ at' = "window"
  /\ UNCHANGED <<vars, action, typed, read, status, admin_password>>

CloseWindow ==
  /\ at \in {"window", "denied"}
  /\ at' = "update"
  /\ action' = None
  /\ typed' = None
  /\ read' = Blank
  /\ popup' = Blank
  /\ UNCHANGED <<vars, status, admin_password>>

-----------------------------------------------------------------------------

(* The process ends, and starts again in the same environment.             *)
Restarted ==
  /\ at' = IF up' THEN "update" ELSE "off"
  /\ action' = None /\ typed' = None
  /\ read' = Blank /\ status' = Blank /\ popup' = Blank

Threads ==
  /\ Next
  /\ UNCHANGED admin_password
  /\ IF up = up' THEN UNCHANGED memoryOfMain ELSE Restarted

(* What the main thread does by itself.                                    *)
Reading == CountForStatus \/ ShowStatus \/ ReadCounters \/ ReadResults
           \/ ShowWindow \/ TimerExpires

Operator == CloseWindow \/ \E a \in Action : PressKey(a)
            \/ \E p \in Passwords : TypePassword(p)

DashboardNext == Threads \/ Reading \/ Operator

DashboardSpec == DashboardInit /\ [][DashboardNext]_dashboardVars
                 /\ WF_dashboardVars(Reading)

-----------------------------------------------------------------------------
(* Properties.                                                             *)

DashboardTypeOK ==
  /\ at \in Statement
  /\ admin_password \in Passwords \cup {None}
  /\ action \in Action \cup {None}
  /\ typed \in Passwords \cup {None}
  /\ read \in Numbers
  /\ status \in Numbers
  /\ popup \in Numbers

(* What an operator sees.                                                  *)
OnScreen == {status} \cup (IF at = "window" THEN {popup} ELSE {})

(***************************************************************************)
(* "Votos" on a window misses no vote whose voter held an ACK when it was  *)
(* counted, and counts none that is not in votos, also after the server    *)
(* was started again.                                                      *)
(***************************************************************************)
VotesShownCoverAcks ==
  ~DbFaults => \A s \in OnScreen : /\ s.acked <= s.votes
                                  /\ s.votes <= CountVotes(votos)

(***************************************************************************)
(* Every window shows more threads than clients: each client has its own   *)
(* thread and the network thread has none, whatever came or went while the *)
(* numbers were read.                                                      *)
(***************************************************************************)
SnapshotCoherent == \A s \in OnScreen : s.clients < s.threads

(***************************************************************************)
(* The results window reads votos twice while votes arrive: its lines      *)
(* never add up to more than the total above them, and no line counts a    *)
(* vote that is not in votos.                                              *)
(***************************************************************************)
ResultsAddUp ==
  at = "window" /\ action = "Resultados" /\ ~DbFaults =>
    /\ MapThenSumSet(LAMBDA c : popup.lines[c], Candidates) <= popup.votes
    /\ \A c \in Candidates : popup.lines[c] <= VotesFor(votos, c)

(***************************************************************************)
(* While VOTACAO_ADMIN_PASSWORD is set, whatever is read for a window, and *)
(* the window, follow the typing of the password for THIS window.  A       *)
(* configured password of more than 24 columns can be typed by nobody: it  *)
(* opens no window, neither typed in full nor by the columns that fit, and *)
(* the operator who types it is told "Senha administrativa incorreta".     *)
(* Who types one that fits is not refused.                                 *)
(***************************************************************************)
Fits(p) == Entry[p] = p

EachWindowIsAuthorized ==
  admin_password # None =>
    /\ at \in {"counters", "results", "total", "window"} =>
         typed # None /\ Entry[typed] = admin_password /\ Fits(admin_password)
    /\ at = "denied" /\ typed = admin_password => ~Fits(admin_password)

(***************************************************************************)
(* A vote in votos reaches the main window, unless the operator leaves     *)
(* another window over it or the server stops.                             *)
(***************************************************************************)
SavedVotesReachTheScreen ==
  \A n \in 1..Cardinality(VoterIds) :
    (up /\ CountVotes(votos) >= n) ~>
      (status.votes >= n \/ ~up \/ at \in {"prompt", "window", "denied"})

=============================================================================
