-------------------------- MODULE DashboardProofs --------------------------
(***************************************************************************)
(* Proofs about Dashboard, for every set of connections, voters,           *)
(* candidates and passwords: what the windows show was true of votos, the  *)
(* counters and the ACKs when it was read.                                 *)
(***************************************************************************)
EXTENDS Dashboard, VotingServerCountProofs

-----------------------------------------------------------------------------
(* The dashboard only looks: the threads of the server do not notice it.   *)

(* A server with a dashboard is a server, so that what is proved of Spec   *)
(* holds of DashboardSpec.                                                 *)
THEOREM DashboardIsServer == DashboardSpec => Spec
<1>1. DashboardInit => Init
  BY DEF DashboardInit
<1>2. [DashboardNext]_dashboardVars => [Next]_vars
  BY DEF DashboardNext, Threads, Reading, Operator, CountForStatus, ShowStatus,
     ReadCounters, ReadResults, ShowWindow, TimerExpires, CloseWindow,
     PressKey, TypePassword, dashboardVars
<1>3. QED BY <1>1, <1>2, PTL DEF DashboardSpec, Spec

-----------------------------------------------------------------------------
(* What one look at the server can find.                                   *)

(* Each client that is being served has its thread, and the thread of the  *)
(* dashboard makes one more.                                               *)
LEMMA MoreThreadsThanClients ==
  ASSUME TypeInv, CountInv, up
  PROVE  connected_clients < active_threads
<1>1. At(pc, Serving) \in SUBSET At(pc, Running)
  BY DEF At, Serving, Running, Location
<1>2. IsFiniteSet(At(pc, Running))
  BY DEF CountInv
<1>3. /\ Cardinality(At(pc, Serving)) <= Cardinality(At(pc, Running))
      /\ IsFiniteSet(At(pc, Serving))
  BY <1>1, <1>2, FS_Subset
<1>4. /\ Cardinality(At(pc, Serving)) \in Nat
      /\ Cardinality(At(pc, Running)) \in Nat
  BY <1>2, <1>3, FS_CardinalityType
<1>5. active_threads \in Int
  BY DEF TypeInv, TypeOK
<1>6. QED BY <1>3, <1>4, <1>5 DEF CountInv

(* Every voter who holds an ACK has a row, and no row is of two voters.    *)
LEMMA NoMoreAcksThanVotes ==
  ASSUME VoteInv, CountInv
  PROVE  /\ Cardinality(Confirmed) \in Nat
         /\ Cardinality(votos) \in Nat
         /\ Cardinality(Confirmed) <= Cardinality(votos)
<1> DEFINE voters == {r.voter : r \in votos}
           voterOf == [r \in votos |-> r.voter]
<1>1. voterOf \in Surjection(votos, voters)
  BY DEF Surjection
<1>2. IsFiniteSet(votos)
  BY DEF CountInv
<1>3. IsFiniteSet(voters) /\ Cardinality(voters) <= Cardinality(votos)
  BY <1>1, <1>2, FS_Surjection
<1>4. Confirmed \in SUBSET voters
  <2> SUFFICES ASSUME NEW c \in Conn, NEW i \in DOMAIN replies[c], IsAck(c, i)
               PROVE  replies[c][i].voter \in voters
    BY DEF Confirmed
  <2>1. AckedRow(c, i) \in votos
    BY DEF VoteInv, AckedIsRecorded
  <2>2. AckedRow(c, i).voter = replies[c][i].voter
    BY DEF AckedRow
  <2>3. QED BY <2>1, <2>2
<1>5. IsFiniteSet(Confirmed) /\ Cardinality(Confirmed) <= Cardinality(voters)
  BY <1>3, <1>4, FS_Subset
<1>6. QED BY <1>2, <1>3, <1>5, FS_CardinalityType

(* Rows are never deleted or changed.                                      *)
LEMMA VotosGrow ==
  ASSUME [Next]_vars
  PROVE  votos \subseteq votos'
<1>1. ASSUME NEW c \in Conn, SaveVote(c) PROVE votos \subseteq votos'
  BY <1>1 DEF SaveVote, save_vote
<1>2. ASSUME NEW c \in Conn, Handler(c), ~SaveVote(c) PROVE votos' = votos
  BY <1>2 DEF Handler, Register, Receive, ReceiveEnds, CheckVoter,
     CheckNotVoted, Tally, Reply, Cleanup, Leave
<1>3. ASSUME NEW c \in Conn, Peer(c) \/ AcceptLoop(c) \/ Handshake(c)
      PROVE  votos' = votos
  BY <1>3 DEF Peer, PeerConnect, PeerSend, PeerClose, PeerVanish,
     LossDetected, AcceptLoop, RefuseConnection, AcceptConnection,
     ThreadStarts, ThreadFails, Handshake, HandshakeSucceeds, HandshakeFails
<1>4. CASE Process
  BY <1>4 DEF Process, Stop, BrokenPipe, Die, Restart
<1>5. CASE UNCHANGED vars
  BY <1>5 DEF vars
<1>6. QED BY <1>1, <1>2, <1>3, <1>4, <1>5 DEF Next

LEMMA FewerBefore ==
  ASSUME CountInv', [Next]_vars
  PROVE  /\ Cardinality(votos) <= Cardinality(votos')
         /\ Cardinality(votos) \in Nat /\ Cardinality(votos') \in Nat
<1>1. votos \in SUBSET votos'
  BY VotosGrow
<1>2. IsFiniteSet(votos')
  BY DEF CountInv
<1>3. QED BY <1>1, <1>2, FS_Subset, FS_CardinalityType

(* get_vote_results gives each candidate it names a number of votes.       *)
LEMMA LinesAreNumbers ==
  ASSUME CountInv, NEW lines \in get_vote_results(votos, 16)
  PROVE  [c \in Candidates |-> IF c \in DOMAIN lines THEN lines[c] ELSE 0]
           \in [Candidates -> Nat]
<1>1. ASSUME NEW c PROVE VotesFor(votos, c) \in Nat
  <2>1. {r \in votos : r.candidate = c} \in SUBSET votos
    OBVIOUS
  <2>2. QED BY <2>1, FS_Subset, FS_CardinalityType DEF CountInv, VotesFor
<1>2. PICK D : lines = [c \in D |-> VotesFor(votos, c)]
  BY DEF get_vote_results
<1>3. \A c \in DOMAIN lines : lines[c] \in Nat
  BY <1>1, <1>2
<1>4. QED BY <1>3

-----------------------------------------------------------------------------
(***************************************************************************)
(* The invariant.  What is honest is kept so by the server going on, since *)
(* votos only grows; and between two questions for the password at most    *)
(* one window is opened.                                                   *)
(***************************************************************************)
Honest(s, rows) ==
  /\ s.clients < s.threads
  /\ ~DbFaults => s.acked <= s.votes /\ s.votes <= rows

AllHonest ==
  \A s \in {read, status, popup} : Honest(s, Cardinality(votos))

Allowed == {"counters", "results", "total", "window"}

GateInv ==
  admin_password # None =>
    /\ at \in Allowed => /\ typed \in Passwords
                         /\ Entry[typed] = admin_password
    /\ at = "denied" /\ typed = admin_password => ~Fits(admin_password)

ScreenInv ==
  /\ DashboardTypeOK
  /\ up <=> at # "off"
  /\ AllHonest
  /\ GateInv

LEMMA BlankIsHonest ==
  ASSUME NEW rows \in Nat
  PROVE  Blank \in Numbers /\ Honest(Blank, rows)
BY DEF Blank, Numbers, Honest

LEMMA CountIsHonest ==
  ASSUME VoteInv, CountInv, read \in Numbers,
         Honest(read, Cardinality(votos)), NEW n \in count_votes(votos)
  PROVE  Counted(n) \in Numbers /\ Honest(Counted(n), Cardinality(votos))
<1>1. n \in Nat /\ (~DbFaults => n = Cardinality(votos))
  BY NoMoreAcksThanVotes DEF count_votes, CountVotes
<1>2. Counted(n) \in Numbers
  BY <1>1, NoMoreAcksThanVotes DEF Counted, Numbers
<1>3. /\ Counted(n).clients = read.clients
      /\ Counted(n).threads = read.threads
      /\ Counted(n).votes = n
      /\ Counted(n).acked = Cardinality(Confirmed)
  BY DEF Counted, Numbers
<1>4. QED BY <1>1, <1>2, <1>3, NoMoreAcksThanVotes DEF Honest

LEMMA CountersAreHonest ==
  ASSUME TypeInv, CountInv, up, read \in Numbers,
         Honest(read, Cardinality(votos))
  PROVE  WithCounters \in Numbers /\ Honest(WithCounters, Cardinality(votos))
<1>1. connected_clients \in Int /\ active_threads \in Int
  BY DEF TypeInv, TypeOK
<1>2. WithCounters \in Numbers
  BY <1>1 DEF WithCounters, Numbers
<1>3. /\ WithCounters.clients = connected_clients
      /\ WithCounters.threads = active_threads
      /\ WithCounters.votes = read.votes
      /\ WithCounters.acked = read.acked
  BY DEF WithCounters, Numbers
<1>4. QED BY <1>2, <1>3, MoreThreadsThanClients DEF Honest

LEMMA InitScreenInv == DashboardInit => ScreenInv
<1> SUFFICES ASSUME DashboardInit PROVE ScreenInv
  OBVIOUS
<1>1. up /\ Cardinality(votos) \in Nat
  BY FS_EmptySet DEF DashboardInit, Init
<1>2. Blank \in Numbers /\ Honest(Blank, Cardinality(votos))
  BY <1>1, BlankIsHonest
<1>3. DashboardTypeOK /\ AllHonest
  BY <1>2 DEF DashboardInit, DashboardTypeOK, Statement, AllHonest
<1>4. GateInv
  BY DEF DashboardInit, GateInv, Allowed
<1>5. QED BY <1>1, <1>3, <1>4 DEF DashboardInit, ScreenInv

-----------------------------------------------------------------------------
(* The steps.                                                              *)

(* The server goes on under the dashboard.                                 *)
LEMMA ThreadsScreenInv ==
  ASSUME ScreenInv, CountInv', Threads
  PROVE  ScreenInv'
<1>1. /\ Cardinality(votos) <= Cardinality(votos')
      /\ Cardinality(votos) \in Nat /\ Cardinality(votos') \in Nat
  BY FewerBefore DEF Threads
<1>2. CASE up' = up
  <2>1. UNCHANGED <<at, action, typed, read, status, popup, admin_password>>
    BY <1>2 DEF Threads, memoryOfMain
  <2>2. DashboardTypeOK' /\ GateInv'
    BY <2>1 DEF ScreenInv, DashboardTypeOK, GateInv
  <2>3. ASSUME NEW s \in Numbers, Honest(s, Cardinality(votos))
        PROVE  Honest(s, Cardinality(votos'))
    <3>1. s.votes \in Nat
      BY DEF Numbers
    <3>2. QED BY <1>1, <2>3, <3>1 DEF Honest
  <2>4. AllHonest'
    BY <2>1, <2>3 DEF ScreenInv, DashboardTypeOK, AllHonest
  <2>5. QED BY <1>2, <2>1, <2>2, <2>4 DEF ScreenInv
<1>3. CASE up' # up
  <2>1. /\ at' = IF up' THEN "update" ELSE "off"
        /\ action' = None /\ typed' = None /\ admin_password' = admin_password
        /\ read' = Blank /\ status' = Blank /\ popup' = Blank
    BY <1>3 DEF Threads, Restarted
  <2>2. Blank \in Numbers /\ Honest(Blank, Cardinality(votos'))
    BY <1>1, BlankIsHonest
  <2>3. DashboardTypeOK' /\ AllHonest'
    BY <2>1, <2>2 DEF ScreenInv, DashboardTypeOK, Statement, AllHonest
  <2>4. GateInv'
    BY <2>1 DEF GateInv, Allowed
  <2>5. QED BY <2>1, <2>3, <2>4 DEF ScreenInv
<1>4. QED BY <1>2, <1>3

(* What the main thread does by itself.                                    *)
LEMMA ReadingScreenInv ==
  ASSUME ScreenInv, VoteInv, CountInv, Reading
  PROVE  ScreenInv'
<1>1. /\ DashboardTypeOK /\ GateInv /\ AllHonest
      /\ read \in Numbers /\ Honest(read, Cardinality(votos))
      /\ TypeInv
  BY DEF ScreenInv, DashboardTypeOK, AllHonest, VoteInv
<1>2. /\ UNCHANGED <<up, votos, admin_password, action, typed>>
      /\ at # "off" /\ at' # "off"
  BY DEF Reading, CountForStatus, ShowStatus, ReadCounters, ReadResults,
     ShowWindow, TimerExpires, vars
<1>3. GateInv'
  BY <1>1, <1>2 DEF Reading, CountForStatus, ShowStatus, ReadCounters,
     ReadResults, ShowWindow, TimerExpires, GateInv, Allowed
<1>4. at' \in Statement
  BY DEF Reading, CountForStatus, ShowStatus, ReadCounters, ReadResults,
     ShowWindow, TimerExpires, Statement
<1>5. up
  BY <1>2 DEF ScreenInv
<1> DEFINE fine(s) == s \in Numbers /\ Honest(s, Cardinality(votos))
<1>6. fine(read) /\ fine(status) /\ fine(popup)
  BY <1>1 DEF DashboardTypeOK, AllHonest
<1>7. \A n \in count_votes(votos) : fine(Counted(n))
  BY <1>1, CountIsHonest
<1>8. fine(WithCounters)
  BY <1>1, <1>5, CountersAreHonest
<1>9. fine(Blank)
  BY NoMoreAcksThanVotes, BlankIsHonest
<1>10. ASSUME ReadResults
       PROVE  fine(read') /\ fine(status') /\ fine(popup')
  <2>1. PICK lines \in get_vote_results(votos, 16) :
          read' = [read EXCEPT !.lines = [c \in Candidates |->
                     IF c \in DOMAIN lines THEN lines[c] ELSE 0]]
    BY <1>10 DEF ReadResults
  <2>2. ASSUME NEW f \in [Candidates -> Nat]
        PROVE  fine([read EXCEPT !.lines = f])
    BY <1>6 DEF Numbers, Honest
  <2> DEFINE shown == [c \in Candidates |->
                         IF c \in DOMAIN lines THEN lines[c] ELSE 0]
  <2>3. shown \in [Candidates -> Nat]
    BY LinesAreNumbers
  <2>4. read' = [read EXCEPT !.lines = shown]
    BY <2>1
  <2> HIDE DEF shown
  <2>5. fine(read')
    BY <2>2, <2>3, <2>4
  <2>6. UNCHANGED <<status, popup>>
    BY <1>10 DEF ReadResults
  <2>7. QED BY <1>6, <2>5, <2>6
<1>11. fine(read') /\ fine(status') /\ fine(popup')
  BY <1>6, <1>7, <1>8, <1>9, <1>10 DEF Reading, CountForStatus, ShowStatus,
     ReadCounters, ShowWindow, TimerExpires
<1>12. DashboardTypeOK' /\ AllHonest'
  BY <1>1, <1>2, <1>4, <1>11 DEF DashboardTypeOK, AllHonest
<1>13. QED BY <1>2, <1>3, <1>5, <1>12 DEF ScreenInv

(* What an operator does.                                                  *)
LEMMA OperatorScreenInv ==
  ASSUME ScreenInv, CountInv, Operator
  PROVE  ScreenInv'
<1>1. /\ DashboardTypeOK /\ GateInv /\ AllHonest
      /\ UNCHANGED <<vars, status, admin_password>>
  BY DEF ScreenInv, Operator, CloseWindow, PressKey, TypePassword
<1>2. Blank \in Numbers /\ Honest(Blank, Cardinality(votos))
  BY BlankIsHonest, FS_CardinalityType DEF CountInv
<1>3. up' = up /\ votos' = votos
  BY <1>1 DEF vars
<1>4. CASE CloseWindow
  <2>1. /\ at # "off" /\ at' = "update"
        /\ action' = None /\ typed' = None /\ read' = Blank /\ popup' = Blank
    BY <1>4 DEF CloseWindow
  <2>2. DashboardTypeOK' /\ AllHonest'
    BY <1>1, <1>2, <1>3, <2>1 DEF DashboardTypeOK, Statement, AllHonest
  <2>3. GateInv'
    BY <2>1 DEF GateInv, Allowed
  <2>4. QED BY <1>3, <2>1, <2>2, <2>3 DEF ScreenInv
<1>5. ASSUME NEW a \in Action, PressKey(a) PROVE ScreenInv'
  <2>1. /\ at # "off" /\ read' = Blank /\ action' = a
        /\ UNCHANGED <<typed, popup>>
        /\ at' = IF admin_password = None THEN FirstRead(a) ELSE "prompt"
        /\ FirstRead(a) \in {"results", "counters"}
    BY <1>5 DEF PressKey, FirstRead
  <2>2. DashboardTypeOK' /\ AllHonest'
    BY <1>1, <1>2, <1>3, <2>1 DEF DashboardTypeOK, Statement, AllHonest
  <2>3. GateInv'
    BY <1>1, <2>1 DEF GateInv, Allowed
  <2>4. QED BY <1>3, <2>1, <2>2, <2>3 DEF ScreenInv
<1>6. ASSUME NEW p \in Passwords, TypePassword(p) PROVE ScreenInv'
  <2>1. /\ at # "off" /\ typed' = p
        /\ UNCHANGED <<action, read, popup>>
        /\ at' = IF Entry[p] = admin_password THEN FirstRead(action) ELSE "denied"
        /\ FirstRead(action) \in {"results", "counters"}
    BY <1>6 DEF TypePassword, admin_action_allowed, FirstRead
  <2>2. DashboardTypeOK' /\ AllHonest'
    BY <1>1, <1>3, <2>1 DEF DashboardTypeOK, Statement, AllHonest
  <2>3. GateInv'
    BY <1>1, <2>1 DEF GateInv, Allowed, Fits
  <2>4. QED BY <1>3, <2>1, <2>2, <2>3 DEF ScreenInv
<1>7. QED BY <1>4, <1>5, <1>6 DEF Operator

LEMMA StepScreenInv ==
  ASSUME ScreenInv, VoteInv, CountInv, CountInv', [DashboardNext]_dashboardVars
  PROVE  ScreenInv'
<1>1. CASE UNCHANGED dashboardVars
  BY <1>1 DEF dashboardVars, ui, memoryOfMain, vars, ScreenInv,
     DashboardTypeOK, AllHonest, GateInv
<1>2. QED
  BY <1>1, ThreadsScreenInv, ReadingScreenInv, OperatorScreenInv
  DEF DashboardNext

(* What is read is honest and each window authorized, at every statement   *)
(* of the main thread.                                                     *)
THEOREM ScreenInvHolds == DashboardSpec => []ScreenInv
<1>1. ScreenInv /\ VoteInv /\ CountInv /\ CountInv'
        /\ [DashboardNext]_dashboardVars => ScreenInv'
  BY StepScreenInv
<1>2. DashboardSpec => []VoteInv /\ []CountInv
  BY DashboardIsServer, VoteInvHolds, CountInvHolds, PTL
<1>3. QED BY InitScreenInv, <1>1, <1>2, PTL DEF DashboardSpec

-----------------------------------------------------------------------------

(* The numbers in the windows are numbers, also those read from queries    *)
(* that failed.                                                            *)
THEOREM DashboardTypes == DashboardSpec => []DashboardTypeOK
<1>1. ScreenInv => DashboardTypeOK
  BY DEF ScreenInv
<1>2. QED BY <1>1, ScreenInvHolds, PTL

(* No window shows fewer votes than voters held an ACK when they were      *)
(* counted, nor more than there are.                                       *)
THEOREM VotesShown == DashboardSpec => []VotesShownCoverAcks
<1>1. ScreenInv => VotesShownCoverAcks
  BY DEF ScreenInv, AllHonest, Honest, VotesShownCoverAcks, OnScreen,
     CountVotes
<1>2. QED BY <1>1, ScreenInvHolds, PTL

(* Every window shows more threads than clients.                           *)
THEOREM Coherent == DashboardSpec => []SnapshotCoherent
<1>1. ScreenInv => SnapshotCoherent
  BY DEF ScreenInv, AllHonest, Honest, SnapshotCoherent, OnScreen
<1>2. QED BY <1>1, ScreenInvHolds, PTL

(* Each window was asked for with the password, and a password that the    *)
(* entry cannot hold opens none, whatever columns the entry has: what the  *)
(* entry holds fits in it, so that a password it equals fits too.          *)
THEOREM Authorized == DashboardSpec => []EachWindowIsAuthorized
<1>1. ASSUME ScreenInv, admin_password # None, at \in Allowed
      PROVE  /\ typed # None /\ Entry[typed] = admin_password
             /\ Fits(admin_password)
  <2>1. typed \in Passwords /\ Entry[typed] = admin_password
    BY <1>1 DEF ScreenInv, GateInv
  <2>2. Entry[Entry[typed]] = Entry[typed]
    BY <2>1, EntryAssumption
  <2>3. QED BY <2>1, <2>2, PasswordsAssumption DEF Fits
<1>2. ScreenInv => EachWindowIsAuthorized
  BY <1>1 DEF ScreenInv, GateInv, Allowed, EachWindowIsAuthorized
<1>3. QED BY <1>2, ScreenInvHolds, PTL

-----------------------------------------------------------------------------
(***************************************************************************)
(* Sums over the candidates.  The induction theorems of the library take   *)
(* the predicate as an operator, which the provers cannot instantiate; a   *)
(* smallest counterexample in a set of counterexamples does the same.      *)
(***************************************************************************)

(* A collection of subsets of a finite set has a smallest member: this is  *)
(* induction over finite sets, told of a set instead of a predicate.       *)
LEMMA SmallestSubset ==
  ASSUME NEW S, IsFiniteSet(S), NEW Q, Q \subseteq SUBSET S, Q # {}
  PROVE  \E T \in Q : \A U \in Q : U \subseteq T => U = T
<1>1. IsWellFoundedOn(StrictSubsetOrdering(S), FiniteSubsetsOf(S))
  BY FS_StrictSubsetOrderingWellFounded
<1>2. Q \subseteq FiniteSubsetsOf(S)
  BY FS_FiniteSubsetsOfFinite
<1>3. PICK T \in Q : \A U \in Q : ~ (<<U, T>> \in StrictSubsetOrdering(S))
  BY <1>1, <1>2, WFMin, Zenon
<1>4. ASSUME NEW U \in Q, U \subseteq T, U # T
      PROVE  <<U, T>> \in StrictSubsetOrdering(S)
  BY <1>4 DEF StrictSubsetOrdering
<1>5. \A U \in Q : U \subseteq T => U = T
  BY <1>3, <1>4
<1>6. QED BY <1>5

(* The element a fold over s takes out of it first.                         *)
Chosen(s) == CHOOSE x \in s : TRUE

(* sum adds up f over each subset of S, an element at a time.              *)
IsSumOf(sum, f, S) ==
  sum = [s \in SUBSET S |->
           IF s = {} THEN 0 ELSE f[Chosen(s)] + sum[s \ {Chosen(s)}]]

(* Two ways to add up the same numbers agree.                              *)
LEMMA SumIsUnique ==
  ASSUME NEW S, IsFiniteSet(S), NEW f, NEW g, IsSumOf(g, f, S),
         NEW h, IsSumOf(h, f, S)
  PROVE  g = h
<1> DEFINE Q == {s \in SUBSET S : g[s] # h[s]}
<1>1. CASE Q = {}
  <2>1. \A s \in SUBSET S : g[s] = h[s]
    BY <1>1
  <2>2. g = [s \in SUBSET S |-> g[s]] /\ h = [s \in SUBSET S |-> h[s]]
    BY DEF IsSumOf
  <2>3. QED BY <2>1, <2>2
<1>2. CASE Q # {}
  <2>1. PICK s \in Q : \A U \in Q : U \subseteq s => U = s
    <3>1. Q \subseteq SUBSET S
      OBVIOUS
    <3> HIDE DEF Q
    <3>2. QED BY <1>2, <3>1, SmallestSubset
  <2> DEFINE rest == s \ {Chosen(s)}
  <2>2. s = {} => g[s] = 0 /\ h[s] = 0
    BY DEF IsSumOf
  <2>3. s # {} => /\ g[s] = f[Chosen(s)] + g[rest]
                  /\ h[s] = f[Chosen(s)] + h[rest]
    BY DEF IsSumOf
  <2>4. s # {} => Chosen(s) \in s
    BY DEF Chosen
  <2>5. s # {} => rest \in SUBSET S /\ rest \subseteq s /\ rest # s
    BY <2>4
  <2>6. s # {} => g[rest] = h[rest]
    BY <2>1, <2>5
  <2>7. QED BY <2>1, <2>2, <2>3, <2>6
<1>3. QED BY <1>1, <1>2

LEMMA SumOfSubset ==
  ASSUME NEW S, NEW f, NEW g, IsSumOf(g, f, S), NEW T \in SUBSET S
  PROVE  IsSumOf([s \in SUBSET T |-> g[s]], f, T)
<1> DEFINE h == [s \in SUBSET T |-> g[s]]
<1>1. ASSUME NEW s \in SUBSET T
      PROVE  h[s] = IF s = {} THEN 0 ELSE f[Chosen(s)] + h[s \ {Chosen(s)}]
  <2>1. s \in SUBSET S /\ s \ {Chosen(s)} \in SUBSET T
    OBVIOUS
  <2>2. g[s] = IF s = {} THEN 0 ELSE f[Chosen(s)] + g[s \ {Chosen(s)}]
    BY <2>1 DEF IsSumOf
  <2>3. QED BY <2>1, <2>2
<1>2. h = [s \in SUBSET T |-> h[s]]
  OBVIOUS
<1> HIDE DEF h
<1>3. QED BY <1>1, <1>2 DEF IsSumOf

(* Numbers indexed by a finite set can be added up: a smallest set where   *)
(* they could not has a sum, the one of the rest plus one number more.     *)
LEMMA SumExists ==
  ASSUME NEW S, IsFiniteSet(S), NEW f
  PROVE  \E g : IsSumOf(g, f, S)
<1> DEFINE Q == {T \in SUBSET S : ~ \E g : IsSumOf(g, f, T)}
<1> SUFFICES Q = {}
  OBVIOUS
<1> SUFFICES ASSUME Q # {} PROVE FALSE
  OBVIOUS
<1>1. PICK T \in Q : \A U \in Q : U \subseteq T => U = T
  <2>1. Q \subseteq SUBSET S
    OBVIOUS
  <2> HIDE DEF Q
  <2>2. QED BY <2>1, SmallestSubset
<1> DEFINE sum(U) == CHOOSE g : IsSumOf(g, f, U)
<1>2. \A U \in SUBSET T : U # T => IsSumOf(sum(U), f, U)
  BY <1>1
<1> HIDE DEF Q, sum
<1>3. ASSUME NEW s \in SUBSET T, s # T, NEW U \in SUBSET s
      PROVE  sum(s)[U] = sum(U)[U]
  <2>1. IsFiniteSet(U) /\ U # T /\ U \in SUBSET T
    BY <1>1, <1>3, FS_Subset DEF Q
  <2>2. IsSumOf(sum(s), f, s) /\ IsSumOf(sum(U), f, U)
    BY <1>2, <1>3, <2>1
  <2>3. IsSumOf([t \in SUBSET U |-> sum(s)[t]], f, U)
    BY <2>2, SumOfSubset
  <2>4. sum(U) = [t \in SUBSET U |-> sum(s)[t]]
    BY <2>1, <2>2, <2>3, SumIsUnique
  <2>5. [t \in SUBSET U |-> sum(s)[t]][U] = sum(s)[U]
    OBVIOUS
  <2>6. QED BY <2>4, <2>5
<1> DEFINE value(s) == IF s = {} THEN 0
                       ELSE f[Chosen(s)] + sum(s \ {Chosen(s)})[s \ {Chosen(s)}]
           g == [s \in SUBSET T |-> value(s)]
<1>4. ASSUME NEW s \in SUBSET T, s # T
      PROVE  value(s) = sum(s)[s]
  <2>1. IsSumOf(sum(s), f, s)
    BY <1>2, <1>4
  <2>2. sum(s)[s] = IF s = {} THEN 0
                    ELSE f[Chosen(s)] + sum(s)[s \ {Chosen(s)}]
    BY <2>1 DEF IsSumOf
  <2>3. sum(s)[s \ {Chosen(s)}] = sum(s \ {Chosen(s)})[s \ {Chosen(s)}]
    BY <1>3, <1>4
  <2>4. QED BY <2>2, <2>3
<1>5. ASSUME NEW s \in SUBSET T
      PROVE  g[s] = IF s = {} THEN 0 ELSE f[Chosen(s)] + g[s \ {Chosen(s)}]
  <2> DEFINE rest == s \ {Chosen(s)}
  <2>1. CASE s = {}
    BY <2>1
  <2>2. CASE s # {}
    <3>1. Chosen(s) \in s
      BY <2>2 DEF Chosen
    <3>2. rest \in SUBSET T /\ rest # T
      BY <3>1
    <3>3. g[rest] = value(rest)
      BY <3>2
    <3>4. value(rest) = sum(rest)[rest]
      BY <1>4, <3>2
    <3>5. g[s] = f[Chosen(s)] + sum(rest)[rest]
      BY <2>2
    <3>6. QED BY <2>2, <3>3, <3>4, <3>5
  <2>3. QED BY <2>1, <2>2
<1>6. g = [s \in SUBSET T |-> g[s]]
  OBVIOUS
<1> HIDE DEF g
<1>7. IsSumOf(g, f, T)
  BY <1>5, <1>6 DEF IsSumOf
<1>8. QED BY <1>1, <1>7 DEF Q

Total(lines, S) == MapThenSumSet(LAMBDA c : lines[c], S)

(* The library's sum over a set is such a sum.                             *)
LEMMA SumOverSet ==
  ASSUME NEW S, IsFiniteSet(S), NEW f
  PROVE  \E sum : IsSumOf(sum, f, S) /\ Total(f, S) = sum[S]
<1> DEFINE sum == CHOOSE g : IsSumOf(g, f, S)
<1>1. IsSumOf(sum, f, S)
  BY SumExists
<1>2. Total(f, S) = sum[S]
  BY DEF Total, IsSumOf, Chosen, MapThenSumSet, MapThenFoldSet
<1>3. QED BY <1>1, <1>2

(* The rows of the candidates in s.                                        *)
RowsOf(rows, s) == {r \in rows : r.candidate \in s}

(* Numbers that are each at most the votes of a candidate add up to at     *)
(* most the rows there are: no row names two candidates.                   *)
LEMMA SumAtMostRows ==
  ASSUME NEW rows, IsFiniteSet(rows), NEW f \in [Candidates -> Nat],
         \A c \in Candidates : f[c] <= VotesFor(rows, c)
  PROVE  Total(f, Candidates) <= Cardinality(rows)
<1>1. PICK sum : /\ IsSumOf(sum, f, Candidates)
                 /\ Total(f, Candidates) = sum[Candidates]
  BY CandidatesAssumption, SumOverSet
<1> DEFINE fits(s) == /\ sum[s] \in Nat
                      /\ sum[s] <= Cardinality(RowsOf(rows, s))
           Q == {s \in SUBSET Candidates : ~fits(s)}
<1>2. \A s : /\ IsFiniteSet(RowsOf(rows, s))
             /\ Cardinality(RowsOf(rows, s)) \in Nat
  <2>1. \A s : RowsOf(rows, s) \in SUBSET rows
    BY DEF RowsOf
  <2>2. QED BY <2>1, FS_Subset, FS_CardinalityType
<1>3. ASSUME NEW s \in SUBSET Candidates,
             \A t \in SUBSET Candidates : t \subseteq s /\ t # s => fits(t)
      PROVE  fits(s)
  <2>1. CASE s = {}
    <3>1. sum[s] = 0
      BY <1>1, <2>1 DEF IsSumOf
    <3>2. QED BY <1>2, <3>1
  <2>2. CASE s # {}
    <3> DEFINE c == Chosen(s)
               rest == s \ {c}
    <3>1. c \in s
      BY <2>2 DEF Chosen
    <3>2. sum[s] = f[c] + sum[rest]
      BY <1>1, <2>2 DEF IsSumOf
    <3> HIDE DEF c
    <3>3. fits(rest)
      BY <1>3, <3>1
    <3>4. /\ RowsOf(rows, s) = RowsOf(rows, {c}) \cup RowsOf(rows, rest)
          /\ RowsOf(rows, {c}) \cap RowsOf(rows, rest) = {}
      BY <3>1 DEF RowsOf
    <3>5. Cardinality(RowsOf(rows, s))
            = Cardinality(RowsOf(rows, {c})) + Cardinality(RowsOf(rows, rest))
      <4> DEFINE own == RowsOf(rows, {c})
                 others == RowsOf(rows, rest)
      <4>1. IsFiniteSet(own) /\ IsFiniteSet(others)
        BY <1>2
      <4>2. Cardinality(own) \in Nat /\ Cardinality(others) \in Nat
        BY <1>2
      <4>3. RowsOf(rows, s) = own \cup others /\ own \cap others = {}
        BY <3>4
      <4> HIDE DEF own, others
      <4>4. Cardinality(own \cup others) = Cardinality(own)
              + Cardinality(others) - Cardinality(own \cap others)
        BY <4>1, FS_Union
      <4>5. Cardinality(RowsOf(rows, s))
              = Cardinality(own) + Cardinality(others)
        BY <4>2, <4>3, <4>4, FS_EmptySet
      <4>6. QED BY <4>5 DEF own, others
    <3>6. VotesFor(rows, c) = Cardinality(RowsOf(rows, {c}))
      <4>1. {r \in rows : r.candidate = c} = RowsOf(rows, {c})
        BY DEF RowsOf
      <4>2. QED BY <4>1 DEF VotesFor
    <3>7. f[c] \in Nat /\ f[c] <= VotesFor(rows, c)
      BY <3>1
    <3>8. QED BY <1>2, <3>2, <3>3, <3>5, <3>6, <3>7
  <2>3. QED BY <2>1, <2>2
<1>4. Q = {}
  <2> SUFFICES ASSUME Q # {} PROVE FALSE
    OBVIOUS
  <2>1. PICK s \in Q : \A t \in Q : t \subseteq s => t = s
    <3>1. Q \subseteq SUBSET Candidates
      OBVIOUS
    <3> HIDE DEF Q
    <3>2. QED BY <3>1, CandidatesAssumption, SmallestSubset
  <2>2. QED BY <1>3, <2>1
<1>5. fits(Candidates)
  BY <1>4
<1>6. RowsOf(rows, Candidates) \in SUBSET rows
  BY DEF RowsOf
<1>7. /\ Cardinality(RowsOf(rows, Candidates)) <= Cardinality(rows)
      /\ Cardinality(rows) \in Nat
  BY <1>6, FS_Subset, FS_CardinalityType
<1>8. QED BY <1>1, <1>2, <1>5, <1>7

-----------------------------------------------------------------------------
(***************************************************************************)
(* The lines of the results window.                                        *)
(***************************************************************************)
Counts(lines) == \A c \in Candidates : lines[c] <= VotesFor(votos, c)

(* What was read stays below what is in votos, and the total of the window *)
(* was read after its lines.                                               *)
LinesInv ==
  /\ Counts(read.lines)
  /\ Counts(popup.lines)
  /\ at = "window" /\ ~DbFaults => Total(popup.lines, Candidates) <= popup.votes

LEMMA VotesForGrows ==
  ASSUME IsFiniteSet(votos'), votos \subseteq votos', NEW c
  PROVE  /\ VotesFor(votos, c) <= VotesFor(votos', c)
         /\ VotesFor(votos, c) \in Nat /\ VotesFor(votos', c) \in Nat
<1> DEFINE before == {r \in votos : r.candidate = c}
           after == {r \in votos' : r.candidate = c}
<1>1. before \in SUBSET after /\ after \in SUBSET votos'
  OBVIOUS
<1>2. IsFiniteSet(after) /\ IsFiniteSet(before)
        /\ Cardinality(before) <= Cardinality(after)
  BY <1>1, FS_Subset
<1>3. QED BY <1>2, FS_CardinalityType DEF VotesFor

(* The server's steps only add to what the lines are compared with.        *)
LEMMA CountsGrow ==
  ASSUME CountInv', votos \subseteq votos',
         NEW f \in [Candidates -> Nat], Counts(f)
  PROVE  \A c \in Candidates : f[c] <= VotesFor(votos', c)
<1>1. ASSUME NEW c \in Candidates PROVE f[c] <= VotesFor(votos', c)
  <2>1. /\ VotesFor(votos, c) <= VotesFor(votos', c)
        /\ VotesFor(votos, c) \in Nat /\ VotesFor(votos', c) \in Nat
    BY VotesForGrows DEF CountInv
  <2>2. f[c] \in Nat /\ f[c] <= VotesFor(votos, c)
    BY DEF Counts
  <2>3. QED BY <2>1, <2>2
<1>2. QED BY <1>1

LEMMA BlankCounts ==
  ASSUME CountInv
  PROVE  Counts(Blank.lines)
<1>1. ASSUME NEW c PROVE VotesFor(votos, c) \in Nat
  <2>1. {r \in votos : r.candidate = c} \in SUBSET votos
    OBVIOUS
  <2>2. QED BY <2>1, FS_Subset, FS_CardinalityType DEF CountInv, VotesFor
<1>2. QED BY <1>1 DEF Counts, Blank

(* What get_vote_results finds is what votos holds at that moment.         *)
LEMMA ReadCounts ==
  ASSUME CountInv, read \in Numbers, ReadResults
  PROVE  Counts(read'.lines)
<1>1. PICK lines \in get_vote_results(votos, 16) :
        read' = [read EXCEPT !.lines = [c \in Candidates |->
                   IF c \in DOMAIN lines THEN lines[c] ELSE 0]]
  BY DEF ReadResults
<1>2. PICK D : lines = [c \in D |-> VotesFor(votos, c)]
  BY DEF get_vote_results
<1>3. read'.lines = [c \in Candidates |->
                       IF c \in D THEN VotesFor(votos, c) ELSE 0]
  BY <1>1, <1>2 DEF Numbers
<1>4. ASSUME NEW c PROVE VotesFor(votos, c) \in Nat
  <2>1. {r \in votos : r.candidate = c} \in SUBSET votos
    OBVIOUS
  <2>2. QED BY <2>1, FS_Subset, FS_CardinalityType DEF CountInv, VotesFor
<1>5. QED BY <1>3, <1>4 DEF Counts

(* The total of the window comes last: by then votos holds every row that  *)
(* a line counts.                                                          *)
LEMMA WindowCounts ==
  ASSUME CountInv, LinesInv, read \in Numbers, ShowWindow
  PROVE  /\ popup'.lines = read.lines
         /\ ~DbFaults => Total(popup'.lines, Candidates) <= popup'.votes
<1>1. PICK n \in count_votes(votos) : popup' = Counted(n)
  BY DEF ShowWindow
<1>2. popup'.lines = read.lines /\ popup'.votes = n
  BY <1>1 DEF Counted, Numbers
<1>3. ~DbFaults => n = Cardinality(votos)
  BY DEF count_votes, CountVotes
<1>4. read.lines \in [Candidates -> Nat] /\ IsFiniteSet(votos)
  BY DEF Numbers, CountInv
<1>5. Total(read.lines, Candidates) <= Cardinality(votos)
  BY <1>4, SumAtMostRows DEF LinesInv, Counts
<1>6. QED BY <1>2, <1>3, <1>5

LEMMA InitLinesInv == DashboardInit => LinesInv
<1> SUFFICES ASSUME DashboardInit PROVE LinesInv
  OBVIOUS
<1>1. CountInv
  BY InitCountInv DEF DashboardInit
<1>2. QED BY <1>1, BlankCounts DEF DashboardInit, LinesInv

LEMMA StepLinesInv ==
  ASSUME ScreenInv, CountInv, CountInv', LinesInv,
         [DashboardNext]_dashboardVars
  PROVE  LinesInv'
<1>1. /\ read \in Numbers /\ popup \in Numbers
      /\ read.lines \in [Candidates -> Nat]
      /\ popup.lines \in [Candidates -> Nat]
  BY DEF ScreenInv, DashboardTypeOK, Numbers
<1>2. CASE UNCHANGED dashboardVars
  BY <1>2 DEF dashboardVars, vars, ui, memoryOfMain, LinesInv, Counts
<1>3. CASE Threads /\ up = up'
  <2>1. UNCHANGED <<at, read, popup>>
    BY <1>3 DEF Threads, memoryOfMain
  <2>2. votos \subseteq votos'
    BY <1>3, VotosGrow DEF Threads
  <2>3. Counts(read.lines) /\ Counts(popup.lines)
    BY DEF LinesInv
  <2>4. \A c \in Candidates : read.lines[c] <= VotesFor(votos', c)
    BY <1>1, <2>2, <2>3, CountsGrow
  <2>5. \A c \in Candidates : popup.lines[c] <= VotesFor(votos', c)
    BY <1>1, <2>2, <2>3, CountsGrow
  <2>6. Counts(read.lines)' /\ Counts(popup.lines)'
    BY <2>1, <2>4, <2>5 DEF Counts
  <2>7. QED BY <2>1, <2>6 DEF LinesInv
<1>4. CASE Threads /\ up # up'
  <2>1. /\ read' = Blank /\ popup' = Blank /\ at' # "window"
    BY <1>4 DEF Threads, Restarted
  <2>2. Counts(Blank.lines)'
    <3>1. ASSUME NEW c PROVE VotesFor(votos', c) \in Nat
      <4>1. {r \in votos' : r.candidate = c} \in SUBSET votos'
        OBVIOUS
      <4>2. QED BY <4>1, FS_Subset, FS_CardinalityType DEF CountInv, VotesFor
    <3>2. QED BY <3>1 DEF Counts, Blank
  <2>3. QED BY <2>1, <2>2 DEF LinesInv
<1>5. CASE Reading
  <2>1. votos' = votos
    BY <1>5 DEF Reading, CountForStatus, ShowStatus, ReadCounters,
       ReadResults, ShowWindow, TimerExpires, vars
  <2>2. ASSUME NEW n PROVE Counted(n).lines = read.lines
    BY <1>1 DEF Counted, Numbers
  <2>3. WithCounters.lines = read.lines
    BY <1>1 DEF WithCounters, Numbers
  <2>4. Counts(read'.lines)
    BY <1>1, <1>5, <2>2, <2>3, BlankCounts, ReadCounts DEF LinesInv, Reading,
       CountForStatus, ShowStatus, ReadCounters, ShowWindow, TimerExpires
  <2>5. Counts(popup'.lines)
    BY <1>1, <1>5, WindowCounts DEF LinesInv, Reading, CountForStatus,
       ShowStatus, ReadCounters, ReadResults, ShowWindow, TimerExpires
  <2>6. at' = "window" => ShowWindow
    BY <1>5 DEF Reading, CountForStatus, ShowStatus, ReadCounters,
       ReadResults, TimerExpires
  <2>7. at' = "window" /\ ~DbFaults =>
          Total(popup'.lines, Candidates) <= popup'.votes
    BY <1>1, <2>6, WindowCounts
  <2>8. QED BY <2>1, <2>4, <2>5, <2>7 DEF LinesInv, Counts
<1>6. CASE Operator
  <2>1. votos' = votos /\ at' # "window"
    BY <1>6 DEF Operator, CloseWindow, PressKey, TypePassword, FirstRead, vars
  <2>2. read' \in {read, Blank} /\ popup' \in {popup, Blank}
    BY <1>6 DEF Operator, CloseWindow, PressKey, TypePassword
  <2>3. Counts(read'.lines) /\ Counts(popup'.lines)
    BY <2>2, BlankCounts DEF LinesInv
  <2>4. QED BY <2>1, <2>3 DEF LinesInv, Counts
<1>7. QED BY <1>2, <1>3, <1>4, <1>5, <1>6 DEF DashboardNext

(***************************************************************************)
(* The lines of the results window add up to no more than the total above  *)
(* them, and none counts a vote that is not in votos, although votes go on *)
(* arriving between the two queries.                                       *)
(***************************************************************************)
THEOREM LinesAddUp == DashboardSpec => []ResultsAddUp
<1>1. ScreenInv /\ CountInv /\ CountInv' /\ LinesInv
        /\ [DashboardNext]_dashboardVars => LinesInv'
  BY StepLinesInv
<1>2. DashboardSpec => []CountInv
  BY DashboardIsServer, CountInvHolds, PTL
<1>3. LinesInv => ResultsAddUp
  BY DEF LinesInv, Counts, Total, ResultsAddUp
<1>4. QED
  BY InitLinesInv, <1>1, <1>2, <1>3, ScreenInvHolds, PTL DEF DashboardSpec

-----------------------------------------------------------------------------
(***************************************************************************)
(* The main window.                                                        *)
(***************************************************************************)

(* What the refresh has counted is not behind what is on the screen.       *)
RefreshInv == ~DbFaults /\ at = "status" => status.votes <= read.votes

LEMMA StepRefreshInv ==
  ASSUME ScreenInv, CountInv, RefreshInv, [DashboardNext]_dashboardVars
  PROVE  RefreshInv'
<1>1. CASE Threads
  BY <1>1 DEF Threads, Restarted, memoryOfMain, RefreshInv
<1>2. CASE CountForStatus /\ ~DbFaults
  <2>1. status' = status /\ read' = Counted(Cardinality(votos))
    BY <1>2 DEF CountForStatus, count_votes, CountVotes
  <2>2. Counted(Cardinality(votos)).votes = Cardinality(votos)
    BY DEF ScreenInv, DashboardTypeOK, Counted, Numbers
  <2>3. status.votes <= Cardinality(votos)
    BY <1>2 DEF ScreenInv, AllHonest, Honest
  <2>4. QED BY <2>1, <2>2, <2>3 DEF RefreshInv
<1>3. CASE \/ ShowStatus \/ ReadCounters \/ ReadResults \/ ShowWindow
           \/ TimerExpires \/ Operator
  <2>1. at' # "status"
    BY <1>3 DEF ShowStatus, ReadCounters, ReadResults, ShowWindow,
       TimerExpires, Operator, CloseWindow, PressKey, TypePassword, FirstRead
  <2>2. QED BY <2>1 DEF RefreshInv
<1>4. CASE UNCHANGED dashboardVars
  BY <1>4 DEF dashboardVars, ui, memoryOfMain, RefreshInv
<1>5. CASE DbFaults
  BY <1>5 DEF RefreshInv
<1>6. QED BY <1>1, <1>2, <1>3, <1>4, <1>5 DEF DashboardNext, Reading

(***************************************************************************)
(* As long as the server runs and SQLite answers, the votes of the main    *)
(* window never become fewer, whatever windows are opened over it and      *)
(* however the refresh falls between the votes: what was once on the       *)
(* screen stays.  This is the part of SavedVotesReachTheScreen that needs  *)
(* no fairness (update_dashboard_text, dashboard.c:215-260 and 386-391).   *)
(***************************************************************************)
THEOREM ShownVotesStay ==
  DashboardSpec => [][up /\ up' /\ ~DbFaults =>
                        status.votes <= status'.votes]_dashboardVars
<1>1. DashboardInit => RefreshInv
  BY DEF DashboardInit, RefreshInv
<1>2. ScreenInv /\ CountInv /\ RefreshInv /\ [DashboardNext]_dashboardVars
        => RefreshInv'
  BY StepRefreshInv
<1>3. ASSUME ScreenInv, RefreshInv, [DashboardNext]_dashboardVars,
             up, up', ~DbFaults
      PROVE  status.votes <= status'.votes
  <2>1. status.votes \in Nat /\ WithCounters.votes = read.votes
    BY <1>3 DEF ScreenInv, DashboardTypeOK, Numbers, WithCounters
  <2>2. CASE ShowStatus
    BY <1>3, <2>1, <2>2 DEF ShowStatus, RefreshInv
  <2>3. CASE status' = status
    BY <2>1, <2>3
  <2>4. ShowStatus \/ status' = status
    BY <1>3 DEF DashboardNext, Threads, memoryOfMain, Reading, CountForStatus,
       ReadCounters, ReadResults, ShowWindow, TimerExpires, Operator,
       CloseWindow, PressKey, TypePassword, dashboardVars, ui
  <2>5. QED BY <2>2, <2>3, <2>4
<1>4. ScreenInv /\ RefreshInv /\ [DashboardNext]_dashboardVars
        => [up /\ up' /\ ~DbFaults => status.votes <= status'.votes]_dashboardVars
  BY <1>3
<1>5. DashboardSpec => []CountInv
  BY DashboardIsServer, CountInvHolds, PTL
<1>6. QED BY <1>1, <1>2, <1>4, <1>5, ScreenInvHolds, PTL DEF DashboardSpec

=============================================================================
