------------------------- MODULE VotingSystemProofs -------------------------
(***************************************************************************)
(* Proofs about the server and the client program together, for every      *)
(* number of sessions, voters, candidates and receipts, with and without   *)
(* SQLite faults.                                                          *)
(***************************************************************************)
EXTENDS VotingSystem, VotingServerProofs

-----------------------------------------------------------------------------
(* Types, and the client as one of the peers that VotingServer allows.     *)

LEMMA NoVote ==
  [s \in Conn |-> NoRequest]
    \in [Conn -> [voter : VoterIds \cup {None},
                  candidate : Candidates \cup {None}]]
BY DEF NoRequest

(* The two updates of main's variables voter_id and candidate.             *)
LEMMA SetVoter ==
  ASSUME SystemTypeOK, NEW s \in Conn, NEW v \in VoterIds \cup {None},
         vote' = [vote EXCEPT ![s].voter = v]
  PROVE  /\ vote' \in [Conn -> [voter : VoterIds \cup {None},
                                candidate : Candidates \cup {None}]]
         /\ vote'[s].candidate = vote[s].candidate
         /\ \A t \in Conn \ {s} : vote'[t] = vote[t]
<1>1. vote[s] \in [voter : VoterIds \cup {None},
                   candidate : Candidates \cup {None}]
  BY DEF SystemTypeOK
<1>2. /\ vote' = [vote EXCEPT ![s] = [vote[s] EXCEPT !.voter = v]]
      /\ [vote[s] EXCEPT !.voter = v]
            \in [voter : VoterIds \cup {None},
                 candidate : Candidates \cup {None}]
      /\ [vote[s] EXCEPT !.voter = v].candidate = vote[s].candidate
  BY <1>1
<1>3. QED BY <1>2 DEF SystemTypeOK

LEMMA SetCandidate ==
  ASSUME SystemTypeOK, NEW s \in Conn, NEW c \in Candidates,
         vote' = [vote EXCEPT ![s].candidate = c]
  PROVE  /\ vote' \in [Conn -> [voter : VoterIds \cup {None},
                                candidate : Candidates \cup {None}]]
         /\ vote'[s].candidate = c /\ vote'[s].voter = vote[s].voter
         /\ \A t \in Conn \ {s} : vote'[t] = vote[t]
<1>1. vote[s] \in [voter : VoterIds \cup {None},
                   candidate : Candidates \cup {None}]
  BY DEF SystemTypeOK
<1>2. /\ vote' = [vote EXCEPT ![s] = [vote[s] EXCEPT !.candidate = c]]
      /\ [vote[s] EXCEPT !.candidate = c]
            \in [voter : VoterIds \cup {None},
                 candidate : Candidates \cup {None}]
      /\ [vote[s] EXCEPT !.candidate = c].voter = vote[s].voter
      /\ [vote[s] EXCEPT !.candidate = c].candidate = c
  BY <1>1
<1>3. QED BY <1>2 DEF SystemTypeOK

(* What the client sends is a request, whoever the voter.                  *)
LEMMA MessageIsRequest ==
  ASSUME SystemTypeOK, NEW s \in Conn, NEW c \in Candidates
  PROVE  Message(vote[s].voter, c) \in Request
<1>1. vote[s].voter \in VoterIds \cup {None}
  BY DEF SystemTypeOK
<1>2. QED BY <1>1 DEF Message, Request, NoRequest

LEMMA ClientIsPeer ==
  ASSUME SystemTypeOK, NEW s \in Conn, Client(s)
  PROVE  [Next]_vars
<1>1. CASE \E v \in VoterIds \cup {None} : Login(s, v)
  BY <1>1 DEF Login, Next, Peer
<1>2. CASE \/ \E v \in VoterIds \cup {None} : LoginWithoutServer(s, v)
           \/ Connected(s) \/ ReceiveAnswer(s) \/ ReceiveFails(s)
  BY <1>2 DEF LoginWithoutServer, Connected, ReceiveAnswer, ReceiveFails
<1>3. CASE ConnectFails(s) \/ Exit(s) \/ Killed(s)
  BY <1>3 DEF ConnectFails, Exit, Killed, Hangup, Next, Peer
<1>4. ASSUME NEW c \in Candidates, SendVote(s, c)
      PROVE  [Next]_vars
  BY <1>4, MessageIsRequest DEF SendVote, Next, Peer
<1>5. QED BY <1>1, <1>2, <1>3, <1>4 DEF Client

LEMMA StepIsServerStep ==
  ASSUME SystemTypeOK, [SystemNext]_systemVars
  PROVE  [Next]_vars
<1>1. ASSUME NEW s \in Conn, Client(s) PROVE [Next]_vars
  BY <1>1, ClientIsPeer
<1>2. CASE Server \/ \E c \in Conn : Network(c)
  BY <1>2 DEF Server, Network, Next, Peer
<1>3. CASE UNCHANGED systemVars
  BY <1>3 DEF systemVars
<1>4. QED BY <1>1, <1>2, <1>3 DEF SystemNext

LEMMA StepTypeInv ==
  ASSUME TypeInv, [Next]_vars
  PROVE  TypeInv'
<1>1. CASE UNCHANGED vars
  BY <1>1 DEF vars, TypeInv, TypeOK, LocalsSet
<1>2. QED
  BY <1>1, PeerTypeInv, AcceptTypeInv, HandshakeTypeInv, HandlerTypeInv,
     ProcessTypeInv DEF Next

LEMMA ClientTypeOK ==
  ASSUME TypeInv, SystemTypeOK, NEW s \in Conn, Client(s)
  PROVE  SystemTypeOK'
<1> DEFINE Votes == [voter : VoterIds \cup {None},
                     candidate : Candidates \cup {None}]
<1>1. ASSUME NEW v \in VoterIds \cup {None},
             Login(s, v) \/ LoginWithoutServer(s, v)
      PROVE  SystemTypeOK'
  <2>1. vote' \in [Conn -> Votes] /\ \A t \in Conn \ {s} : vote'[t] = vote[t]
    BY <1>1, SetVoter DEF Login, LoginWithoutServer
  <2>2. /\ stage' = [stage EXCEPT ![s] = "connecting"]
           \/ stage' = [stage EXCEPT ![s] = "no_connection"]
        /\ shown' = shown
    BY <1>1 DEF Login, LoginWithoutServer, Goto
  <2>3. QED BY <2>1, <2>2 DEF SystemTypeOK, Stage
<1>2. CASE \/ Connected(s) \/ ConnectFails(s) \/ ReceiveFails(s)
           \/ Exit(s) \/ Killed(s)
  BY <1>2 DEF Connected, ConnectFails, ReceiveFails, Exit, Killed, Goto,
     SystemTypeOK, Stage
<1>3. ASSUME NEW c \in Candidates, SendVote(s, c)
      PROVE  SystemTypeOK'
  <2>1. /\ vote' \in [Conn -> Votes] /\ vote'[s].candidate = c
        /\ \A t \in Conn \ {s} : vote'[t] = vote[t]
    BY <1>3, SetCandidate DEF SendVote
  <2>2. stage' = [stage EXCEPT ![s] = "waiting"] /\ shown' = shown
    BY <1>3 DEF SendVote, Goto
  <2>3. QED BY <2>1, <2>2 DEF SystemTypeOK, Stage
<1>4. CASE ReceiveAnswer(s)
  <2>1. Head(replies[s]) \in Job
    BY <1>4 DEF ReceiveAnswer, TypeInv, TypeOK
  <2>2. QED BY <1>4, <2>1 DEF ReceiveAnswer, Goto, SystemTypeOK, Stage
<1>5. QED BY <1>1, <1>2, <1>3, <1>4 DEF Client

SystemTypeInv == TypeInv /\ SystemTypeOK

(* Both programs keep the types, and every step of the system is one that  *)
(* VotingServer allows.                                                    *)
LEMMA SystemTypeStep ==
  ASSUME SystemTypeInv, [SystemNext]_systemVars
  PROVE  SystemTypeInv' /\ [Next]_vars
<1>1. [Next]_vars /\ TypeInv'
  BY StepIsServerStep, StepTypeInv DEF SystemTypeInv
<1>2. ASSUME NEW s \in Conn, Client(s) PROVE SystemTypeOK'
  BY <1>2, ClientTypeOK DEF SystemTypeInv
<1>3. ASSUME UNCHANGED clientVars PROVE SystemTypeOK'
  BY <1>3 DEF clientVars, SystemTypeInv, SystemTypeOK
<1>4. CASE SystemNext
  <2>1. SystemTypeOK'
    BY <1>2, <1>3, <1>4 DEF SystemNext
  <2>2. QED BY <1>1, <2>1 DEF SystemTypeInv
<1>5. CASE UNCHANGED systemVars
  <2>1. UNCHANGED clientVars
    BY <1>5 DEF systemVars
  <2>2. SystemTypeOK'
    BY <1>3, <2>1
  <2>3. QED BY <1>1, <2>2 DEF SystemTypeInv
<1>6. QED BY <1>4, <1>5

LEMMA SystemTypeInit == SystemInit => SystemTypeInv /\ Init
BY InitTypeInv, NoVote, NoJobIsJob
DEF SystemInit, SystemTypeInv, SystemTypeOK, Stage

(* main's variables are well typed; a vote that was sent has a candidate.  *)
THEOREM SystemTypeCorrect == SystemSpec => []SystemTypeInv
<1>1. SystemTypeInv /\ [SystemNext]_systemVars => SystemTypeInv'
  BY SystemTypeStep
<1>2. QED BY SystemTypeInit, <1>1, PTL DEF SystemSpec

(* The server among real clients is the server among arbitrary peers: all  *)
(* that is proved of Spec holds of the system.                             *)
THEOREM SystemIsServer == SystemSpec => Spec
<1>1. SystemTypeInv /\ [SystemNext]_systemVars => [Next]_vars
  BY SystemTypeStep
<1>2. QED
  BY SystemTypeInit, SystemTypeCorrect, <1>1, PTL DEF SystemSpec, Spec

(* What is proved of the server holds among real clients.                  *)
THEOREM SystemVoteInv == SystemSpec => []VoteInv
BY SystemIsServer, VoteInvHolds, PTL

-----------------------------------------------------------------------------
(***************************************************************************)
(* What becomes of the one request of a session: it is not yet sent, or    *)
(* was never sent, or its answer was lost (Nothing); it waits in the       *)
(* connection (Queued); the thread works on it (Served); the answer was    *)
(* delivered (Answered).  Never two of them, and in each place it is what  *)
(* this voter chose.                                                       *)
(***************************************************************************)
NoRowOf(s) == \A r \in votos : r.by # s
MyVote(s, j) == j.voter = vote[s].voter /\ j.candidate = vote[s].candidate

Nothing(s) == inbox[s] = <<>> /\ replies[s] = <<>> /\ pc[s] \notin Busy

Queued(s) ==
  /\ inbox[s] = <<Message(vote[s].voter, vote[s].candidate)>>
  /\ replies[s] = <<>> /\ pc[s] \notin Busy
  /\ NoRowOf(s)

Served(s) ==
  /\ inbox[s] = <<>> /\ replies[s] = <<>> /\ pc[s] \in Busy
  /\ pc[s] # "reply" \/ job[s].answer = "ACK" => MyVote(s, job[s])
  /\ ~Holder(s) => NoRowOf(s)

Answered(s) ==
  /\ inbox[s] = <<>> /\ pc[s] \notin Busy
  /\ \E j \in Job : /\ replies[s] = <<j>>
                    /\ j.answer = "ACK" => MyVote(s, j)
                    /\ j.answer # "ACK" => NoRowOf(s)

(* The stages in which nothing has been sent.                              *)
Before == {"login", "connecting", "menu", "no_connection"}

SessionInv(s) ==
  /\ Nothing(s) \/ Queued(s) \/ Served(s) \/ Answered(s)
  /\ stage[s] \in Before => Nothing(s) /\ NoRowOf(s)
  /\ \/ shown[s].answer = None
     \/ replies[s] # <<>> /\ shown[s] = Head(replies[s])

SystemInv ==
  /\ SystemTypeInv
  /\ VoteInv
  /\ \A s \in Conn : SessionInv(s)

LEMMA SystemInvInit ==
  ASSUME SystemInit
  PROVE  \A s \in Conn : SessionInv(s)
BY DEF SystemInit, Init, SessionInv, Nothing, NoRowOf, Busy, NoJob, Parsed,
   NoRequest

(* A session that nothing happened to is as it was.                        *)
LEMMA Undisturbed ==
  ASSUME NEW s \in Conn, SessionInv(s),
         inbox'[s] = inbox[s], replies'[s] = replies[s],
         pc'[s] = pc[s], job'[s] = job[s],
         stage'[s] = stage[s], vote'[s] = vote[s], shown'[s] = shown[s],
         NoRowOf(s) => NoRowOf(s)'
  PROVE  SessionInv(s)'
BY DEF SessionInv, Nothing, Queued, Served, Answered, MyVote, Holder

(* Nothing happens to the others when one connection makes a step.         *)
LEMMA OthersUndisturbed ==
  ASSUME VoteInv, NEW c \in Conn, NEW s \in Conn \ {c},
         Peer(c) \/ AcceptLoop(c) \/ Handshake(c) \/ Handler(c)
  PROVE  /\ inbox'[s] = inbox[s] /\ replies'[s] = replies[s]
         /\ pc'[s] = pc[s] /\ job'[s] = job[s]
         /\ NoRowOf(s) => NoRowOf(s)'
<1>0. TypeOK
  BY DEF VoteInv, TypeInv
<1>1. CASE Peer(c)
  BY <1>0, <1>1 DEF TypeOK, Peer, PeerConnect, PeerSend, PeerClose,
     PeerVanish, LossDetected, NoRowOf
<1>2. CASE AcceptLoop(c)
  BY <1>0, <1>2 DEF TypeOK, AcceptLoop, RefuseConnection, AcceptConnection,
     ThreadStarts, ThreadFails, NoRowOf
<1>3. CASE Handshake(c)
  BY <1>0, <1>3 DEF TypeOK, Handshake, HandshakeSucceeds, HandshakeFails,
     NoRowOf
<1>4. CASE SaveVote(c)
  <2>1. inbox' = inbox /\ replies' = replies
    BY <1>4 DEF SaveVote
  <2>2. pc'[s] = pc[s] /\ job'[s] = job[s]
    BY <1>0, <1>4 DEF SaveVote, TypeOK
  <2>3. votos' \subseteq votos \cup {RowOf(c)}
    BY <1>4 DEF SaveVote, save_vote
  <2>4. RowOf(c).by = c
    BY DEF RowOf
  <2>5. QED BY <2>1, <2>2, <2>3, <2>4 DEF NoRowOf
<1>5. CASE Handler(c) /\ ~SaveVote(c)
  <2>1. votos' = votos
    BY <1>5 DEF Handler, Register, Receive, ReceiveEnds, CheckVoter,
       CheckNotVoted, Tally, Reply, Cleanup, Leave
  <2>2. /\ inbox'[s] = inbox[s] /\ replies'[s] = replies[s]
        /\ pc'[s] = pc[s] /\ job'[s] = job[s]
    BY <1>0, <1>5 DEF TypeOK, Handler, Register, Receive, ReceiveEnds,
       CheckVoter, CheckNotVoted, Tally, Reply, Cleanup, Leave
  <2>3. QED BY <2>1, <2>2 DEF NoRowOf
<1>6. QED BY <1>1, <1>2, <1>3, <1>4, <1>5

-----------------------------------------------------------------------------
(* Steps of the server for the session itself.                             *)

(* A step outside the loop iteration of c.                                 *)
LEMMA OutsideTheLoop ==
  ASSUME NEW c \in Conn, SessionInv(c), UNCHANGED clientVars,
         inbox'[c] = inbox[c], replies'[c] = replies[c], votos' = votos,
         pc'[c] \notin Busy,
         pc[c] \notin Busy \/ inbox[c] = <<>>
  PROVE  SessionInv(c)'
BY DEF SessionInv, Nothing, Queued, Served, Answered, MyVote, NoRowOf,
   clientVars

(* A step of the iteration that works on the request of c.                 *)
LEMMA InsideTheLoop ==
  ASSUME NEW c \in Conn, SessionInv(c), UNCHANGED clientVars,
         pc[c] \in Busy, Served(c)'
  PROVE  SessionInv(c)'
<1>1. Served(c)
  BY DEF SessionInv, Nothing, Queued, Answered
<1>2. replies[c] = <<>> /\ stage[c] \notin Before
  BY <1>1 DEF SessionInv, Served, Nothing
<1>3. shown[c].answer = None
  BY <1>2 DEF SessionInv
<1>4. QED BY <1>2, <1>3 DEF SessionInv, clientVars

LEMMA ReceiveSession ==
  ASSUME VoteInv, NEW c \in Conn, SessionInv(c), Receive(c),
         UNCHANGED clientVars
  PROVE  SessionInv(c)'
<1>1. /\ pc[c] = "recv" /\ inbox[c] # <<>>
      /\ inbox' = [inbox EXCEPT ![c] = Tail(inbox[c])]
      /\ replies' = replies /\ votos' = votos
  BY DEF Receive
<1>2. Queued(c)
  BY <1>1 DEF SessionInv, Nothing, Served, Answered, Busy
<1> DEFINE m == Message(vote[c].voter, vote[c].candidate)
<1>3. TypeOK
  BY DEF VoteInv, TypeInv
<1>4. inbox[c] = <<m>> /\ Head(inbox[c]) = m /\ Tail(inbox[c]) = <<>>
  BY <1>2 DEF Queued
<1>5. inbox'[c] = <<>> /\ replies'[c] = <<>> /\ NoRowOf(c)'
  BY <1>1, <1>2, <1>3, <1>4 DEF Queued, NoRowOf, TypeOK
<1>6. /\ pc'[c] \in Busy /\ ~Holder(c)'
      /\ pc'[c] # "reply" \/ job'[c].answer = "ACK"
            => MyVote(c, job[c])'
  <2>1. CASE m # NoRequest
    <3>1. pc'[c] = "voter_exists" /\ job'[c] = Parsed(m)
      BY <1>3, <1>4, <2>1 DEF Receive, TypeOK
    <3>2. m.voter = vote[c].voter /\ m.candidate = vote[c].candidate
      BY <2>1 DEF Message
    <3>3. job'[c].voter = vote[c].voter
          /\ job'[c].candidate = vote[c].candidate
      BY <3>1, <3>2 DEF Parsed
    <3>4. vote' = vote
      BY DEF clientVars
    <3>5. QED BY <3>1, <3>3, <3>4 DEF Busy, Holder, MyVote
  <2>2. CASE m = NoRequest
    <3>1. /\ pc' = [pc EXCEPT ![c] = "reply"]
          /\ job' = [job EXCEPT ![c].answer = "FORMATO_INVALIDO"]
      BY <1>4, <2>2 DEF Receive
    <3>2. pc'[c] = "reply"
      BY <1>3, <3>1 DEF TypeOK
    <3>3. job'[c].answer = "FORMATO_INVALIDO"
      BY <3>1, AnswerFields DEF VoteInv, Answer
    <3>4. QED BY <3>2, <3>3 DEF Busy, Holder
  <2>3. QED BY <2>1, <2>2
<1>7. Served(c)'
  BY <1>5, <1>6 DEF Served
<1>8. shown[c].answer = None /\ stage[c] \notin Before
  BY <1>1, <1>2 DEF SessionInv, Queued, Nothing
<1>9. QED BY <1>7, <1>8 DEF SessionInv, clientVars

LEMMA ChecksSession ==
  ASSUME VoteInv, NEW c \in Conn, SessionInv(c), UNCHANGED clientVars,
         CheckVoter(c) \/ CheckNotVoted(c)
  PROVE  SessionInv(c)'
<1>1. /\ pc[c] \in {"voter_exists", "has_voted"}
      /\ inbox' = inbox /\ replies' = replies /\ votos' = votos
  BY DEF CheckVoter, CheckNotVoted
<1>2. pc[c] \in Busy /\ ~Holder(c)
  BY <1>1 DEF Busy, Holder
<1>3. Served(c)
  BY <1>2 DEF SessionInv, Nothing, Queued, Answered
<1>4. NoRowOf(c)' /\ MyVote(c, job[c])
  BY <1>1, <1>2, <1>3 DEF Served, NoRowOf
<1>5. \/ /\ job'[c].voter = job[c].voter
         /\ job'[c].candidate = job[c].candidate
         /\ pc'[c] \in {"has_voted", "save_vote"}
      \/ pc'[c] = "reply" /\ job'[c].answer # "ACK"
  <2>0. TypeOK
    BY DEF VoteInv, TypeInv
  <2>1. CASE pc' = [pc EXCEPT ![c] = "has_voted"] /\ job' = job
    BY <2>0, <2>1 DEF TypeOK
  <2>2. ASSUME NEW x \in {"ELEITOR_INVALIDO", "JA_VOTOU"},
               pc' = [pc EXCEPT ![c] = "reply"],
               job' = [job EXCEPT ![c].answer = x]
        PROVE  pc'[c] = "reply" /\ job'[c].answer # "ACK"
    <3>1. x \in Answer /\ x # "ACK"
      BY <2>2 DEF Answer
    <3>2. job'[c].answer = x
      BY <2>2, <3>1, AnswerFields DEF VoteInv
    <3>3. QED BY <2>0, <2>2, <3>1, <3>2 DEF TypeOK
  <2>3. ASSUME NEW r \in Receipts, pc' = [pc EXCEPT ![c] = "save_vote"],
               job' = [job EXCEPT ![c].receipt = r]
        PROVE  /\ job'[c].voter = job[c].voter
               /\ job'[c].candidate = job[c].candidate
               /\ pc'[c] = "save_vote"
    <3>1. job'[c] = [job[c] EXCEPT !.receipt = r] /\ job[c] \in Job
      BY <2>0, <2>3, SetReceipt DEF TypeOK
    <3>2. QED BY <2>0, <2>3, <3>1 DEF TypeOK, Job
  <2>4. QED BY <2>1, <2>2, <2>3 DEF CheckVoter, CheckNotVoted
<1>6. inbox'[c] = <<>> /\ replies'[c] = <<>>
  BY <1>1, <1>3 DEF Served
<1>7. Served(c)'
  <2>1. pc'[c] \in Busy
    BY <1>5 DEF Busy
  <2>2. pc'[c] # "reply" \/ job'[c].answer = "ACK" => MyVote(c, job[c])'
    BY <1>4, <1>5 DEF MyVote, clientVars
  <2>3. QED BY <1>4, <1>6, <2>1, <2>2 DEF Served
<1>8. QED BY <1>2, <1>7, InsideTheLoop

(* The thread inserts the row, or is refused.                              *)
LEMMA SaveVoteSession ==
  ASSUME VoteInv, NEW c \in Conn, SessionInv(c), UNCHANGED clientVars,
         SaveVote(c)
  PROVE  SessionInv(c)'
<1>0. TypeOK
  BY DEF VoteInv, TypeInv
<1>1. /\ pc[c] = "save_vote" /\ pc[c] \in Busy /\ ~Holder(c)
      /\ inbox' = inbox /\ replies' = replies
  BY DEF SaveVote, Busy, Holder
<1>2. Served(c)
  BY <1>1 DEF SessionInv, Nothing, Queued, Answered
<1>3. NoRowOf(c) /\ MyVote(c, job[c])
  BY <1>1, <1>2 DEF Served
<1>4. inbox'[c] = <<>> /\ replies'[c] = <<>>
  BY <1>1, <1>2 DEF Served
<1>5. PICK res \in save_vote(votos, RowOf(c)) :
        /\ votos' = res.votos
        /\ \/ res.ok /\ pc' = [pc EXCEPT ![c] = "tally"] /\ job' = job
           \/ /\ ~res.ok
              /\ pc' = [pc EXCEPT ![c] = "reply"]
              /\ job' = [job EXCEPT ![c].answer = "ERRO_DB"]
  BY DEF SaveVote
<1>6. CASE res.ok
  <2>1. pc'[c] = "tally" /\ job'[c] = job[c]
    BY <1>0, <1>5, <1>6 DEF TypeOK
  <2>2. MyVote(c, job[c])'
    BY <1>3, <2>1 DEF MyVote, clientVars
  <2>3. Served(c)'
    BY <1>4, <2>1, <2>2 DEF Served, Busy, Holder
  <2>4. QED BY <1>1, <2>3, InsideTheLoop
<1>7. CASE ~res.ok
  <2>1. votos' = votos
    BY <1>5, <1>7 DEF save_vote
  <2>2. pc'[c] = "reply"
    BY <1>0, <1>5, <1>7 DEF TypeOK
  <2>3. job'[c].answer = "ERRO_DB"
    BY <1>5, <1>7, AnswerFields DEF VoteInv, Answer
  <2>4. NoRowOf(c)'
    BY <1>3, <2>1 DEF NoRowOf
  <2>5. Served(c)'
    BY <1>4, <2>2, <2>3, <2>4 DEF Served, Busy, Holder
  <2>6. QED BY <1>1, <2>5, InsideTheLoop
<1>8. QED BY <1>6, <1>7

LEMMA TallySession ==
  ASSUME VoteInv, NEW c \in Conn, SessionInv(c), UNCHANGED clientVars,
         Tally(c)
  PROVE  SessionInv(c)'
<1>0. TypeOK
  BY DEF VoteInv, TypeInv
<1>1. /\ pc[c] = "tally" /\ pc[c] \in Busy
      /\ inbox' = inbox /\ replies' = replies
      /\ pc' = [pc EXCEPT ![c] = "reply"]
      /\ job' = [job EXCEPT ![c].answer = "ACK"]
  BY DEF Tally, Busy
<1>2. Served(c)
  BY <1>1 DEF SessionInv, Nothing, Queued, Answered
<1>3. /\ job'[c].answer = "ACK" /\ job'[c].voter = job[c].voter
      /\ job'[c].candidate = job[c].candidate
  BY <1>1, AnswerFields DEF VoteInv, Answer
<1>4. MyVote(c, job[c])'
  BY <1>1, <1>2, <1>3 DEF Served, MyVote, clientVars
<1>5. pc'[c] = "reply"
  BY <1>0, <1>1 DEF TypeOK
<1>6. Served(c)'
  BY <1>1, <1>2, <1>3, <1>4, <1>5 DEF Served, Busy, Holder
<1>7. QED BY <1>1, <1>6, InsideTheLoop

(* The answer arrives, or is lost with the connection.                     *)
LEMMA ReplySession ==
  ASSUME VoteInv, NEW c \in Conn, SessionInv(c), UNCHANGED clientVars,
         Reply(c)
  PROVE  SessionInv(c)'
<1>0. TypeOK
  BY DEF VoteInv, TypeInv
<1>1. /\ pc[c] = "reply" /\ pc[c] \in Busy
      /\ inbox' = inbox /\ votos' = votos
      /\ pc'[c] = "recv" /\ pc'[c] \notin Busy
  BY <1>0 DEF Reply, Busy, TypeOK
<1>2. Served(c)
  BY <1>1 DEF SessionInv, Nothing, Queued, Answered
<1>3. replies[c] = <<>> /\ stage[c] \notin Before /\ inbox'[c] = <<>>
  BY <1>1, <1>2 DEF SessionInv, Served, Nothing
<1>4. shown[c].answer = None
  BY <1>3 DEF SessionInv
<1>5. CASE replies' = replies
  <2>1. Nothing(c)'
    BY <1>1, <1>3, <1>5 DEF Nothing
  <2>2. QED BY <1>3, <1>4, <2>1 DEF SessionInv, clientVars
<1>6. CASE replies' = [replies EXCEPT ![c] = Append(replies[c], job[c])]
  <2>1. job[c] \in Job
    BY <1>0 DEF TypeOK
  <2>2. replies'[c] = <<job[c]>>
    BY <1>0, <1>3, <1>6, <2>1 DEF TypeOK
  <2>3. job[c].answer = "ACK" => MyVote(c, job[c])
    BY <1>2 DEF Served
  <2>4. job[c].answer # "ACK" => NoRowOf(c)
    BY <1>1, <1>2 DEF Served, Holder
  <2>5. vote' = vote
    BY DEF clientVars
  <2> DEFINE j == job[c]
  <2>6. /\ j.answer = "ACK" => /\ j.voter = vote'[c].voter
                              /\ j.candidate = vote'[c].candidate
        /\ j.answer # "ACK" => NoRowOf(c)'
    BY <1>1, <2>3, <2>4, <2>5 DEF MyVote, NoRowOf
  <2>7. Answered(c)'
    <3> HIDE DEF j
    <3>1. j \in Job /\ replies'[c] = <<j>>
      BY <2>1, <2>2 DEF j
    <3>2. QED BY <1>1, <1>3, <2>6, <3>1 DEF Answered, MyVote
  <2>8. QED BY <1>3, <1>4, <2>7 DEF SessionInv, clientVars
<1>7. QED BY <1>0, <1>5, <1>6 DEF Reply, TypeOK

LEMMA ServerSession ==
  ASSUME VoteInv, NEW c \in Conn, SessionInv(c), UNCHANGED clientVars,
         AcceptLoop(c) \/ Handshake(c) \/ Handler(c) \/ Network(c)
  PROVE  SessionInv(c)'
<1>0. TypeOK
  BY DEF VoteInv, TypeInv
<1>1. CASE AcceptLoop(c)
  BY <1>0, <1>1, OutsideTheLoop DEF TypeOK, AcceptLoop, RefuseConnection,
     AcceptConnection, Acceptable, ThreadStarts, ThreadFails, Busy
<1>2. CASE Handshake(c)
  BY <1>0, <1>2, OutsideTheLoop DEF TypeOK, Handshake, HandshakeSucceeds,
     HandshakeFails, Busy
<1>3. CASE Register(c) \/ ReceiveEnds(c) \/ Cleanup(c) \/ Leave(c)
  BY <1>0, <1>3, OutsideTheLoop DEF TypeOK, Register, ReceiveEnds, Cleanup,
     Leave, Busy
<1>4. CASE Network(c)
  <2>1. UNCHANGED <<inbox, replies, pc, job, votos>>
    BY <1>4 DEF Network, PeerVanish, LossDetected
  <2>2. QED BY <2>1, Undisturbed DEF clientVars, NoRowOf
<1>5. CASE \/ Receive(c) \/ CheckVoter(c) \/ CheckNotVoted(c)
           \/ SaveVote(c) \/ Tally(c) \/ Reply(c)
  BY <1>5, ReceiveSession, ChecksSession, SaveVoteSession, TallySession,
     ReplySession
<1>6. QED BY <1>1, <1>2, <1>3, <1>4, <1>5 DEF Handler

(* When the process dies, a request it was working on is lost.             *)
LEMMA ProcessSession ==
  ASSUME VoteInv, NEW s \in Conn, SessionInv(s), UNCHANGED clientVars,
         Process
  PROVE  SessionInv(s)'
<1>1. CASE Die
  <2>1. inbox' = inbox /\ replies' = replies /\ votos' = votos
    BY <1>1 DEF Die
  <2>2. pc'[s] \notin Busy
    BY <1>1 DEF Die, Busy
  <2>3. pc[s] \notin Busy \/ inbox[s] = <<>>
    BY DEF SessionInv, Nothing, Queued, Served, Answered
  <2>4. QED BY <2>1, <2>2, <2>3, OutsideTheLoop
<1>2. CASE Restart
  <2>1. UNCHANGED <<inbox, replies, pc, job, votos>>
    BY <1>2 DEF Restart
  <2>2. QED BY <2>1, Undisturbed DEF clientVars, NoRowOf
<1>3. QED BY <1>1, <1>2 DEF Process, Stop, BrokenPipe

-----------------------------------------------------------------------------
(* Steps of the client.                                                    *)

(* Of its own variables a client changes only those of its session.        *)
LEMMA ClientOthers ==
  ASSUME SystemInv, NEW s \in Conn, Client(s), NEW t \in Conn \ {s}
  PROVE  SessionInv(t)'
<1>0. SystemTypeOK /\ VoteInv /\ SessionInv(t)
  BY DEF SystemInv, SystemTypeInv
<1>1. stage'[t] = stage[t] /\ shown'[t] = shown[t]
  BY <1>0 DEF SystemTypeOK, Client, Login, LoginWithoutServer, Connected,
     ConnectFails, SendVote, ReceiveAnswer, ReceiveFails, Exit, Killed, Goto
<1>2. vote'[t] = vote[t]
  <2>1. CASE vote' = vote
    BY <2>1
  <2>2. ASSUME NEW v \in VoterIds \cup {None},
               Login(s, v) \/ LoginWithoutServer(s, v)
        PROVE  vote'[t] = vote[t]
    BY <1>0, <2>2, SetVoter DEF Login, LoginWithoutServer
  <2>3. ASSUME NEW c \in Candidates, SendVote(s, c)
        PROVE  vote'[t] = vote[t]
    BY <1>0, <2>3, SetCandidate DEF SendVote
  <2>4. QED
    BY <2>1, <2>2, <2>3 DEF Client, Connected, ConnectFails, ReceiveAnswer,
       ReceiveFails, Exit, Killed
<1>3. Peer(s) \/ UNCHANGED vars
  <2>1. ASSUME NEW c \in Candidates, SendVote(s, c)
        PROVE  Peer(s) \/ UNCHANGED vars
    BY <1>0, <2>1, MessageIsRequest DEF SendVote, Peer
  <2>2. QED
    BY <2>1 DEF Client, Login, LoginWithoutServer, Connected, ConnectFails,
       ReceiveAnswer, ReceiveFails, Exit, Killed, Hangup, Peer
<1>4. /\ inbox'[t] = inbox[t] /\ replies'[t] = replies[t]
      /\ pc'[t] = pc[t] /\ job'[t] = job[t]
      /\ NoRowOf(t) => NoRowOf(t)'
  <2>1. CASE Peer(s)
    BY <1>0, <2>1, OthersUndisturbed
  <2>2. CASE UNCHANGED vars
    BY <2>2 DEF vars, NoRowOf
  <2>3. QED BY <1>3, <2>1, <2>2
<1>5. QED BY <1>0, <1>1, <1>2, <1>4, Undisturbed

(* The first and the last steps of a session send nothing.                 *)
LEMMA ClientQuiet ==
  ASSUME SystemInv, NEW s \in Conn,
         UNCHANGED <<inbox, replies, pc, job, votos, shown>>,
         \/ stage[s] \in Before
         \/ stage'[s] \notin Before /\ vote'[s] = vote[s]
  PROVE  SessionInv(s)'
<1>1. SessionInv(s)
  BY DEF SystemInv
<1>2. CASE stage[s] \in Before
  BY <1>1, <1>2 DEF SessionInv, Nothing, NoRowOf
<1>3. CASE stage'[s] \notin Before /\ vote'[s] = vote[s]
  BY <1>1, <1>3 DEF SessionInv, Nothing, Queued, Served, Answered, MyVote,
     Holder, NoRowOf
<1>4. QED BY <1>2, <1>3

LEMMA HangupQuiet ==
  ASSUME NEW s \in Conn, Hangup(s)
  PROVE  UNCHANGED <<inbox, replies, pc, job, votos>>
BY DEF Hangup, PeerClose, vars

LEMMA SendVoteSession ==
  ASSUME SystemInv, NEW s \in Conn, NEW c \in Candidates, SendVote(s, c)
  PROVE  SessionInv(s)'
<1>1. SystemTypeOK /\ TypeOK /\ SessionInv(s)
  BY DEF SystemInv, SystemTypeInv, TypeInv
<1>2. stage[s] = "menu" /\ stage'[s] = "waiting" /\ shown' = shown
  BY <1>1 DEF SendVote, Goto, SystemTypeOK
<1>3. Nothing(s) /\ NoRowOf(s) /\ shown[s].answer = None
  BY <1>1, <1>2 DEF SessionInv, Before, Nothing
<1>4. vote'[s].voter = vote[s].voter /\ vote'[s].candidate = c
  BY <1>1, SetCandidate DEF SendVote
<1>5. CASE PeerSend(s, Message(vote[s].voter, c))
  <2> DEFINE m == Message(vote[s].voter, c)
  <2>1. m \in Request
    BY <1>1, MessageIsRequest
  <2>2. /\ inbox' = [inbox EXCEPT ![s] = Append(inbox[s], m)]
        /\ UNCHANGED <<replies, pc, votos>>
    BY <1>5 DEF PeerSend
  <2>3. inbox'[s] = <<m>>
    <3> HIDE DEF m
    <3> QED BY <1>1, <1>3, <2>1, <2>2 DEF TypeOK, Nothing
  <2>4. Message(vote[s].voter, vote[s].candidate)' = m
    BY <1>4 DEF Message
  <2>5. Queued(s)'
    <3> HIDE DEF m
    <3> QED BY <1>3, <2>2, <2>3, <2>4 DEF Queued, Nothing, NoRowOf
  <2>6. QED BY <1>2, <1>3, <2>5 DEF SessionInv, Before
<1>6. CASE UNCHANGED vars
  <2>1. Nothing(s)'
    BY <1>3, <1>6 DEF Nothing, vars
  <2>2. QED BY <1>2, <1>3, <2>1 DEF SessionInv, Before
<1>7. QED BY <1>5, <1>6 DEF SendVote

LEMMA ClientSession ==
  ASSUME SystemInv, NEW s \in Conn, Client(s)
  PROVE  SessionInv(s)'
<1>1. SystemTypeOK /\ SessionInv(s)
  BY DEF SystemInv, SystemTypeInv
<1>2. ASSUME NEW v \in VoterIds \cup {None},
             Login(s, v) \/ LoginWithoutServer(s, v)
      PROVE  SessionInv(s)'
  <2>1. /\ stage[s] \in Before
        /\ UNCHANGED <<inbox, replies, pc, job, votos, shown>>
    BY <1>2 DEF Login, LoginWithoutServer, PeerConnect, vars, Before
  <2>2. QED BY <2>1, ClientQuiet
<1>3. CASE Connected(s)
  <2>1. /\ stage[s] \in Before
        /\ UNCHANGED <<inbox, replies, pc, job, votos, shown>>
    BY <1>3 DEF Connected, vars, Before
  <2>2. QED BY <2>1, ClientQuiet
<1>4. CASE ConnectFails(s)
  <2>1. /\ stage[s] \in Before
        /\ UNCHANGED <<inbox, replies, pc, job, votos, shown>>
    BY <1>4, HangupQuiet DEF ConnectFails, Before
  <2>2. QED BY <2>1, ClientQuiet
<1>5. ASSUME NEW c \in Candidates, SendVote(s, c)
      PROVE  SessionInv(s)'
  BY <1>5, SendVoteSession
<1>6. CASE ReceiveAnswer(s)
  <2>1. /\ stage[s] = "waiting" /\ replies[s] # <<>>
        /\ shown'[s] = Head(replies[s]) /\ stage'[s] = "receipt"
        /\ UNCHANGED <<inbox, replies, pc, job, votos, vote>>
    BY <1>1, <1>6 DEF ReceiveAnswer, Goto, SystemTypeOK, vars
  <2>2. Answered(s)
    BY <1>1, <2>1 DEF SessionInv, Nothing, Queued, Served
  <2>3. Answered(s)'
    BY <2>1, <2>2 DEF Answered, MyVote, NoRowOf
  <2>4. QED BY <2>1, <2>3 DEF SessionInv, Before
<1>7. CASE ReceiveFails(s) \/ Exit(s) \/ Killed(s)
  <2>1. /\ stage'[s] \in {"failed", "exited"} /\ vote' = vote
        /\ UNCHANGED <<inbox, replies, pc, job, votos, shown>>
    BY <1>1, <1>7, HangupQuiet DEF ReceiveFails, Exit, Killed, Goto,
       SystemTypeOK, vars
  <2>2. stage'[s] \notin Before
    BY <2>1 DEF Before
  <2>3. QED BY <2>1, <2>2, ClientQuiet
<1>8. QED BY <1>2, <1>3, <1>4, <1>5, <1>6, <1>7 DEF Client

-----------------------------------------------------------------------------
LEMMA SystemInvStep ==
  ASSUME SystemInv, VoteInv', [SystemNext]_systemVars
  PROVE  SystemInv'
<1>1. SystemTypeInv'
  BY SystemTypeStep DEF SystemInv
<1>2. SUFFICES ASSUME NEW t \in Conn PROVE SessionInv(t)'
  BY <1>1 DEF SystemInv
<1>3. VoteInv /\ SessionInv(t)
  BY DEF SystemInv
<1>4. ASSUME NEW s \in Conn, Client(s) PROVE SessionInv(t)'
  BY <1>4, ClientSession, ClientOthers
<1>5. ASSUME NEW c \in Conn, UNCHANGED clientVars,
             AcceptLoop(c) \/ Handshake(c) \/ Handler(c) \/ Network(c)
      PROVE  SessionInv(t)'
  <2>1. CASE t = c
    BY <1>3, <1>5, <2>1, ServerSession
  <2>2. CASE t # c
    <3>1. Peer(c) \/ AcceptLoop(c) \/ Handshake(c) \/ Handler(c)
      BY <1>5 DEF Network, Peer
    <3>2. QED
      BY <1>3, <1>5, <2>2, <3>1, OthersUndisturbed, Undisturbed
      DEF clientVars
  <2>3. QED BY <2>1, <2>2
<1>6. ASSUME Process, UNCHANGED clientVars PROVE SessionInv(t)'
  BY <1>3, <1>6, ProcessSession
<1>7. ASSUME UNCHANGED systemVars PROVE SessionInv(t)'
  <2>1. UNCHANGED <<inbox, replies, pc, job, votos, stage, vote, shown>>
    BY <1>7 DEF systemVars, vars, clientVars
  <2>2. QED BY <1>3, <2>1, Undisturbed DEF NoRowOf
<1>8. QED BY <1>4, <1>5, <1>6, <1>7 DEF SystemNext, Server

(* The one request of each session is in one place, and is what its voter  *)
(* chose.                                                                  *)
THEOREM SystemInvHolds == SystemSpec => []SystemInv
<1>1. SystemInv /\ VoteInv' /\ [SystemNext]_systemVars => SystemInv'
  BY SystemInvStep
<1>2. SystemInit /\ VoteInv => SystemInv
  BY SystemTypeInit, SystemInvInit DEF SystemInv
<1>3. QED BY <1>1, <1>2, SystemVoteInv, PTL DEF SystemSpec

(* What the session was shown, if it was shown anything, is the answer to  *)
(* its own request.                                                        *)
LEMMA ShownIsAnswer ==
  ASSUME SystemInv, NEW s \in Conn, shown[s].answer # None
  PROVE  /\ replies[s] # <<>> /\ shown[s] = replies[s][1]
         /\ 1 \in DOMAIN replies[s]
         /\ shown[s].answer = "ACK" => MyVote(s, shown[s])
         /\ shown[s].answer # "ACK" => NoRowOf(s)
<1>1. SessionInv(s) /\ TypeOK
  BY DEF SystemInv, SystemTypeInv, TypeInv
<1>2. replies[s] # <<>> /\ shown[s] = Head(replies[s])
  BY <1>1 DEF SessionInv
<1>3. Answered(s)
  BY <1>1, <1>2 DEF SessionInv, Nothing, Queued, Served
<1>4. PICK j \in Job : /\ replies[s] = <<j>>
                       /\ j.answer = "ACK" => MyVote(s, j)
                       /\ j.answer # "ACK" => NoRowOf(s)
  BY <1>3 DEF Answered
<1>5. shown[s] = j /\ replies[s][1] = j /\ 1 \in DOMAIN replies[s]
  BY <1>2, <1>4
<1>6. QED BY <1>2, <1>4, <1>5

(* An ACK on the screen is a row of votos with this voter, this candidate  *)
(* and this receipt, inserted for this session.                            *)
THEOREM MyReceipt == SystemSpec => []ReceiptIsMyVote
<1>1. SystemInv => ReceiptIsMyVote
  <2> SUFFICES ASSUME SystemInv, NEW s \in Conn, shown[s].answer = "ACK"
               PROVE  [voter |-> vote[s].voter, candidate |-> vote[s].candidate,
                       receipt |-> shown[s].receipt, by |-> s] \in votos
    BY DEF ReceiptIsMyVote
  <2>0. shown[s].answer # None
    BY NoAnswerAssumption DEF Answer
  <2>1. /\ shown[s] = replies[s][1] /\ 1 \in DOMAIN replies[s]
        /\ MyVote(s, shown[s])
    BY <2>0, ShownIsAnswer
  <2>2. AckedRow(s, 1) \in votos
    BY <2>1 DEF SystemInv, VoteInv, AckedIsRecorded, IsAck
  <2>3. QED BY <2>1, <2>2 DEF AckedRow, MyVote
<1>2. QED BY <1>1, SystemInvHolds, PTL

(* Two receipts for one voter would speak of one row, which one session    *)
(* inserted.                                                               *)
THEOREM OneReceipt == SystemSpec => []OneReceiptPerVoter
<1>1. ReceiptIsMyVote /\ VoteInv => OneReceiptPerVoter
  <2> SUFFICES ASSUME ReceiptIsMyVote, VoteInv, NEW s \in Conn, NEW t \in Conn,
                      shown[s].answer = "ACK", shown[t].answer = "ACK",
                      vote[s].voter = vote[t].voter
               PROVE  s = t
    BY DEF OneReceiptPerVoter
  <2> DEFINE row(u) == [voter |-> vote[u].voter,
                        candidate |-> vote[u].candidate,
                        receipt |-> shown[u].receipt, by |-> u]
  <2>1. row(s) \in votos /\ row(t) \in votos
    BY DEF ReceiptIsMyVote
  <2>2. row(s).voter = row(t).voter
    OBVIOUS
  <2>3. row(s) = row(t)
    BY <2>1, <2>2 DEF VoteInv, OneVotePerVoter
  <2>4. row(s).by = s /\ row(t).by = t
    OBVIOUS
  <2>5. QED BY <2>3, <2>4
<1>2. QED BY <1>1, MyReceipt, SystemVoteInv, PTL

(* A voter who was refused, or never connected, has no vote through this   *)
(* session: nothing was sent twice, and a NACK follows no INSERT.          *)
THEOREM RefusedHasNoVote == SystemSpec => []RefusedSessionHasNoVote
<1>1. SystemInv => RefusedSessionHasNoVote
  <2> SUFFICES ASSUME SystemInv, NEW s \in Conn,
                      \/ stage[s] = "no_connection"
                      \/ shown[s].answer \notin {None, "ACK"}
               PROVE  NoRowOf(s)
    BY DEF RefusedSessionHasNoVote, NoRowOf
  <2>1. CASE stage[s] = "no_connection"
    BY <2>1 DEF SystemInv, SessionInv, Before
  <2>2. CASE shown[s].answer \notin {None, "ACK"}
    BY <2>2, ShownIsAnswer
  <2>3. QED BY <2>1, <2>2
<1>2. QED BY <1>1, SystemInvHolds, PTL

(* SystemTypeOK, which SystemTypeInv contains.                             *)
THEOREM SystemTypes == SystemSpec => []SystemTypeOK
<1>1. SystemTypeInv => SystemTypeOK
  BY DEF SystemTypeInv
<1>2. QED BY <1>1, SystemTypeCorrect, PTL

(* The server among real clients implements Election.                      *)
THEOREM SystemImplementation == SystemSpec => ImplementsElection
BY SystemIsServer, Implementation, PTL

-----------------------------------------------------------------------------
(***************************************************************************)
(* Neither end waits for the other.  A blocking read has no timeout on     *)
(* either side, so the client in ssl_recv must be owed an answer by the    *)
(* thread, and the thread in ssl_recv must have a client that is not       *)
(* waiting.                                                                *)
(***************************************************************************)

(* An answer is there, or the thread has the request or will read it.      *)
Owed(s) == \/ replies[s] # <<>>
           \/ pc[s] \in Busy
           \/ pc[s] \in {"register", "recv"} /\ inbox[s] # <<>>

(* What each end does at each state of the connection.                     *)
EndsMeet(s) ==
  /\ link[s] \in {"pending", "open"} => up
  /\ link[s] = "idle" => pc[s] = "none"
  /\ link[s] = "pending" => /\ stage[s] = "connecting"
                            /\ pc[s] \in {"none", "spawn", "ssl_accept"}
  /\ link[s] = "open" =>
       /\ stage[s] \in {"connecting", "menu", "waiting", "receipt"}
       /\ pc[s] \in {"register", "recv"} \cup Busy
       /\ stage[s] = "waiting" => Owed(s)

MeetInv == \A s \in Conn : EndsMeet(s)

LEMMA MeetUntouched ==
  ASSUME NEW s \in Conn, EndsMeet(s), up' = up,
         link'[s] = link[s], pc'[s] = pc[s], stage'[s] = stage[s],
         inbox'[s] = inbox[s], replies'[s] = replies[s]
  PROVE  EndsMeet(s)'
BY DEF EndsMeet, Owed

(* The connection is down, and was not made anew.                          *)
LEMMA MeetDown ==
  ASSUME NEW s \in Conn, link'[s] \notin {"idle", "pending", "open"}
  PROVE  EndsMeet(s)'
BY DEF EndsMeet

(* The server before and in the handshake.                                 *)
LEMMA AcceptMeets ==
  ASSUME SystemTypeInv, NEW c \in Conn, EndsMeet(c), UNCHANGED clientVars,
         AcceptLoop(c) \/ Handshake(c) \/ Network(c)
  PROVE  EndsMeet(c)'
<1> USE DEF SystemTypeInv, TypeInv, TypeOK, LinkState, EndsMeet, clientVars
<1>1. CASE RefuseConnection(c) \/ ThreadFails(c) \/ HandshakeFails(c)
           \/ Network(c)
  BY <1>1, MeetDown DEF RefuseConnection, ThreadFails, HandshakeFails, Network,
     PeerVanish, LossDetected
<1>2. CASE AcceptConnection(c)
  BY <1>2 DEF AcceptConnection, Acceptable, Busy
<1>3. CASE ThreadStarts(c)
  BY <1>3 DEF ThreadStarts, Busy
<1>4. CASE HandshakeSucceeds(c)
  BY <1>4 DEF HandshakeSucceeds
<1>5. QED BY <1>1, <1>2, <1>3, <1>4 DEF AcceptLoop, Handshake

(* The loop of handle_client.                                              *)
LEMMA HandlerMeets ==
  ASSUME SystemTypeInv, NEW c \in Conn, EndsMeet(c), UNCHANGED clientVars,
         Handler(c)
  PROVE  EndsMeet(c)'
<1> USE DEF SystemTypeInv, TypeInv, TypeOK, EndsMeet, clientVars
<1>1. CASE Register(c)
  BY <1>1 DEF Register, Busy, Owed
<1>2. CASE Receive(c)
  <2>1. pc'[c] \in {"voter_exists", "reply"} /\ up' = up
        /\ link' = link /\ stage' = stage /\ pc[c] = "recv"
    BY <1>2 DEF Receive
  <2>2. QED BY <2>1 DEF Busy, Owed
<1>3. CASE CheckVoter(c) \/ CheckNotVoted(c) \/ SaveVote(c) \/ Tally(c)
  <2>1. pc'[c] \in Busy /\ up' = up /\ pc[c] \in Busy
        /\ link' = link /\ stage' = stage
    BY <1>3 DEF CheckVoter, CheckNotVoted, SaveVote, Tally, Busy
  <2>2. QED BY <2>1 DEF Busy, Owed
<1>4. CASE Reply(c)
  <2>1. /\ pc'[c] = "recv" /\ up' = up /\ pc[c] \in Busy
        /\ link' = link /\ stage' = stage
    BY <1>4 DEF Reply, Busy
  <2>2. link[c] = "open" => replies'[c] = Append(replies[c], job[c])
    BY <1>4 DEF Reply
  <2>3. link[c] = "open" => replies'[c] # <<>>
    BY <2>2
  <2>4. QED BY <2>1, <2>3 DEF Busy, Owed
<1>5. CASE ReceiveEnds(c) \/ Cleanup(c) \/ Leave(c)
  <2>1. link'[c] \notin {"idle", "pending", "open"}
    BY <1>5 DEF ReceiveEnds, Cleanup, Leave, LinkState, Busy
  <2>2. QED BY <2>1, MeetDown
<1>6. QED BY <1>1, <1>2, <1>3, <1>4, <1>5 DEF Handler

LEMMA ProcessMeets ==
  ASSUME SystemTypeInv, NEW s \in Conn, EndsMeet(s), UNCHANGED clientVars,
         Process
  PROVE  EndsMeet(s)'
<1>1. CASE Die
  BY <1>1 DEF Die, EndsMeet
<1>2. CASE Restart
  BY <1>2 DEF Restart, EndsMeet, Owed, clientVars
<1>3. QED BY <1>1, <1>2 DEF Process, Stop, BrokenPipe

(* A client that hangs up leaves no connection that is up.                 *)
LEMMA HangupMeets ==
  ASSUME SystemTypeInv, NEW s \in Conn, EndsMeet(s), Hangup(s)
  PROVE  EndsMeet(s)'
<1> USE DEF SystemTypeInv, TypeInv, TypeOK, LinkState
<1>1. CASE PeerClose(s)
  BY <1>1, MeetDown DEF PeerClose
<1>2. CASE link[s] \notin {"pending", "open"} /\ UNCHANGED vars
  BY <1>2 DEF EndsMeet, vars
<1>3. QED BY <1>1, <1>2 DEF Hangup

(* What was sent is there to be read.                                      *)
LEMMA LongerIsNotEmpty ==
  ASSUME NEW S, NEW q \in Seq(S), NEW r \in S
  PROVE  Append(q, r) # <<>>
<1>1. Len(Append(q, r)) = Len(q) + 1 /\ Len(q) \in Nat
  OBVIOUS
<1>2. Len(q) + 1 # 0
  BY <1>1
<1>3. QED BY <1>1, <1>2

LEMMA ClientMeets ==
  ASSUME SystemTypeInv, NEW s \in Conn, EndsMeet(s), Client(s)
  PROVE  EndsMeet(s)'
<1> USE DEF SystemTypeInv, SystemTypeOK, TypeInv, TypeOK, Goto
<1>1. CASE \E v \in VoterIds \cup {None} : Login(s, v)
  BY <1>1 DEF Login, PeerConnect, EndsMeet
<1>2. CASE \E v \in VoterIds \cup {None} : LoginWithoutServer(s, v)
  BY <1>2 DEF LoginWithoutServer, EndsMeet, vars
<1>3. CASE Connected(s)
  BY <1>3 DEF Connected, EndsMeet, vars
<1>4. CASE ConnectFails(s) \/ Exit(s) \/ Killed(s)
  BY <1>4, HangupMeets DEF ConnectFails, Exit, Killed
<1>5. ASSUME NEW c \in Candidates, SendVote(s, c)
      PROVE  EndsMeet(s)'
  <2>1. stage[s] = "menu" /\ stage'[s] = "waiting"
    BY <1>5 DEF SendVote
  <2>2. CASE PeerSend(s, Message(vote[s].voter, c))
    <3> DEFINE m == Message(vote[s].voter, c)
    <3>0. m \in Request
      BY MessageIsRequest
    <3>1. /\ link[s] = "open" /\ UNCHANGED <<up, link, pc>>
          /\ inbox'[s] = Append(inbox[s], m)
      BY <2>2 DEF PeerSend
    <3>2. inbox'[s] # <<>>
      <4>1. inbox[s] \in Seq(Request)
        OBVIOUS
      <4>2. QED BY <3>0, <3>1, <4>1, LongerIsNotEmpty
    <3>3. QED BY <2>1, <3>1, <3>2 DEF EndsMeet, Owed
  <2>3. CASE link[s] # "open" /\ UNCHANGED vars
    BY <2>1, <2>3 DEF EndsMeet, vars
  <2>4. QED BY <1>5, <2>2, <2>3 DEF SendVote
<1>6. CASE ReceiveAnswer(s) \/ ReceiveFails(s)
  BY <1>6 DEF ReceiveAnswer, ReceiveFails, EndsMeet, vars
<1>7. QED BY <1>1, <1>2, <1>3, <1>4, <1>5, <1>6 DEF Client

(* A session takes no part in the steps of another.                        *)
LEMMA OthersMeet ==
  ASSUME SystemTypeInv, NEW c \in Conn, NEW s \in Conn \ {c}, EndsMeet(s),
         \/ Client(c)
         \/ /\ AcceptLoop(c) \/ Handshake(c) \/ Handler(c) \/ Network(c)
            /\ UNCHANGED clientVars
  PROVE  EndsMeet(s)'
<1> USE DEF SystemTypeInv, SystemTypeOK
<1>1. stage'[s] = stage[s]
  BY DEF clientVars, Client, Login, LoginWithoutServer, Connected,
     ConnectFails, SendVote, ReceiveAnswer, ReceiveFails, Exit, Killed, Goto
<1>2. \/ UNCHANGED vars
      \/ Peer(c) \/ AcceptLoop(c) \/ Handshake(c) \/ Handler(c)
  <2>1. ASSUME NEW n \in Candidates, SendVote(c, n)
        PROVE  Peer(c) \/ UNCHANGED vars
    BY <2>1, MessageIsRequest DEF SendVote, Peer
  <2>2. QED
    BY <2>1 DEF Client, Login, LoginWithoutServer, Connected, ConnectFails,
       ReceiveAnswer, ReceiveFails, Exit, Killed, Hangup, Peer, Network
<1>3. CASE UNCHANGED vars
  BY <1>1, <1>3, MeetUntouched DEF vars
<1>4. CASE Peer(c) \/ AcceptLoop(c) \/ Handshake(c) \/ Handler(c)
  <2>1. pc'[s] = pc[s] /\ inbox'[s] = inbox[s] /\ link'[s] = link[s]
    BY <1>4, OthersStand DEF Stands
  <2>2. replies'[s] = replies[s] /\ up' = up
    BY <1>4 DEF TypeInv, TypeOK, Peer, PeerConnect, PeerSend, PeerClose,
       PeerVanish, LossDetected, AcceptLoop, RefuseConnection,
       AcceptConnection, ThreadStarts, ThreadFails, Handshake,
       HandshakeSucceeds, HandshakeFails, Handler, Register, Receive,
       ReceiveEnds, CheckVoter, CheckNotVoted, SaveVote, Tally, Reply,
       Cleanup, Leave
  <2>3. QED BY <1>1, <2>1, <2>2, MeetUntouched
<1>5. QED BY <1>2, <1>3, <1>4

LEMMA StepMeetInv ==
  SystemTypeInv /\ MeetInv /\ [SystemNext]_systemVars => MeetInv'
<1> SUFFICES ASSUME SystemTypeInv, MeetInv, [SystemNext]_systemVars,
                    NEW s \in Conn
             PROVE  EndsMeet(s)'
  BY DEF MeetInv
<1>1. EndsMeet(s)
  BY DEF MeetInv
<1>2. ASSUME NEW c \in Conn, Client(c) PROVE EndsMeet(s)'
  BY <1>1, <1>2, ClientMeets, OthersMeet
<1>3. ASSUME NEW c \in Conn, UNCHANGED clientVars,
             AcceptLoop(c) \/ Handshake(c) \/ Handler(c) \/ Network(c)
      PROVE  EndsMeet(s)'
  BY <1>1, <1>3, AcceptMeets, HandlerMeets, OthersMeet
<1>4. ASSUME Process, UNCHANGED clientVars PROVE EndsMeet(s)'
  BY <1>1, <1>4, ProcessMeets
<1>5. CASE UNCHANGED systemVars
  BY <1>1, <1>5, MeetUntouched DEF systemVars, vars, clientVars
<1>6. QED BY <1>2, <1>3, <1>4, <1>5 DEF SystemNext, Server

(* What each end does agrees with the state of their connection.           *)
THEOREM MeetInvHolds == SystemSpec => []MeetInv
<1>1. SystemInit => MeetInv
  BY DEF SystemInit, Init, MeetInv, EndsMeet
<1>2. QED BY <1>1, StepMeetInv, SystemTypeCorrect, PTL DEF SystemSpec

(***************************************************************************)
(* The client and its thread never wait for each other in blocking reads   *)
(* that have no timeout: while the connection is up, a client that         *)
(* connects has a running server before or in its handshake, or is         *)
(* through; one that waits has an answer, or a thread that serves its      *)
(* request or will read it; and a thread that waits for a request has a    *)
(* client that is still to send it, or was answered and still shows the    *)
(* receipt.  This is the part of SessionConcludes that needs no fairness.  *)
(***************************************************************************)
Unblocked(s) ==
  /\ stage[s] = "connecting" /\ link[s] = "pending"
       => up /\ pc[s] \in {"none", "spawn", "ssl_accept"}
  /\ stage[s] = "waiting" /\ link[s] = "open"
       => up /\ Owed(s)
  /\ pc[s] = "recv" /\ inbox[s] = <<>> /\ link[s] = "open"
       => \/ stage[s] \in {"connecting", "menu", "receipt"}
          \/ stage[s] = "waiting" /\ replies[s] # <<>>

(* Unblocked holds of every session: no wait of the client and its thread  *)
(* is for one another (client_socket.c:289-301, server_socket.c:93-120).   *)
THEOREM NeitherWaitsForTheOther ==
  SystemSpec => [](\A s \in Conn : Unblocked(s))
<1>1. MeetInv => \A s \in Conn : Unblocked(s)
  BY DEF MeetInv, EndsMeet, Owed, Busy, Unblocked
<1>2. QED BY <1>1, MeetInvHolds, PTL

=============================================================================
