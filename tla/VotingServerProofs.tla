------------------------ MODULE VotingServerProofs ------------------------
(***************************************************************************)
(* Proofs about VotingServer, for every set of connections, voters,        *)
(* candidates and receipts, with and without SQLite faults.                *)
(***************************************************************************)
EXTENDS VotingServer, TLAPS

-----------------------------------------------------------------------------
(* Type correctness.                                                       *)

(***************************************************************************)
(* What the locals of the thread of c hold at each point of the request    *)
(* loop: SaveVote builds a row from them, so the type of votos rests on    *)
(* it.                                                                     *)
(***************************************************************************)
LocalsSet ==
  \A c \in Conn :
    /\ pc[c] \in {"voter_exists", "has_voted", "save_vote", "tally"} =>
         job[c].voter \in VoterIds /\ job[c].candidate \in Candidates
    /\ pc[c] \in {"save_vote", "tally"} => job[c].receipt \in Receipts

TypeInv == TypeOK /\ LocalsSet

(* The updates of a thread's locals keep their type.                       *)
LEMMA NoJobIsJob == NoJob \in Job
BY DEF NoJob, Parsed, NoRequest, Job

LEMMA SetAnswer ==
  ASSUME NEW f \in [Conn -> Job], NEW c \in Conn, NEW x \in Answer
  PROVE  /\ [f EXCEPT ![c].answer = x] \in [Conn -> Job]
         /\ [f EXCEPT ![c].answer = x][c] = [f[c] EXCEPT !.answer = x]
<1>1. f[c] \in Job
  OBVIOUS
<1>2. [f[c] EXCEPT !.answer = x] \in Job
  BY <1>1 DEF Job
<1>3. QED BY <1>2

LEMMA SetReceipt ==
  ASSUME NEW f \in [Conn -> Job], NEW c \in Conn, NEW x \in Receipts
  PROVE  /\ [f EXCEPT ![c].receipt = x] \in [Conn -> Job]
         /\ [f EXCEPT ![c].receipt = x][c] = [f[c] EXCEPT !.receipt = x]
<1>1. f[c] \in Job
  OBVIOUS
<1>2. [f[c] EXCEPT !.receipt = x] \in Job
  BY <1>1 DEF Job
<1>3. QED BY <1>2

LEMMA InitTypeInv == Init => TypeInv
BY NoJobIsJob DEF Init, TypeInv, TypeOK, LocalsSet, LinkState, Location

LEMMA PeerTypeInv ==
  ASSUME TypeInv, NEW c \in Conn, Peer(c)
  PROVE  TypeInv'
<1>1. CASE PeerConnect(c)
  BY <1>1 DEF PeerConnect, TypeInv, TypeOK, LocalsSet, memory, LinkState
<1>2. ASSUME NEW m \in Request, PeerSend(c, m)
      PROVE  TypeInv'
  BY <1>2 DEF PeerSend, TypeInv, TypeOK, LocalsSet, memory
<1>3. CASE PeerClose(c)
  BY <1>3 DEF PeerClose, TypeInv, TypeOK, LocalsSet, memory, LinkState
<1>4. CASE PeerVanish(c)
  BY <1>4 DEF PeerVanish, TypeInv, TypeOK, LocalsSet, memory, LinkState
<1>5. CASE LossDetected(c)
  BY <1>5 DEF LossDetected, TypeInv, TypeOK, LocalsSet, memory, LinkState
<1>6. QED BY <1>1, <1>2, <1>3, <1>4, <1>5 DEF Peer

LEMMA AcceptTypeInv ==
  ASSUME TypeInv, NEW c \in Conn, AcceptLoop(c)
  PROVE  TypeInv'
<1> USE DEF TypeInv, TypeOK, LocalsSet, memory, LinkState, Location
<1>1. CASE RefuseConnection(c)
  BY <1>1 DEF RefuseConnection
<1>2. CASE AcceptConnection(c)
  BY <1>2 DEF AcceptConnection
<1>3. CASE ThreadStarts(c)
  BY <1>3 DEF ThreadStarts
<1>4. CASE ThreadFails(c)
  BY <1>4 DEF ThreadFails
<1>5. QED BY <1>1, <1>2, <1>3, <1>4 DEF AcceptLoop

LEMMA HandshakeTypeInv ==
  ASSUME TypeInv, NEW c \in Conn, Handshake(c)
  PROVE  TypeInv'
<1> USE DEF TypeInv, TypeOK, LocalsSet, memory, LinkState, Location
<1>1. CASE HandshakeSucceeds(c)
  BY <1>1 DEF HandshakeSucceeds
<1>2. CASE HandshakeFails(c)
  BY <1>2 DEF HandshakeFails
<1>3. QED BY <1>1, <1>2 DEF Handshake

(* An iteration that ends in "reply" with an answer chosen.                *)
LEMMA AnswerTypeInv ==
  ASSUME TypeInv, NEW c \in Conn, NEW x \in Answer,
         job' = [job EXCEPT ![c].answer = x], pc' = [pc EXCEPT ![c] = "reply"]
  PROVE  /\ job' \in [Conn -> Job] /\ pc' \in [Conn -> Location] /\ LocalsSet'
<1>1. job' \in [Conn -> Job]
  BY SetAnswer DEF TypeInv, TypeOK
<1>2. pc' \in [Conn -> Location] /\ pc'[c] = "reply"
  BY DEF TypeInv, TypeOK, Location
<1>3. \A d \in Conn \ {c} : job'[d] = job[d] /\ pc'[d] = pc[d]
  BY DEF TypeInv, TypeOK
<1>4. LocalsSet'
  BY <1>2, <1>3 DEF TypeInv, LocalsSet
<1>5. QED BY <1>1, <1>2, <1>4

LEMMA HandlerTypeInv ==
  ASSUME TypeInv, NEW c \in Conn, Handler(c)
  PROVE  TypeInv'
<1> USE DEF TypeInv, TypeOK, LocalsSet, memory, LinkState, Location
<1>1. CASE Register(c)
  BY <1>1 DEF Register
<1>2. CASE Receive(c)
  <2> DEFINE m == Head(inbox[c])
  <2>1. m \in Request /\ Tail(inbox[c]) \in Seq(Request)
    BY <1>2 DEF Receive
  <2>2. inbox' \in [Conn -> Seq(Request)]
    BY <1>2, <2>1 DEF Receive
  <2>3. CASE m # NoRequest
    <3>1. m.voter \in VoterIds /\ m.candidate \in Candidates
      BY <2>1, <2>3 DEF Request
    <3>2. /\ pc' = [pc EXCEPT ![c] = "voter_exists"]
          /\ job' = [job EXCEPT ![c] = Parsed(m)]
      BY <1>2, <2>3 DEF Receive
    <3>3. Parsed(m) \in Job
      BY <3>1 DEF Parsed, Job
    <3>4. job'[c].voter = m.voter /\ job'[c].candidate = m.candidate
      BY <3>2 DEF Parsed
    <3>5. \A d \in Conn \ {c} : job'[d] = job[d] /\ pc'[d] = pc[d]
      BY <3>2
    <3>6. pc'[c] = "voter_exists"
      BY <3>2
    <3>7. LocalsSet'
      BY <3>1, <3>4, <3>5, <3>6
    <3>8. QED BY <1>2, <2>2, <3>2, <3>3, <3>7 DEF Receive
  <2>4. CASE m = NoRequest
    <3>1. /\ pc' = [pc EXCEPT ![c] = "reply"]
          /\ job' = [job EXCEPT ![c].answer = "FORMATO_INVALIDO"]
      BY <1>2, <2>4 DEF Receive
    <3>2. job' \in [Conn -> Job] /\ pc' \in [Conn -> Location] /\ LocalsSet'
      BY <3>1, AnswerTypeInv DEF Answer
    <3>3. QED BY <1>2, <2>2, <3>2 DEF Receive
  <2>5. QED BY <2>3, <2>4
<1>3. CASE ReceiveEnds(c)
  BY <1>3 DEF ReceiveEnds
<1>4. CASE CheckVoter(c)
  <2>1. CASE pc' = [pc EXCEPT ![c] = "has_voted"] /\ UNCHANGED job
    BY <1>4, <2>1 DEF CheckVoter
  <2>2. CASE /\ pc' = [pc EXCEPT ![c] = "reply"]
             /\ job' = [job EXCEPT ![c].answer = "ELEITOR_INVALIDO"]
    <3>1. job' \in [Conn -> Job] /\ pc' \in [Conn -> Location] /\ LocalsSet'
      BY <2>2, AnswerTypeInv DEF Answer
    <3>2. QED BY <1>4, <3>1 DEF CheckVoter
  <2>3. QED BY <1>4, <2>1, <2>2 DEF CheckVoter
<1>5. CASE CheckNotVoted(c)
  <2>1. ASSUME NEW r \in Receipts, pc' = [pc EXCEPT ![c] = "save_vote"],
               job' = [job EXCEPT ![c].receipt = r]
        PROVE  TypeInv'
    <3>1. /\ job' \in [Conn -> Job]
          /\ job'[c] = [job[c] EXCEPT !.receipt = r]
      BY <2>1, SetReceipt
    <3>2. /\ job'[c].receipt = r
          /\ job'[c].voter = job[c].voter
          /\ job'[c].candidate = job[c].candidate
      BY <3>1 DEF Job
    <3>3. \A d \in Conn \ {c} : job'[d] = job[d] /\ pc'[d] = pc[d]
      BY <2>1
    <3>4. pc[c] = "has_voted" /\ pc'[c] = "save_vote"
      BY <1>5, <2>1 DEF CheckNotVoted
    <3>5. LocalsSet'
      BY <3>2, <3>3, <3>4
    <3>6. QED BY <1>5, <2>1, <3>1, <3>5 DEF CheckNotVoted
  <2>2. CASE /\ pc' = [pc EXCEPT ![c] = "reply"]
             /\ job' = [job EXCEPT ![c].answer = "JA_VOTOU"]
    <3>1. job' \in [Conn -> Job] /\ pc' \in [Conn -> Location] /\ LocalsSet'
      BY <2>2, AnswerTypeInv DEF Answer
    <3>2. QED BY <1>5, <3>1 DEF CheckNotVoted
  <2>3. QED BY <1>5, <2>1, <2>2 DEF CheckNotVoted
<1>6. CASE SaveVote(c)
  <2>1. RowOf(c) \in Row
    BY <1>6 DEF SaveVote, RowOf, Row
  <2>2. PICK res \in save_vote(votos, RowOf(c)) :
          /\ votos' = res.votos
          /\ \/ pc' = [pc EXCEPT ![c] = "tally"] /\ UNCHANGED job
             \/ /\ pc' = [pc EXCEPT ![c] = "reply"]
                /\ job' = [job EXCEPT ![c].answer = "ERRO_DB"]
    BY <1>6 DEF SaveVote
  <2>3. votos' \subseteq Row
    BY <2>1, <2>2 DEF save_vote
  <2>4. CASE pc' = [pc EXCEPT ![c] = "tally"] /\ UNCHANGED job
    BY <1>6, <2>3, <2>4 DEF SaveVote
  <2>5. CASE /\ pc' = [pc EXCEPT ![c] = "reply"]
             /\ job' = [job EXCEPT ![c].answer = "ERRO_DB"]
    <3>1. job' \in [Conn -> Job] /\ pc' \in [Conn -> Location] /\ LocalsSet'
      BY <2>5, AnswerTypeInv DEF Answer
    <3>2. QED BY <1>6, <2>3, <3>1 DEF SaveVote
  <2>6. QED BY <2>2, <2>4, <2>5
<1>7. CASE Tally(c)
  <2>1. job' \in [Conn -> Job] /\ pc' \in [Conn -> Location] /\ LocalsSet'
    BY <1>7, AnswerTypeInv DEF Tally, Answer
  <2>2. QED BY <1>7, <2>1 DEF Tally
<1>8. CASE Reply(c)
  <2>1. job' \in [Conn -> Job]
    BY <1>8, NoJobIsJob DEF Reply
  <2>2. replies' \in [Conn -> Seq(Job)]
    BY <1>8 DEF Reply
  <2>3. LocalsSet'
    BY <1>8 DEF Reply
  <2>4. QED BY <1>8, <2>1, <2>2, <2>3 DEF Reply
<1>9. CASE Cleanup(c)
  BY <1>9 DEF Cleanup
<1>10. CASE Leave(c)
  BY <1>10 DEF Leave
<1>11. QED
  BY <1>1, <1>2, <1>3, <1>4, <1>5, <1>6, <1>7, <1>8, <1>9, <1>10 DEF Handler

LEMMA ProcessTypeInv ==
  ASSUME TypeInv, Process
  PROVE  TypeInv'
<1> USE DEF TypeInv, TypeOK, LocalsSet, memory, LinkState, Location
<1>1. CASE Die
  <2>1. job' \in [Conn -> Job]
    BY <1>1, NoJobIsJob DEF Die
  <2>2. link' \in [Conn -> LinkState] /\ pc' \in [Conn -> Location]
    BY <1>1 DEF Die
  <2>3. \A d \in Conn : pc'[d] \in {"none", "done"}
    BY <1>1 DEF Die
  <2>4. LocalsSet'
    BY <2>3
  <2>5. stops' \in Nat
    BY <1>1 DEF Die
  <2>6. /\ up' \in BOOLEAN
        /\ UNCHANGED <<votos, inbox, replies, connected_clients,
                       active_threads, total_votes>>
    BY <1>1 DEF Die
  <2>7. QED BY <2>1, <2>2, <2>4, <2>5, <2>6
<1>2. CASE Restart
  BY <1>2 DEF Restart
<1>3. QED BY <1>1, <1>2 DEF Process, Stop, BrokenPipe

(* Every reachable state is of the right type; in particular every row of  *)
(* votos carries a valid voter id, a listed candidate and a receipt.       *)
THEOREM TypeCorrect == Spec => []TypeInv
<1>1. TypeInv /\ [Next]_vars => TypeInv'
  <2>1. CASE UNCHANGED vars
    BY <2>1 DEF vars, TypeInv, TypeOK, LocalsSet
  <2>2. QED
    BY <2>1, PeerTypeInv, AcceptTypeInv, HandshakeTypeInv, HandlerTypeInv,
       ProcessTypeInv DEF Next
<1>2. QED BY InitTypeInv, <1>1, PTL DEF Spec

(* TypeOK, which TypeInv contains.                                         *)
THEOREM Types == Spec => []TypeOK
<1>1. TypeInv => TypeOK
  BY DEF TypeInv
<1>2. QED BY <1>1, TypeCorrect, PTL

-----------------------------------------------------------------------------
(***************************************************************************)
(* The safety of the vote.  OneVotePerVoter is inductive by itself (UNIQUE *)
(* sees to it), but AckedIsRecorded, AckedOnce and RefusalIsJustified also *)
(* need what each thread knows between its statements:                     *)
(*  - past voter_exists, the voter is registered;                          *)
(*  - a thread on its way to an ACK has its own row in votos, and none of  *)
(*    the ACKs already sent on its connection is for that voter;           *)
(*  - the refusal a thread is about to send is justified already.          *)
(***************************************************************************)
Holder(c) == pc[c] = "tally" \/ (pc[c] = "reply" /\ job[c].answer = "ACK")

ThreadInv(c) ==
  /\ pc[c] \in {"has_voted", "save_vote"} => job[c].voter \in Eleitores
  /\ Holder(c) =>
       /\ RowOf(c) \in votos
       /\ \A i \in DOMAIN replies[c] :
            IsAck(c, i) => replies[c][i].voter # job[c].voter
  /\ pc[c] = "reply" => Justified(job[c])

VoteInv ==
  /\ TypeInv
  /\ OneVotePerVoter
  /\ OnlyEleitoresVote
  /\ \A c \in Conn : ThreadInv(c)
  /\ AckedIsRecorded
  /\ AckedOnce
  /\ RefusalIsJustified

LEMMA InitVoteInv == Init => VoteInv
<1> SUFFICES ASSUME Init PROVE VoteInv
  OBVIOUS
<1>1. TypeInv
  BY InitTypeInv
<1>2. \A c \in Conn : pc[c] = "none" /\ DOMAIN replies[c] = {}
  BY DEF Init
<1>3. QED
  BY <1>1, <1>2 DEF Init, VoteInv, OneVotePerVoter, OnlyEleitoresVote,
     ThreadInv, Holder, AckedIsRecorded, AckedOnce, RefusalIsJustified

(* A step that leaves votos and the answers alone need only care for the   *)
(* threads it moves to the statements ThreadInv speaks of.                 *)
LEMMA LocalStep ==
  ASSUME VoteInv, TypeInv', UNCHANGED <<votos, replies>>,
         \A d \in Conn : (pc'[d] = pc[d] /\ job'[d] = job[d]) \/ ThreadInv(d)'
  PROVE  VoteInv'
<1>1. \A d \in Conn : ThreadInv(d)'
  <2> SUFFICES ASSUME NEW d \in Conn, pc'[d] = pc[d], job'[d] = job[d]
               PROVE  ThreadInv(d)'
    OBVIOUS
  <2>1. ThreadInv(d)
    BY DEF VoteInv
  <2>2. QED BY <2>1 DEF ThreadInv, Holder, RowOf, IsAck, Justified, HasRow
<1>2. QED
  BY <1>1 DEF VoteInv, OneVotePerVoter, OnlyEleitoresVote, AckedIsRecorded,
     AckedOnce, RefusalIsJustified, IsAck, AckedRow, Justified, HasRow

LEMMA QuietStep ==
  ASSUME VoteInv, TypeInv', UNCHANGED <<votos, replies>>,
         \A d \in Conn : \/ pc'[d] = pc[d] /\ job'[d] = job[d]
                         \/ pc'[d] \notin {"has_voted", "save_vote", "tally",
                                          "reply"}
  PROVE  VoteInv'
<1>1. \A d \in Conn : (pc'[d] = pc[d] /\ job'[d] = job[d]) \/ ThreadInv(d)'
  BY DEF ThreadInv, Holder
<1>2. QED BY <1>1, LocalStep

LEMMA PeerVoteInv ==
  ASSUME VoteInv, TypeInv', NEW c \in Conn, Peer(c)
  PROVE  VoteInv'
<1>1. UNCHANGED <<votos, replies, pc, job>>
  BY DEF Peer, PeerConnect, PeerSend, PeerClose, PeerVanish, LossDetected
<1>2. QED BY <1>1, QuietStep

LEMMA AcceptVoteInv ==
  ASSUME VoteInv, TypeInv', NEW c \in Conn, AcceptLoop(c) \/ Handshake(c)
  PROVE  VoteInv'
<1>1. /\ UNCHANGED <<votos, replies, job>>
      /\ \E p \in {"spawn", "ssl_accept", "register", "done"} :
           pc' = [pc EXCEPT ![c] = p]
  BY DEF AcceptLoop, RefuseConnection, AcceptConnection, ThreadStarts,
     ThreadFails, Handshake, HandshakeSucceeds, HandshakeFails
<1>2. pc \in [Conn -> Location]
  BY DEF VoteInv, TypeInv, TypeOK
<1>3. QED BY <1>1, <1>2, QuietStep

LEMMA ProcessVoteInv ==
  ASSUME VoteInv, TypeInv', Process
  PROVE  VoteInv'
<1>1. CASE Die
  <2>1. UNCHANGED <<votos, replies>>
    BY <1>1 DEF Die
  <2>2. \A d \in Conn : pc'[d] \in {"none", "done"}
    BY <1>1 DEF Die
  <2>3. QED BY <2>1, <2>2, QuietStep
<1>2. CASE Restart
  <2>1. UNCHANGED <<votos, replies, pc, job>>
    BY <1>2 DEF Restart
  <2>2. QED BY <2>1, QuietStep
<1>3. QED BY <1>1, <1>2 DEF Process, Stop, BrokenPipe

(* The answer of a thread, once chosen, is what Justified looks at.        *)
LEMMA AnswerFields ==
  ASSUME TypeInv, NEW c \in Conn, NEW x \in Answer,
         job' = [job EXCEPT ![c].answer = x]
  PROVE  /\ job'[c].answer = x
         /\ job'[c].voter = job[c].voter
         /\ job'[c].candidate = job[c].candidate
         /\ job'[c].receipt = job[c].receipt
         /\ \A d \in Conn \ {c} : job'[d] = job[d]
<1>1. job \in [Conn -> Job]
  BY DEF TypeInv, TypeOK
<1>2. job'[c] = [job[c] EXCEPT !.answer = x]
  BY <1>1, SetAnswer
<1>3. job[c] \in Job
  BY <1>1
<1>4. QED BY <1>1, <1>2, <1>3 DEF Job

(* A thread that decides to refuse, for a reason that holds now.           *)
LEMMA RefuseVoteInv ==
  ASSUME VoteInv, TypeInv', UNCHANGED <<votos, replies>>,
         NEW c \in Conn, NEW x \in Answer \ {"ACK"},
         job' = [job EXCEPT ![c].answer = x],
         pc' = [pc EXCEPT ![c] = "reply"],
         x = "JA_VOTOU" => HasRow(votos, job[c].voter),
         ~DbFaults /\ x = "ERRO_DB" => HasRow(votos, job[c].voter),
         ~DbFaults /\ x = "ELEITOR_INVALIDO" => job[c].voter \notin Eleitores
  PROVE  VoteInv'
<1>1. /\ job'[c].answer = x /\ job'[c].voter = job[c].voter
      /\ \A d \in Conn \ {c} : job'[d] = job[d]
  BY AnswerFields DEF VoteInv
<1>2. pc'[c] = "reply" /\ \A d \in Conn \ {c} : pc'[d] = pc[d]
  BY DEF VoteInv, TypeInv, TypeOK
<1>3. ThreadInv(c)'
  BY <1>1, <1>2 DEF ThreadInv, Holder, Justified, HasRow
<1>4. QED BY <1>1, <1>2, <1>3, LocalStep

LEMMA SaveVoteVoteInv ==
  ASSUME VoteInv, TypeInv', NEW c \in Conn, SaveVote(c)
  PROVE  VoteInv'
<1> DEFINE row == RowOf(c)
<1>1. /\ pc[c] = "save_vote"
      /\ replies' = replies
      /\ job[c].voter \in Eleitores
  BY DEF SaveVote, VoteInv, ThreadInv
<1>2. row.voter = job[c].voter /\ row.by = c
  BY DEF RowOf
<1>3. PICK res \in save_vote(votos, row) :
        /\ votos' = res.votos
        /\ \/ res.ok /\ pc' = [pc EXCEPT ![c] = "tally"] /\ UNCHANGED job
           \/ /\ ~res.ok
              /\ pc' = [pc EXCEPT ![c] = "reply"]
              /\ job' = [job EXCEPT ![c].answer = "ERRO_DB"]
  BY DEF SaveVote
<1>4. CASE ~res.ok
  <2>1. /\ votos' = votos
        /\ ~DbFaults => HasRow(votos, row.voter)
    BY <1>3, <1>4 DEF save_vote
  <2>2. pc' = [pc EXCEPT ![c] = "reply"]
        /\ job' = [job EXCEPT ![c].answer = "ERRO_DB"]
    BY <1>3, <1>4
  <2>3. QED BY <1>1, <1>2, <2>1, <2>2, RefuseVoteInv DEF Answer
<1>5. CASE res.ok
  <2>1. /\ votos' = votos \cup {row}
        /\ ~HasRow(votos, row.voter)
    BY <1>3, <1>5 DEF save_vote
  <2>2. pc' = [pc EXCEPT ![c] = "tally"] /\ job' = job
    BY <1>3, <1>5
  <2>3. pc'[c] = "tally" /\ \A d \in Conn \ {c} : pc'[d] = pc[d]
    BY <2>2 DEF VoteInv, TypeInv, TypeOK
  <2>4. OneVotePerVoter'
    BY <2>1 DEF VoteInv, OneVotePerVoter, HasRow
  <2>5. OnlyEleitoresVote'
    BY <1>1, <1>2, <2>1 DEF VoteInv, OnlyEleitoresVote
  <2>6. AckedIsRecorded' /\ AckedOnce' /\ RefusalIsJustified'
    BY <1>1, <2>1 DEF VoteInv, AckedIsRecorded, AckedOnce, RefusalIsJustified,
       IsAck, AckedRow, Justified, HasRow
  <2>7. ASSUME NEW d \in Conn \ {c} PROVE ThreadInv(d)'
    <3>1. ThreadInv(d)
      BY DEF VoteInv
    <3>2. QED
      BY <1>1, <2>1, <2>2, <2>3, <3>1
      DEF ThreadInv, Holder, RowOf, IsAck, Justified, HasRow
  <2>8. ThreadInv(c)'
    <3>1. RowOf(c)' \in votos'
      BY <2>1, <2>2 DEF RowOf
    <3>2. ASSUME NEW i \in DOMAIN replies'[c], IsAck(c, i)'
          PROVE  replies'[c][i].voter # job'[c].voter
      <4>1. AckedRow(c, i) \in votos
        BY <1>1, <3>2 DEF VoteInv, AckedIsRecorded, IsAck
      <4>2. replies[c][i].voter # row.voter
        BY <2>1, <4>1 DEF HasRow, AckedRow
      <4>3. QED BY <1>1, <1>2, <2>2, <4>2
    <3>3. QED BY <2>3, <3>1, <3>2 DEF ThreadInv
  <2>9. QED BY <2>4, <2>5, <2>6, <2>7, <2>8 DEF VoteInv
<1>6. QED BY <1>4, <1>5

LEMMA ReplyVoteInv ==
  ASSUME VoteInv, TypeInv', NEW c \in Conn, Reply(c)
  PROVE  VoteInv'
<1>1. /\ pc[c] = "reply"
      /\ pc' = [pc EXCEPT ![c] = "recv"]
      /\ job' = [job EXCEPT ![c] = NoJob]
      /\ votos' = votos
  BY DEF Reply
<1>2. /\ pc'[c] = "recv"
      /\ \A d \in Conn \ {c} : pc'[d] = pc[d] /\ job'[d] = job[d]
  BY <1>1 DEF VoteInv, TypeInv, TypeOK
<1>3. CASE replies' = replies
  BY <1>1, <1>2, <1>3, LocalStep DEF ThreadInv, Holder
<1>4. CASE replies' = [replies EXCEPT ![c] = Append(replies[c], job[c])]
  <2> DEFINE n == Len(replies[c])
  <2>1. replies \in [Conn -> Seq(Job)] /\ job[c] \in Job
    BY DEF VoteInv, TypeInv, TypeOK
  <2>2. /\ n \in Nat
        /\ DOMAIN replies[c] = 1..n
        /\ DOMAIN replies'[c] = 1..(n+1)
        /\ replies'[c][n+1] = job[c]
        /\ \A i \in 1..n : replies'[c][i] = replies[c][i]
        /\ \A d \in Conn \ {c} : replies'[d] = replies[d]
    BY <1>4, <2>1
  <2>3. \A d \in Conn : \A i \in DOMAIN replies'[d] :
          \/ d = c /\ i = n+1 /\ replies'[d][i] = job[c]
          \/ i \in DOMAIN replies[d] /\ replies'[d][i] = replies[d][i]
    BY <2>2
  <2>4. ThreadInv(c)
    BY DEF VoteInv
  <2>5. job[c].answer = "ACK" =>
          /\ RowOf(c) \in votos
          /\ \A i \in DOMAIN replies[c] :
               IsAck(c, i) => replies[c][i].voter # job[c].voter
    BY <1>1, <2>4 DEF ThreadInv, Holder
  <2>6. AckedIsRecorded'
    <3> SUFFICES ASSUME NEW d \in Conn, NEW i \in DOMAIN replies'[d],
                        replies'[d][i].answer = "ACK"
                 PROVE  AckedRow(d, i)' \in votos
      BY <1>1 DEF AckedIsRecorded, IsAck
    <3>1. CASE d = c /\ i = n+1 /\ replies'[d][i] = job[c]
      BY <2>5, <3>1 DEF RowOf, AckedRow
    <3>2. CASE i \in DOMAIN replies[d] /\ replies'[d][i] = replies[d][i]
      BY <3>2 DEF VoteInv, AckedIsRecorded, IsAck, AckedRow
    <3>3. QED BY <2>3, <3>1, <3>2
  (* A later ACK for the voter would be another row for the same voter.    *)
  <2>7. ASSUME NEW d \in Conn, NEW i \in DOMAIN replies[d],
               IsAck(d, i), job[c].answer = "ACK"
        PROVE  replies[d][i].voter # job[c].voter
    <3> SUFFICES ASSUME replies[d][i].voter = job[c].voter PROVE FALSE
      OBVIOUS
    <3>1. AckedRow(d, i) \in votos /\ RowOf(c) \in votos
      BY <2>5, <2>7 DEF VoteInv, AckedIsRecorded
    <3>2. AckedRow(d, i).voter = RowOf(c).voter
      BY DEF AckedRow, RowOf
    <3>3. AckedRow(d, i) = RowOf(c)
      BY <3>1, <3>2 DEF VoteInv, OneVotePerVoter
    <3>4. AckedRow(d, i).by = d /\ RowOf(c).by = c
      BY DEF AckedRow, RowOf
    <3>5. d = c
      BY <3>3, <3>4
    <3>6. QED BY <2>5, <2>7, <3>5
  <2>8. AckedOnce'
    <3> SUFFICES ASSUME NEW d \in Conn, NEW i \in DOMAIN replies'[d],
                        NEW e \in Conn, NEW j \in DOMAIN replies'[e],
                        replies'[d][i].answer = "ACK",
                        replies'[e][j].answer = "ACK",
                        replies'[d][i].voter = replies'[e][j].voter
                 PROVE  d = e /\ i = j
      BY DEF AckedOnce, IsAck
    <3>1. CASE /\ i \in DOMAIN replies[d] /\ replies'[d][i] = replies[d][i]
               /\ j \in DOMAIN replies[e] /\ replies'[e][j] = replies[e][j]
      BY <3>1 DEF VoteInv, AckedOnce, IsAck
    <3>2. CASE /\ d = c /\ i = n+1 /\ replies'[d][i] = job[c]
               /\ j \in DOMAIN replies[e] /\ replies'[e][j] = replies[e][j]
      BY <2>7, <3>2 DEF IsAck
    <3>3. CASE /\ e = c /\ j = n+1 /\ replies'[e][j] = job[c]
               /\ i \in DOMAIN replies[d] /\ replies'[d][i] = replies[d][i]
      BY <2>7, <3>3 DEF IsAck
    <3>4. QED BY <2>3, <3>1, <3>2, <3>3
  <2>9. RefusalIsJustified'
    <3>1. Justified(job[c])
      BY <1>1, <2>4 DEF ThreadInv
    <3>2. QED
      BY <1>1, <2>3, <3>1
      DEF VoteInv, RefusalIsJustified, Justified, HasRow
  <2>10. ASSUME NEW d \in Conn PROVE ThreadInv(d)'
    <3>1. CASE d = c
      BY <1>2, <3>1 DEF ThreadInv, Holder
    <3>2. CASE d # c
      <4>1. ThreadInv(d)
        BY DEF VoteInv
      <4>2. replies'[d] = replies[d] /\ pc'[d] = pc[d] /\ job'[d] = job[d]
        BY <1>2, <2>2, <3>2
      <4>3. QED
        BY <1>1, <4>1, <4>2 DEF ThreadInv, Holder, RowOf, IsAck, Justified, HasRow
    <3>3. QED BY <3>1, <3>2
  <2>11. OneVotePerVoter' /\ OnlyEleitoresVote'
    BY <1>1 DEF VoteInv, OneVotePerVoter, OnlyEleitoresVote
  <2>12. QED BY <2>6, <2>8, <2>9, <2>10, <2>11 DEF VoteInv
<1>5. QED BY <1>3, <1>4 DEF Reply, VoteInv, TypeInv, TypeOK

LEMMA HandlerVoteInv ==
  ASSUME VoteInv, TypeInv', NEW c \in Conn, Handler(c)
  PROVE  VoteInv'
<1>0. pc \in [Conn -> Location] /\ job \in [Conn -> Job]
  BY DEF VoteInv, TypeInv, TypeOK
<1>1. CASE Register(c) \/ ReceiveEnds(c) \/ Cleanup(c) \/ Leave(c)
  <2>1. /\ UNCHANGED <<votos, replies, job>>
        /\ \E p \in {"recv", "cleanup", "leave", "done"} :
             pc' = [pc EXCEPT ![c] = p]
    BY <1>1 DEF Register, ReceiveEnds, Cleanup, Leave
  <2>2. QED BY <1>0, <2>1, QuietStep
<1>2. CASE Receive(c)
  <2>1. UNCHANGED <<votos, replies>>
    BY <1>2 DEF Receive
  <2>2. CASE /\ pc' = [pc EXCEPT ![c] = "reply"]
             /\ job' = [job EXCEPT ![c].answer = "FORMATO_INVALIDO"]
    BY <2>1, <2>2, RefuseVoteInv DEF Answer
  <2>3. CASE /\ pc' = [pc EXCEPT ![c] = "voter_exists"]
             /\ job' = [job EXCEPT ![c] = Parsed(Head(inbox[c]))]
    BY <1>0, <2>1, <2>3, QuietStep
  <2>4. QED BY <1>2, <2>2, <2>3 DEF Receive
<1>3. CASE CheckVoter(c)
  <2>1. UNCHANGED <<votos, replies>> /\ pc[c] = "voter_exists"
    BY <1>3 DEF CheckVoter
  <2>2. PICK known \in voter_exists(job[c].voter) :
          \/ known /\ pc' = [pc EXCEPT ![c] = "has_voted"] /\ UNCHANGED job
          \/ /\ ~known
             /\ pc' = [pc EXCEPT ![c] = "reply"]
             /\ job' = [job EXCEPT ![c].answer = "ELEITOR_INVALIDO"]
    BY <1>3 DEF CheckVoter
  <2>3. /\ known => job[c].voter \in Eleitores
        /\ ~DbFaults /\ ~known => job[c].voter \notin Eleitores
    BY <2>2 DEF voter_exists, Outcomes
  <2>4. CASE known /\ pc' = [pc EXCEPT ![c] = "has_voted"] /\ UNCHANGED job
    <3>1. ThreadInv(c)'
      BY <1>0, <2>3, <2>4 DEF ThreadInv, Holder
    <3>2. QED BY <1>0, <2>1, <2>4, <3>1, LocalStep
  <2>5. CASE /\ ~known
             /\ pc' = [pc EXCEPT ![c] = "reply"]
             /\ job' = [job EXCEPT ![c].answer = "ELEITOR_INVALIDO"]
    BY <2>1, <2>3, <2>5, RefuseVoteInv DEF Answer
  <2>6. QED BY <2>2, <2>4, <2>5
<1>4. CASE CheckNotVoted(c)
  <2>1. UNCHANGED <<votos, replies>> /\ pc[c] = "has_voted"
    BY <1>4 DEF CheckNotVoted
  <2>2. PICK voted \in has_voted(votos, job[c].voter) :
          \/ /\ voted
             /\ pc' = [pc EXCEPT ![c] = "reply"]
             /\ job' = [job EXCEPT ![c].answer = "JA_VOTOU"]
          \/ /\ ~voted
             /\ pc' = [pc EXCEPT ![c] = "save_vote"]
             /\ \E r \in Receipts : job' = [job EXCEPT ![c].receipt = r]
    BY <1>4 DEF CheckNotVoted
  <2>3. CASE /\ voted
             /\ pc' = [pc EXCEPT ![c] = "reply"]
             /\ job' = [job EXCEPT ![c].answer = "JA_VOTOU"]
    <3>1. HasRow(votos, job[c].voter)
      BY <2>2, <2>3 DEF has_voted, Outcomes
    <3>2. QED BY <2>1, <2>3, <3>1, RefuseVoteInv DEF Answer
  <2>4. ASSUME NEW r \in Receipts, pc' = [pc EXCEPT ![c] = "save_vote"],
               job' = [job EXCEPT ![c].receipt = r]
        PROVE  VoteInv'
    <3>1. job'[c] = [job[c] EXCEPT !.receipt = r] /\ job[c] \in Job
      BY <1>0, <2>4, SetReceipt
    <3>2. job'[c].voter = job[c].voter
      BY <3>1 DEF Job
    <3>3. job[c].voter \in Eleitores
      BY <2>1 DEF VoteInv, ThreadInv
    <3>4. ThreadInv(c)'
      BY <1>0, <2>4, <3>2, <3>3 DEF ThreadInv, Holder
    <3>5. QED BY <1>0, <2>1, <2>4, <3>4, LocalStep
  <2>5. QED BY <2>2, <2>3, <2>4
<1>5. CASE SaveVote(c)
  BY <1>5, SaveVoteVoteInv
<1>6. CASE Tally(c)
  <2>1. /\ UNCHANGED <<votos, replies>>
        /\ pc[c] = "tally"
        /\ pc' = [pc EXCEPT ![c] = "reply"]
        /\ job' = [job EXCEPT ![c].answer = "ACK"]
    BY <1>6 DEF Tally
  <2>2. /\ job'[c].answer = "ACK" /\ RowOf(c)' = RowOf(c)
        /\ job'[c].voter = job[c].voter
        /\ \A d \in Conn \ {c} : job'[d] = job[d]
    BY <2>1, AnswerFields DEF VoteInv, Answer, RowOf
  <2>3. ThreadInv(c)
    BY DEF VoteInv
  <2>4. ThreadInv(c)'
    BY <1>0, <2>1, <2>2, <2>3 DEF ThreadInv, Holder, IsAck, Justified
  <2>5. QED BY <1>0, <2>1, <2>2, <2>4, LocalStep
<1>7. CASE Reply(c)
  BY <1>7, ReplyVoteInv
<1>8. QED BY <1>1, <1>2, <1>3, <1>4, <1>5, <1>6, <1>7 DEF Handler

LEMMA StepVoteInv == TypeInv' /\ VoteInv /\ [Next]_vars => VoteInv'
<1> SUFFICES ASSUME TypeInv', VoteInv, [Next]_vars PROVE VoteInv'
  OBVIOUS
<1>1. CASE UNCHANGED vars
  <2>1. UNCHANGED <<votos, replies, pc, job>>
    BY <1>1 DEF vars
  <2>2. QED BY <2>1, QuietStep
<1>2. CASE Next
  BY <1>2, PeerVoteInv, AcceptVoteInv, HandlerVoteInv, ProcessVoteInv DEF Next
<1>3. QED BY <1>1, <1>2

(* Rows, answers and the locals of the threads agree at every statement of *)
(* handle_client.                                                          *)
THEOREM VoteInvHolds == Spec => []VoteInv
BY InitVoteInv, StepVoteInv, TypeCorrect, PTL DEF Spec

(* No voter ever has two rows in votos, however many sessions race between *)
(* has_voted and save_vote, whatever SQLite calls fail.                    *)
THEOREM OneVote == Spec => []OneVotePerVoter
<1>1. VoteInv => OneVotePerVoter
  BY DEF VoteInv
<1>2. QED BY <1>1, VoteInvHolds, PTL

(* No row belongs to somebody who is not in eleitores.                     *)
THEOREM OnlyRegistered == Spec => []OnlyEleitoresVote
<1>1. VoteInv => OnlyEleitoresVote
  BY DEF VoteInv
<1>2. QED BY <1>1, VoteInvHolds, PTL

(* An ACK that was delivered speaks of a row that is, and stays, in votos. *)
THEOREM AckIsRecord == Spec => []AckedIsRecorded
<1>1. VoteInv => AckedIsRecorded
  BY DEF VoteInv
<1>2. QED BY <1>1, VoteInvHolds, PTL

(* No voter receives two ACKs.                                             *)
THEOREM AckOnce == Spec => []AckedOnce
<1>1. VoteInv => AckedOnce
  BY DEF VoteInv
<1>2. QED BY <1>1, VoteInvHolds, PTL

(* JA_VOTOU, ERRO_DB and ELEITOR_INVALIDO are true when they are sent and  *)
(* stay true.                                                              *)
THEOREM RefusalJustified == Spec => []RefusalIsJustified
<1>1. VoteInv => RefusalIsJustified
  BY DEF VoteInv
<1>2. QED BY <1>1, VoteInvHolds, PTL

-----------------------------------------------------------------------------
(* The server implements Election.                                         *)

(* With one row per voter, the row CHOOSE picks is the voter's row.        *)
LEMMA ChosenRow ==
  ASSUME NEW T, NEW r \in T,
         \A r1, r2 \in T : r1.voter = r2.voter => r1 = r2
  PROVE  (CHOOSE q \in T : q.voter = r.voter) = r
OBVIOUS

LEMMA InitRefines == Init => Promise!Init
<1> SUFFICES ASSUME Init PROVE Promise!Init
  OBVIOUS
<1>1. Ballots = [v \in Eleitores |-> None]
  BY DEF Init, Ballots, BallotIn, HasRow
<1>2. Confirmed = {}
  <2>1. \A c \in Conn : DOMAIN replies[c] = {}
    BY DEF Init
  <2>2. QED BY <2>1 DEF Confirmed
<1>3. QED BY <1>1, <1>2 DEF Promise!Init

LEMMA SameMapping ==
  ASSUME UNCHANGED <<votos, replies>>
  PROVE  UNCHANGED <<Ballots, Confirmed>>
BY DEF Ballots, BallotIn, HasRow, Confirmed, IsAck

LEMMA SaveVoteRefines ==
  ASSUME VoteInv, VoteInv', NEW c \in Conn, SaveVote(c)
  PROVE  [Promise!Next]_(Promise!vars)
<1> DEFINE row == RowOf(c)
           v == job[c].voter
           k == job[c].candidate
<1>1. replies' = replies /\ Confirmed' = Confirmed
  BY DEF SaveVote, Confirmed, IsAck
<1>2. v \in Eleitores /\ k \in Candidates
  BY DEF SaveVote, VoteInv, ThreadInv, TypeInv, LocalsSet
<1>3. row.voter = v /\ row.candidate = k
  BY DEF RowOf
<1>4. PICK res \in save_vote(votos, row) : votos' = res.votos
  BY DEF SaveVote
<1>5. CASE votos' = votos
  BY <1>1, <1>5, SameMapping DEF Promise!vars
<1>6. CASE votos' = votos \cup {row} /\ ~HasRow(votos, v)
  <2> HIDE DEF row, v, k
  <2>1. BallotIn(votos, v) = None
    BY <1>6 DEF BallotIn
  <2>2. BallotIn(votos', v) = k
    <3>1. row \in votos' /\ OneVotePerVoter'
      BY <1>6 DEF VoteInv
    <3>2. (CHOOSE q \in votos' : q.voter = row.voter) = row
      BY <3>1, ChosenRow DEF OneVotePerVoter
    <3>3. (CHOOSE q \in votos' : q.voter = v) = row
      BY <1>3, <3>2
    <3>4. HasRow(votos', v)
      BY <1>3, <3>1 DEF HasRow
    <3>5. QED BY <1>3, <3>3, <3>4 DEF BallotIn
  <2>3. ASSUME NEW w \in Eleitores \ {v} 
        PROVE  BallotIn(votos', w) = BallotIn(votos, w)
    <3>1. HasRow(votos', w) <=> HasRow(votos, w)
      BY <1>3, <1>6 DEF HasRow
    <3>2. CASE HasRow(votos, w)
      <4>1. PICK r \in votos : r.voter = w
        BY <3>2 DEF HasRow
      <4>2. r \in votos' /\ OneVotePerVoter /\ OneVotePerVoter'
        BY <1>6 DEF VoteInv
      <4>3. (CHOOSE q \in votos : q.voter = r.voter) = r
        BY <4>2, ChosenRow DEF OneVotePerVoter
      <4>4. (CHOOSE q \in votos' : q.voter = r.voter) = r
        BY <4>2, ChosenRow DEF OneVotePerVoter
      <4>5. /\ (CHOOSE q \in votos : q.voter = w) = r
            /\ (CHOOSE q \in votos' : q.voter = w) = r
        BY <4>1, <4>3, <4>4
      <4>6. HasRow(votos', w)
        BY <4>1, <4>2 DEF HasRow
      <4>7. BallotIn(votos, w) = r.candidate
        BY <3>2, <4>5 DEF BallotIn
      <4>8. BallotIn(votos', w) = r.candidate
        BY <4>5, <4>6 DEF BallotIn
      <4>9. QED BY <4>7, <4>8
    <3>3. CASE ~HasRow(votos, w)
      BY <3>1, <3>3 DEF BallotIn
    <3>4. QED BY <3>2, <3>3
  <2>4. Ballots' = [Ballots EXCEPT ![v] = k]
    <3>1. Ballots' = [w \in Eleitores |-> BallotIn(votos', w)]
      BY DEF Ballots
    <3>2. Ballots = [w \in Eleitores |-> BallotIn(votos, w)]
      BY DEF Ballots
    <3>3. QED BY <1>2, <2>2, <2>3, <3>1, <3>2
  <2>5. Ballots[v] = None
    BY <1>2, <2>1 DEF Ballots
  <2>6. Promise!Cast(v, k)
    BY <1>1, <2>4, <2>5 DEF Promise!Cast
  <2>7. QED BY <1>2, <2>6 DEF Promise!Next
<1>7. QED BY <1>3, <1>4, <1>5, <1>6 DEF save_vote

LEMMA ReplyRefines ==
  ASSUME VoteInv, NEW c \in Conn, Reply(c)
  PROVE  [Promise!Next]_(Promise!vars)
<1> DEFINE v == job[c].voter
           n == Len(replies[c])
<1>1. votos' = votos /\ pc[c] = "reply"
  BY DEF Reply
<1>2. Ballots' = Ballots
  BY <1>1 DEF Ballots, BallotIn, HasRow
<1>3. CASE replies' = replies
  BY <1>1, <1>3, SameMapping DEF Promise!vars
<1>4. CASE replies' = [replies EXCEPT ![c] = Append(replies[c], job[c])]
  <2>1. replies \in [Conn -> Seq(Job)] /\ job[c] \in Job
    BY DEF VoteInv, TypeInv, TypeOK
  <2>2. /\ n \in Nat
        /\ DOMAIN replies[c] = 1..n
        /\ DOMAIN replies'[c] = 1..(n+1)
        /\ replies'[c][n+1] = job[c]
        /\ \A i \in 1..n : replies'[c][i] = replies[c][i]
        /\ \A d \in Conn \ {c} : replies'[d] = replies[d]
    BY <1>4, <2>1
  <2>3. CASE job[c].answer # "ACK"
    <3>1. Confirmed' = Confirmed
      <4>1. ASSUME NEW w, NEW d \in Conn
            PROVE  (\E i \in DOMAIN replies'[d] :
                      replies'[d][i].answer = "ACK" /\ replies'[d][i].voter = w)
                   <=> (\E i \in DOMAIN replies[d] :
                      replies[d][i].answer = "ACK" /\ replies[d][i].voter = w)
        BY <2>2, <2>3
      <4>2. QED BY <4>1 DEF Confirmed, IsAck
    <3>2. QED BY <1>2, <3>1 DEF Promise!vars
  <2>4. CASE job[c].answer = "ACK"
    <3>1. RowOf(c) \in votos
      BY <1>1, <2>4 DEF VoteInv, ThreadInv, Holder
    <3>2. RowOf(c).voter = v /\ RowOf(c) \in Row
      BY <3>1 DEF RowOf, VoteInv, TypeInv, TypeOK
    <3>3. v \in Eleitores
      BY <3>1, <3>2 DEF VoteInv, OnlyEleitoresVote
    <3>4. Ballots[v] # None
      <4>1. HasRow(votos, v)
        BY <3>1, <3>2 DEF HasRow
      <4>2. (CHOOSE q \in votos : q.voter = v) = RowOf(c)
        BY <3>1, <3>2, ChosenRow DEF VoteInv, OneVotePerVoter
      <4>3. Ballots[v] = RowOf(c).candidate
        BY <3>3, <4>1, <4>2 DEF Ballots, BallotIn
      <4>4. RowOf(c).candidate \in Candidates
        BY <3>2 DEF Row
      <4>5. QED BY <4>3, <4>4, NoneAssumption
    <3>5. Confirmed' = Confirmed \cup {v}
      <4>1. ASSUME NEW w, NEW d \in Conn
            PROVE  (\E i \in DOMAIN replies'[d] :
                      replies'[d][i].answer = "ACK" /\ replies'[d][i].voter = w)
                   <=> \/ d = c /\ w = v
                       \/ \E i \in DOMAIN replies[d] :
                            /\ replies[d][i].answer = "ACK"
                            /\ replies[d][i].voter = w
        BY <2>2, <2>4
      <4>2. QED BY <3>3, <4>1 DEF Confirmed, IsAck
    <3>6. CASE v \in Confirmed
      BY <1>2, <3>5, <3>6 DEF Promise!vars
    <3>7. CASE v \notin Confirmed
      <4>1. Promise!Confirm(v)
        BY <1>2, <3>4, <3>5, <3>7 DEF Promise!Confirm
      <4>2. QED BY <3>3, <4>1 DEF Promise!Next
    <3>8. QED BY <3>6, <3>7
  <2>5. QED BY <2>3, <2>4
<1>5. QED BY <1>3, <1>4 DEF Reply, VoteInv, TypeInv, TypeOK

LEMMA StepRefines ==
  ASSUME VoteInv, VoteInv', [Next]_vars
  PROVE  [Promise!Next]_(Promise!vars)
<1>1. CASE UNCHANGED <<votos, replies>>
  BY <1>1, SameMapping DEF Promise!vars
<1>2. CASE \E c \in Conn : SaveVote(c)
  BY <1>2, SaveVoteRefines
<1>3. CASE \E c \in Conn : Reply(c)
  BY <1>3, ReplyRefines
<1>4. ASSUME NEW c \in Conn, Peer(c) \/ AcceptLoop(c) \/ Handshake(c)
      PROVE  UNCHANGED <<votos, replies>>
  BY <1>4 DEF Peer, PeerConnect, PeerSend, PeerClose, PeerVanish,
     LossDetected, AcceptLoop, RefuseConnection, AcceptConnection,
     ThreadStarts, ThreadFails, Handshake, HandshakeSucceeds, HandshakeFails
<1>5. ASSUME NEW c \in Conn, Handler(c), ~SaveVote(c), ~Reply(c)
      PROVE  UNCHANGED <<votos, replies>>
  BY <1>5 DEF Handler, Register, Receive, ReceiveEnds, CheckVoter,
     CheckNotVoted, Tally, Cleanup, Leave
<1>6. CASE Process \/ UNCHANGED vars
  BY <1>1, <1>6 DEF Process, Stop, BrokenPipe, Die, Restart, vars
<1>7. QED BY <1>1, <1>2, <1>3, <1>4, <1>5, <1>6 DEF Next

(* Every run of the server, seen through votos and the ACKs delivered, is  *)
(* a run of Election: ballots are cast once and never change, and only a   *)
(* ballot that was cast is confirmed.                                      *)
THEOREM Implementation == Spec => ImplementsElection
<1>1. VoteInv /\ VoteInv' /\ [Next]_vars => [Promise!Next]_(Promise!vars)
  BY StepRefines
<1>2. QED
  BY InitRefines, <1>1, VoteInvHolds, PTL
  DEF Spec, ImplementsElection, Promise!Spec

-----------------------------------------------------------------------------
(***************************************************************************)
(* Why threads end.  That they do is liveness and left to TLC; what can be *)
(* proved is that a thread only moves towards its end, and that nothing    *)
(* but a new request takes it further away.                                *)
(***************************************************************************)

(* The steps a thread at l has at most before it ends, or reads again.     *)
Ahead(l) == CASE l = "none"         -> 7
              [] l = "spawn"        -> 6
              [] l = "ssl_accept"   -> 5
              [] l = "register"     -> 4
              [] l = "recv"         -> 3
              [] l = "voter_exists" -> 8
              [] l = "has_voted"    -> 7
              [] l = "save_vote"    -> 6
              [] l = "tally"        -> 5
              [] l = "reply"        -> 4
              [] l = "cleanup"      -> 2
              [] l = "leave"        -> 1
              [] l = "done"         -> 0

(* A request that waits costs six steps: it is read, looked up, checked,   *)
(* saved, counted and answered.                                            *)
StepsLeft(c) == 6 * Len(inbox[c]) + Ahead(pc[c])

Stands(c) == pc'[c] = pc[c] /\ inbox'[c] = inbox[c]
Advances(c) == StepsLeft(c)' \in Nat /\ StepsLeft(c)' < StepsLeft(c)

(* The peer can send nothing any more.                                     *)
CutOff == {"gone", "lost", "closed"}

(* A connection that was never made has no thread.                         *)
IdleInv == \A c \in Conn : link[c] = "idle" => pc[c] = "none"

LEMMA AheadIsNat == \A l \in Location : Ahead(l) \in 0..8
BY DEF Location, Ahead

LEMMA LengthIsNat ==
  ASSUME TypeInv, NEW c \in Conn
  PROVE  Len(inbox[c]) \in Nat /\ pc[c] \in Location
BY DEF TypeInv, TypeOK

(* A step that leaves the inbox alone and goes forward.                    *)
LEMMA Forward ==
  ASSUME TypeInv, NEW c \in Conn, inbox'[c] = inbox[c],
         pc'[c] \in Location, Ahead(pc'[c]) < Ahead(pc[c])
  PROVE  Advances(c)
<1>1. Len(inbox[c]) \in Nat
  BY LengthIsNat
<1>2. Ahead(pc[c]) \in Nat /\ Ahead(pc'[c]) \in Nat
  BY LengthIsNat, AheadIsNat
<1>3. /\ StepsLeft(c) = 6 * Len(inbox[c]) + Ahead(pc[c])
      /\ StepsLeft(c)' = 6 * Len(inbox[c]) + Ahead(pc'[c])
  BY DEF StepsLeft
<1>4. QED BY <1>1, <1>2, <1>3 DEF Advances

(* One record less in the inbox outweighs the steps to its answer.         *)
LEMMA ReceiveAdvances ==
  ASSUME TypeInv, NEW c \in Conn, Receive(c)
  PROVE  Advances(c)
<1>1. /\ inbox[c] \in Seq(Request)
      /\ inbox[c] # <<>>
      /\ inbox'[c] = Tail(inbox[c])
      /\ pc[c] = "recv"
      /\ pc'[c] \in {"voter_exists", "reply"}
  BY DEF TypeInv, TypeOK, Receive
<1>2. Len(inbox[c]) \in Nat \ {0} /\ Len(inbox'[c]) = Len(inbox[c]) - 1
  BY <1>1
<1>3. Ahead(pc[c]) = 3 /\ Ahead(pc'[c]) \in {4, 8}
  BY <1>1 DEF Ahead
<1>4. /\ StepsLeft(c) = 6 * Len(inbox[c]) + 3
      /\ StepsLeft(c)' = 6 * (Len(inbox[c]) - 1) + Ahead(pc'[c])
  BY <1>2, <1>3 DEF StepsLeft
<1>5. QED BY <1>2, <1>3, <1>4 DEF Advances

(* Where a step of the thread of c, or of the accept loop on c, leads.     *)
LEMMA ThreadAdvances ==
  ASSUME TypeInv, NEW c \in Conn,
         AcceptLoop(c) \/ Handshake(c) \/ Handler(c)
  PROVE  Advances(c)
<1> USE DEF TypeInv, TypeOK, Location, Ahead
<1>1. CASE AcceptLoop(c)
  <2>1. inbox' = inbox /\ pc'[c] \in Location
    BY <1>1 DEF AcceptLoop, RefuseConnection, AcceptConnection, ThreadStarts,
       ThreadFails, Acceptable
  <2>2. Ahead(pc'[c]) < Ahead(pc[c])
    BY <1>1 DEF AcceptLoop, RefuseConnection, AcceptConnection, ThreadStarts,
       ThreadFails, Acceptable
  <2>3. QED BY <2>1, <2>2, Forward
<1>2. CASE Handshake(c)
  <2>1. inbox' = inbox /\ pc'[c] \in Location
    BY <1>2 DEF Handshake, HandshakeSucceeds, HandshakeFails
  <2>2. Ahead(pc'[c]) < Ahead(pc[c])
    BY <1>2 DEF Handshake, HandshakeSucceeds, HandshakeFails
  <2>3. QED BY <2>1, <2>2, Forward
<1>3. CASE Receive(c)
  BY <1>3, ReceiveAdvances
<1>4. CASE Handler(c) /\ ~Receive(c)
  <2>1. inbox' = inbox /\ pc'[c] \in Location
    BY <1>4 DEF Handler, Register, ReceiveEnds, CheckVoter, CheckNotVoted,
       SaveVote, Tally, Reply, Cleanup, Leave
  <2>2. Ahead(pc'[c]) < Ahead(pc[c])
    BY <1>4 DEF Handler, Register, ReceiveEnds, CheckVoter, CheckNotVoted,
       SaveVote, Tally, Reply, Cleanup, Leave
  <2>3. QED BY <2>1, <2>2, Forward
<1>5. QED BY <1>1, <1>2, <1>3, <1>4

(* A step on connection c moves no other thread.                           *)
LEMMA OthersStand ==
  ASSUME TypeInv, NEW c \in Conn, NEW d \in Conn, d # c,
         Peer(c) \/ AcceptLoop(c) \/ Handshake(c) \/ Handler(c)
  PROVE  Stands(d) /\ link'[d] = link[d]
<1> USE DEF TypeInv, TypeOK, Stands
<1>1. CASE Peer(c)
  BY <1>1 DEF Peer, PeerConnect, PeerSend, PeerClose, PeerVanish, LossDetected
<1>2. CASE AcceptLoop(c)
  BY <1>2 DEF AcceptLoop, RefuseConnection, AcceptConnection, ThreadStarts,
     ThreadFails
<1>3. CASE Handshake(c)
  BY <1>3 DEF Handshake, HandshakeSucceeds, HandshakeFails
<1>4. CASE Handler(c)
  BY <1>4 DEF Handler, Register, Receive, ReceiveEnds, CheckVoter,
     CheckNotVoted, SaveVote, Tally, Reply, Cleanup, Leave
<1>5. QED BY <1>1, <1>2, <1>3, <1>4

LEMMA DieAdvances ==
  ASSUME TypeInv, IdleInv, NEW c \in Conn, Die
  PROVE  Stands(c) \/ Advances(c)
<1>1. inbox' = inbox /\ pc'[c] = IF link[c] = "idle" THEN "none" ELSE "done"
  BY DEF Die
<1>2. CASE link[c] = "idle"
  BY <1>1, <1>2 DEF IdleInv, Stands
<1>3. CASE link[c] # "idle" /\ pc[c] = "done"
  BY <1>1, <1>3 DEF Stands
<1>4. CASE link[c] # "idle" /\ pc[c] # "done"
  <2>1. pc'[c] = "done" /\ pc'[c] \in Location /\ Ahead(pc'[c]) = 0
    BY <1>1, <1>4 DEF Location, Ahead
  <2>2. Ahead(pc[c]) \in 1..8
    BY <1>4, LengthIsNat DEF Location, Ahead
  <2>3. QED BY <1>1, <2>1, <2>2, Forward
<1>5. QED BY <1>2, <1>3, <1>4

LEMMA StepIdleInv == TypeInv /\ IdleInv /\ [Next]_vars => IdleInv'
<1> SUFFICES ASSUME TypeInv, IdleInv, [Next]_vars,
                    NEW d \in Conn, link'[d] = "idle"
             PROVE  pc'[d] = "none"
  BY DEF IdleInv
<1> USE DEF TypeInv, TypeOK, LinkState, IdleInv
<1>1. ASSUME NEW c \in Conn, c # d,
             Peer(c) \/ AcceptLoop(c) \/ Handshake(c) \/ Handler(c)
      PROVE  pc'[d] = "none"
  BY <1>1, OthersStand DEF Stands
<1>2. CASE Peer(d)
  BY <1>2 DEF Peer, PeerConnect, PeerSend, PeerClose, PeerVanish, LossDetected
<1>3. CASE AcceptLoop(d)
  BY <1>3 DEF AcceptLoop, RefuseConnection, AcceptConnection, ThreadStarts,
     ThreadFails, Acceptable
<1>4. CASE Handshake(d)
  BY <1>4 DEF Handshake, HandshakeSucceeds, HandshakeFails
<1>5. CASE Handler(d)
  BY <1>5 DEF Handler, Register, Receive, ReceiveEnds, CheckVoter,
     CheckNotVoted, SaveVote, Tally, Reply, Cleanup, Leave
<1>6. CASE Process
  BY <1>6 DEF Process, Stop, BrokenPipe, Die, Restart
<1>7. CASE UNCHANGED vars
  BY <1>7 DEF vars
<1>8. QED BY <1>1, <1>2, <1>3, <1>4, <1>5, <1>6, <1>7 DEF Next

(* No thread runs for a connection that was never made.                    *)
THEOREM IdleInvHolds == Spec => []IdleInv
<1>1. Init => IdleInv
  BY DEF Init, IdleInv
<1>2. QED BY <1>1, StepIdleInv, TypeCorrect, PTL DEF Spec

(* Any step, seen from connection d.                                       *)
LEMMA StepSeenFrom ==
  ASSUME TypeInv, IdleInv, [Next]_vars, NEW d \in Conn
  PROVE  \/ \E m \in Request : PeerSend(d, m)
         \/ Stands(d)
         \/ Advances(d)
<1>1. ASSUME NEW c \in Conn, c # d,
             Peer(c) \/ AcceptLoop(c) \/ Handshake(c) \/ Handler(c)
      PROVE  Stands(d)
  BY <1>1, OthersStand
<1>2. CASE Peer(d)
  BY <1>2 DEF Peer, PeerConnect, PeerClose, PeerVanish, LossDetected, Stands
<1>3. CASE AcceptLoop(d) \/ Handshake(d) \/ Handler(d)
  BY <1>3, ThreadAdvances
<1>4. CASE Process
  <2>1. CASE Restart
    BY <2>1 DEF Restart, Stands
  <2>2. CASE Die
    BY <2>2, DieAdvances
  <2>3. QED BY <1>4, <2>1, <2>2 DEF Process, Stop, BrokenPipe
<1>5. CASE UNCHANGED vars
  BY <1>5 DEF vars, Stands
<1>6. QED BY <1>1, <1>2, <1>3, <1>4, <1>5 DEF Next

(***************************************************************************)
(* The loop of handle_client cannot run on its own: whatever threads,      *)
(* peers, faults and stops do, every step that changes where the thread of *)
(* a connection is, or what waits for it, brings it nearer to its end.     *)
(* Only a request its peer sends is work added (server_socket.c:93-210).   *)
(***************************************************************************)
THEOREM OnlyRequestsAddWork ==
  Spec => [][\A c \in Conn : \/ \E m \in Request : PeerSend(c, m)
                             \/ Stands(c)
                             \/ Advances(c)]_vars
<1>1. ASSUME TypeInv, IdleInv, [Next]_vars
      PROVE  [\A c \in Conn : \/ \E m \in Request : PeerSend(c, m)
                              \/ Stands(c)
                              \/ Advances(c)]_vars
  BY <1>1, StepSeenFrom
<1>2. QED BY <1>1, TypeCorrect, IdleInvHolds, PTL DEF Spec

(***************************************************************************)
(* Once its peer is gone, lost or closed, a connection stays so, and its   *)
(* thread can only advance: it has at most StepsLeft steps to its end.     *)
(* This is the part of DisconnectNoticed that needs no fairness.           *)
(***************************************************************************)
THEOREM CutOffThreadsOnlyEnd ==
  Spec => [][\A c \in Conn : link[c] \in CutOff =>
                /\ link'[c] \in CutOff
                /\ Stands(c) \/ Advances(c)]_vars
<1>1. ASSUME TypeInv, IdleInv, [Next]_vars, NEW d \in Conn,
             link[d] \in CutOff
      PROVE  link'[d] \in CutOff /\ (Stands(d) \/ Advances(d))
  <2> USE DEF TypeInv, TypeOK, CutOff
  <2>1. ~ \E m \in Request : PeerSend(d, m)
    BY <1>1 DEF PeerSend
  <2>2. Stands(d) \/ Advances(d)
    BY <1>1, <2>1, StepSeenFrom
  <2>3. SUFFICES link'[d] \in CutOff
    BY <2>2
  <2>4. ASSUME NEW c \in Conn, c # d,
               Peer(c) \/ AcceptLoop(c) \/ Handshake(c) \/ Handler(c)
        PROVE  link'[d] \in CutOff
    BY <1>1, <2>4, OthersStand
  <2>5. CASE Peer(d)
    BY <1>1, <2>5 DEF Peer, PeerConnect, PeerSend, PeerClose, PeerVanish,
       LossDetected
  <2>6. CASE AcceptLoop(d) \/ Handshake(d)
    BY <1>1, <2>6 DEF AcceptLoop, RefuseConnection, AcceptConnection,
       ThreadStarts, ThreadFails, Handshake, HandshakeSucceeds, HandshakeFails
  <2>7. CASE Handler(d)
    BY <1>1, <2>7 DEF Handler, Register, Receive, ReceiveEnds, CheckVoter,
       CheckNotVoted, SaveVote, Tally, Reply, Cleanup, Leave
  <2>8. CASE Process
    BY <1>1, <2>8 DEF Process, Stop, BrokenPipe, Die, Restart
  <2>9. CASE UNCHANGED vars
    BY <1>1, <2>9 DEF vars
  <2>10. QED BY <1>1, <2>4, <2>5, <2>6, <2>7, <2>8, <2>9 DEF Next
<1>2. ASSUME TypeInv, IdleInv, [Next]_vars
      PROVE  [\A c \in Conn : link[c] \in CutOff =>
                /\ link'[c] \in CutOff
                /\ Stands(c) \/ Advances(c)]_vars
  BY <1>2, <1>1
<1>3. QED BY <1>2, TypeCorrect, IdleInvHolds, PTL DEF Spec

(***************************************************************************)
(* Every "continue" of the request loop comes after an ssl_send: a thread  *)
(* that has read a request leaves the statements that serve it only by     *)
(* answering, unless the process ends (server_socket.c:117-210).           *)
(***************************************************************************)
THEOREM NoRequestDropped ==
  Spec => [][\A c \in Conn : pc[c] \in Busy /\ pc'[c] \notin Busy =>
                Reply(c) \/ ~up']_vars
<1>1. ASSUME TypeInv, [Next]_vars, NEW d \in Conn,
             pc[d] \in Busy, pc'[d] \notin Busy
      PROVE  Reply(d) \/ ~up'
  <2> USE DEF TypeInv, TypeOK, Busy
  <2>1. ASSUME NEW c \in Conn, c # d,
               Peer(c) \/ AcceptLoop(c) \/ Handshake(c) \/ Handler(c)
        PROVE  FALSE
    BY <1>1, <2>1, OthersStand DEF Stands
  <2>2. CASE Peer(d)
    BY <1>1, <2>2 DEF Peer, PeerConnect, PeerSend, PeerClose, PeerVanish,
       LossDetected
  <2>3. CASE AcceptLoop(d) \/ Handshake(d)
    BY <1>1, <2>3 DEF AcceptLoop, RefuseConnection, AcceptConnection,
       ThreadStarts, ThreadFails, Acceptable, Handshake, HandshakeSucceeds,
       HandshakeFails
  <2>4. CASE Handler(d)
    BY <1>1, <2>4 DEF Handler, Register, Receive, ReceiveEnds, CheckVoter,
       CheckNotVoted, SaveVote, Tally, Cleanup, Leave
  <2>5. CASE Process
    BY <1>1, <2>5 DEF Process, Stop, BrokenPipe, Die, Restart
  <2>6. CASE UNCHANGED vars
    BY <1>1, <2>6 DEF vars
  <2>7. QED BY <1>1, <2>1, <2>2, <2>3, <2>4, <2>5, <2>6 DEF Next
<1>2. ASSUME TypeInv, [Next]_vars
      PROVE  [\A c \in Conn : pc[c] \in Busy /\ pc'[c] \notin Busy =>
                Reply(c) \/ ~up']_vars
  BY <1>2, <1>1
<1>3. QED BY <1>2, TypeCorrect, PTL DEF Spec

=============================================================================
