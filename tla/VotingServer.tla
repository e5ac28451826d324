---------------------------- MODULE VotingServer ----------------------------
(***************************************************************************)
(* The server process of server/src/network/server_socket.c: the accept    *)
(* loop of start_server, one detached thread per connection running        *)
(* handle_client, the votos table they share, and the three counters of    *)
(* server_state.  The peer at the other end of a connection may do         *)
(* whatever a TCP/TLS peer can: connect, send, close, vanish silently.     *)
(***************************************************************************)
EXTENDS Database, Integers, Sequences

CONSTANTS None,         \* "no value": no voter, candidate, receipt or answer
          MaxRequests,  \* bound: requests a peer sends on one connection
          MaxStops      \* bound: times the server process stops

ASSUME NoneAssumption ==
  None \notin VoterIds \cup Candidates \cup Receipts \cup Conn
ASSUME BoundsAssumption == MaxRequests \in Nat /\ MaxStops \in Nat

VARIABLES up,       \* the server process runs
          stops,    \* times it has stopped (bounded by MaxStops)
          votos,    \* table votos, on disk
          link,     \* link[c]: the state of the TCP/TLS connection c
          inbox,    \* inbox[c]: the requests sent on c and not yet read
          replies,  \* replies[c]: every answer that was delivered on c
          pc,       \* pc[c]: where the thread that serves c is
          job,      \* job[c]: that thread's locals for the current request
          connected_clients, active_threads, total_votes

memory == <<connected_clients, active_threads, total_votes>>
vars == <<up, stops, votos, link, inbox, replies, pc, job,
          connected_clients, active_threads, total_votes>>

-----------------------------------------------------------------------------
(* Values.                                                                 *)

(***************************************************************************)
(* A TLS record as parse_vote_message sees it: a well-formed vote, or any  *)
(* of the records it rejects, for which NoRequest stands.                  *)
(***************************************************************************)
NoRequest == [voter |-> None, candidate |-> None]
Request == [voter : VoterIds, candidate : Candidates] \cup {NoRequest}

Answer == {"ACK", "FORMATO_INVALIDO", "ELEITOR_INVALIDO", "JA_VOTOU",
           "ERRO_DB"}

(***************************************************************************)
(* The locals voter_id, candidate and receipt of one iteration of the      *)
(* request loop and the answer it is about to send.  Delivered answers     *)
(* keep the whole record; only answer and receipt are on the wire.         *)
(***************************************************************************)
Job == [voter : VoterIds \cup {None}, candidate : Candidates \cup {None},
        receipt : Receipts \cup {None}, answer : Answer \cup {None}]
Parsed(m) == [voter |-> m.voter, candidate |-> m.candidate,
              receipt |-> None, answer |-> None]
NoJob == Parsed(NoRequest)

(***************************************************************************)
(* idle: never connected.  pending: TCP is up, TLS is not.  open: TLS is   *)
(* up.  gone: the peer closed it and the server will see EOF or a reset.   *)
(* lost: the peer is unreachable and the server never hears of it.         *)
(* closed: the server closed it, or died.                                  *)
(***************************************************************************)
LinkState == {"idle", "pending", "open", "gone", "lost", "closed"}

Location == {"none", "spawn", "ssl_accept", "register", "recv",
             "voter_exists", "has_voted", "save_vote", "tally", "reply",
             "cleanup", "leave", "done"}

(* Between the increment and the decrement of connected_clients.           *)
Serving == {"recv", "voter_exists", "has_voted", "save_vote", "tally",
            "reply", "cleanup", "leave"}

(* The request a thread has read is not yet answered.                      *)
Busy == {"voter_exists", "has_voted", "save_vote", "tally", "reply"}

TypeOK ==
  /\ up \in BOOLEAN
  /\ stops \in Nat
  /\ votos \subseteq Row
  /\ link \in [Conn -> LinkState]
  /\ inbox \in [Conn -> Seq(Request)]
  /\ replies \in [Conn -> Seq(Job)]
  /\ pc \in [Conn -> Location]
  /\ job \in [Conn -> Job]
  /\ connected_clients \in Int
  /\ active_threads \in Int
  /\ total_votes \in Nat

Init ==
  /\ up = TRUE
  /\ stops = 0
  /\ votos = {}
  /\ link = [c \in Conn |-> "idle"]
  /\ inbox = [c \in Conn |-> <<>>]
  /\ replies = [c \in Conn |-> <<>>]
  /\ pc = [c \in Conn |-> "none"]
  /\ job = [c \in Conn |-> NoJob]
  /\ connected_clients = 0
  /\ active_threads = 1      \* the network thread counts itself
  /\ total_votes = 0

-----------------------------------------------------------------------------
(* The peer.                                                               *)

(* connect() reaches the listen queue.                                     *)
PeerConnect(c) ==
  /\ up
  /\ link[c] = "idle"
  /\ link' = [link EXCEPT ![c] = "pending"]
  /\ UNCHANGED <<up, stops, votos, inbox, replies, pc, job, memory>>

(* Requests sent on c, while c is open.                                    *)
Sent(c) == Len(inbox[c]) + Len(replies[c]) + (IF pc[c] \in Busy THEN 1 ELSE 0)

PeerSend(c, m) ==
  /\ link[c] = "open"
  /\ Sent(c) < MaxRequests
  /\ inbox' = [inbox EXCEPT ![c] = Append(@, m)]
  /\ UNCHANGED <<up, stops, votos, link, replies, pc, job, memory>>

(* The peer closes or resets the connection, or its process dies.          *)
PeerClose(c) ==
  /\ link[c] \in {"pending", "open"}
  /\ link' = [link EXCEPT ![c] = "gone"]
  /\ UNCHANGED <<up, stops, votos, inbox, replies, pc, job, memory>>

(* The peer's machine or network disappears; no packet says so.            *)
PeerVanish(c) ==
  /\ link[c] \in {"pending", "open"}
  /\ link' = [link EXCEPT ![c] = "lost"]
  /\ UNCHANGED <<up, stops, votos, inbox, replies, pc, job, memory>>

(* TCP gives up on unacknowledged data, or the peer's machine resets.      *)
LossDetected(c) ==
  /\ link[c] = "lost"
  /\ link' = [link EXCEPT ![c] = "gone"]
  /\ UNCHANGED <<up, stops, votos, inbox, replies, pc, job, memory>>

-----------------------------------------------------------------------------
(* The accept loop: one thread, so at most one connection is in "spawn".   *)

Acceptable(c) ==
  /\ up
  /\ pc[c] = "none"
  /\ link[c] \in {"pending", "gone", "lost"}
  /\ \A d \in Conn : pc[d] # "spawn"

(* Faulty variant: the refused socket is not closed.                       *)
RefuseWithoutClose(c) ==
  /\ Acceptable(c)
  /\ pc' = [pc EXCEPT ![c] = "done"]
  /\ UNCHANGED <<up, stops, votos, link, inbox, replies, job, memory>>

(* rate_limit_allow says no, or malloc fails.                              *)
RefuseConnection(c) ==
  /\ Acceptable(c)
  /\ link' = [link EXCEPT ![c] = "closed"]
  /\ pc' = [pc EXCEPT ![c] = "done"]
  /\ UNCHANGED <<up, stops, votos, inbox, replies, job, memory>>

AcceptConnection(c) ==
  /\ Acceptable(c)
  /\ pc' = [pc EXCEPT ![c] = "spawn"]
  /\ active_threads' = active_threads + 1
  /\ UNCHANGED <<up, stops, votos, link, inbox, replies, job,
                 connected_clients, total_votes>>

ThreadStarts(c) ==
  /\ pc[c] = "spawn"
  /\ pc' = [pc EXCEPT ![c] = "ssl_accept"]
  /\ UNCHANGED <<up, stops, votos, link, inbox, replies, job, memory>>

(* pthread_create fails: the count is given back and the socket closed.    *)
ThreadFails(c) ==
  /\ pc[c] = "spawn"
  /\ pc' = [pc EXCEPT ![c] = "done"]
  /\ link' = [link EXCEPT ![c] = "closed"]
  /\ active_threads' = active_threads - 1
  /\ UNCHANGED <<up, stops, votos, inbox, replies, job,
                 connected_clients, total_votes>>

-----------------------------------------------------------------------------
(* handle_client.                                                          *)

HandshakeSucceeds(c) ==
  /\ pc[c] = "ssl_accept"
  /\ link[c] = "pending"
  /\ link' = [link EXCEPT ![c] = "open"]
  /\ pc' = [pc EXCEPT ![c] = "register"]
  /\ UNCHANGED <<up, stops, votos, inbox, replies, job, memory>>

(* Faulty variant: the failed handshake leaves through both decrements.    *)
HandshakeFailsAndLeaves(c) ==
  /\ pc[c] = "ssl_accept"
  /\ link[c] \in {"pending", "gone"}
  /\ link' = [link EXCEPT ![c] = "closed"]
  /\ pc' = [pc EXCEPT ![c] = "leave"]
  /\ UNCHANGED <<up, stops, votos, inbox, replies, job, memory>>

(***************************************************************************)
(* ssl_accept returns NULL: the thread closes the socket and returns.      *)
(* active_threads keeps the increment of the accept loop.  A handshake     *)
(* with a peer that vanished never returns: nothing sets a timeout.        *)
(* "done" is the last change a thread makes to this state; here and after  *)
(* Leave it may still be logging, which is ServerLog's.                    *)
(***************************************************************************)
HandshakeFails(c) ==
  /\ pc[c] = "ssl_accept"
  /\ link[c] \in {"pending", "gone"}
  /\ link' = [link EXCEPT ![c] = "closed"]
  /\ pc' = [pc EXCEPT ![c] = "done"]
  /\ UNCHANGED <<up, stops, votos, inbox, replies, job, memory>>

Register(c) ==
  /\ pc[c] = "register"
  /\ pc' = [pc EXCEPT ![c] = "recv"]
  /\ connected_clients' = connected_clients + 1
  /\ UNCHANGED <<up, stops, votos, link, inbox, replies, job,
                 active_threads, total_votes>>

(* Faulty variant: one mutex is held around the blocking ssl_recv.         *)
ReceiveUnderLock(c) ==
  /\ pc[c] = "recv"
  /\ \A d \in Conn \ {c} : pc[d] # "recv"
  /\ inbox[c] # <<>>
  /\ inbox' = [inbox EXCEPT ![c] = Tail(@)]
  /\ LET m == Head(inbox[c])
     IN \/ /\ m # NoRequest
           /\ pc' = [pc EXCEPT ![c] = "voter_exists"]
           /\ job' = [job EXCEPT ![c] = Parsed(m)]
        \/ /\ m = NoRequest
           /\ pc' = [pc EXCEPT ![c] = "reply"]
           /\ job' = [job EXCEPT ![c].answer = "FORMATO_INVALIDO"]
  /\ UNCHANGED <<up, stops, votos, link, replies, memory>>

(* ssl_recv returns a record and parse_vote_message accepts or rejects it. *)
Receive(c) ==
  /\ pc[c] = "recv"
  /\ inbox[c] # <<>>
  /\ inbox' = [inbox EXCEPT ![c] = Tail(@)]
  /\ LET m == Head(inbox[c])
     IN \/ /\ m # NoRequest
           /\ pc' = [pc EXCEPT ![c] = "voter_exists"]
           /\ job' = [job EXCEPT ![c] = Parsed(m)]
        \/ /\ m = NoRequest
           /\ pc' = [pc EXCEPT ![c] = "reply"]
           /\ job' = [job EXCEPT ![c].answer = "FORMATO_INVALIDO"]
  /\ UNCHANGED <<up, stops, votos, link, replies, memory>>

(* Faulty variant: the end of the stream is taken for a malformed record.  *)
ReceiveEndsAsRecord(c) ==
  /\ pc[c] = "recv"
  /\ link[c] = "gone"
  /\ pc' = [pc EXCEPT ![c] = "reply"]
  /\ job' = [job EXCEPT ![c].answer = "FORMATO_INVALIDO"]
  /\ UNCHANGED <<up, stops, votos, link, inbox, replies, memory>>

(* ssl_recv returns 0 or less; a reset discards records not yet read.      *)
ReceiveEnds(c) ==
  /\ pc[c] = "recv"
  /\ link[c] = "gone"
  /\ pc' = [pc EXCEPT ![c] = "cleanup"]
  /\ UNCHANGED <<up, stops, votos, link, inbox, replies, job, memory>>

(* Faulty variant: no "continue" after the NACK for an unknown voter.      *)
CheckVoterFallsThrough(c) ==
  /\ pc[c] = "voter_exists"
  /\ pc' = [pc EXCEPT ![c] = "has_voted"]
  /\ UNCHANGED <<up, stops, votos, link, inbox, replies, job, memory>>

CheckVoter(c) ==
  /\ pc[c] = "voter_exists"
  /\ \E known \in voter_exists(job[c].voter) :
       \/ /\ known
          /\ pc' = [pc EXCEPT ![c] = "has_voted"]
          /\ UNCHANGED job
       \/ /\ ~known
          /\ pc' = [pc EXCEPT ![c] = "reply"]
          /\ job' = [job EXCEPT ![c].answer = "ELEITOR_INVALIDO"]
  /\ UNCHANGED <<up, stops, votos, link, inbox, replies, memory>>

(* Faulty variant: generate_receipt is not called.                         *)
CheckNotVotedNoReceipt(c) ==
  /\ pc[c] = "has_voted"
  /\ \E voted \in has_voted(votos, job[c].voter) :
       \/ /\ voted
          /\ pc' = [pc EXCEPT ![c] = "reply"]
          /\ job' = [job EXCEPT ![c].answer = "JA_VOTOU"]
       \/ /\ ~voted
          /\ pc' = [pc EXCEPT ![c] = "save_vote"]
          /\ UNCHANGED job
  /\ UNCHANGED <<up, stops, votos, link, inbox, replies, memory>>

(* has_voted, and generate_receipt when the answer is no.                  *)
CheckNotVoted(c) ==
  /\ pc[c] = "has_voted"
  /\ \E voted \in has_voted(votos, job[c].voter) :
       \/ /\ voted
          /\ pc' = [pc EXCEPT ![c] = "reply"]
          /\ job' = [job EXCEPT ![c].answer = "JA_VOTOU"]
       \/ /\ ~voted
          /\ pc' = [pc EXCEPT ![c] = "save_vote"]
          /\ \E r \in Receipts : job' = [job EXCEPT ![c].receipt = r]
  /\ UNCHANGED <<up, stops, votos, link, inbox, replies, memory>>

(* The row the thread of c is about to insert.                             *)
RowOf(c) == [voter |-> job[c].voter, candidate |-> job[c].candidate,
             receipt |-> job[c].receipt, by |-> c]

(* Faulty variant: the result of save_vote is not looked at.               *)
SaveVoteUnchecked(c) ==
  /\ pc[c] = "save_vote"
  /\ \E res \in save_vote(votos, RowOf(c)) : votos' = res.votos
  /\ pc' = [pc EXCEPT ![c] = "tally"]
  /\ UNCHANGED <<up, stops, link, inbox, replies, job, memory>>

(* Faulty variant: a database handle per thread, and no busy timeout.      *)
SaveVoteOrBusy(c) ==
  /\ pc[c] = "save_vote"
  /\ \/ /\ \E d \in Conn \ {c} : pc[d] = "save_vote"
        /\ pc' = [pc EXCEPT ![c] = "reply"]
        /\ job' = [job EXCEPT ![c].answer = "ERRO_DB"]
        /\ UNCHANGED votos
     \/ /\ ~ HasRow(votos, job[c].voter)
        /\ votos' = votos \cup {RowOf(c)}
        /\ pc' = [pc EXCEPT ![c] = "tally"]
        /\ UNCHANGED job
  /\ UNCHANGED <<up, stops, link, inbox, replies, memory>>

SaveVote(c) ==
  /\ pc[c] = "save_vote"
  /\ \E res \in save_vote(votos, RowOf(c)) :
       /\ votos' = res.votos
       /\ \/ /\ res.ok
             /\ pc' = [pc EXCEPT ![c] = "tally"]
             /\ UNCHANGED job
          \/ /\ ~res.ok
             /\ pc' = [pc EXCEPT ![c] = "reply"]
             /\ job' = [job EXCEPT ![c].answer = "ERRO_DB"]
  /\ UNCHANGED <<up, stops, link, inbox, replies, memory>>

Tally(c) ==
  /\ pc[c] = "tally"
  /\ total_votes' = total_votes + 1
  /\ pc' = [pc EXCEPT ![c] = "reply"]
  /\ job' = [job EXCEPT ![c].answer = "ACK"]
  /\ UNCHANGED <<up, stops, votos, link, inbox, replies,
                 connected_clients, active_threads>>

(***************************************************************************)
(* ssl_send, whose result nobody looks at: the answer is delivered, or     *)
(* lost with the connection.  The locals die with the loop iteration.      *)
(***************************************************************************)
Reply(c) ==
  /\ pc[c] = "reply"
  /\ replies' = [replies EXCEPT ![c] = IF link[c] = "open"
                                       THEN Append(@, job[c]) ELSE @]
  /\ job' = [job EXCEPT ![c] = NoJob]
  /\ pc' = [pc EXCEPT ![c] = "recv"]
  /\ UNCHANGED <<up, stops, votos, link, inbox, memory>>

(* ssl_cleanup and close.                                                  *)
Cleanup(c) ==
  /\ pc[c] = "cleanup"
  /\ link' = [link EXCEPT ![c] = "closed"]
  /\ pc' = [pc EXCEPT ![c] = "leave"]
  /\ UNCHANGED <<up, stops, votos, inbox, replies, job, memory>>

(* Faulty variant: the mutex is released between the two decrements.       *)
LeaveInTwoBlocks(c) ==
  \/ /\ pc[c] = "leave"
     /\ pc' = [pc EXCEPT ![c] = "leaving"]
     /\ active_threads' = active_threads - 1
     /\ UNCHANGED <<up, stops, votos, link, inbox, replies, job,
                    connected_clients, total_votes>>
  \/ /\ pc[c] = "leaving"
     /\ pc' = [pc EXCEPT ![c] = "done"]
     /\ connected_clients' = connected_clients - 1
     /\ UNCHANGED <<up, stops, votos, link, inbox, replies, job,
                    active_threads, total_votes>>

Leave(c) ==
  /\ pc[c] = "leave"
  /\ pc' = [pc EXCEPT ![c] = "done"]
  /\ connected_clients' = connected_clients - 1
  /\ active_threads' = active_threads - 1
  /\ UNCHANGED <<up, stops, votos, link, inbox, replies, job, total_votes>>

-----------------------------------------------------------------------------
(* The process.  Only votos survives it.                                   *)

(* Every thread ends and the kernel closes every socket.                   *)
Die ==
  /\ up
  /\ stops < MaxStops
  /\ up' = FALSE
  /\ stops' = stops + 1
  /\ link' = [c \in Conn |-> IF link[c] = "idle" THEN "idle" ELSE "closed"]
  /\ pc' = [c \in Conn |-> IF link[c] = "idle" THEN "none" ELSE "done"]
  /\ job' = [c \in Conn |-> NoJob]
  /\ UNCHANGED <<votos, inbox, replies, memory>>

(* "Q Sair" ends the dashboard loop and main returns; or the host fails.   *)
Stop == Die

(***************************************************************************)
(* No code ignores SIGPIPE: a write to a socket whose peer is gone (the    *)
(* handshake's, an answer, the close_notify) may end the whole process.    *)
(***************************************************************************)
BrokenPipe(c) ==
  /\ pc[c] \in {"ssl_accept", "reply", "cleanup"}
  /\ link[c] = "gone"
  /\ Die

(* Faulty variant: init_database creates votos anew.                       *)
RestartWithEmptyTable ==
  /\ ~up
  /\ up' = TRUE
  /\ votos' = {}
  /\ connected_clients' = 0
  /\ active_threads' = 1
  /\ total_votes' = 0
  /\ UNCHANGED <<stops, link, inbox, replies, pc, job>>

(* main again: init_database keeps the rows, server_state starts afresh.   *)
Restart ==
  /\ ~up
  /\ up' = TRUE
  /\ connected_clients' = 0
  /\ active_threads' = 1
  /\ total_votes' = 0
  /\ UNCHANGED <<stops, votos, link, inbox, replies, pc, job>>

-----------------------------------------------------------------------------

Peer(c) == \/ PeerConnect(c)
           \/ \E m \in Request : PeerSend(c, m)
           \/ PeerClose(c)
           \/ PeerVanish(c)
           \/ LossDetected(c)

AcceptLoop(c) == \/ RefuseConnection(c)
                 \/ AcceptConnection(c)
                 \/ ThreadStarts(c)
                 \/ ThreadFails(c)

Handshake(c) == HandshakeSucceeds(c) \/ HandshakeFails(c)

Handler(c) == \/ Register(c)
              \/ Receive(c)
              \/ ReceiveEnds(c)
              \/ CheckVoter(c)
              \/ CheckNotVoted(c)
              \/ SaveVote(c)
              \/ Tally(c)
              \/ Reply(c)
              \/ Cleanup(c)
              \/ Leave(c)

Process == Stop \/ Restart \/ \E c \in Conn : BrokenPipe(c)

Next == \/ \E c \in Conn : \/ Peer(c)
                           \/ AcceptLoop(c)
                           \/ Handshake(c)
                           \/ Handler(c)
        \/ Process

Spec == Init /\ [][Next]_vars

-----------------------------------------------------------------------------
(* Properties.                                                             *)

(* The i-th answer delivered on c is an ACK, and the row it speaks of.     *)
IsAck(c, i) == replies[c][i].answer = "ACK"
AckedRow(c, i) == [voter |-> replies[c][i].voter,
                   candidate |-> replies[c][i].candidate,
                   receipt |-> replies[c][i].receipt, by |-> c]

(***************************************************************************)
(* has_voted and save_vote are two statements and other threads run        *)
(* between them; still no voter ever has two rows in votos.                *)
(***************************************************************************)
OneVotePerVoter ==
  \A r1, r2 \in votos : r1.voter = r2.voter => r1 = r2

(* The check of voter_exists still holds when save_vote runs.              *)
OnlyEleitoresVote == \A r \in votos : r.voter \in Eleitores

(***************************************************************************)
(* A voter that holds an ACK holds the receipt of a row of votos, with the *)
(* candidate of the request, inserted by the thread that answered; also    *)
(* after the server stopped and started again.                             *)
(***************************************************************************)
AckedIsRecorded ==
  \A c \in Conn : \A i \in DOMAIN replies[c] :
    IsAck(c, i) => AckedRow(c, i) \in votos

(* No voter is sent two ACKs, on whatever connections, requests and        *)
(* restarts.                                                               *)
AckedOnce ==
  \A c, d \in Conn : \A i \in DOMAIN replies[c], j \in DOMAIN replies[d] :
    /\ IsAck(c, i)
    /\ IsAck(d, j)
    /\ replies[c][i].voter = replies[d][j].voter
    => c = d /\ i = j

(***************************************************************************)
(* A refusal tells the truth about votos: JA_VOTOU only when the voter's   *)
(* row exists, and, when SQLite does not fail, ERRO_DB only when another   *)
(* session's row exists and ELEITOR_INVALIDO only for an unknown voter.    *)
(***************************************************************************)
Justified(j) ==
  /\ j.answer = "JA_VOTOU" => HasRow(votos, j.voter)
  /\ ~DbFaults => /\ j.answer = "ERRO_DB" => HasRow(votos, j.voter)
                  /\ j.answer = "ELEITOR_INVALIDO" => j.voter \notin Eleitores

RefusalIsJustified ==
  \A c \in Conn : \A i \in DOMAIN replies[c] : Justified(replies[c][i])

(* The counter kept in memory never counts a vote that is not on disk.     *)
TallyNeverAhead ==
  total_votes + Cardinality({c \in Conn : pc[c] = "tally"})
    <= CountVotes(votos)

Live == {c \in Conn : pc[c] \notin {"none", "done"}}

(***************************************************************************)
(* "Clientes conectados" is exact at every instant, and "Threads ativas"   *)
(* never misses a running thread, however threads start, fail and end.     *)
(***************************************************************************)
CountersAgree ==
  up => /\ connected_clients = Cardinality({c \in Conn : pc[c] \in Serving})
        /\ active_threads >= 1 + Cardinality(Live)

(* "Threads ativas" (the label of the dashboard) is the number of threads. *)
ThreadsAtivasExact == up => active_threads = 1 + Cardinality(Live)

(***************************************************************************)
(* The server implements Election: a ballot is cast by the INSERT and      *)
(* confirmed by the delivery of the ACK.                                   *)
(***************************************************************************)
BallotIn(table, v) ==
  IF HasRow(table, v) THEN (CHOOSE r \in table : r.voter = v).candidate
  ELSE None

Ballots == [v \in Eleitores |-> BallotIn(votos, v)]
Confirmed == {v \in Eleitores :
                \E c \in Conn : \E i \in DOMAIN replies[c] :
                  IsAck(c, i) /\ replies[c][i].voter = v}

Promise == INSTANCE Election WITH
  NoVote <- None, ballot <- Ballots, confirmed <- Confirmed

ImplementsElection == Promise!Spec

-----------------------------------------------------------------------------
(***************************************************************************)
(* Fairness: the scheduler runs every thread that is not blocked, and      *)
(* SSL_accept returns when its peer has closed.  Nothing is asked of       *)
(* peers, and a thread that reads from a silent peer stays blocked.        *)
(***************************************************************************)
Fairness ==
  \A c \in Conn : /\ WF_vars(AcceptLoop(c))
                  /\ WF_vars(HandshakeFails(c) /\ link[c] = "gone")
                  /\ WF_vars(Handler(c))

FairSpec == Spec /\ Fairness

(* A thread whose peer has gone ends, whatever it was doing.               *)
DisconnectNoticed ==
  \A c \in Conn : link[c] = "gone" ~> pc[c] = "done"

(* Requests on a connection that stays open are all read and answered.     *)
RequestsAnswered ==
  \A c \in Conn :
    (link[c] = "open" /\ (inbox[c] # <<>> \/ pc[c] \in Busy))
      ~> (link[c] # "open" \/ (inbox[c] = <<>> /\ pc[c] = "recv"))

=============================================================================
