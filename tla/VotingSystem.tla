---------------------------- MODULE VotingSystem ----------------------------
(***************************************************************************)
(* The server of VotingServer together with the real client program        *)
(* (client/src/main.c): each run of the client is a session that logs in,  *)
(* connects, chooses a candidate, sends ONE vote and shows the outcome.    *)
(* Session s uses connection s, so s ranges over Conn.  Where VotingServer *)
(* lets a peer do anything, here every peer step is a step of the client.  *)
(***************************************************************************)
EXTENDS VotingServer

VARIABLES stage,   \* stage[s]: where the client's main is
          vote,    \* vote[s]: main's voter_id and candidate
          shown    \* shown[s]: the answer on the receipt window

clientVars == <<stage, vote, shown>>
systemVars == <<vars, clientVars>>

ASSUME OneRequestAssumption == MaxRequests = 1
ASSUME NoAnswerAssumption == None \notin Answer

(***************************************************************************)
(* no_connection: "Falha ao conectar" is shown and main returned 1.        *)
(* failed: "Falha ao enviar voto" is shown.  receipt: show_receipt runs.   *)
(***************************************************************************)
Stage == {"login", "connecting", "menu", "waiting", "receipt", "failed",
          "no_connection", "exited"}

SystemTypeOK ==
  /\ stage \in [Conn -> Stage]
  /\ vote \in [Conn -> [voter : VoterIds \cup {None},
                        candidate : Candidates \cup {None}]]
  /\ \A s \in Conn : stage[s] \in {"waiting", "receipt", "failed"}
                      => vote[s].candidate \in Candidates
  /\ shown \in [Conn -> Job]

SystemInit ==
  /\ Init
  /\ stage = [s \in Conn |-> "login"]
  /\ vote = [s \in Conn |-> NoRequest]
  /\ shown = [s \in Conn |-> NoJob]

-----------------------------------------------------------------------------
(* The client.                                                             *)

Goto(s, to) == stage' = [stage EXCEPT ![s] = to]

(***************************************************************************)
(* show_login, then connect(): v is the id that was typed, None when the   *)
(* server will not take it for an id (empty, too long, punctuation).       *)
(***************************************************************************)
Login(s, v) ==
  /\ stage[s] = "login"
  /\ vote' = [vote EXCEPT ![s].voter = v]
  /\ Goto(s, "connecting")
  /\ PeerConnect(s)
  /\ UNCHANGED shown

(* No server at that address, "IP invalido", or the timeout of connect().  *)
LoginWithoutServer(s, v) ==
  /\ stage[s] = "login"
  /\ vote' = [vote EXCEPT ![s].voter = v]
  /\ Goto(s, "no_connection")
  /\ UNCHANGED <<vars, shown>>

(* ssl_connect returns: nothing has been chosen or sent yet.               *)
Connected(s) ==
  /\ stage[s] = "connecting"
  /\ link[s] = "open"
  /\ Goto(s, "menu")
  /\ UNCHANGED <<vars, vote, shown>>

(* close(): the server learns of it unless the link is already down.       *)
Hangup(s) ==
  \/ PeerClose(s)
  \/ link[s] \notin {"pending", "open"} /\ UNCHANGED vars

(***************************************************************************)
(* connect_server_ssl returns NULL after connect(): the server closed, the *)
(* certificate is not the one embedded in the client, or memory ran out.   *)
(***************************************************************************)
ConnectFails(s) ==
  /\ stage[s] = "connecting"
  /\ Goto(s, "no_connection")
  /\ Hangup(s)
  /\ UNCHANGED <<vote, shown>>

(* The record "voter candidate" as the server's parser takes it.           *)
Message(v, c) == IF v = None THEN NoRequest ELSE [voter |-> v, candidate |-> c]

(* Faulty variant: the NULL of an empty listbox is not replaced.           *)
SendVoteUnselected(s, c) ==
  /\ stage[s] = "menu"
  /\ Goto(s, "waiting")
  /\ \/ PeerSend(s, NoRequest)
     \/ link[s] # "open" /\ UNCHANGED vars
  /\ UNCHANGED <<vote, shown>>

(***************************************************************************)
(* show_voting_menu and send_vote.  The result of ssl_send is not looked   *)
(* at: on a dead connection the client goes on to wait for an answer.      *)
(***************************************************************************)
SendVote(s, c) ==
  /\ stage[s] = "menu"
  /\ vote' = [vote EXCEPT ![s].candidate = c]
  /\ Goto(s, "waiting")
  /\ \/ PeerSend(s, Message(vote[s].voter, c))
     \/ link[s] # "open" /\ UNCHANGED vars
  /\ UNCHANGED shown

(* ssl_recv returns the answer, also one sent before the server closed.    *)
ReceiveAnswer(s) ==
  /\ stage[s] = "waiting"
  /\ replies[s] # <<>>
  /\ link[s] \in {"open", "closed"}
  /\ shown' = [shown EXCEPT ![s] = Head(replies[s])]
  /\ Goto(s, "receipt")
  /\ UNCHANGED <<vars, vote>>

(* ssl_recv returns 0 or less: closed, reset or timed out underneath.      *)
ReceiveFails(s) ==
  /\ stage[s] = "waiting"
  /\ link[s] \in {"closed", "gone", "lost"}
  /\ Goto(s, "failed")
  /\ UNCHANGED <<vars, vote, shown>>

(* The voter presses OK; close_ssl_connection and main returns.            *)
Exit(s) ==
  /\ stage[s] \in {"receipt", "failed"}
  /\ Goto(s, "exited")
  /\ Hangup(s)
  /\ UNCHANGED <<vote, shown>>

(* The client is killed with the connection up.                            *)
Killed(s) ==
  /\ stage[s] \in {"connecting", "menu", "waiting"}
  /\ Goto(s, "exited")
  /\ Hangup(s)
  /\ UNCHANGED <<vote, shown>>

Client(s) == \/ \E v \in VoterIds \cup {None} :
                  Login(s, v) \/ LoginWithoutServer(s, v)
             \/ Connected(s)
             \/ ConnectFails(s)
             \/ \E c \in Candidates : SendVote(s, c)
             \/ ReceiveAnswer(s)
             \/ ReceiveFails(s)
             \/ Exit(s)
             \/ Killed(s)

-----------------------------------------------------------------------------

Network(c) == PeerVanish(c) \/ LossDetected(c)

Server == \/ \E c \in Conn : AcceptLoop(c) \/ Handshake(c) \/ Handler(c)
          \/ Process

SystemNext == \/ \E s \in Conn : Client(s)
              \/ (Server \/ \E c \in Conn : Network(c)) /\ UNCHANGED clientVars

SystemSpec == SystemInit /\ [][SystemNext]_systemVars

-----------------------------------------------------------------------------
(* Properties.                                                             *)

(***************************************************************************)
(* The window shows "ACK receipt" only for what THIS voter chose in THIS   *)
(* session: the row has the voter, the candidate and the receipt.          *)
(***************************************************************************)
ReceiptIsMyVote ==
  \A s \in Conn : shown[s].answer = "ACK" =>
    [voter |-> vote[s].voter, candidate |-> vote[s].candidate,
     receipt |-> shown[s].receipt, by |-> s] \in votos

(* Two sessions of one voter never both end with a receipt.                *)
OneReceiptPerVoter ==
  \A s, t \in Conn :
    /\ shown[s].answer = "ACK"
    /\ shown[t].answer = "ACK"
    /\ vote[s].voter = vote[t].voter
    => s = t

(***************************************************************************)
(* A session that was shown a NACK, or never got a connection, did not     *)
(* vote: nothing in votos comes from it.                                   *)
(***************************************************************************)
RefusedSessionHasNoVote ==
  \A s \in Conn :
    \/ stage[s] = "no_connection"
    \/ shown[s].answer \notin {None, "ACK"}
    => \A r \in votos : r.by # s

(* "Falha ao enviar voto" means that the vote was not recorded.            *)
FailureMeansNotRecorded ==
  \A s \in Conn : stage[s] = "failed" => \A r \in votos : r.by # s

-----------------------------------------------------------------------------
(***************************************************************************)
(* Fairness: the server's threads and the client's program run when they   *)
(* are not blocked, and TLS between two running ends completes.  The user, *)
(* the network, faults, stops and restarts owe nothing.                    *)
(***************************************************************************)
SystemFairness ==
  \A c \in Conn :
    /\ WF_systemVars(AcceptLoop(c) /\ UNCHANGED clientVars)
    /\ WF_systemVars(Handshake(c) /\ UNCHANGED clientVars)
    /\ WF_systemVars(Handler(c) /\ UNCHANGED clientVars)
    /\ WF_systemVars(Connected(c))
    /\ WF_systemVars(ConnectFails(c) /\ link[c] = "closed")
    /\ WF_systemVars(ReceiveAnswer(c))
    /\ WF_systemVars(ReceiveFails(c) /\ link[c] = "closed")

FairSystemSpec == SystemSpec /\ SystemFairness

(***************************************************************************)
(* A voter is not left in front of a frozen window: connecting and waiting *)
(* for the answer end, by an answer or an error, unless the network is     *)
(* silently lost (no read of the client or the server has a timeout).      *)
(***************************************************************************)
SessionConcludes ==
  \A s \in Conn :
    stage[s] \in {"connecting", "waiting"}
      ~> (stage[s] \notin {"connecting", "waiting"}
            \/ link[s] \in {"lost", "gone"})

(***************************************************************************)
(* A thread serves a session only as long as the session lasts: once the   *)
(* client has ended, by close_ssl_connection or by a failed login, its     *)
(* thread ends, unless the network was silently lost or the client never   *)
(* reached the server ("idle").                                            *)
(***************************************************************************)
SessionReleasesItsThread ==
  \A s \in Conn :
    stage[s] \in {"exited", "no_connection"}
      ~> (pc[s] = "done" \/ link[s] \in {"lost", "idle"})

=============================================================================
