---------------------------- MODULE ClientConnect ----------------------------
(***************************************************************************)
(* connect_server_ssl, send_vote and close_ssl_connection of the client    *)
(* (client/src/network/client_socket.c), with init_client_ssl, ssl_connect *)
(* and what they call in ssl_wrapper.c: the socket, OpenSSL's objects and  *)
(* memory on every path, which servers the client accepts, and what the    *)
(* server will read in the record it sends.  Any call may fail;            *)
(* VotingSystem sees only the outcome.                                     *)
(***************************************************************************)
EXTENDS VoteMessage

CONSTANTS CAs,   \* the CAs that runs of generate_certs.sh made
          None,
          Typed  \* what a voter may type as "Eleitor ID", without blanks

ASSUME NoneIsNoCA == None \notin CAs
ASSUME TypedAssumption == \A t \in Typed : t \in Seq(Token) /\ \A n \in DOMAIN t : Fits(t[n])

VARIABLES at,        \* the statement the client is at
          held,      \* held[r]: resource r acquired minus released
          pending,   \* what is still to be done of the path out
          blocking,  \* the socket is in blocking mode
          verify,    \* SSL_VERIFY_PEER is set in ssl_ctx
          trusted,   \* the CA in the store of ssl_ctx
          pinned,    \* the name the certificate must have is set
          noMemory,  \* malloc failed (ghost)
          misuse,    \* SSL_shutdown ran after close of the socket (ghost)
          typed,     \* voter_id
          candidate, \* what was chosen in the listbox
          message,   \* the record that was sent, or <<>>
          address,   \* what was typed is an IPv4 address
          peer,      \* what is at that address
          cert,      \* the certificate it shows, if it speaks TLS
          embedded   \* the CA compiled into the client, or None

client == <<held, pending, blocking, verify, trusted, pinned, noMemory, misuse>>
vote == <<typed, candidate, message>>
world == <<address, peer, cert, embedded>>
vars == <<at, client, vote, world>>

Resource == {"socket", "ssl_ctx", "bio", "x509", "ssl", "conn"}
NothingHeld == [r \in Resource |-> 0]

(* refuses: connect fails.  silent: SYNs are dropped.  deaf: TCP connects  *)
(* and nothing more comes.  tls: a TLS server.  gone: it closed.           *)
Peer == {"refuses", "silent", "deaf", "tls", "gone"}
Certificate == [ca : CAs, forAddress : BOOLEAN]

Init ==
  /\ at = "socket"
  /\ held = NothingHeld
  /\ pending = <<>>
  /\ blocking = TRUE /\ verify = FALSE /\ trusted = None /\ pinned = FALSE
  /\ noMemory = FALSE /\ misuse = FALSE
  /\ typed \in Typed /\ candidate \in Candidates /\ message = <<>>
  /\ address \in BOOLEAN
  /\ peer \in Peer \ {"gone"}
  /\ cert \in Certificate
  /\ embedded \in CAs \cup {None}

-----------------------------------------------------------------------------
(* Ways on and ways out.                                                   *)

Acquired(r) == held' = [held EXCEPT ![r] = @ + 1]

(* The calls of an early return, in their order, and then NULL.            *)
GiveUp(calls) == at' = "failing" /\ pending' = calls

Modes == <<blocking, verify, trusted, pinned>>
Ghosts == <<noMemory, misuse>>

(* A call that only succeeds or fails.                                     *)
Try(here, next, calls) ==
  /\ at = here
  /\ \/ at' = next /\ UNCHANGED pending
     \/ GiveUp(calls)
  /\ UNCHANGED <<held, Modes, Ghosts, vote, world>>

(* A call that gives a resource or fails.                                  *)
TryFor(r, here, next, calls) ==
  /\ at = here
  /\ \/ at' = next /\ Acquired(r) /\ UNCHANGED pending
     \/ GiveUp(calls) /\ UNCHANGED held
  /\ UNCHANGED <<Modes, Ghosts, vote, world>>

(* One call of a path out; SSL_shutdown uses the socket.                   *)
ReleaseNext ==
  /\ at \in {"failing", "closing"}
  /\ pending # <<>>
  /\ pending' = Tail(pending)
  /\ IF Head(pending) = "SSL_shutdown"
     THEN misuse' = (misuse \/ held["socket"] # 1) /\ UNCHANGED held
     ELSE held' = [held EXCEPT ![Head(pending)] = @ - 1] /\ UNCHANGED misuse
  /\ UNCHANGED <<at, Modes, noMemory, vote, world>>

Return ==
  /\ at \in {"failing", "closing"}
  /\ pending = <<>>
  /\ at' = IF at = "failing" THEN "failed" ELSE "closed"
  /\ UNCHANGED <<client, vote, world>>

-----------------------------------------------------------------------------
(* TCP.                                                                    *)

NewSocket == TryFor("socket", "socket", "inet_pton", <<>>)

ParseAddress ==
  /\ at = "inet_pton"
  /\ \/ address /\ at' = "nonblock" /\ UNCHANGED pending
     \/ ~address /\ GiveUp(<<"socket">>)
  /\ UNCHANGED <<held, Modes, Ghosts, vote, world>>

(* Both calls of fcntl.                                                    *)
SetNonBlocking ==
  /\ at = "nonblock"
  /\ \/ at' = "connect" /\ blocking' = FALSE /\ UNCHANGED pending
     \/ GiveUp(<<"socket">>) /\ UNCHANGED blocking
  /\ UNCHANGED <<held, verify, trusted, pinned, Ghosts, vote, world>>

(* connect of a non-blocking socket: at once, EINPROGRESS, or an error.    *)
Connect ==
  /\ at = "connect"
  /\ \/ peer \in {"deaf", "tls"} /\ at' = "restore" /\ UNCHANGED pending
     \/ at' = "select" /\ UNCHANGED pending
     \/ GiveUp(<<"socket">>)
  /\ UNCHANGED <<held, Modes, Ghosts, vote, world>>

(* The socket becomes writable: connected, or refused.                     *)
Writable ==
  /\ at = "select"
  /\ peer # "silent"
  /\ at' = "so_error"
  /\ UNCHANGED <<client, vote, world>>

(* Faulty variant: select is given no timeout.                             *)
SelectForEver == FALSE /\ UNCHANGED vars

(* CONNECT_TIMEOUT_SECONDS, or a signal.                                   *)
SelectTimesOut ==
  /\ at = "select"
  /\ GiveUp(<<"socket">>)
  /\ UNCHANGED <<held, Modes, Ghosts, vote, world>>

CheckSocketError ==
  /\ at = "so_error"
  /\ \/ peer \in {"deaf", "tls"} /\ at' = "restore" /\ UNCHANGED pending
     \/ GiveUp(<<"socket">>)
  /\ UNCHANGED <<held, Modes, Ghosts, vote, world>>

RestoreBlocking ==
  /\ at = "restore"
  /\ \/ at' = "ssl_ctx" /\ blocking' = TRUE /\ UNCHANGED pending
     \/ GiveUp(<<"socket">>) /\ UNCHANGED blocking
  /\ UNCHANGED <<held, verify, trusted, pinned, Ghosts, vote, world>>

-----------------------------------------------------------------------------
(* TLS.                                                                    *)

NewContext == TryFor("ssl_ctx", "ssl_ctx", "bio", <<"socket">>)

(* load_embedded_ca: an empty CA is refused here.                          *)
OpenEmbeddedCa ==
  /\ at = "bio"
  /\ \/ embedded # None /\ at' = "x509" /\ Acquired("bio") /\ UNCHANGED pending
     \/ GiveUp(<<"ssl_ctx", "socket">>) /\ UNCHANGED held
  /\ UNCHANGED <<Modes, Ghosts, vote, world>>

(* Faulty variant: the BIO is not freed.                                   *)
ReadEmbeddedCaLeaks == TryFor("x509", "x509", "store", <<"ssl_ctx", "socket">>)

ReadEmbeddedCa ==
  TryFor("x509", "x509", "store", <<"bio", "ssl_ctx", "socket">>)

(* Faulty variant: SSL_CTX_set_verify is not called.                       *)
TrustWithoutVerify ==
  /\ at = "store"
  /\ \/ /\ at' = "ssl"
        /\ held' = [held EXCEPT !["x509"] = @ - 1, !["bio"] = @ - 1]
        /\ trusted' = embedded
        /\ UNCHANGED <<pending, verify>>
     \/ /\ GiveUp(<<"x509", "bio", "ssl_ctx", "socket">>)
        /\ UNCHANGED <<held, trusted, verify>>
  /\ UNCHANGED <<blocking, pinned, Ghosts, vote, world>>

(* The CA enters the store, and SSL_CTX_set_verify.                        *)
TrustEmbeddedCa ==
  /\ at = "store"
  /\ \/ /\ at' = "ssl"
        /\ held' = [held EXCEPT !["x509"] = @ - 1, !["bio"] = @ - 1]
        /\ trusted' = embedded
        /\ verify' = TRUE
        /\ UNCHANGED pending
     \/ /\ GiveUp(<<"x509", "bio", "ssl_ctx", "socket">>)
        /\ UNCHANGED <<held, trusted, verify>>
  /\ UNCHANGED <<blocking, pinned, Ghosts, vote, world>>

NewSsl == TryFor("ssl", "ssl", "pin", <<"socket", "ssl_ctx">>)

(* configure_peer_verification: the typed address is the name.             *)
PinAddress ==
  /\ at = "pin"
  /\ \/ at' = "handshake" /\ pinned' = TRUE /\ UNCHANGED pending
     \/ GiveUp(<<"ssl", "socket", "ssl_ctx">>) /\ UNCHANGED pinned
  /\ UNCHANGED <<held, blocking, verify, trusted, Ghosts, vote, world>>

(* What OpenSSL checks of a certificate.                                   *)
Verified == verify => /\ cert.ca = trusted
                      /\ pinned => cert.forAddress

(* SSL_connect, which waits for ever for a peer that says nothing.         *)
HandshakeSucceeds ==
  /\ at = "handshake"
  /\ peer = "tls"
  /\ Verified
  /\ at' = "malloc"
  /\ UNCHANGED <<client, vote, world>>

HandshakeFails ==
  /\ at = "handshake"
  /\ peer \in {"tls", "gone"}
  /\ GiveUp(<<"ssl", "socket", "ssl_ctx">>)
  /\ UNCHANGED <<held, Modes, Ghosts, vote, world>>

NewConnection ==
  /\ at = "malloc"
  /\ at' = "connected"
  /\ Acquired("conn")
  /\ UNCHANGED <<pending, Modes, Ghosts, vote, world>>

(* The socket is closed before ssl_cleanup shuts TLS down.                 *)
OutOfMemory ==
  /\ at = "malloc"
  /\ GiveUp(<<"socket", "SSL_shutdown", "ssl", "ssl_ctx">>)
  /\ noMemory' = TRUE
  /\ UNCHANGED <<held, Modes, misuse, vote, world>>

(* send_vote: "%s %s", and ssl_send, whose result is ignored.              *)
SendVote ==
  /\ at = "connected"
  /\ at' = "sent"
  /\ message' = typed \o <<[pad |-> 0, name |-> candidate, clean |-> TRUE]>>
  /\ UNCHANGED <<client, typed, candidate, world>>

(* ssl_recv returns an answer, an error or the end of the stream.  Nothing *)
(* but the peer makes it return.                                           *)
ReceiveAnswer ==
  /\ at = "sent"
  /\ at' = "answered"
  /\ UNCHANGED <<client, vote, world>>

(* Faulty variant: the socket is closed first.                             *)
CloseSocketFirst ==
  /\ at = "answered"
  /\ at' = "closing"
  /\ pending' = <<"socket", "SSL_shutdown", "ssl", "ssl_ctx", "conn">>
  /\ UNCHANGED <<held, Modes, Ghosts, vote, world>>

CloseConnection ==
  /\ at = "answered"
  /\ at' = "closing"
  /\ pending' = <<"SSL_shutdown", "ssl", "ssl_ctx", "socket", "conn">>
  /\ UNCHANGED <<held, Modes, Ghosts, vote, world>>

-----------------------------------------------------------------------------

(* The server, or the network, ends the TCP connection.                    *)
PeerGoes ==
  /\ peer \in {"deaf", "tls"}
  /\ peer' = "gone"
  /\ UNCHANGED <<at, client, vote, address, cert, embedded>>

Tcp == NewSocket \/ ParseAddress \/ SetNonBlocking \/ Connect \/ Writable
       \/ SelectTimesOut \/ CheckSocketError \/ RestoreBlocking

Tls == NewContext \/ OpenEmbeddedCa \/ ReadEmbeddedCa \/ TrustEmbeddedCa
       \/ NewSsl \/ PinAddress \/ HandshakeSucceeds \/ HandshakeFails
       \/ NewConnection \/ OutOfMemory

Client == Tcp \/ Tls \/ SendVote \/ CloseConnection \/ ReleaseNext \/ Return

Next == Client \/ ReceiveAnswer \/ PeerGoes

(* The client's one thread runs, and select returns when its time is over. *)
Spec == Init /\ [][Next]_vars /\ WF_vars(Client)

-----------------------------------------------------------------------------
(* Properties.                                                             *)

(* No resource is acquired twice or released more than once.               *)
TypeOK ==
  /\ at \in {"socket", "inet_pton", "nonblock", "connect", "select",
             "so_error", "restore", "ssl_ctx", "bio", "x509", "store", "ssl",
             "pin", "handshake", "malloc", "connected", "sent", "answered",
             "failing", "failed", "closing", "closed"}
  /\ held \in [Resource -> 0..1]
  /\ pending \in Seq(Resource \cup {"SSL_shutdown"})
  /\ blocking \in BOOLEAN /\ verify \in BOOLEAN /\ pinned \in BOOLEAN
  /\ trusted \in CAs \cup {None}

Usable == {"connected", "sent", "answered"}

(***************************************************************************)
(* Whatever call failed, connect_server_ssl returns NULL with everything   *)
(* given back, and so does close_ssl_connection; what a connection keeps   *)
(* is its socket, its SSL objects and itself, each once.                   *)
(***************************************************************************)
EndsReleaseEverything ==
  /\ at \in {"failed", "closed"} => held = NothingHeld
  /\ at \in Usable =>
       \A r \in Resource : held[r] = IF r \in {"bio", "x509"} THEN 0 ELSE 1

(***************************************************************************)
(* SSL_shutdown, which writes a close_notify, runs on an open socket;      *)
(* except where malloc failed.                                             *)
(***************************************************************************)
ShutdownOnOpenSocket == misuse => noMemory

(***************************************************************************)
(* A connection that is handed out is to a server whose certificate is of  *)
(* the CA this client was built with and for the address that was typed,   *)
(* and its reads wait for the answer.                                      *)
(***************************************************************************)
ConnectedIsVerified ==
  at \in Usable => /\ cert.ca = embedded
                   /\ cert.forAddress /\ address
                   /\ blocking

(***************************************************************************)
(* A record of this client that the server's parse_vote_message accepts is *)
(* a vote of exactly the id that was typed for the candidate that was      *)
(* chosen: an id with blanks in it never becomes another vote.             *)
(***************************************************************************)
VoteIsWhatWasChosen ==
  message # <<>> /\ parse_vote_message(message) =>
    /\ typed = <<VoterId(message)>>
    /\ Candidate(message).name = candidate

(***************************************************************************)
(* connect_server_ssl returns, also from an address that never answers;    *)
(* only a peer that accepts TCP and then says nothing can keep it waiting, *)
(* as long as it keeps the connection.                                     *)
(***************************************************************************)
ConnectReturns ==
  at = "socket" ~> \/ at \in {"connected", "failed"}
                   \/ at = "handshake" /\ peer = "deaf"

=============================================================================
