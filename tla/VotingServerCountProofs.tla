---------------------- MODULE VotingServerCountProofs ----------------------
(***************************************************************************)
(* Proofs about the three counters of VotingServer, for every set of       *)
(* connections, finite or not: only finitely many threads ever run at once *)
(* and only finitely many rows are ever in votos, so the sets that the     *)
(* counters stand for have a size.                                         *)
(***************************************************************************)
EXTENDS VotingServerProofs, FiniteSetTheorems

-----------------------------------------------------------------------------
(* The threads at a place in a set of places, and how many they are.       *)

At(f, Q) == {c \in Conn : f[c] \in Q}
One(Q, x) == IF x \in Q THEN 1 ELSE 0    \* 1 when x is one of Q

LEMMA AddOne ==
  ASSUME NEW S, NEW x, NEW T, IsFiniteSet(S), T = S \cup {x}
  PROVE  /\ IsFiniteSet(T)
         /\ Cardinality(T) =
              IF x \in S THEN Cardinality(S) ELSE Cardinality(S) + 1
BY FS_AddElement

LEMMA RemoveOne ==
  ASSUME NEW S, NEW x, NEW T, IsFiniteSet(S), T = S \ {x}
  PROVE  /\ IsFiniteSet(T)
         /\ Cardinality(T) =
              IF x \in S THEN Cardinality(S) - 1 ELSE Cardinality(S)
BY FS_RemoveElement

(* When one thread goes from one place to another, the number of threads   *)
(* in Q changes by whether it enters Q and by whether it leaves it.        *)
LEMMA OneThreadMoves ==
  ASSUME pc \in [Conn -> Location], NEW Q, IsFiniteSet(At(pc, Q)),
         NEW c \in Conn, NEW l \in Location, pc' = [pc EXCEPT ![c] = l]
  PROVE  /\ IsFiniteSet(At(pc', Q))
         /\ Cardinality(At(pc, Q)) \in Nat
         /\ Cardinality(At(pc', Q))
              = Cardinality(At(pc, Q)) + One(Q, l) - One(Q, pc[c])
<1>1. Cardinality(At(pc, Q)) \in Nat
  BY FS_CardinalityType
<1>2. /\ pc'[c] = l
      /\ \A d \in Conn \ {c} : pc'[d] = pc[d]
  OBVIOUS
<1>3. CASE l \in Q
  <2>1. At(pc', Q) = At(pc, Q) \cup {c}
    BY <1>2, <1>3 DEF At
  <2>2. c \in At(pc, Q) <=> pc[c] \in Q
    BY DEF At
  <2>3. /\ IsFiniteSet(At(pc', Q))
        /\ Cardinality(At(pc', Q)) =
             IF c \in At(pc, Q) THEN Cardinality(At(pc, Q))
             ELSE Cardinality(At(pc, Q)) + 1
    BY <2>1, AddOne
  <2>4. QED BY <1>1, <1>3, <2>2, <2>3 DEF One
<1>4. CASE l \notin Q
  <2>1. At(pc', Q) = At(pc, Q) \ {c}
    BY <1>2, <1>4 DEF At
  <2>2. c \in At(pc, Q) <=> pc[c] \in Q
    BY DEF At
  <2>3. /\ IsFiniteSet(At(pc', Q))
        /\ Cardinality(At(pc', Q)) =
             IF c \in At(pc, Q) THEN Cardinality(At(pc, Q)) - 1
             ELSE Cardinality(At(pc, Q))
    BY <2>1, RemoveOne
  <2>4. Cardinality(At(pc', Q)) \in Nat
    BY <2>3, FS_CardinalityType
  <2>5. QED BY <1>1, <1>4, <2>2, <2>3, <2>4 DEF One
<1>5. QED BY <1>3, <1>4

-----------------------------------------------------------------------------
(***************************************************************************)
(* The invariant: the counters agree with the sets they count, no thread   *)
(* outlives the process, and the sets are finite.                          *)
(***************************************************************************)
Running == Location \ {"none", "done"}

CountInv ==
  /\ IsFiniteSet(At(pc, Running))
  /\ IsFiniteSet(votos)
  /\ ~up => At(pc, Running) = {}
  /\ total_votes + Cardinality(At(pc, {"tally"})) <= Cardinality(votos)
  /\ up => /\ connected_clients = Cardinality(At(pc, Serving))
           /\ active_threads >= 1 + Cardinality(At(pc, Running))

(* The sets of the properties are sets of this form.                       *)
LEMMA SameSets ==
  ASSUME TypeInv
  PROVE  /\ Live = At(pc, Running)
         /\ {c \in Conn : pc[c] \in Serving} = At(pc, Serving)
         /\ {c \in Conn : pc[c] = "tally"} = At(pc, {"tally"})
BY DEF TypeInv, TypeOK, Live, At, Running

(* Serving threads and threads about to count a vote are running threads.  *)
LEMMA PartsFinite ==
  ASSUME IsFiniteSet(At(pc, Running))
  PROVE  IsFiniteSet(At(pc, Serving)) /\ IsFiniteSet(At(pc, {"tally"}))
<1>1. At(pc, Serving) \in SUBSET At(pc, Running)
  BY DEF At, Serving, Running, Location
<1>2. At(pc, {"tally"}) \in SUBSET At(pc, Running)
  BY DEF At, Running, Location
<1>3. QED BY <1>1, <1>2, FS_Subset

LEMMA NobodyRuns ==
  ASSUME NEW f, NEW Q, \A c \in Conn : f[c] \notin Q
  PROVE  At(f, Q) = {} /\ IsFiniteSet(At(f, Q)) /\ Cardinality(At(f, Q)) = 0
BY FS_EmptySet DEF At

LEMMA InitCountInv == Init => CountInv
<1> SUFFICES ASSUME Init PROVE CountInv
  OBVIOUS
<1>1. \A c \in Conn : pc[c] = "none"
  BY DEF Init
<1>2. /\ At(pc, Running) = {} /\ IsFiniteSet(At(pc, Running))
      /\ Cardinality(At(pc, Running)) = 0
  BY <1>1, NobodyRuns DEF Running
<1>3. Cardinality(At(pc, Serving)) = 0
  BY <1>1, NobodyRuns DEF Serving
<1>4. Cardinality(At(pc, {"tally"})) = 0
  BY <1>1, NobodyRuns
<1>5. QED BY <1>2, <1>3, <1>4, FS_EmptySet DEF Init, CountInv

-----------------------------------------------------------------------------
(* A step that changes neither the places of threads nor what is counted.  *)
LEMMA StillCountInv ==
  ASSUME CountInv, UNCHANGED <<up, pc, votos, memory>>
  PROVE  CountInv'
BY DEF CountInv, At, memory

(***************************************************************************)
(* A step of one thread, from place k to place l: the three numbers after  *)
(* it.                                                                     *)
(***************************************************************************)
LEMMA StepNumbers ==
  ASSUME TypeInv, CountInv, NEW c \in Conn, NEW l \in Location,
         pc' = [pc EXCEPT ![c] = l]
  PROVE  /\ IsFiniteSet(At(pc', Running))
         /\ Cardinality(votos) \in Nat
         /\ Cardinality(At(pc, Running)) \in Nat
         /\ Cardinality(At(pc, Serving)) \in Nat
         /\ Cardinality(At(pc, {"tally"})) \in Nat
         /\ Cardinality(At(pc', Running)) = Cardinality(At(pc, Running))
              + One(Running, l) - One(Running, pc[c])
         /\ Cardinality(At(pc', Serving)) = Cardinality(At(pc, Serving))
              + One(Serving, l) - One(Serving, pc[c])
         /\ Cardinality(At(pc', {"tally"})) = Cardinality(At(pc, {"tally"}))
              + One({"tally"}, l) - One({"tally"}, pc[c])
<1>1. pc \in [Conn -> Location]
  BY DEF TypeInv, TypeOK
<1>2. /\ IsFiniteSet(At(pc, Running)) /\ IsFiniteSet(At(pc, Serving))
      /\ IsFiniteSet(At(pc, {"tally"})) /\ IsFiniteSet(votos)
  BY PartsFinite DEF CountInv
<1>3. /\ IsFiniteSet(At(pc', Running))
      /\ Cardinality(At(pc, Running)) \in Nat
      /\ Cardinality(At(pc', Running)) = Cardinality(At(pc, Running))
              + One(Running, l) - One(Running, pc[c])
  BY <1>1, <1>2, OneThreadMoves
<1>4. /\ Cardinality(At(pc, Serving)) \in Nat
      /\ Cardinality(At(pc', Serving)) = Cardinality(At(pc, Serving))
              + One(Serving, l) - One(Serving, pc[c])
  BY <1>1, <1>2, OneThreadMoves
<1>5. /\ Cardinality(At(pc, {"tally"})) \in Nat
      /\ Cardinality(At(pc', {"tally"})) = Cardinality(At(pc, {"tally"}))
              + One({"tally"}, l) - One({"tally"}, pc[c])
  BY <1>1, <1>2, OneThreadMoves
<1>6. QED BY <1>2, <1>3, <1>4, <1>5, FS_CardinalityType

(* While the process is down no thread is at any statement.                *)
LEMMA RunsOnlyUp ==
  ASSUME CountInv, NEW c \in Conn, pc[c] \in Running
  PROVE  up
BY DEF CountInv, At

(***************************************************************************)
(* A step of one thread to l that keeps the books: the counters change as  *)
(* the numbers they stand for, active_threads by no less.                  *)
(***************************************************************************)
Books(c, l) ==
  /\ pc' = [pc EXCEPT ![c] = l]
  /\ l \in Location \ {"tally"}
  /\ up /\ up' = up /\ votos' = votos
  /\ connected_clients' = connected_clients
                             + One(Serving, l) - One(Serving, pc[c])
  /\ active_threads' >= active_threads
                          + One(Running, l) - One(Running, pc[c])
  /\ total_votes' = total_votes + One({"tally"}, pc[c])

LEMMA BookedStep ==
  ASSUME TypeInv, TypeInv', CountInv, NEW c \in Conn, NEW l, Books(c, l)
  PROVE  CountInv'
<1>1. /\ total_votes \in Nat /\ total_votes' \in Nat
      /\ active_threads \in Int /\ active_threads' \in Int
      /\ connected_clients \in Int
  BY DEF TypeInv, TypeOK
<1>2. /\ IsFiniteSet(votos')
      /\ total_votes + Cardinality(At(pc, {"tally"})) <= Cardinality(votos)
      /\ connected_clients = Cardinality(At(pc, Serving))
      /\ active_threads >= 1 + Cardinality(At(pc, Running))
  BY DEF CountInv, Books
<1>3. /\ l \in Location /\ pc' = [pc EXCEPT ![c] = l]
      /\ One({"tally"}, l) = 0
      /\ \A Q : One(Q, l) \in Nat /\ One(Q, pc[c]) \in Nat
  BY DEF Books, One
<1>4. /\ IsFiniteSet(At(pc', Running))
      /\ Cardinality(votos) \in Nat
      /\ Cardinality(At(pc, Running)) \in Nat
      /\ Cardinality(At(pc, Serving)) \in Nat
      /\ Cardinality(At(pc, {"tally"})) \in Nat
      /\ Cardinality(At(pc', Running)) = Cardinality(At(pc, Running))
           + One(Running, l) - One(Running, pc[c])
      /\ Cardinality(At(pc', Serving)) = Cardinality(At(pc, Serving))
           + One(Serving, l) - One(Serving, pc[c])
      /\ Cardinality(At(pc', {"tally"})) = Cardinality(At(pc, {"tally"}))
           + One({"tally"}, l) - One({"tally"}, pc[c])
  BY <1>3, StepNumbers
<1>5. total_votes' + Cardinality(At(pc', {"tally"})) <= Cardinality(votos')
  BY <1>1, <1>2, <1>3, <1>4 DEF Books
<1>6. connected_clients' = Cardinality(At(pc', Serving))
  BY <1>1, <1>2, <1>3, <1>4 DEF Books
<1>7. active_threads' >= 1 + Cardinality(At(pc', Running))
  BY <1>1, <1>2, <1>3, <1>4 DEF Books
<1>8. up'
  BY DEF Books
<1>9. QED BY <1>2, <1>4, <1>5, <1>6, <1>7, <1>8 DEF CountInv

-----------------------------------------------------------------------------
LEMMA AcceptCountInv ==
  ASSUME TypeInv, TypeInv', CountInv, NEW c \in Conn,
         AcceptLoop(c) \/ Handshake(c)
  PROVE  CountInv'
<1>0. /\ active_threads \in Int /\ connected_clients \in Int
      /\ total_votes \in Nat
  BY DEF TypeInv, TypeOK
<1>1. CASE RefuseConnection(c)
  <2>1. Books(c, "done")
    BY <1>0, <1>1 DEF RefuseConnection, Acceptable, Books, One, Serving,
       Running, Location, memory
  <2>2. QED BY <2>1, BookedStep
<1>2. CASE AcceptConnection(c)
  <2>1. Books(c, "spawn")
    BY <1>0, <1>2 DEF AcceptConnection, Acceptable, Books, One, Serving,
       Running, Location
  <2>2. QED BY <2>1, BookedStep
<1>3. CASE ThreadStarts(c)
  <2>1. Books(c, "ssl_accept")
    BY <1>0, <1>3, RunsOnlyUp DEF ThreadStarts, Books, One, Serving, Running,
       Location, memory
  <2>2. QED BY <2>1, BookedStep
<1>4. CASE ThreadFails(c)
  <2>1. Books(c, "done")
    BY <1>0, <1>4, RunsOnlyUp DEF ThreadFails, Books, One, Serving, Running,
       Location
  <2>2. QED BY <2>1, BookedStep
<1>5. CASE HandshakeSucceeds(c)
  <2>1. Books(c, "register")
    BY <1>0, <1>5, RunsOnlyUp DEF HandshakeSucceeds, Books, One, Serving,
       Running, Location, memory
  <2>2. QED BY <2>1, BookedStep
<1>6. CASE HandshakeFails(c)
  <2>1. Books(c, "done")
    BY <1>0, <1>6, RunsOnlyUp DEF HandshakeFails, Books, One, Serving,
       Running, Location, memory
  <2>2. QED BY <2>1, BookedStep
<1>7. QED
  BY <1>1, <1>2, <1>3, <1>4, <1>5, <1>6 DEF AcceptLoop, Handshake

(* The INSERT makes room for the vote the thread will count.               *)
LEMMA SaveVoteCountInv ==
  ASSUME TypeInv, TypeInv', CountInv, NEW c \in Conn, SaveVote(c)
  PROVE  CountInv'
<1>0. /\ active_threads \in Int /\ connected_clients \in Int
      /\ total_votes \in Nat
  BY DEF TypeInv, TypeOK
<1>1. /\ pc[c] = "save_vote" /\ up' = up
      /\ UNCHANGED memory
  BY DEF SaveVote
<1>2. up
  BY <1>1, RunsOnlyUp DEF Running, Location
<1>3. PICK res \in save_vote(votos, RowOf(c)) :
        /\ votos' = res.votos
        /\ \/ res.ok /\ pc' = [pc EXCEPT ![c] = "tally"]
           \/ ~res.ok /\ pc' = [pc EXCEPT ![c] = "reply"]
  BY DEF SaveVote
<1>4. CASE ~res.ok
  <2>1. votos' = votos
    BY <1>3, <1>4 DEF save_vote
  <2>2. pc' = [pc EXCEPT ![c] = "reply"]
    BY <1>3, <1>4
  <2>3. Books(c, "reply")
    BY <1>0, <1>1, <1>2, <2>1, <2>2 DEF Books, Serving, Running, Location,
       One, memory
  <2>4. QED BY <2>3, BookedStep
<1>5. CASE res.ok
  <2>1. votos' = votos \cup {RowOf(c)} /\ RowOf(c) \notin votos
    BY <1>3, <1>5 DEF save_vote, HasRow
  <2>2. pc' = [pc EXCEPT ![c] = "tally"]
    BY <1>3, <1>5
  <2>3. IsFiniteSet(votos)
    BY DEF CountInv
  <2>4. /\ IsFiniteSet(votos')
        /\ Cardinality(votos') = Cardinality(votos) + 1
    BY <2>1, <2>3, FS_AddElement
  <2>5. /\ IsFiniteSet(At(pc', Running))
        /\ Cardinality(votos) \in Nat
        /\ Cardinality(At(pc, {"tally"})) \in Nat
        /\ Cardinality(At(pc', Running)) = Cardinality(At(pc, Running))
        /\ Cardinality(At(pc', Serving)) = Cardinality(At(pc, Serving))
        /\ Cardinality(At(pc', {"tally"}))
             = Cardinality(At(pc, {"tally"})) + 1
    <3>1. /\ "tally" \in Location
          /\ One(Running, "tally") = 1 /\ One(Running, pc[c]) = 1
          /\ One(Serving, "tally") = 1 /\ One(Serving, pc[c]) = 1
          /\ One({"tally"}, "tally") = 1 /\ One({"tally"}, pc[c]) = 0
      BY <1>1 DEF One, Serving, Running, Location
    <3> DEFINE l == "tally"
    <3>2. /\ IsFiniteSet(At(pc', Running))
          /\ Cardinality(votos) \in Nat
          /\ Cardinality(At(pc, Running)) \in Nat
          /\ Cardinality(At(pc, Serving)) \in Nat
          /\ Cardinality(At(pc, {"tally"})) \in Nat
          /\ Cardinality(At(pc', Running)) = Cardinality(At(pc, Running))
               + One(Running, l) - One(Running, pc[c])
          /\ Cardinality(At(pc', Serving)) = Cardinality(At(pc, Serving))
               + One(Serving, l) - One(Serving, pc[c])
          /\ Cardinality(At(pc', {"tally"}))
               = Cardinality(At(pc, {"tally"}))
                   + One({"tally"}, l) - One({"tally"}, pc[c])
      BY <2>2, <3>1, StepNumbers
    <3>3. QED BY <3>1, <3>2
  <2>6. total_votes' + Cardinality(At(pc', {"tally"})) <= Cardinality(votos')
    BY <1>0, <1>1, <2>4, <2>5 DEF CountInv, memory
  <2>7. QED BY <1>1, <1>2, <2>4, <2>5, <2>6 DEF CountInv, memory
<1>6. QED BY <1>4, <1>5

LEMMA HandlerCountInv ==
  ASSUME TypeInv, TypeInv', CountInv, NEW c \in Conn, Handler(c)
  PROVE  CountInv'
<1>0. /\ active_threads \in Int /\ connected_clients \in Int
      /\ total_votes \in Nat
  BY DEF TypeInv, TypeOK
<1>1. CASE Register(c)
  <2>1. Books(c, "recv")
    BY <1>0, <1>1, RunsOnlyUp DEF Register, Books, One, Serving, Running,
       Location
  <2>2. QED BY <2>1, BookedStep
<1>2. CASE \/ Receive(c) \/ ReceiveEnds(c) \/ CheckVoter(c)
           \/ CheckNotVoted(c) \/ Reply(c) \/ Cleanup(c)
  <2>1. /\ pc[c] \in Serving \ {"tally"} /\ up' = up /\ votos' = votos
        /\ UNCHANGED memory
        /\ \E l \in Serving \ {"tally"} : pc' = [pc EXCEPT ![c] = l]
    BY <1>2 DEF Receive, ReceiveEnds, CheckVoter, CheckNotVoted, Reply,
       Cleanup, Serving
  <2>2. PICK l \in Serving \ {"tally"} : pc' = [pc EXCEPT ![c] = l]
    BY <2>1
  <2>3. up
    BY <2>1, RunsOnlyUp DEF Serving, Running, Location
  <2>4. Books(c, l)
    <3>1. /\ One(Serving, l) = 1 /\ One(Serving, pc[c]) = 1
          /\ One(Running, l) = 1 /\ One(Running, pc[c]) = 1
          /\ One({"tally"}, pc[c]) = 0
          /\ l \in Location \ {"tally"}
      BY <2>1 DEF One, Serving, Running, Location
    <3>2. /\ connected_clients' = connected_clients
          /\ active_threads' = active_threads
          /\ total_votes' = total_votes
      BY <2>1 DEF memory
    <3>3. /\ connected_clients' = connected_clients
                                    + One(Serving, l) - One(Serving, pc[c])
          /\ active_threads' >= active_threads
                                 + One(Running, l) - One(Running, pc[c])
          /\ total_votes' = total_votes + One({"tally"}, pc[c])
      BY <1>0, <3>1, <3>2
    <3>4. QED BY <2>1, <2>2, <2>3, <3>1, <3>3 DEF Books
  <2>5. QED BY <2>4, BookedStep
<1>3. CASE SaveVote(c)
  BY <1>3, SaveVoteCountInv
<1>4. CASE Tally(c)
  <2>1. Books(c, "reply")
    BY <1>0, <1>4, RunsOnlyUp DEF Tally, Books, One, Serving, Running,
       Location
  <2>2. QED BY <2>1, BookedStep
<1>5. CASE Leave(c)
  <2>1. Books(c, "done")
    BY <1>0, <1>5, RunsOnlyUp DEF Leave, Books, One, Serving, Running,
       Location
  <2>2. QED BY <2>1, BookedStep
<1>6. QED BY <1>1, <1>2, <1>3, <1>4, <1>5 DEF Handler

(* The process takes its threads with it, and leaves the rows.             *)
LEMMA ProcessCountInv ==
  ASSUME TypeInv, CountInv, Process
  PROVE  CountInv'
<1>1. CASE Die
  <2>1. \A c \in Conn : pc'[c] \in {"none", "done"}
    BY <1>1 DEF Die
  <2>2. /\ At(pc', Running) = {} /\ IsFiniteSet(At(pc', Running))
        /\ Cardinality(At(pc', {"tally"})) = 0
    BY <2>1, NobodyRuns DEF Running
  <2>3. IsFiniteSet(At(pc, {"tally"}))
    BY PartsFinite DEF CountInv
  <2>4. /\ Cardinality(At(pc, {"tally"})) \in Nat
        /\ Cardinality(votos) \in Nat
    BY <2>3, FS_CardinalityType DEF CountInv
  <2>5. up' = FALSE /\ votos' = votos /\ total_votes' = total_votes
    BY <1>1 DEF Die, memory
  <2>6. total_votes \in Nat
    BY DEF TypeInv, TypeOK
  <2>7. QED BY <2>2, <2>4, <2>5, <2>6 DEF CountInv
<1>2. CASE Restart
  <2>1. At(pc, Running) = {} /\ pc' = pc /\ votos' = votos
    BY <1>2 DEF Restart, CountInv
  <2>2. At(pc, Serving) = {} /\ At(pc, {"tally"}) = {}
    BY <2>1 DEF At, Serving, Running, Location
  <2>3. Cardinality(votos) \in Nat
    BY FS_CardinalityType DEF CountInv
  <2>4. /\ connected_clients' = 0 /\ active_threads' = 1
        /\ total_votes' = 0 /\ up'
    BY <1>2 DEF Restart
  <2>5. /\ At(pc', Running) = {} /\ At(pc', Serving) = {}
        /\ At(pc', {"tally"}) = {} /\ IsFiniteSet(votos')
        /\ Cardinality(votos') \in Nat
    BY <2>1, <2>2, <2>3 DEF CountInv
  <2>6. /\ total_votes' + Cardinality(At(pc', {"tally"}))
             <= Cardinality(votos')
        /\ connected_clients' = Cardinality(At(pc', Serving))
        /\ active_threads' >= 1 + Cardinality(At(pc', Running))
        /\ IsFiniteSet(At(pc', Running))
    BY <2>4, <2>5, FS_EmptySet
  <2>7. QED BY <2>4, <2>5, <2>6 DEF CountInv
<1>3. QED BY <1>1, <1>2 DEF Process, Stop, BrokenPipe

LEMMA StepCountInv ==
  ASSUME TypeInv, TypeInv', CountInv, [Next]_vars
  PROVE  CountInv'
<1>1. ASSUME NEW c \in Conn, Peer(c) PROVE CountInv'
  <2>1. UNCHANGED <<up, pc, votos, memory>>
    BY <1>1 DEF Peer, PeerConnect, PeerSend, PeerClose, PeerVanish,
       LossDetected
  <2>2. QED BY <2>1, StillCountInv
<1>2. CASE UNCHANGED vars
  BY <1>2, StillCountInv DEF vars, memory
<1>3. QED
  BY <1>1, <1>2, AcceptCountInv, HandlerCountInv, ProcessCountInv DEF Next

(* The counters are in order in every reachable state.                     *)
THEOREM CountInvHolds == Spec => []CountInv
<1>1. TypeInv /\ TypeInv' /\ CountInv /\ [Next]_vars => CountInv'
  BY StepCountInv
<1>2. QED BY InitCountInv, TypeCorrect, <1>1, PTL DEF Spec

(* total_votes, with the votes that threads are about to add to it, never  *)
(* exceeds the rows on disk: a vote is inserted before it is counted, and  *)
(* inserted rows are new.                                                  *)
THEOREM TallyBehind == Spec => []TallyNeverAhead
<1>1. TypeInv /\ CountInv => TallyNeverAhead
  BY SameSets DEF CountInv, TallyNeverAhead, CountVotes
<1>2. QED BY <1>1, TypeCorrect, CountInvHolds, PTL

(* "Clientes conectados" is exact and "Threads ativas" never too small, on *)
(* every path on which a thread starts, fails and ends.                    *)
THEOREM Counters == Spec => []CountersAgree
<1>1. TypeInv /\ CountInv => CountersAgree
  BY SameSets DEF CountInv, CountersAgree
<1>2. QED BY <1>1, TypeCorrect, CountInvHolds, PTL

=============================================================================
