------------------------- MODULE ClientConnectProofs -------------------------
(***************************************************************************)
(* What VoteMessage accepts, of all records; and that ClientConnect keeps  *)
(* its invariants, whatever CAs there are and whatever may be typed.       *)
(***************************************************************************)
EXTENDS ClientConnect, TLAPS

-----------------------------------------------------------------------------
(* What parse_vote_message accepts, of all records.                        *)

(* A conversion of a non-empty record leaves a record.                     *)
LEMMA AfterType ==
  ASSUME NEW buffer \in Seq(Token), buffer # <<>>
  PROVE  /\ After(buffer) \in Seq(Token)
         /\ Fits(Head(buffer)) => Len(After(buffer)) = Len(buffer) - 1
         /\ ~Fits(Head(buffer)) => /\ Len(After(buffer)) = Len(buffer)
                                   /\ Head(After(buffer)) = Remainder(Head(buffer))
<1> DEFINE t == Head(buffer)
<1>1. t \in Token /\ Tail(buffer) \in Seq(Token) /\ Len(Tail(buffer)) = Len(buffer) - 1
  OBVIOUS
<1>2. CASE Fits(t)
  BY <1>1, <1>2 DEF After
<1>3. CASE ~Fits(t)
  <2>1. Remainder(t) \in Token
    <3>1. CASE t.pad >= MaxLen
      BY <1>1, <1>3, <3>1, MessageAssumption DEF Token, Remainder, Fits, Length
    <3>2. CASE ~(t.pad >= MaxLen)
      BY <1>1, <1>3, <3>2, MessageAssumption DEF Token, Remainder, Fits, Length
    <3> QED BY <3>1, <3>2
  <2>2. After(buffer) = <<Remainder(t)>> \o Tail(buffer)
    BY <1>3 DEF After
  <2>3. ASSUME NEW x \in Token, NEW rest \in Seq(Token)
        PROVE  /\ <<x>> \o rest \in Seq(Token)
               /\ Len(<<x>> \o rest) = Len(rest) + 1
               /\ Head(<<x>> \o rest) = x
    OBVIOUS
  <2>4. /\ After(buffer) \in Seq(Token)
        /\ Len(After(buffer)) = Len(Tail(buffer)) + 1
        /\ Head(After(buffer)) = Remainder(t)
    BY <1>1, <2>1, <2>2, <2>3
  <2>5. Len(After(buffer)) = Len(buffer)
    BY <1>1, <2>4
  <2> QED BY <1>3, <2>4, <2>5
<1> QED BY <1>2, <1>3

(***************************************************************************)
(* parse_vote_message accepts exactly the records of two tokens that fit,  *)
(* the first alphanumeric and the second a candidate, and those of one     *)
(* token in which a candidate follows MaxLen alphanumerics.                *)
(***************************************************************************)
THEOREM AcceptedRecords ==
  ASSUME NEW buffer \in Seq(Token)
  PROVE  parse_vote_message(buffer) <=> TwoFields(buffer) \/ Glued(buffer)
<1>1. CASE buffer = <<>>
  BY <1>1 DEF parse_vote_message, ConvertsTwo, TwoFields, Glued
<1> SUFFICES ASSUME buffer # <<>>
             PROVE  parse_vote_message(buffer) <=> TwoFields(buffer) \/ Glued(buffer)
  BY <1>1
<1> DEFINE t == Head(buffer)
           r == After(buffer)
           u == Head(r)
<1>2. /\ t = buffer[1] /\ t \in Token
      /\ Len(buffer) \in Nat \ {0}
  OBVIOUS
<1>3. r \in Seq(Token) /\ Len(r) \in Nat
  BY AfterType
<1>4. r # <<>> => u = r[1] /\ u \in Token
  BY <1>3
<1>5. t.pad \in Nat /\ t.name \in Candidates \cup {NoName} /\ t.clean \in BOOLEAN
  BY <1>2 DEF Token
<1>6. r # <<>> =>
        /\ u.pad \in Nat /\ u.name \in Candidates \cup {NoName}
        /\ u.clean \in BOOLEAN
  BY <1>4 DEF Token
<1>7. ConvertsTwo(buffer) <=> Len(r) = 1 /\ Fits(u)
  <2>1. CASE r = <<>>
    BY <2>1 DEF ConvertsTwo
  <2>2. CASE r # <<>> /\ Fits(u)
    <3>1. After(r) \in Seq(Token) /\ Len(After(r)) = Len(r) - 1
      BY <1>3, <2>2, AfterType
    <3> QED BY <1>3, <2>2, <3>1 DEF ConvertsTwo
  <2>3. CASE r # <<>> /\ ~Fits(u)
    <3>1. After(r) \in Seq(Token) /\ Len(After(r)) = Len(r)
      BY <1>3, <2>3, AfterType
    <3> QED BY <1>3, <2>3, <3>1 DEF ConvertsTwo
  <2> QED BY <2>1, <2>2, <2>3
<1>8. ConvertsTwo(buffer) /\ is_valid_candidate(Candidate(buffer))
        <=> Len(r) = 1 /\ u.pad = 0 /\ u.name # NoName
  <2>1. r # <<>> => (Fits(u) /\ is_valid_candidate(Read(u))
                       <=> u.pad = 0 /\ u.name # NoName)
    BY <1>6, MessageAssumption DEF is_valid_candidate, Read, Fits, Length
  <2>2. Len(r) = 1 => r # <<>>
    BY <1>3
  <2> QED BY <1>7, <2>1, <2>2, MessageAssumption
          DEF Candidate, Field, is_valid_candidate
<1>9. CASE Fits(t)
  <2>1. r = Tail(buffer) /\ Len(r) = Len(buffer) - 1
    BY <1>9, AfterType DEF After
  <2>2. Len(r) = 1 => u = buffer[2] /\ u \in Token
    BY <1>2, <1>4, <2>1
  <2>3. is_valid_voter_id(VoterId(buffer)) <=> Length(t) >= 1 /\ t.clean
    BY <1>5, <1>9, MessageAssumption
       DEF is_valid_voter_id, VoterId, Field, Read, Fits, Length
  <2>4. Length(t) >= 1
    BY <1>2, MessageAssumption DEF Token, Length
  <2>5. ~Glued(buffer)
    BY <1>2, <1>5, <1>9, MessageAssumption DEF Glued, Fits, Length
  <2>6. Len(r) = 1 /\ u.pad = 0 => u.name # NoName
    BY <2>2 DEF Token
  <2> QED BY <1>2, <1>8, <1>9, <2>1, <2>2, <2>3, <2>4, <2>5, <2>6
          DEF parse_vote_message, TwoFields
<1>10. CASE ~Fits(t)
  <2>1. Len(r) = Len(buffer) /\ u = Remainder(t)
    BY <1>10, AfterType
  <2>2. is_valid_voter_id(VoterId(buffer)) <=> t.clean
    BY <1>5, <1>10, MessageAssumption
       DEF is_valid_voter_id, VoterId, Field, Read, Length
  <2>3. u.pad = 0 /\ u.name # NoName <=> t.pad = MaxLen /\ t.name # NoName
    BY <1>5, <1>10, <2>1, MessageAssumption DEF Remainder, Fits, Length
  <2>4. ~TwoFields(buffer)
    BY <1>2, <1>10 DEF TwoFields
  <2> QED BY <1>2, <1>8, <2>1, <2>2, <2>3, <2>4
          DEF parse_vote_message, Glued
<1> QED BY <1>9, <1>10

-----------------------------------------------------------------------------
(* The parts of the invariant.                                             *)

(* The statements in their order, from the first at which a thing is true. *)
AfterHandshake == Usable \cup {"malloc"}
AfterPin == AfterHandshake \cup {"handshake"}
AfterTrust == AfterPin \cup {"ssl", "pin"}
AfterRestore == AfterTrust \cup {"ssl_ctx", "bio", "x509", "store"}
AfterParse == AfterRestore \cup {"nonblock", "connect", "select", "so_error",
                                 "restore"}
Exiting == {"failing", "closing"}

(* What the client has at each statement that is not on a way out.         *)
Kept ==
  CASE at \in {"socket", "failed", "closed"} -> {}
    [] at \in {"inet_pton", "nonblock", "connect", "select", "so_error",
               "restore", "ssl_ctx"} -> {"socket"}
    [] at \in {"bio", "ssl"} -> {"socket", "ssl_ctx"}
    [] at = "x509" -> {"socket", "ssl_ctx", "bio"}
    [] at = "store" -> {"socket", "ssl_ctx", "bio", "x509"}
    [] at \in {"pin", "handshake", "malloc"} -> {"socket", "ssl_ctx", "ssl"}
    [] at \in Usable -> {"socket", "ssl_ctx", "ssl", "conn"}
    [] OTHER -> {}

Holds(rs) == held = [r \in Resource |-> IF r \in rs THEN 1 ELSE 0]

Calls == Resource \cup {"SSL_shutdown"}
Listed(s) == {s[i] : i \in DOMAIN s}
Distinct(s) == \A i, j \in DOMAIN s : s[i] = s[j] => i = j

(* A shutdown in s comes before the close of the socket.                   *)
ShutdownFirst(s) ==
  \A i \in DOMAIN s : s[i] = "SSL_shutdown" =>
    \E j \in DOMAIN s : j > i /\ s[j] = "socket"

(* On the way out what is held is what is still to be released.            *)
HeldInv ==
  /\ pending \in Seq(Calls)
  /\ at \notin Exiting => Holds(Kept)
  /\ at \in Exiting => Distinct(pending) /\ Holds(Listed(pending) \cap Resource)
  /\ at \in Exiting /\ ~noMemory => ShutdownFirst(pending)
  /\ misuse => noMemory

SecureInv ==
  /\ at \in AfterParse => address
  /\ at \in AfterRestore => blocking
  /\ at \in AfterTrust => verify /\ trusted = embedded
  /\ at \in AfterPin => pinned
  /\ at \in AfterHandshake => cert.ca = embedded /\ cert.forAddress

VoteInv ==
  /\ typed \in Typed
  /\ candidate \in Candidates
  /\ message # <<>> =>
       message = typed \o <<[pad |-> 0, name |-> candidate, clean |-> TRUE]>>

PlainType ==
  /\ at \in {"socket", "inet_pton", "nonblock", "connect", "select",
             "so_error", "restore", "ssl_ctx", "bio", "x509", "store", "ssl",
             "pin", "handshake", "malloc", "connected", "sent", "answered",
             "failing", "failed", "closing", "closed"}
  /\ blocking \in BOOLEAN /\ verify \in BOOLEAN /\ pinned \in BOOLEAN
  /\ trusted \in CAs \cup {None}
  /\ embedded \in CAs \cup {None}
  /\ noMemory \in BOOLEAN /\ misuse \in BOOLEAN

Inv == PlainType /\ HeldInv /\ SecureInv /\ VoteInv

-----------------------------------------------------------------------------
(* The ways out.                                                           *)

(* Every list of calls an early return or close_ssl_connection makes.      *)
Lists ==
  {<<>>, <<"socket">>, <<"ssl_ctx", "socket">>, <<"socket", "ssl_ctx">>,
   <<"bio", "ssl_ctx", "socket">>, <<"x509", "bio", "ssl_ctx", "socket">>,
   <<"ssl", "socket", "ssl_ctx">>,
   <<"socket", "SSL_shutdown", "ssl", "ssl_ctx">>,
   <<"SSL_shutdown", "ssl", "ssl_ctx", "socket", "conn">>}

LEMMA ListsDistinct ==
  ASSUME NEW s \in Lists
  PROVE  /\ s \in Seq(Calls)
         /\ Distinct(s)
         /\ s # <<"socket", "SSL_shutdown", "ssl", "ssl_ctx">> => ShutdownFirst(s)
<1>1. s \in Seq(Calls)
  <2>1. /\ "socket" \in Calls /\ "ssl_ctx" \in Calls /\ "bio" \in Calls
        /\ "x509" \in Calls /\ "ssl" \in Calls /\ "conn" \in Calls
        /\ "SSL_shutdown" \in Calls
    BY DEF Calls, Resource
  <2> HIDE DEF Calls
  <2>2. /\ <<>> \in Seq(Calls)
        /\ <<"socket">> \in Seq(Calls)
        /\ <<"ssl_ctx", "socket">> \in Seq(Calls)
        /\ <<"socket", "ssl_ctx">> \in Seq(Calls)
    BY <2>1
  <2>3. /\ <<"bio", "ssl_ctx", "socket">> \in Seq(Calls)
        /\ <<"ssl", "socket", "ssl_ctx">> \in Seq(Calls)
    BY <2>1
  <2>4. <<"x509", "bio", "ssl_ctx", "socket">> \in Seq(Calls)
    BY <2>1
  <2>5. <<"socket", "SSL_shutdown", "ssl", "ssl_ctx">> \in Seq(Calls)
    BY <2>1
  <2>6. <<"SSL_shutdown", "ssl", "ssl_ctx", "socket", "conn">> \in Seq(Calls)
    BY <2>1
  <2> QED BY <2>2, <2>3, <2>4, <2>5, <2>6, Zenon DEF Lists
<1>2. Distinct(s)
  BY DEF Lists, Distinct
<1>3. ASSUME s # <<"socket", "SSL_shutdown", "ssl", "ssl_ctx">>
      PROVE  ShutdownFirst(s)
  <2>1. CASE s = <<"SSL_shutdown", "ssl", "ssl_ctx", "socket", "conn">>
    <3>1. 4 \in DOMAIN s /\ s[4] = "socket" /\ \A i \in DOMAIN s : s[i] = "SSL_shutdown" => i = 1
      BY <2>1
    <3> QED BY <3>1 DEF ShutdownFirst
  <2>2. CASE s # <<"SSL_shutdown", "ssl", "ssl_ctx", "socket", "conn">>
    <3>1. \A i \in DOMAIN s : s[i] # "SSL_shutdown"
      BY <1>3, <2>2 DEF Lists
    <3> QED BY <3>1 DEF ShutdownFirst
  <2> QED BY <2>1, <2>2
<1> QED BY <1>1, <1>2, <1>3

LEMMA ListedIn ==
  /\ Listed(<<>>) = {}
  /\ Listed(<<"socket">>) = {"socket"}
  /\ Listed(<<"ssl_ctx", "socket">>) = {"ssl_ctx", "socket"}
  /\ Listed(<<"socket", "ssl_ctx">>) = {"ssl_ctx", "socket"}
  /\ Listed(<<"bio", "ssl_ctx", "socket">>) = {"bio", "ssl_ctx", "socket"}
  /\ Listed(<<"x509", "bio", "ssl_ctx", "socket">>) = {"x509", "bio", "ssl_ctx", "socket"}
  /\ Listed(<<"ssl", "socket", "ssl_ctx">>) = {"ssl", "socket", "ssl_ctx"}
  /\ Listed(<<"socket", "SSL_shutdown", "ssl", "ssl_ctx">>) =
       {"socket", "SSL_shutdown", "ssl", "ssl_ctx"}
  /\ Listed(<<"SSL_shutdown", "ssl", "ssl_ctx", "socket", "conn">>) =
       {"SSL_shutdown", "ssl", "ssl_ctx", "socket", "conn"}
<1>1. \A a, b, c, d, e :
        /\ Listed(<<>>) = {}
        /\ Listed(<<a>>) = {a}
        /\ Listed(<<a, b>>) = {a, b}
        /\ Listed(<<a, b, c>>) = {a, b, c}
        /\ Listed(<<a, b, c, d>>) = {a, b, c, d}
        /\ Listed(<<a, b, c, d, e>>) = {a, b, c, d, e}
  BY DEF Listed
<1> QED BY <1>1

(* The rest of a list, after its first call is made.                       *)
LEMMA TailOfList ==
  ASSUME NEW s \in Seq(Calls), s # <<>>, Distinct(s)
  PROVE  /\ Tail(s) \in Seq(Calls)
         /\ Distinct(Tail(s))
         /\ Listed(Tail(s)) = Listed(s) \ {Head(s)}
         /\ Head(s) \in Listed(s)
         /\ ShutdownFirst(s) =>
              /\ ShutdownFirst(Tail(s))
              /\ Head(s) = "SSL_shutdown" => "socket" \in Listed(s)
<1>1. /\ Tail(s) \in Seq(Calls) /\ Len(s) \in Nat \ {0}
      /\ DOMAIN Tail(s) = 1..(Len(s) - 1) /\ DOMAIN s = 1..Len(s)
      /\ \A i \in 1..(Len(s) - 1) : Tail(s)[i] = s[i + 1]
      /\ Head(s) = s[1]
  OBVIOUS
<1>2. Distinct(Tail(s))
  BY <1>1 DEF Distinct
<1>3. Listed(Tail(s)) = Listed(s) \ {Head(s)}
  <2>1. ASSUME NEW x \in Listed(Tail(s)) PROVE x \in Listed(s) \ {Head(s)}
    <3>1. PICK i \in 1..(Len(s) - 1) : x = s[i + 1]
      BY <1>1 DEF Listed
    <3>2. i + 1 \in DOMAIN s /\ 1 \in DOMAIN s /\ i + 1 # 1
      BY <1>1
    <3> QED BY <1>1, <3>1, <3>2 DEF Listed, Distinct
  <2>2. ASSUME NEW x \in Listed(s) \ {Head(s)} PROVE x \in Listed(Tail(s))
    <3>1. PICK i \in DOMAIN s : x = s[i] /\ i # 1
      BY <1>1 DEF Listed
    <3>2. i - 1 \in DOMAIN Tail(s) /\ Tail(s)[i - 1] = x
      BY <1>1, <3>1
    <3> QED BY <3>2 DEF Listed
  <2> QED BY <2>1, <2>2
<1>4. Head(s) \in Listed(s)
  BY <1>1 DEF Listed
<1>5. ASSUME ShutdownFirst(s)
      PROVE  /\ ShutdownFirst(Tail(s))
             /\ Head(s) = "SSL_shutdown" => "socket" \in Listed(s)
  <2>1. ASSUME NEW i \in DOMAIN Tail(s), Tail(s)[i] = "SSL_shutdown"
        PROVE  \E j \in DOMAIN Tail(s) : j > i /\ Tail(s)[j] = "socket"
    <3>1. i + 1 \in DOMAIN s /\ s[i + 1] = "SSL_shutdown"
      BY <1>1, <2>1
    <3>2. PICK j \in DOMAIN s : j > i + 1 /\ s[j] = "socket"
      BY <1>5, <3>1 DEF ShutdownFirst
    <3>3. j - 1 \in DOMAIN Tail(s) /\ j - 1 > i /\ Tail(s)[j - 1] = "socket"
      BY <1>1, <2>1, <3>2
    <3> QED BY <3>3
  <2>2. Head(s) = "SSL_shutdown" => "socket" \in Listed(s)
    BY <1>1, <1>5 DEF ShutdownFirst, Listed
  <2> QED BY <2>1, <2>2 DEF ShutdownFirst
<1> QED BY <1>1, <1>2, <1>3, <1>4, <1>5

-----------------------------------------------------------------------------
(* Every step keeps the invariant.                                         *)

LEMMA InitInv == Init => Inv
<1> SUFFICES ASSUME Init PROVE Inv
  OBVIOUS
<1>1. PlainType
  BY DEF Init, PlainType
<1>2. HeldInv
  <2>1. Kept = {}
    BY DEF Init, Kept, Usable
  <2>2. Holds(Kept)
    BY <2>1 DEF Init, Holds, NothingHeld
  <2> QED BY <2>2 DEF Init, HeldInv, Exiting
<1>3. SecureInv
  BY DEF Init, SecureInv, AfterParse, AfterRestore, AfterTrust, AfterPin,
         AfterHandshake, Usable
<1>4. VoteInv
  BY DEF Init, VoteInv
<1> QED BY <1>1, <1>2, <1>3, <1>4 DEF Inv

(* A failed call: what it lists is what was held.                          *)
LEMMA GiveUpHeld ==
  ASSUME NEW calls \in Lists, GiveUp(calls), HeldInv, at \notin Exiting,
         held' = held, misuse' = misuse, noMemory \in BOOLEAN,
         noMemory => noMemory', noMemory' \in BOOLEAN,
         calls = <<"socket", "SSL_shutdown", "ssl", "ssl_ctx">> => noMemory',
         Kept = Listed(calls) \cap Resource
  PROVE  HeldInv'
<1>1. at' = "failing" /\ pending' = calls
  BY DEF GiveUp
<1>2. /\ calls \in Seq(Calls)
      /\ Distinct(calls)
      /\ ~noMemory' => ShutdownFirst(calls)
  BY ListsDistinct
<1>3. held' = [r \in Resource |-> IF r \in Listed(calls) \cap Resource THEN 1 ELSE 0]
  BY DEF HeldInv, Holds
<1>4. at' \in Exiting
  BY <1>1 DEF Exiting
<1>5. Distinct(pending') /\ (Holds(Listed(pending) \cap Resource))'
  BY <1>1, <1>2, <1>3 DEF Holds
<1>6. ~noMemory' => ShutdownFirst(pending')
  BY <1>1, <1>2
<1>7. pending' \in Seq(Calls)
  BY <1>1, <1>2
<1>8. (Distinct(pending))' /\ (~noMemory => ShutdownFirst(pending))'
  BY <1>5, <1>6 DEF Distinct, ShutdownFirst
<1> QED BY <1>4, <1>5, <1>7, <1>8 DEF HeldInv

(* A step that stays off the ways out holds what its new statement keeps.  *)
LEMMA StayHeld ==
  ASSUME HeldInv, at' \notin Exiting, pending' = pending, misuse' = misuse,
         noMemory' = noMemory, (Holds(Kept))'
  PROVE  HeldInv'
BY DEF HeldInv, Exiting

(* Every failing call of connect_server_ssl gives up with a list for what  *)
(* it has at that statement.                                               *)
LEMMA ListFits ==
  ASSUME PlainType
  PROVE  /\ at = "socket" => Kept = Listed(<<>>) \cap Resource
         /\ at \in {"inet_pton", "nonblock", "connect", "select", "so_error",
                   "restore", "ssl_ctx"} => Kept = Listed(<<"socket">>) \cap Resource
         /\ at = "bio" => Kept = Listed(<<"ssl_ctx", "socket">>) \cap Resource
         /\ at = "x509" => Kept = Listed(<<"bio", "ssl_ctx", "socket">>) \cap Resource
         /\ at = "store" =>
              Kept = Listed(<<"x509", "bio", "ssl_ctx", "socket">>) \cap Resource
         /\ at = "ssl" => Kept = Listed(<<"socket", "ssl_ctx">>) \cap Resource
         /\ at \in {"pin", "handshake"} =>
              Kept = Listed(<<"ssl", "socket", "ssl_ctx">>) \cap Resource
         /\ at = "malloc" =>
              Kept = Listed(<<"socket", "SSL_shutdown", "ssl", "ssl_ctx">>) \cap Resource
         /\ at = "answered" =>
              Kept = Listed(<<"SSL_shutdown", "ssl", "ssl_ctx", "socket", "conn">>)
                       \cap Resource
BY ListedIn, Zenon DEF Kept, Usable, Resource

LEMMA AcquiredHolds ==
  ASSUME NEW r \in Resource, NEW ks, r \notin ks, Holds(ks), Acquired(r)
  PROVE  held' = [x \in Resource |-> IF x \in ks \cup {r} THEN 1 ELSE 0]
BY DEF Holds, Acquired

(* What is kept at the next statement.                                     *)
LEMMA KeptNext ==
  /\ at' = "inet_pton" => Kept' = {"socket"}
  /\ at' \in {"nonblock", "connect", "select", "so_error", "restore", "ssl_ctx"}
       => Kept' = {"socket"}
  /\ at' \in {"bio", "ssl"} => Kept' = {"socket", "ssl_ctx"}
  /\ at' = "x509" => Kept' = {"socket", "ssl_ctx", "bio"}
  /\ at' = "store" => Kept' = {"socket", "ssl_ctx", "bio", "x509"}
  /\ at' \in {"pin", "handshake", "malloc"} => Kept' = {"socket", "ssl_ctx", "ssl"}
  /\ at' \in Usable => Kept' = {"socket", "ssl_ctx", "ssl", "conn"}
  /\ at' \in {"failed", "closed"} => Kept' = {}
BY Zenon DEF Kept, Usable

LEMMA KeptNow ==
  /\ at \in {"socket", "failed", "closed"} => Kept = {}
  /\ at \in {"inet_pton", "nonblock", "connect", "select", "so_error",
            "restore", "ssl_ctx"} => Kept = {"socket"}
  /\ at \in {"bio", "ssl"} => Kept = {"socket", "ssl_ctx"}
  /\ at = "x509" => Kept = {"socket", "ssl_ctx", "bio"}
  /\ at = "store" => Kept = {"socket", "ssl_ctx", "bio", "x509"}
  /\ at \in {"pin", "handshake", "malloc"} => Kept = {"socket", "ssl_ctx", "ssl"}
  /\ at \in Usable => Kept = {"socket", "ssl_ctx", "ssl", "conn"}
BY Zenon DEF Kept, Usable

(* A step that acquires nothing and gives up nothing.                      *)
LEMMA MoveHeld ==
  ASSUME HeldInv, at \notin Exiting, at' \notin Exiting, held' = held,
         pending' = pending, misuse' = misuse, noMemory' = noMemory,
         Kept' = Kept
  PROVE  HeldInv'
<1>1. (Holds(Kept))'
  BY DEF HeldInv, Holds
<1> QED BY <1>1, StayHeld

LEMMA TryForHeld ==
  ASSUME Inv, NEW r \in Resource, NEW here, NEW next, NEW calls \in Lists,
         TryFor(r, here, next, calls),
         at \notin Exiting, next \notin Exiting, r \notin Kept,
         calls # <<"socket", "SSL_shutdown", "ssl", "ssl_ctx">>,
         Kept = Listed(calls) \cap Resource,
         at' = next => Kept' = Kept \cup {r}
  PROVE  HeldInv'
<1>1. CASE at' = next /\ Acquired(r) /\ UNCHANGED pending
  <2>1. held' = [x \in Resource |-> IF x \in Kept \cup {r} THEN 1 ELSE 0]
    BY <1>1, AcquiredHolds DEF Inv, HeldInv
  <2>2. (Holds(Kept))'
    BY <1>1, <2>1 DEF Holds
  <2> QED BY <1>1, <2>2, StayHeld DEF TryFor, Ghosts, Inv
<1>2. CASE GiveUp(calls) /\ UNCHANGED held
  BY <1>2, GiveUpHeld DEF TryFor, Ghosts, Inv, PlainType
<1> QED BY <1>1, <1>2 DEF TryFor

LEMMA StepHeld == ASSUME Inv, [Next]_vars PROVE HeldInv'
<1> USE DEF Exiting
<1>1. CASE UNCHANGED vars
  <2>1. Kept' = Kept
    BY <1>1 DEF vars, Kept
  <2> QED BY <1>1, <2>1 DEF vars, client, Inv, HeldInv, Holds, Distinct, Listed, ShutdownFirst
<1>2. CASE NewSocket
  <2> DEFINE calls == <<>>
  <2>1. TryFor("socket", "socket", "inet_pton", calls)
    BY <1>2 DEF NewSocket
  <2>2. at = "socket"
    BY <2>1 DEF TryFor
  <2>3. "socket" \in Resource /\ calls \in Lists
    BY DEF Resource, Lists
  <2>4. "socket" \notin Kept /\ Kept = Listed(calls) \cap Resource
    BY <2>2, KeptNow, ListFits DEF Inv
  <2>5. at' = "inet_pton" => Kept' = Kept \cup {"socket"}
    BY <2>2, KeptNow, KeptNext
  <2>6. calls # <<"socket", "SSL_shutdown", "ssl", "ssl_ctx">>
    OBVIOUS
  <2>7. at \notin Exiting /\ "inet_pton" \notin Exiting
    BY <2>2
  <2> HIDE DEF calls
  <2> QED BY <2>1, <2>3, <2>4, <2>5, <2>6, <2>7, TryForHeld
<1>3. CASE ParseAddress
  <2>1. CASE address /\ at' = "nonblock" /\ UNCHANGED pending
    BY <1>3, <2>1, MoveHeld, KeptNow, KeptNext DEF ParseAddress, Ghosts, Inv
  <2>2. CASE GiveUp(<<"socket">>)
    BY <1>3, <2>2, GiveUpHeld, ListFits DEF ParseAddress, Ghosts, Inv, PlainType, Lists
  <2> QED BY <1>3, <2>1, <2>2 DEF ParseAddress
<1>4. CASE SetNonBlocking
  <2>1. CASE at' = "connect" /\ UNCHANGED pending
    BY <1>4, <2>1, MoveHeld, KeptNow, KeptNext DEF SetNonBlocking, Ghosts, Inv
  <2>2. CASE GiveUp(<<"socket">>)
    BY <1>4, <2>2, GiveUpHeld, ListFits DEF SetNonBlocking, Ghosts, Inv, PlainType, Lists
  <2> QED BY <1>4, <2>1, <2>2 DEF SetNonBlocking
<1>5. CASE Connect
  <2>1. CASE at' \in {"restore", "select"} /\ UNCHANGED pending
    BY <1>5, <2>1, MoveHeld, KeptNow, KeptNext DEF Connect, Ghosts, Inv
  <2>2. CASE GiveUp(<<"socket">>)
    BY <1>5, <2>2, GiveUpHeld, ListFits DEF Connect, Ghosts, Inv, PlainType, Lists
  <2> QED BY <1>5, <2>1, <2>2 DEF Connect
<1>6. CASE Writable
  BY <1>6, MoveHeld, KeptNow, KeptNext DEF Writable, client, Inv
<1>7. CASE SelectTimesOut
  BY <1>7, GiveUpHeld, ListFits DEF SelectTimesOut, Ghosts, Inv, PlainType, Lists
<1>8. CASE CheckSocketError
  <2>1. CASE at' = "restore" /\ UNCHANGED pending
    BY <1>8, <2>1, MoveHeld, KeptNow, KeptNext DEF CheckSocketError, Ghosts, Inv
  <2>2. CASE GiveUp(<<"socket">>)
    BY <1>8, <2>2, GiveUpHeld, ListFits DEF CheckSocketError, Ghosts, Inv, PlainType, Lists
  <2> QED BY <1>8, <2>1, <2>2 DEF CheckSocketError
<1>9. CASE RestoreBlocking
  <2>1. CASE at' = "ssl_ctx" /\ UNCHANGED pending
    BY <1>9, <2>1, MoveHeld, KeptNow, KeptNext DEF RestoreBlocking, Ghosts, Inv
  <2>2. CASE GiveUp(<<"socket">>)
    BY <1>9, <2>2, GiveUpHeld, ListFits DEF RestoreBlocking, Ghosts, Inv, PlainType, Lists
  <2> QED BY <1>9, <2>1, <2>2 DEF RestoreBlocking
<1>10. CASE NewContext
  BY <1>10, TryForHeld, KeptNow, KeptNext, ListFits
     DEF NewContext, TryFor, Inv, Lists, Resource
<1>11. CASE OpenEmbeddedCa
  <2> DEFINE calls == <<"ssl_ctx", "socket">>
  <2>1. TryFor("bio", "bio", "x509", calls)
    BY <1>11 DEF OpenEmbeddedCa, TryFor
  <2>2. at = "bio"
    BY <2>1 DEF TryFor
  <2>3. "bio" \in Resource /\ calls \in Lists
    BY DEF Resource, Lists
  <2>4. "bio" \notin Kept /\ Kept = Listed(calls) \cap Resource
    BY <2>2, KeptNow, ListFits DEF Inv
  <2>5. at' = "x509" => Kept' = Kept \cup {"bio"}
    BY <2>2, KeptNow, KeptNext
  <2>6. calls # <<"socket", "SSL_shutdown", "ssl", "ssl_ctx">>
    OBVIOUS
  <2>7. at \notin Exiting /\ "x509" \notin Exiting
    BY <2>2
  <2> HIDE DEF calls
  <2> QED BY <2>1, <2>3, <2>4, <2>5, <2>6, <2>7, TryForHeld
<1>12. CASE ReadEmbeddedCa
  <2> DEFINE calls == <<"bio", "ssl_ctx", "socket">>
  <2>1. TryFor("x509", "x509", "store", calls)
    BY <1>12 DEF ReadEmbeddedCa
  <2>2. at = "x509"
    BY <2>1 DEF TryFor
  <2>3. "x509" \in Resource /\ calls \in Lists
    BY DEF Resource, Lists
  <2>4. "x509" \notin Kept /\ Kept = Listed(calls) \cap Resource
    BY <2>2, KeptNow, ListFits DEF Inv
  <2>5. at' = "store" => Kept' = Kept \cup {"x509"}
    BY <2>2, KeptNow, KeptNext
  <2>6. calls # <<"socket", "SSL_shutdown", "ssl", "ssl_ctx">>
    OBVIOUS
  <2>7. at \notin Exiting /\ "store" \notin Exiting
    BY <2>2
  <2> HIDE DEF calls
  <2> QED BY <2>1, <2>3, <2>4, <2>5, <2>6, <2>7, TryForHeld
<1>13. CASE TrustEmbeddedCa
  <2>1. CASE /\ at' = "ssl" /\ UNCHANGED pending
             /\ held' = [held EXCEPT !["x509"] = @ - 1, !["bio"] = @ - 1]
    <3>1. Kept = {"socket", "ssl_ctx", "bio", "x509"} /\ Kept' = {"socket", "ssl_ctx"}
      BY <1>13, <2>1, KeptNow, KeptNext DEF TrustEmbeddedCa
    <3>2. Holds(Kept)
      BY <1>13 DEF TrustEmbeddedCa, Inv, HeldInv
    <3>3. held' = [r \in Resource |-> IF r \in {"socket", "ssl_ctx"} THEN 1 ELSE 0]
      <4>1. "x509" \in Resource /\ "bio" \in Resource
        BY DEF Resource
      <4>2. held = [r \in Resource |-> IF r \in Kept THEN 1 ELSE 0]
        BY <3>2 DEF Holds
      <4>3. held' = [r \in Resource |-> IF r \in {"x509", "bio"} THEN held[r] - 1
                                       ELSE held[r]]
        BY <2>1, <4>1, <4>2
      <4>4. \A r \in Resource : held'[r] = IF r \in {"socket", "ssl_ctx"} THEN 1 ELSE 0
        BY <3>1, <4>2, <4>3
      <4> QED BY <4>3, <4>4
    <3>4. (Holds(Kept))'
      BY <3>1, <3>3 DEF Holds
    <3> QED BY <1>13, <2>1, <3>4, StayHeld DEF TrustEmbeddedCa, Ghosts, Inv
  <2>2. CASE GiveUp(<<"x509", "bio", "ssl_ctx", "socket">>) /\ UNCHANGED held
    BY <1>13, <2>2, GiveUpHeld, ListFits DEF TrustEmbeddedCa, Ghosts, Inv, PlainType, Lists
  <2> QED BY <1>13, <2>1, <2>2 DEF TrustEmbeddedCa
<1>14. CASE NewSsl
  <2> DEFINE calls == <<"socket", "ssl_ctx">>
  <2>1. TryFor("ssl", "ssl", "pin", calls)
    BY <1>14 DEF NewSsl
  <2>2. at = "ssl"
    BY <2>1 DEF TryFor
  <2>3. "ssl" \in Resource /\ calls \in Lists
    BY DEF Resource, Lists
  <2>4. "ssl" \notin Kept /\ Kept = Listed(calls) \cap Resource
    BY <2>2, KeptNow, ListFits DEF Inv
  <2>5. at' = "pin" => Kept' = Kept \cup {"ssl"}
    BY <2>2, KeptNow, KeptNext
  <2>6. calls # <<"socket", "SSL_shutdown", "ssl", "ssl_ctx">>
    OBVIOUS
  <2>7. at \notin Exiting /\ "pin" \notin Exiting
    BY <2>2
  <2> HIDE DEF calls
  <2> QED BY <2>1, <2>3, <2>4, <2>5, <2>6, <2>7, TryForHeld
<1>15. CASE PinAddress
  <2>1. CASE at' = "handshake" /\ UNCHANGED pending
    BY <1>15, <2>1, MoveHeld, KeptNow, KeptNext DEF PinAddress, Ghosts, Inv
  <2>2. CASE GiveUp(<<"ssl", "socket", "ssl_ctx">>)
    BY <1>15, <2>2, GiveUpHeld, ListFits DEF PinAddress, Ghosts, Inv, PlainType, Lists
  <2> QED BY <1>15, <2>1, <2>2 DEF PinAddress
<1>16. CASE HandshakeSucceeds
  BY <1>16, MoveHeld, KeptNow, KeptNext DEF HandshakeSucceeds, client, Inv
<1>17. CASE HandshakeFails
  BY <1>17, GiveUpHeld, ListFits DEF HandshakeFails, Ghosts, Inv, PlainType, Lists
<1>18. CASE NewConnection
  <2>1. Kept = {"socket", "ssl_ctx", "ssl"} /\ Kept' = {"socket", "ssl_ctx", "ssl", "conn"}
    BY <1>18, KeptNow, KeptNext DEF NewConnection, Usable
  <2>2. held' = [x \in Resource |-> IF x \in Kept \cup {"conn"} THEN 1 ELSE 0]
    BY <1>18, <2>1, AcquiredHolds DEF NewConnection, Inv, HeldInv, Resource
  <2>3. (Holds(Kept))'
    BY <2>1, <2>2 DEF Holds
  <2> QED BY <1>18, <2>3, StayHeld DEF NewConnection, Ghosts, Inv
<1>19. CASE OutOfMemory
  BY <1>19, GiveUpHeld, ListFits DEF OutOfMemory, Inv, PlainType, Lists
<1>20. CASE SendVote
  BY <1>20, MoveHeld, KeptNow, KeptNext DEF SendVote, client, Inv, Usable
<1>21. CASE CloseConnection
  <2> DEFINE calls == <<"SSL_shutdown", "ssl", "ssl_ctx", "socket", "conn">>
  <2>1. calls \in Seq(Calls) /\ Distinct(calls) /\ ShutdownFirst(calls)
    <3>1. calls \in Lists /\ calls # <<"socket", "SSL_shutdown", "ssl", "ssl_ctx">>
      BY DEF Lists
    <3> QED BY <3>1, ListsDistinct
  <2>2. Holds(Listed(calls) \cap Resource)
    BY <1>21, ListFits DEF CloseConnection, Inv, HeldInv
  <2>3. /\ at' = "closing" /\ pending' = calls /\ held' = held
        /\ noMemory' = noMemory /\ misuse' = misuse
    BY <1>21 DEF CloseConnection, Ghosts
  <2> HIDE DEF calls
  <2>4. (Holds(Listed(pending) \cap Resource))'
    BY <2>2, <2>3 DEF Holds, Listed
  <2>5. (Distinct(pending) /\ ShutdownFirst(pending))'
    BY <2>1, <2>3 DEF Distinct, ShutdownFirst
  <2> QED BY <2>1, <2>3, <2>4, <2>5 DEF Inv, HeldInv
<1>22. CASE ReleaseNext
  <2> DEFINE call == Head(pending)
  <2>1. /\ pending \in Seq(Calls) /\ pending # <<>> /\ Distinct(pending)
        /\ Holds(Listed(pending) \cap Resource)
        /\ at' = at /\ pending' = Tail(pending) /\ noMemory' = noMemory
    BY <1>22 DEF ReleaseNext, Inv, HeldInv
  <2>2. /\ pending' \in Seq(Calls)
        /\ Distinct(Tail(pending))
        /\ Listed(Tail(pending)) = Listed(pending) \ {call}
        /\ call \in Listed(pending)
        /\ ShutdownFirst(pending) =>
             /\ ShutdownFirst(Tail(pending))
             /\ call = "SSL_shutdown" => "socket" \in Listed(pending)
    BY <2>1, TailOfList
  <2>3. (Distinct(pending))' /\ (ShutdownFirst(pending) => (ShutdownFirst(pending))')
    BY <2>1, <2>2 DEF Distinct, ShutdownFirst
  <2>4. call \in Calls
    BY <2>1
  <2>5. (Holds(Listed(pending) \cap Resource))'
    <3>1. (Listed(pending))' = Listed(pending) \ {call}
      BY <2>1, <2>2 DEF Listed
    <3>2. CASE call = "SSL_shutdown"
      <4>1. held' = held /\ "SSL_shutdown" \notin Resource
        BY <1>22, <3>2 DEF ReleaseNext, Resource
      <4> QED BY <2>1, <3>1, <3>2, <4>1 DEF Holds
    <3>3. CASE call # "SSL_shutdown"
      <4>1. call \in Resource /\ held' = [held EXCEPT ![call] = @ - 1]
        BY <1>22, <2>4, <3>3 DEF ReleaseNext, Calls
      <4>2. held = [r \in Resource |-> IF r \in Listed(pending) THEN 1 ELSE 0]
        BY <2>1 DEF Holds
      <4>3. \A r \in Resource :
              held'[r] = IF r \in Listed(pending) \ {call} THEN 1 ELSE 0
        BY <2>2, <4>1, <4>2
      <4>4. held' = [r \in Resource |-> held'[r]]
        BY <4>1, <4>2
      <4>5. held' = [r \in Resource |->
                       IF r \in (Listed(pending))' \cap Resource THEN 1 ELSE 0]
        BY <3>1, <4>3, <4>4
      <4> QED BY <4>5 DEF Holds
    <3> QED BY <3>2, <3>3
  <2>6. (misuse => noMemory)'
    <3>1. CASE call = "SSL_shutdown" /\ ~noMemory
      <4>1. "socket" \in Listed(pending) \cap Resource
        BY <1>22, <2>2, <3>1 DEF ReleaseNext, Inv, HeldInv, Resource
      <4>2. held["socket"] = 1
        BY <2>1, <4>1 DEF Holds
      <4> QED BY <1>22, <3>1, <4>2 DEF ReleaseNext, Inv, HeldInv
    <3>2. CASE call # "SSL_shutdown"
      BY <1>22, <3>2 DEF ReleaseNext, Inv, HeldInv
    <3>3. CASE noMemory
      BY <2>1, <3>3
    <3> QED BY <3>1, <3>2, <3>3
  <2>7. at' \in Exiting /\ (~noMemory' => ShutdownFirst(pending))
    BY <1>22, <2>1 DEF ReleaseNext, Inv, HeldInv
  <2> QED BY <2>2, <2>3, <2>5, <2>6, <2>7 DEF HeldInv
<1>23. CASE Return
  <2>1. /\ at \in Exiting /\ at' \in {"failed", "closed"} /\ pending = <<>>
        /\ UNCHANGED <<held, pending, noMemory, misuse>>
    BY <1>23 DEF Return, client
  <2>2. Listed(pending) = {}
    BY <2>1 DEF Listed
  <2>3. Kept' = {}
    BY <2>1, KeptNext
  <2>4. (Holds(Kept))'
    BY <2>1, <2>2, <2>3 DEF Inv, HeldInv, Holds
  <2> QED BY <2>1, <2>4 DEF Inv, HeldInv
<1>24. CASE ReceiveAnswer
  BY <1>24, MoveHeld, KeptNow, KeptNext DEF ReceiveAnswer, client, Inv, Usable
<1>25. CASE PeerGoes
  <2>1. Kept' = Kept
    BY <1>25 DEF PeerGoes, Kept
  <2> QED BY <1>25, <2>1 DEF PeerGoes, client, Inv, HeldInv, Holds, Distinct, Listed, ShutdownFirst
<1> QED BY <1>1, <1>2, <1>3, <1>4, <1>5, <1>6, <1>7, <1>8, <1>9, <1>10, <1>11,
           <1>12, <1>13, <1>14, <1>15, <1>16, <1>17, <1>18, <1>19, <1>20,
           <1>21, <1>22, <1>23, <1>24, <1>25
        DEF Next, Client, Tcp, Tls

LEMMA StepType == ASSUME Inv, [Next]_vars PROVE PlainType'
<1> USE DEF Inv, PlainType, GiveUp, Ghosts, Modes, client, world
<1>1. CASE UNCHANGED vars
  BY <1>1 DEF vars, client, vote, world
<1>2. CASE NewSocket
  BY <1>2 DEF NewSocket, TryFor
<1>3. CASE ParseAddress
  BY <1>3 DEF ParseAddress
<1>4. CASE SetNonBlocking
  BY <1>4 DEF SetNonBlocking
<1>5. CASE Connect
  BY <1>5 DEF Connect
<1>6. CASE Writable
  BY <1>6 DEF Writable
<1>7. CASE SelectTimesOut
  BY <1>7 DEF SelectTimesOut
<1>8. CASE CheckSocketError
  BY <1>8 DEF CheckSocketError
<1>9. CASE RestoreBlocking
  BY <1>9 DEF RestoreBlocking
<1>10. CASE NewContext
  BY <1>10 DEF NewContext, TryFor
<1>11. CASE OpenEmbeddedCa
  BY <1>11 DEF OpenEmbeddedCa
<1>12. CASE ReadEmbeddedCa
  BY <1>12 DEF ReadEmbeddedCa, TryFor
<1>13. CASE TrustEmbeddedCa
  BY <1>13 DEF TrustEmbeddedCa
<1>14. CASE NewSsl
  BY <1>14 DEF NewSsl, TryFor
<1>15. CASE PinAddress
  BY <1>15 DEF PinAddress
<1>16. CASE HandshakeSucceeds
  BY <1>16 DEF HandshakeSucceeds
<1>17. CASE HandshakeFails
  BY <1>17 DEF HandshakeFails
<1>18. CASE NewConnection
  BY <1>18 DEF NewConnection
<1>19. CASE OutOfMemory
  BY <1>19 DEF OutOfMemory
<1>20. CASE SendVote
  BY <1>20 DEF SendVote
<1>21. CASE CloseConnection
  BY <1>21 DEF CloseConnection
<1>22. CASE ReleaseNext
  BY <1>22 DEF ReleaseNext
<1>23. CASE Return
  BY <1>23 DEF Return
<1>24. CASE ReceiveAnswer
  BY <1>24 DEF ReceiveAnswer
<1>25. CASE PeerGoes
  BY <1>25 DEF PeerGoes
<1> QED BY <1>1, <1>2, <1>3, <1>4, <1>5, <1>6, <1>7, <1>8, <1>9, <1>10,
           <1>11, <1>12, <1>13, <1>14, <1>15, <1>16, <1>17, <1>18, <1>19,
           <1>20, <1>21, <1>22, <1>23, <1>24, <1>25
        DEF Next, Client, Tcp, Tls

LEMMA StepSecure == ASSUME Inv, [Next]_vars PROVE SecureInv'
<1> USE DEF Inv, PlainType, SecureInv, GiveUp, Ghosts, Modes, client, world,
            Verified,
            AfterParse, AfterRestore, AfterTrust, AfterPin, AfterHandshake, Usable
<1>1. CASE UNCHANGED vars
  BY <1>1 DEF vars, client, vote, world
<1>2. CASE NewSocket
  BY <1>2 DEF NewSocket, TryFor
<1>3. CASE ParseAddress
  BY <1>3 DEF ParseAddress
<1>4. CASE SetNonBlocking
  BY <1>4 DEF SetNonBlocking
<1>5. CASE Connect
  BY <1>5 DEF Connect
<1>6. CASE Writable
  BY <1>6 DEF Writable
<1>7. CASE SelectTimesOut
  BY <1>7 DEF SelectTimesOut
<1>8. CASE CheckSocketError
  BY <1>8 DEF CheckSocketError
<1>9. CASE RestoreBlocking
  BY <1>9 DEF RestoreBlocking
<1>10. CASE NewContext
  BY <1>10 DEF NewContext, TryFor
<1>11. CASE OpenEmbeddedCa
  BY <1>11 DEF OpenEmbeddedCa
<1>12. CASE ReadEmbeddedCa
  BY <1>12 DEF ReadEmbeddedCa, TryFor
<1>13. CASE TrustEmbeddedCa
  BY <1>13 DEF TrustEmbeddedCa
<1>14. CASE NewSsl
  BY <1>14 DEF NewSsl, TryFor
<1>15. CASE PinAddress
  BY <1>15 DEF PinAddress
<1>16. CASE HandshakeSucceeds
  BY <1>16 DEF HandshakeSucceeds
<1>17. CASE HandshakeFails
  BY <1>17 DEF HandshakeFails
<1>18. CASE NewConnection
  BY <1>18 DEF NewConnection
<1>19. CASE OutOfMemory
  BY <1>19 DEF OutOfMemory
<1>20. CASE SendVote
  BY <1>20 DEF SendVote
<1>21. CASE CloseConnection
  BY <1>21 DEF CloseConnection
<1>22. CASE ReleaseNext
  BY <1>22 DEF ReleaseNext
<1>23. CASE Return
  BY <1>23 DEF Return
<1>24. CASE ReceiveAnswer
  BY <1>24 DEF ReceiveAnswer
<1>25. CASE PeerGoes
  BY <1>25 DEF PeerGoes
<1> QED BY <1>1, <1>2, <1>3, <1>4, <1>5, <1>6, <1>7, <1>8, <1>9, <1>10,
           <1>11, <1>12, <1>13, <1>14, <1>15, <1>16, <1>17, <1>18, <1>19,
           <1>20, <1>21, <1>22, <1>23, <1>24, <1>25
        DEF Next, Client, Tcp, Tls

LEMMA StepVote == ASSUME Inv, [Next]_vars PROVE VoteInv'
<1> USE DEF Inv, VoteInv, vote
<1>1. CASE UNCHANGED vars
  BY <1>1 DEF vars, client, vote, world
<1>2. CASE NewSocket
  BY <1>2 DEF NewSocket, TryFor
<1>3. CASE ParseAddress
  BY <1>3 DEF ParseAddress
<1>4. CASE SetNonBlocking
  BY <1>4 DEF SetNonBlocking
<1>5. CASE Connect
  BY <1>5 DEF Connect
<1>6. CASE Writable
  BY <1>6 DEF Writable
<1>7. CASE SelectTimesOut
  BY <1>7 DEF SelectTimesOut
<1>8. CASE CheckSocketError
  BY <1>8 DEF CheckSocketError
<1>9. CASE RestoreBlocking
  BY <1>9 DEF RestoreBlocking
<1>10. CASE NewContext
  BY <1>10 DEF NewContext, TryFor
<1>11. CASE OpenEmbeddedCa
  BY <1>11 DEF OpenEmbeddedCa
<1>12. CASE ReadEmbeddedCa
  BY <1>12 DEF ReadEmbeddedCa, TryFor
<1>13. CASE TrustEmbeddedCa
  BY <1>13 DEF TrustEmbeddedCa
<1>14. CASE NewSsl
  BY <1>14 DEF NewSsl, TryFor
<1>15. CASE PinAddress
  BY <1>15 DEF PinAddress
<1>16. CASE HandshakeSucceeds
  BY <1>16 DEF HandshakeSucceeds
<1>17. CASE HandshakeFails
  BY <1>17 DEF HandshakeFails
<1>18. CASE NewConnection
  BY <1>18 DEF NewConnection
<1>19. CASE OutOfMemory
  BY <1>19 DEF OutOfMemory
<1>20. CASE SendVote
  BY <1>20 DEF SendVote
<1>21. CASE CloseConnection
  BY <1>21 DEF CloseConnection
<1>22. CASE ReleaseNext
  BY <1>22 DEF ReleaseNext
<1>23. CASE Return
  BY <1>23 DEF Return
<1>24. CASE ReceiveAnswer
  BY <1>24 DEF ReceiveAnswer
<1>25. CASE PeerGoes
  BY <1>25 DEF PeerGoes
<1> QED BY <1>1, <1>2, <1>3, <1>4, <1>5, <1>6, <1>7, <1>8, <1>9, <1>10,
           <1>11, <1>12, <1>13, <1>14, <1>15, <1>16, <1>17, <1>18, <1>19,
           <1>20, <1>21, <1>22, <1>23, <1>24, <1>25
        DEF Next, Client, Tcp, Tls

(* The invariant holds at every call of the client, on every way out.      *)
THEOREM Invariant == Spec => []Inv
<1>1. Inv /\ [Next]_vars => Inv'
  BY StepType, StepHeld, StepSecure, StepVote DEF Inv
<1> QED BY InitInv, <1>1, PTL DEF Spec

-----------------------------------------------------------------------------
(* The properties.                                                         *)

(* Every variable keeps its type: no counter of a resource leaves 0..1.    *)
THEOREM TypeCorrect == Spec => []TypeOK
<1>1. Inv => TypeOK
  <2> SUFFICES ASSUME Inv PROVE TypeOK
    OBVIOUS
  <2>1. held \in [Resource -> 0..1]
    BY DEF Inv, HeldInv, Holds
  <2>2. pending \in Seq(Resource \cup {"SSL_shutdown"})
    BY DEF Inv, HeldInv, Calls
  <2> QED BY <2>1, <2>2 DEF Inv, PlainType, TypeOK
<1> QED BY Invariant, <1>1, PTL

(* At the end of every path, whichever calls failed, nothing is still held *)
(* and nothing was released twice; a connection holds each part once.      *)
THEOREM Released == Spec => []EndsReleaseEverything
<1>1. Inv => EndsReleaseEverything
  <2> SUFFICES ASSUME Inv PROVE EndsReleaseEverything
    OBVIOUS
  <2>1. ASSUME at \in {"failed", "closed"} PROVE held = NothingHeld
    <3>1. Kept = {}
      BY <2>1, KeptNow
    <3> QED BY <2>1, <3>1 DEF Inv, HeldInv, Holds, NothingHeld, Exiting
  <2>2. ASSUME at \in Usable, NEW r \in Resource
        PROVE  held[r] = IF r \in {"bio", "x509"} THEN 0 ELSE 1
    BY <2>2, KeptNow DEF Inv, HeldInv, Holds, Exiting, Usable, Resource
  <2> QED BY <2>1, <2>2 DEF EndsReleaseEverything
<1> QED BY Invariant, <1>1, PTL

(* TLS is shut down on an open socket on every path but that of a failed   *)
(* malloc.                                                                 *)
THEOREM ShutdownSound == Spec => []ShutdownOnOpenSocket
<1>1. Inv => ShutdownOnOpenSocket
  BY DEF Inv, HeldInv, ShutdownOnOpenSocket
<1> QED BY Invariant, <1>1, PTL

(* The client hands out, and votes over, only a connection to a server     *)
(* with a certificate of its embedded CA for the typed address.            *)
THEOREM Verification == Spec => []ConnectedIsVerified
<1>1. Inv => ConnectedIsVerified
  BY DEF Inv, SecureInv, ConnectedIsVerified, AfterParse, AfterRestore,
         AfterTrust, AfterPin, AfterHandshake
<1> QED BY Invariant, <1>1, PTL

(* Whatever is typed as an id, with blanks or a candidate's name in it,    *)
(* the server accepts the record only as a vote of that id for the choice. *)
THEOREM VoteUnchanged == Spec => []VoteIsWhatWasChosen
<1>1. Inv => VoteIsWhatWasChosen
  <2> SUFFICES ASSUME Inv, message # <<>>, parse_vote_message(message)
               PROVE  /\ typed = <<VoterId(message)>>
                      /\ Candidate(message).name = candidate
    BY DEF VoteIsWhatWasChosen
  <2> DEFINE last == [pad |-> 0, name |-> candidate, clean |-> TRUE]
  <2>1. /\ typed \in Seq(Token) /\ \A n \in DOMAIN typed : Fits(typed[n])
        /\ candidate \in Candidates
        /\ message = typed \o <<last>>
    BY TypedAssumption DEF Inv, VoteInv
  <2>2. last \in Token /\ Fits(last) /\ last.pad = 0 /\ last.name = candidate
    BY <2>1, MessageAssumption DEF Token, Fits, Length
  <2> HIDE DEF last
  <2>3. message \in Seq(Token) /\ Len(message) = Len(typed) + 1
    BY <2>1, <2>2
  <2>4. TwoFields(message) \/ Glued(message)
    BY <2>3, AcceptedRecords
  <2>5. ~Glued(message)
    <3>1. Len(message) = 1 => message[1] = last
      BY <2>1, <2>2, <2>3
    <3> QED BY <2>2, <3>1, MessageAssumption DEF Glued
  <2>6. Len(typed) = 1 /\ message[1] = typed[1] /\ message[2] = last
    BY <2>1, <2>2, <2>3, <2>4, <2>5 DEF TwoFields
  <2>7. typed = <<message[1]>> /\ Fits(message[1])
    BY <2>1, <2>6
  <2>8. ASSUME NEW s \in Seq(Token), Len(s) = 2
         PROVE  /\ Head(s) = s[1] /\ s # <<>>
                /\ Tail(s) \in Seq(Token) /\ Len(Tail(s)) = 1
                /\ Head(Tail(s)) = s[2]
    <3>1. s # <<>> /\ Head(s) = s[1] /\ Tail(s) \in Seq(Token) /\ Len(Tail(s)) = 1
      BY <2>8
    <3>2. \A t \in Seq(Token) : Len(t) = 1 => Head(t) = t[1]
      OBVIOUS
    <3>3. Tail(s)[1] = s[2]
      BY <2>8
    <3> QED BY <3>1, <3>2, <3>3
  <2>9. /\ Head(message) = message[1] /\ message # <<>>
        /\ Tail(message) \in Seq(Token) /\ Len(Tail(message)) = 1
        /\ Head(Tail(message)) = message[2]
    BY <2>3, <2>6, <2>8
  <2>10. After(message) = Tail(message)
    BY <2>7, <2>9 DEF After
  <2> QED BY <2>2, <2>6, <2>7, <2>9, <2>10
          DEF VoterId, Candidate, Field, Read
<1> QED BY Invariant, <1>1, PTL

-----------------------------------------------------------------------------
(***************************************************************************)
(* The client goes one way: no call is made twice, no path leads back, and *)
(* what remains when a call fails is its list.                             *)
(***************************************************************************)

(* What is left of the straight way from l, and a list of five calls.      *)
Way(l) ==
  CASE l = "socket"    -> 24
    [] l = "inet_pton" -> 23
    [] l = "nonblock"  -> 22
    [] l = "connect"   -> 21
    [] l = "select"    -> 20
    [] l = "so_error"  -> 19
    [] l = "restore"   -> 18
    [] l = "ssl_ctx"   -> 17
    [] l = "bio"       -> 16
    [] l = "x509"      -> 15
    [] l = "store"     -> 14
    [] l = "ssl"       -> 13
    [] l = "pin"       -> 12
    [] l = "handshake" -> 11
    [] l = "malloc"    -> 10
    [] l = "connected" -> 9
    [] l = "sent"      -> 8
    [] l = "answered"  -> 7
    [] OTHER           -> 0

(* The steps that are left at most.                                        *)
StepsLeft == IF at \in Exiting THEN 1 + Len(pending) ELSE Way(at)

Advances == StepsLeft' \in Nat /\ StepsLeft' < StepsLeft

(* A call that succeeds.                                                   *)
LEMMA GoesOn ==
  ASSUME at \notin Exiting, at' \notin Exiting,
         Way(at) \in Nat, Way(at') \in Nat, Way(at') < Way(at)
  PROVE  Advances
BY DEF Advances, StepsLeft

(* A call that fails, and the end of a session.                            *)
LEMMA GoesOut ==
  ASSUME at \notin Exiting, at' \in Exiting, Way(at) \in 7..24,
         pending' \in Lists
  PROVE  Advances
<1>1. Len(pending') \in 0..5
  BY DEF Lists
<1>2. StepsLeft = Way(at) /\ StepsLeft' = 1 + Len(pending')
  BY DEF StepsLeft
<1>3. ASSUME NEW x \in 7..24, NEW y \in 0..5
      PROVE  1 + y \in Nat /\ 1 + y < x
  OBVIOUS
<1>4. 1 + Len(pending') \in Nat /\ 1 + Len(pending') < Way(at)
  BY <1>1, <1>3
<1> QED BY <1>2, <1>4 DEF Advances

LEMMA StepTcpAdvances == ASSUME Inv, Tcp PROVE Advances
<1> USE GoesOn, GoesOut DEF Exiting, GiveUp, Lists, Way
<1>1. CASE NewSocket
  BY <1>1 DEF NewSocket, TryFor
<1>2. CASE ParseAddress
  BY <1>2 DEF ParseAddress
<1>3. CASE SetNonBlocking
  BY <1>3 DEF SetNonBlocking
<1>4. CASE Connect
  BY <1>4 DEF Connect
<1>5. CASE Writable
  BY <1>5 DEF Writable
<1>6. CASE SelectTimesOut
  BY <1>6 DEF SelectTimesOut
<1>7. CASE CheckSocketError
  BY <1>7 DEF CheckSocketError
<1>8. CASE RestoreBlocking
  BY <1>8 DEF RestoreBlocking
<1> QED BY <1>1, <1>2, <1>3, <1>4, <1>5, <1>6, <1>7, <1>8 DEF Tcp

LEMMA StepTlsAdvances == ASSUME Inv, Tls PROVE Advances
<1> USE GoesOn, GoesOut DEF Exiting, GiveUp, Lists, Way
<1>1. CASE NewContext
  BY <1>1 DEF NewContext, TryFor
<1>2. CASE OpenEmbeddedCa
  BY <1>2 DEF OpenEmbeddedCa
<1>3. CASE ReadEmbeddedCa
  BY <1>3 DEF ReadEmbeddedCa, TryFor
<1>4. CASE TrustEmbeddedCa
  BY <1>4 DEF TrustEmbeddedCa
<1>5. CASE NewSsl
  BY <1>5 DEF NewSsl, TryFor
<1>6. CASE PinAddress
  BY <1>6 DEF PinAddress
<1>7. CASE HandshakeSucceeds
  BY <1>7 DEF HandshakeSucceeds
<1>8. CASE HandshakeFails
  BY <1>8 DEF HandshakeFails
<1>9. CASE NewConnection
  BY <1>9 DEF NewConnection
<1>10. CASE OutOfMemory
  BY <1>10 DEF OutOfMemory
<1> QED BY <1>1, <1>2, <1>3, <1>4, <1>5, <1>6, <1>7, <1>8, <1>9, <1>10
        DEF Tls

LEMMA StepExitAdvances ==
  ASSUME Inv, SendVote \/ ReceiveAnswer \/ CloseConnection \/ ReleaseNext
              \/ Return
  PROVE  Advances
<1> USE DEF Exiting
<1>1. CASE SendVote \/ ReceiveAnswer
  BY <1>1, GoesOn DEF SendVote, ReceiveAnswer, Way
<1>2. CASE CloseConnection
  BY <1>2, GoesOut DEF CloseConnection, Way, Lists
<1>3. CASE ReleaseNext
  <2>1. pending \in Seq(Calls) /\ pending # <<>>
    BY <1>3 DEF ReleaseNext, Inv, HeldInv
  <2>2. Len(pending) \in Nat \ {0} /\ Len(Tail(pending)) = Len(pending) - 1
    BY <2>1
  <2>3. at' = at /\ at \in Exiting /\ pending' = Tail(pending)
    BY <1>3 DEF ReleaseNext
  <2>4. StepsLeft = 1 + Len(pending) /\ StepsLeft' = 1 + Len(Tail(pending))
    BY <2>3 DEF StepsLeft
  <2> QED BY <2>2, <2>4 DEF Advances
<1>4. CASE Return
  <2>1. at \in Exiting /\ at' \in {"failed", "closed"} /\ Len(pending) = 0
    BY <1>4 DEF Return
  <2>2. StepsLeft = 1 /\ StepsLeft' = 0
    BY <2>1 DEF StepsLeft, Way
  <2> QED BY <2>2 DEF Advances
<1> QED BY <1>1, <1>2, <1>3, <1>4

(***************************************************************************)
(* connect_server_ssl, send_vote and close_ssl_connection have no loop:    *)
(* every step of the client leaves it fewer, 24 in all, on every path, and *)
(* the peer's going changes nothing of it.  This is the part of            *)
(* ConnectReturns that needs no fairness (client_socket.c, ssl_wrapper.c). *)
(***************************************************************************)
THEOREM NoWayBack ==
  Spec => [][Advances \/ UNCHANGED <<at, pending>>]_vars
<1>1. ASSUME Inv, [Next]_vars
      PROVE  [Advances \/ UNCHANGED <<at, pending>>]_vars
  <2>1. PeerGoes => UNCHANGED <<at, pending>>
    BY DEF PeerGoes, client
  <2> QED BY <1>1, <2>1, StepTcpAdvances, StepTlsAdvances, StepExitAdvances
          DEF Next, Client
<1> QED BY <1>1, Invariant, PTL DEF Spec

=============================================================================
