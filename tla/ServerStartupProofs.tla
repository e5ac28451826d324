------------------------- MODULE ServerStartupProofs -------------------------
(***************************************************************************)
(* ServerStartup keeps its invariants, for any voters and any number of    *)
(* starts and of runs of the script.                                       *)
(***************************************************************************)
EXTENDS ServerStartup, FiniteSetTheorems, TLAPS

HasContext == {"certificate", "private_key", "check", "socket", "bind", "listen",
               "accept"}
HasSocket == {"bind", "listen", "accept"}
Outcomes == Failures \cup {"porta_8080"}

(* What the files and the context may hold.                                *)
FilesInv ==
  /\ runs \in 0..MaxScripts
  /\ script \in {"idle", "genrsa", "x509"}
  /\ script # "idle" => runs >= 1
  /\ key \in 1..MaxScripts \cup {None}
  /\ crt \in 1..MaxScripts \cup {None}
  /\ identity \in [crt : 1..MaxScripts \cup {None}, key : 1..MaxScripts \cup {None}]

(* The key is read after the certificate and compared with it before the   *)
(* server goes on.                                                         *)
IdentityInv ==
  /\ net \in {"private_key", "check"} \cup {"socket", "bind", "listen", "accept"}
       => identity.crt # None
  /\ net \in {"socket", "bind", "listen", "accept"} => identity.crt = identity.key
  /\ port = "listening" => net = "accept"

Kept == {r \in Resource : \/ r = "ssl_ctx" /\ net \in HasContext
                          \/ r = "server_socket" /\ net \in HasSocket}

HeldInv == held = [r \in Resource |-> IF r \in Kept THEN 1 ELSE 0]

(* Every statement passed without a failure did its work, now or before.   *)
SeedInv ==
  /\ seed \in 1..(Len(Seeds) + 1)
  /\ main \in {"open", "create_votos", "create_eleitores"} => seed = 1
  /\ ~skipped =>
       /\ main \in {"create_eleitores", "insert", "dashboard", "online"}
            => "votos" \in tables
       /\ main \in {"insert", "dashboard", "online"} => "eleitores" \in tables
       /\ main = "insert" => \A n \in 1..(seed - 1) : Seeds[n] \in eleitores
       /\ main \in {"dashboard", "online"} =>
            \A n \in 1..Len(Seeds) : Seeds[n] \in eleitores

LogInv ==
  /\ net # "none" => main = "online"
  /\ main \notin {"off", "online"} => log \cap Outcomes = {}
  /\ net \notin {"none", "ended", "accept"} => log \cap Outcomes = {}
  /\ net = "accept" => log \cap Outcomes = {"porta_8080"}
  /\ net = "ended" => \E f \in Failures : log \cap Outcomes = {f}

PlainType ==
  /\ main \in {"off", "open", "create_votos", "create_eleitores", "insert",
               "dashboard", "online"}
  /\ skipped \in BOOLEAN
  /\ tables \subseteq {"votos", "eleitores"}
  /\ eleitores \subseteq {Seeds[n] : n \in DOMAIN Seeds}
  /\ net \in InitSsl \cup {"none", "socket", "bind", "listen", "accept",
                           "ended"}
  /\ port \in {"free", "bound", "listening", "time_wait"}

Inv == PlainType /\ FilesInv /\ IdentityInv /\ HeldInv /\ SeedInv /\ LogInv

-----------------------------------------------------------------------------
(* Every step keeps the invariant.                                         *)

LEMMA InitInv == Init => Inv
<1> SUFFICES ASSUME Init PROVE Inv
  OBVIOUS
<1>1. PlainType
  BY SeedsAssumption DEF Init, PlainType, InitSsl
<1>2. FilesInv
  BY StartupAssumption DEF Init, FilesInv, NoIdentity
<1>3. IdentityInv
  BY DEF Init, IdentityInv
<1>4. HeldInv
  <2>1. Kept = {}
    BY DEF Init, Kept, HasContext, HasSocket
  <2> QED BY <2>1 DEF Init, HeldInv, NothingHeld
<1>5. SeedInv
  BY SeedsAssumption DEF Init, SeedInv
<1>6. LogInv
  BY DEF Init, LogInv
<1> QED BY <1>1, <1>2, <1>3, <1>4, <1>5, <1>6 DEF Inv

(* An early return that gives back what is held.                           *)
LEMMA GiveUpHeld ==
  ASSUME HeldInv, NEW rs, NEW line, GiveUp(rs, line), rs = Kept
  PROVE  HeldInv'
<1>1. Kept' = {} /\ Kept \subseteq Resource
  BY DEF GiveUp, Kept, HasContext, HasSocket
<1>2. held' = [r \in Resource |-> IF r \in rs THEN held[r] - 1 ELSE held[r]]
  BY DEF GiveUp, Release
<1>3. \A r \in Resource : held[r] = IF r \in rs THEN 1 ELSE 0
  BY DEF HeldInv
<1>4. held' = [r \in Resource |-> 0]
  BY <1>2, <1>3
<1> QED BY <1>1, <1>4 DEF HeldInv

(* A call that acquires what the next statement has in addition.           *)
LEMMA AcquireHeld ==
  ASSUME HeldInv, NEW r \in Resource, Acquire(r), r \notin Kept,
         Kept' = Kept \cup {r}
  PROVE  HeldInv'
BY DEF HeldInv, Acquire

(* Any other step.                                                         *)
LEMMA StayHeld ==
  ASSUME HeldInv, held' = held, Kept' = Kept
  PROVE  HeldInv'
BY DEF HeldInv

LEMMA KeptNow ==
  /\ net \in {"none", "ended", "ctx"} => Kept = {}
  /\ net \in {"certificate", "private_key", "check", "socket"}
       => Kept = {"ssl_ctx"}
  /\ net \in {"bind", "listen", "accept"} => Kept = {"server_socket", "ssl_ctx"}
BY DEF Kept, HasContext, HasSocket, Resource

LEMMA KeptNext ==
  /\ net' \in {"none", "ended", "ctx"} => Kept' = {}
  /\ net' \in {"certificate", "private_key", "check", "socket"}
       => Kept' = {"ssl_ctx"}
  /\ net' \in {"bind", "listen", "accept"} => Kept' = {"server_socket", "ssl_ctx"}
BY DEF Kept, HasContext, HasSocket, Resource

LEMMA StepType == ASSUME Inv, [Next]_vars PROVE PlainType'
<1> USE SeedsAssumption DEF Inv, PlainType, InitSsl, GiveUp, BeforeLoop, Server, database,
                            network, files
<1>1. CASE UNCHANGED vars
  BY <1>1 DEF vars, database, network, files
<1>2. CASE Start
  BY <1>2 DEF Start
<1>3. CASE OpenDatabase
  BY <1>3 DEF OpenDatabase
<1>4. CASE CreateVotos
  BY <1>4 DEF CreateVotos, CreateTable
<1>5. CASE CreateEleitores
  BY <1>5 DEF CreateEleitores, CreateTable
<1>6. CASE InsertSeed
  <2>1. seed \in DOMAIN Seeds
    BY <1>6, SeedsAssumption DEF InsertSeed, SeedInv
  <2> QED BY <1>6, <2>1 DEF InsertSeed
<1>7. CASE DatabaseReady
  BY <1>7 DEF DatabaseReady
<1>8. CASE StartDashboard
  BY <1>8 DEF StartDashboard
<1>9. CASE NewContext
  BY <1>9 DEF NewContext
<1>10. CASE LoadCertificate
  BY <1>10 DEF LoadCertificate
<1>11. CASE LoadPrivateKey
  BY <1>11 DEF LoadPrivateKey
<1>12. CASE CheckPrivateKey
  BY <1>12 DEF CheckPrivateKey
<1>13. CASE NewSocket
  BY <1>13 DEF NewSocket
<1>14. CASE Bind
  BY <1>14 DEF Bind
<1>15. CASE Listen
  BY <1>15 DEF Listen
<1>16. CASE Die
  BY <1>16 DEF Die
<1>17. CASE TimeWaitEnds
  BY <1>17 DEF TimeWaitEnds
<1>18. CASE RunScript
  BY <1>18 DEF RunScript
<1>19. CASE MakeKey
  BY <1>19 DEF MakeKey
<1>20. CASE MakeCertificate
  BY <1>20 DEF MakeCertificate
<1>21. CASE Interrupted
  BY <1>21 DEF Interrupted
<1> QED BY <1>1, <1>2, <1>3, <1>4, <1>5, <1>6, <1>7, <1>8, <1>9, <1>10,
           <1>11, <1>12, <1>13, <1>14, <1>15, <1>16, <1>17, <1>18, <1>19,
           <1>20, <1>21
        DEF Next, Main, Network, Script

LEMMA StepFiles == ASSUME Inv, [Next]_vars PROVE FilesInv'
<1> USE StartupAssumption DEF Inv, FilesInv, GiveUp, BeforeLoop, Server, NoIdentity, database,
                              network, files
<1>1. CASE UNCHANGED vars
  BY <1>1 DEF vars, database, network, files
<1>2. CASE Start
  BY <1>2 DEF Start
<1>3. CASE OpenDatabase
  BY <1>3 DEF OpenDatabase
<1>4. CASE CreateVotos
  BY <1>4 DEF CreateVotos, CreateTable
<1>5. CASE CreateEleitores
  BY <1>5 DEF CreateEleitores, CreateTable
<1>6. CASE InsertSeed
  BY <1>6 DEF InsertSeed
<1>7. CASE DatabaseReady
  BY <1>7 DEF DatabaseReady
<1>8. CASE StartDashboard
  BY <1>8 DEF StartDashboard
<1>9. CASE NewContext
  BY <1>9 DEF NewContext
<1>10. CASE LoadCertificate
  BY <1>10 DEF LoadCertificate
<1>11. CASE LoadPrivateKey
  BY <1>11 DEF LoadPrivateKey
<1>12. CASE CheckPrivateKey
  BY <1>12 DEF CheckPrivateKey
<1>13. CASE NewSocket
  BY <1>13 DEF NewSocket
<1>14. CASE Bind
  BY <1>14 DEF Bind
<1>15. CASE Listen
  BY <1>15 DEF Listen
<1>16. CASE Die
  BY <1>16 DEF Die
<1>17. CASE TimeWaitEnds
  BY <1>17 DEF TimeWaitEnds
<1>18. CASE RunScript
  BY <1>18 DEF RunScript
<1>19. CASE MakeKey
  BY <1>19 DEF MakeKey
<1>20. CASE MakeCertificate
  BY <1>20 DEF MakeCertificate
<1>21. CASE Interrupted
  BY <1>21 DEF Interrupted
<1> QED BY <1>1, <1>2, <1>3, <1>4, <1>5, <1>6, <1>7, <1>8, <1>9, <1>10,
           <1>11, <1>12, <1>13, <1>14, <1>15, <1>16, <1>17, <1>18, <1>19,
           <1>20, <1>21
        DEF Next, Main, Network, Script

LEMMA StepIdentity == ASSUME Inv, [Next]_vars PROVE IdentityInv'
<1> USE DEF Inv, FilesInv, IdentityInv, LogInv, PlainType, GiveUp, BeforeLoop,
            Server, NoIdentity, database, network, files
<1>1. CASE UNCHANGED vars
  BY <1>1 DEF vars, database, network, files
<1>2. CASE Start
  BY <1>2 DEF Start
<1>3. CASE OpenDatabase
  BY <1>3 DEF OpenDatabase
<1>4. CASE CreateVotos
  BY <1>4 DEF CreateVotos, CreateTable
<1>5. CASE CreateEleitores
  BY <1>5 DEF CreateEleitores, CreateTable
<1>6. CASE InsertSeed
  BY <1>6 DEF InsertSeed
<1>7. CASE DatabaseReady
  BY <1>7 DEF DatabaseReady
<1>8. CASE StartDashboard
  BY <1>8 DEF StartDashboard
<1>9. CASE NewContext
  BY <1>9 DEF NewContext
<1>10. CASE LoadCertificate
  BY <1>10 DEF LoadCertificate
<1>11. CASE LoadPrivateKey
  BY <1>11 DEF LoadPrivateKey
<1>12. CASE CheckPrivateKey
  BY <1>12 DEF CheckPrivateKey
<1>13. CASE NewSocket
  BY <1>13 DEF NewSocket
<1>14. CASE Bind
  BY <1>14 DEF Bind
<1>15. CASE Listen
  BY <1>15 DEF Listen
<1>16. CASE Die
  BY <1>16 DEF Die
<1>17. CASE TimeWaitEnds
  BY <1>17 DEF TimeWaitEnds
<1>18. CASE RunScript
  BY <1>18 DEF RunScript
<1>19. CASE MakeKey
  BY <1>19 DEF MakeKey
<1>20. CASE MakeCertificate
  BY <1>20 DEF MakeCertificate
<1>21. CASE Interrupted
  BY <1>21 DEF Interrupted
<1> QED BY <1>1, <1>2, <1>3, <1>4, <1>5, <1>6, <1>7, <1>8, <1>9, <1>10,
           <1>11, <1>12, <1>13, <1>14, <1>15, <1>16, <1>17, <1>18, <1>19,
           <1>20, <1>21
        DEF Next, Main, Network, Script

LEMMA StepHeld == ASSUME Inv, [Next]_vars PROVE HeldInv'
<1>1. CASE UNCHANGED vars
  <2>1. held' = held /\ net' = net
    BY <1>1 DEF vars, network
  <2> QED BY <2>1, StayHeld DEF Inv, Kept
<1>2. CASE Start
  <2>1. held' = held /\ net' = net
    BY <1>2 DEF Start, BeforeLoop, Server, network
  <2> QED BY <2>1, StayHeld DEF Inv, Kept
<1>3. CASE OpenDatabase
  <2>1. held' = held /\ net' = net
    BY <1>3 DEF OpenDatabase, BeforeLoop, Server, network
  <2> QED BY <2>1, StayHeld DEF Inv, Kept
<1>4. CASE CreateVotos
  <2>1. held' = held /\ net' = net
    BY <1>4 DEF CreateVotos, CreateTable, BeforeLoop, Server, network
  <2> QED BY <2>1, StayHeld DEF Inv, Kept
<1>5. CASE CreateEleitores
  <2>1. held' = held /\ net' = net
    BY <1>5 DEF CreateEleitores, CreateTable, BeforeLoop, Server, network
  <2> QED BY <2>1, StayHeld DEF Inv, Kept
<1>6. CASE InsertSeed
  <2>1. held' = held /\ net' = net
    BY <1>6 DEF InsertSeed, BeforeLoop, Server, network
  <2> QED BY <2>1, StayHeld DEF Inv, Kept
<1>7. CASE DatabaseReady
  <2>1. held' = held /\ net' = net
    BY <1>7 DEF DatabaseReady, BeforeLoop, Server, network
  <2> QED BY <2>1, StayHeld DEF Inv, Kept
<1>8. CASE StartDashboard
  <2>1. held' = held /\ net = "none" /\ net' \in {"ctx", "none"}
    BY <1>8 DEF StartDashboard, Inv, LogInv
  <2> QED BY <2>1, KeptNow, KeptNext, StayHeld DEF Inv
<1>9. CASE NewContext
  <2>1. CASE net' = "certificate" /\ Acquire("ssl_ctx")
    BY <1>9, <2>1, KeptNow, KeptNext, AcquireHeld DEF NewContext, Inv, Resource
  <2>2. CASE GiveUp({}, "ssl_falhou")
    <3>1. {} = Kept
      BY <1>9, KeptNow DEF NewContext
    <3> QED BY <2>2, <3>1, GiveUpHeld DEF Inv
  <2> QED BY <1>9, <2>1, <2>2 DEF NewContext
<1>10. CASE LoadCertificate
  <2>1. CASE net' = "private_key" /\ held' = held
    BY <1>10, <2>1, KeptNow, KeptNext, StayHeld DEF LoadCertificate, Inv
  <2>2. CASE GiveUp({"ssl_ctx"}, "ssl_falhou")
    <3>1. {"ssl_ctx"} = Kept
      BY <1>10, KeptNow DEF LoadCertificate
    <3> QED BY <2>2, <3>1, GiveUpHeld DEF Inv
  <2> QED BY <1>10, <2>1, <2>2 DEF LoadCertificate
<1>11. CASE LoadPrivateKey
  <2>1. CASE net' = "check" /\ held' = held
    BY <1>11, <2>1, KeptNow, KeptNext, StayHeld DEF LoadPrivateKey, Inv
  <2>2. CASE GiveUp({"ssl_ctx"}, "ssl_falhou")
    <3>1. {"ssl_ctx"} = Kept
      BY <1>11, KeptNow DEF LoadPrivateKey
    <3> QED BY <2>2, <3>1, GiveUpHeld DEF Inv
  <2> QED BY <1>11, <2>1, <2>2 DEF LoadPrivateKey
<1>12. CASE CheckPrivateKey
  <2>1. CASE net' = "socket" /\ held' = held
    BY <1>12, <2>1, KeptNow, KeptNext, StayHeld DEF CheckPrivateKey, Inv
  <2>2. CASE GiveUp({"ssl_ctx"}, "ssl_falhou")
    <3>1. {"ssl_ctx"} = Kept
      BY <1>12, KeptNow DEF CheckPrivateKey
    <3> QED BY <2>2, <3>1, GiveUpHeld DEF Inv
  <2> QED BY <1>12, <2>1, <2>2 DEF CheckPrivateKey
<1>13. CASE NewSocket
  <2>1. CASE net' = "bind" /\ Acquire("server_socket")
    BY <1>13, <2>1, KeptNow, KeptNext, AcquireHeld DEF NewSocket, Inv, Resource
  <2>2. CASE GiveUp({"ssl_ctx"}, "socket_falhou")
    <3>1. {"ssl_ctx"} = Kept
      BY <1>13, KeptNow DEF NewSocket
    <3> QED BY <2>2, <3>1, GiveUpHeld DEF Inv
  <2> QED BY <1>13, <2>1, <2>2 DEF NewSocket
<1>14. CASE Bind
  <2>1. CASE net' = "listen" /\ held' = held
    BY <1>14, <2>1, KeptNow, KeptNext, StayHeld DEF Bind, Inv
  <2>2. CASE GiveUp({"server_socket", "ssl_ctx"}, "bind_falhou")
    <3>1. {"server_socket", "ssl_ctx"} = Kept
      BY <1>14, KeptNow DEF Bind
    <3> QED BY <2>2, <3>1, GiveUpHeld DEF Inv
  <2> QED BY <1>14, <2>1, <2>2 DEF Bind
<1>15. CASE Listen
  <2>1. CASE net' = "accept" /\ held' = held
    BY <1>15, <2>1, KeptNow, KeptNext, StayHeld DEF Listen, Inv
  <2>2. CASE GiveUp({"server_socket", "ssl_ctx"}, "listen_falhou")
    <3>1. {"server_socket", "ssl_ctx"} = Kept
      BY <1>15, KeptNow DEF Listen
    <3> QED BY <2>2, <3>1, GiveUpHeld DEF Inv
  <2> QED BY <1>15, <2>1, <2>2 DEF Listen
<1>16. CASE Die
  <2>1. net' = "none" /\ held' = NothingHeld
    BY <1>16 DEF Die
  <2> QED BY <2>1, KeptNext DEF HeldInv, NothingHeld
<1>17. CASE TimeWaitEnds
  <2>1. held' = held /\ net' = net
    BY <1>17 DEF TimeWaitEnds, BeforeLoop, Server, network
  <2> QED BY <2>1, StayHeld DEF Inv, Kept
<1>18. CASE RunScript
  <2>1. held' = held /\ net' = net
    BY <1>18 DEF RunScript, BeforeLoop, Server, network
  <2> QED BY <2>1, StayHeld DEF Inv, Kept
<1>19. CASE MakeKey
  <2>1. held' = held /\ net' = net
    BY <1>19 DEF MakeKey, BeforeLoop, Server, network
  <2> QED BY <2>1, StayHeld DEF Inv, Kept
<1>20. CASE MakeCertificate
  <2>1. held' = held /\ net' = net
    BY <1>20 DEF MakeCertificate, BeforeLoop, Server, network
  <2> QED BY <2>1, StayHeld DEF Inv, Kept
<1>21. CASE Interrupted
  <2>1. held' = held /\ net' = net
    BY <1>21 DEF Interrupted, BeforeLoop, Server, network
  <2> QED BY <2>1, StayHeld DEF Inv, Kept
<1> QED BY <1>1, <1>2, <1>3, <1>4, <1>5, <1>6, <1>7, <1>8, <1>9, <1>10,
           <1>11, <1>12, <1>13, <1>14, <1>15, <1>16, <1>17, <1>18, <1>19,
           <1>20, <1>21
        DEF Next, Main, Network, Script

LEMMA StepSeed == ASSUME Inv, [Next]_vars PROVE SeedInv'
<1> USE SeedsAssumption DEF Inv, SeedInv, PlainType, BeforeLoop, Server, database, network,
                            files
<1>1. CASE UNCHANGED vars
  BY <1>1 DEF vars, database, network, files
<1>2. CASE Start
  BY <1>2 DEF Start
<1>3. CASE OpenDatabase
  BY <1>3 DEF OpenDatabase
<1>4. CASE CreateVotos
  BY <1>4 DEF CreateVotos, CreateTable
<1>5. CASE CreateEleitores
  <2>1. seed' = 1 /\ 1..(seed' - 1) = {}
    BY <1>5 DEF CreateEleitores, CreateTable
  <2> QED BY <1>5, <2>1 DEF CreateEleitores, CreateTable
<1>6. CASE InsertSeed
  <2>1. Len(Seeds) \in Nat /\ DOMAIN Seeds = 1..Len(Seeds)
    BY SeedsAssumption
  <2>2. /\ seed \in 1..Len(Seeds) /\ seed' = seed + 1
        /\ main' = main /\ main = "insert" /\ tables' = tables
    BY <1>6, <2>1 DEF InsertSeed
  <2>3. CASE eleitores' = eleitores \cup {Seeds[seed]} /\ UNCHANGED skipped
    <3>1. ~skipped => \A n \in 1..(seed' - 1) : Seeds[n] \in eleitores'
      BY <2>2, <2>3
    <3> QED BY <2>1, <2>2, <2>3, <3>1
  <2>4. CASE skipped' = TRUE
    BY <2>1, <2>2, <2>4
  <2> QED BY <1>6, <2>3, <2>4 DEF InsertSeed
<1>7. CASE DatabaseReady
  BY <1>7 DEF DatabaseReady
<1>8. CASE StartDashboard
  BY <1>8 DEF StartDashboard
<1>9. CASE NewContext
  BY <1>9 DEF NewContext
<1>10. CASE LoadCertificate
  BY <1>10 DEF LoadCertificate
<1>11. CASE LoadPrivateKey
  BY <1>11 DEF LoadPrivateKey
<1>12. CASE CheckPrivateKey
  BY <1>12 DEF CheckPrivateKey
<1>13. CASE NewSocket
  BY <1>13 DEF NewSocket
<1>14. CASE Bind
  BY <1>14 DEF Bind
<1>15. CASE Listen
  BY <1>15 DEF Listen
<1>16. CASE Die
  BY <1>16 DEF Die
<1>17. CASE TimeWaitEnds
  BY <1>17 DEF TimeWaitEnds
<1>18. CASE RunScript
  BY <1>18 DEF RunScript
<1>19. CASE MakeKey
  BY <1>19 DEF MakeKey
<1>20. CASE MakeCertificate
  BY <1>20 DEF MakeCertificate
<1>21. CASE Interrupted
  BY <1>21 DEF Interrupted
<1> QED BY <1>1, <1>2, <1>3, <1>4, <1>5, <1>6, <1>7, <1>8, <1>9, <1>10,
           <1>11, <1>12, <1>13, <1>14, <1>15, <1>16, <1>17, <1>18, <1>19,
           <1>20, <1>21
        DEF Next, Main, Network, Script

LEMMA StepLog == ASSUME Inv, [Next]_vars PROVE LogInv'
<1> USE DEF Inv, LogInv, PlainType, Outcomes, Failures, InitSsl, GiveUp,
            BeforeLoop, Server, database, network, files
<1>1. CASE UNCHANGED vars
  BY <1>1 DEF vars, database, network, files
<1>2. CASE Start
  BY <1>2 DEF Start
<1>3. CASE OpenDatabase
  BY <1>3 DEF OpenDatabase
<1>4. CASE CreateVotos
  BY <1>4 DEF CreateVotos, CreateTable
<1>5. CASE CreateEleitores
  BY <1>5 DEF CreateEleitores, CreateTable
<1>6. CASE InsertSeed
  BY <1>6 DEF InsertSeed
<1>7. CASE DatabaseReady
  BY <1>7 DEF DatabaseReady
<1>8. CASE StartDashboard
  BY <1>8 DEF StartDashboard
<1>9. CASE NewContext
  BY <1>9 DEF NewContext
<1>10. CASE LoadCertificate
  BY <1>10 DEF LoadCertificate
<1>11. CASE LoadPrivateKey
  BY <1>11 DEF LoadPrivateKey
<1>12. CASE CheckPrivateKey
  BY <1>12 DEF CheckPrivateKey
<1>13. CASE NewSocket
  BY <1>13 DEF NewSocket
<1>14. CASE Bind
  BY <1>14 DEF Bind
<1>15. CASE Listen
  BY <1>15 DEF Listen
<1>16. CASE Die
  BY <1>16 DEF Die
<1>17. CASE TimeWaitEnds
  BY <1>17 DEF TimeWaitEnds
<1>18. CASE RunScript
  BY <1>18 DEF RunScript
<1>19. CASE MakeKey
  BY <1>19 DEF MakeKey
<1>20. CASE MakeCertificate
  BY <1>20 DEF MakeCertificate
<1>21. CASE Interrupted
  BY <1>21 DEF Interrupted
<1> QED BY <1>1, <1>2, <1>3, <1>4, <1>5, <1>6, <1>7, <1>8, <1>9, <1>10,
           <1>11, <1>12, <1>13, <1>14, <1>15, <1>16, <1>17, <1>18, <1>19,
           <1>20, <1>21
        DEF Next, Main, Network, Script

(* The invariant holds at every statement of the start, and of each later  *)
(* start.                                                                  *)
THEOREM Invariant == Spec => []Inv
<1>1. Inv /\ [Next]_vars => Inv'
  BY StepType, StepFiles, StepIdentity, StepHeld, StepSeed, StepLog DEF Inv
<1> QED BY InitInv, <1>1, PTL DEF Spec

-----------------------------------------------------------------------------
(* The properties.                                                         *)

(* Every variable keeps its type.                                          *)
THEOREM TypeCorrect == Spec => []TypeOK
<1>1. Inv => TypeOK
  BY DEF Inv, PlainType, FilesInv, HeldInv, SeedInv, TypeOK
<1> QED BY Invariant, <1>1, PTL

(* A start in which no statement failed leaves both tables and every voter *)
(* in place, whatever was there before it.                                 *)
THEOREM Completed == Spec => []SeedsCompleted
<1>1. Inv => SeedsCompleted
  <2> SUFFICES ASSUME Inv, main = "online", ~skipped
               PROVE  /\ tables = {"votos", "eleitores"}
                      /\ eleitores = {Seeds[n] : n \in DOMAIN Seeds}
    BY DEF SeedsCompleted
  <2>1. tables = {"votos", "eleitores"}
    BY DEF Inv, PlainType, SeedInv
  <2>2. \A n \in DOMAIN Seeds : Seeds[n] \in eleitores
    BY SeedsAssumption DEF Inv, SeedInv
  <2>3. eleitores \subseteq {Seeds[n] : n \in DOMAIN Seeds}
    BY DEF Inv, PlainType
  <2> QED BY <2>1, <2>2, <2>3
<1> QED BY Invariant, <1>1, PTL

(* Every early return of start_server gives back what it has, once.        *)
THEOREM Released == Spec => []ReleasedExactlyOnce
<1>1. Inv => ReleasedExactlyOnce
  BY KeptNow DEF Inv, HeldInv, ReleasedExactlyOnce, NothingHeld, Resource
<1> QED BY Invariant, <1>1, PTL

(* However the script and the server interleave, what the server serves is *)
(* a certificate and its own key.                                          *)
THEOREM MatchingPair == Spec => []ServesMatchingPair
<1>1. Inv => ServesMatchingPair
  BY DEF Inv, IdentityInv, ServesMatchingPair
<1> QED BY Invariant, <1>1, PTL

(* The log tells a server that serves from one that gave up, and why.      *)
THEOREM Outcome == Spec => []LogTellsTheOutcome
<1>1. Inv => LogTellsTheOutcome
  <2> SUFFICES ASSUME Inv PROVE LogTellsTheOutcome
    OBVIOUS
  <2>1. ASSUME net = "ended"
        PROVE  Cardinality(log \cap Failures) = 1 /\ "porta_8080" \notin log
    <3>1. PICK f \in Failures : log \cap Outcomes = {f}
      BY <2>1 DEF Inv, LogInv
    <3>2. log \cap Failures = {f} /\ "porta_8080" \notin log
      BY <3>1 DEF Outcomes, Failures
    <3> QED BY <3>2, FS_Singleton
  <2>2. ASSUME net = "accept"
        PROVE  log \cap Failures = {} /\ "porta_8080" \in log
    BY <2>2 DEF Inv, LogInv, Outcomes, Failures
  <2> QED BY <2>1, <2>2 DEF LogTellsTheOutcome
<1> QED BY Invariant, <1>1, PTL

=============================================================================
