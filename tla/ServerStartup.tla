---------------------------- MODULE ServerStartup ----------------------------
(***************************************************************************)
(* The server from main to its first accept: init_database, the start of   *)
(* the dashboard and of the network thread, init_server_ssl and the part   *)
(* of start_server before its loop; with every early return, crashes and   *)
(* new starts, and scripts/generate_certs.sh, which may replace the files  *)
(* of the certificate while the server starts.                             *)
(***************************************************************************)
EXTENDS Integers, Sequences, FiniteSets

CONSTANTS Seeds,      \* the voter ids init_database inserts, in its order
          None,
          MaxStarts,  \* bound: times the server is started
          MaxScripts  \* bound: times the script is started

ASSUME StartupAssumption == MaxStarts \in Nat /\ MaxScripts \in Nat
ASSUME SeedsAssumption == Seeds \in Seq(STRING) /\ None \notin 1..MaxScripts

VARIABLES main,      \* the statement the main thread is at
          seed,      \* the next of Seeds
          skipped,   \* a statement of init_database failed this time (ghost)
          tables,    \* the tables in db/votos.db, on disk
          eleitores, \* the rows of eleitores, on disk
          net,       \* the statement the network thread is at
          held,      \* held[r]: resource r acquired minus released
          identity,  \* what ssl_ctx holds: a certificate and a key
          port,      \* TCP port 8080
          log,       \* the kinds of line logged since the start
          starts,
          script,    \* the statement generate_certs.sh is at
          runs,      \* how often it was started; run n makes key n
          key, crt   \* server.key and the key server.crt is for, on disk

database == <<tables, eleitores>>
network == <<net, held, identity, port>>
files == <<script, runs, key, crt>>
vars == <<main, seed, skipped, database, network, log, starts, files>>

Resource == {"ssl_ctx", "server_socket"}
NothingHeld == [r \in Resource |-> 0]
NoIdentity == [crt |-> None, key |-> None]
InitSsl == {"ctx", "certificate", "private_key", "check"}

Init ==
  /\ main = "off" /\ seed = 1 /\ skipped = FALSE
  /\ tables = {} /\ eleitores = {}
  /\ net = "none" /\ held = NothingHeld /\ identity = NoIdentity
  /\ port = "free"
  /\ log = {}
  /\ starts = 0
  /\ script = "idle" /\ runs = 0 /\ key = None /\ crt = None

-----------------------------------------------------------------------------
(* main and init_database.  Any statement may fail; only open is checked.  *)

Start ==
  /\ main = "off"
  /\ starts < MaxStarts
  /\ starts' = starts + 1
  /\ main' = "open"
  /\ seed' = 1
  /\ skipped' = FALSE
  /\ log' = {}
  /\ UNCHANGED <<database, network, files>>

OpenDatabase ==
  /\ main = "open"
  /\ main' \in {"create_votos", "off"}
  /\ UNCHANGED <<seed, skipped, database, network, log, starts, files>>

CreateTable(table, next) ==
  /\ main' = next
  /\ \/ tables' = tables \cup {table} /\ UNCHANGED skipped
     \/ skipped' = TRUE /\ UNCHANGED tables
  /\ UNCHANGED <<seed, eleitores, network, log, starts, files>>

(* Faulty variant: the rows are inserted only with the table.              *)
CreateEleitoresOrSkip ==
  /\ main = "create_eleitores"
  /\ IF "eleitores" \in tables
     THEN main' = "dashboard" /\ UNCHANGED tables
     ELSE main' = "insert" /\ tables' = tables \cup {"eleitores"}
  /\ UNCHANGED <<seed, skipped, eleitores, network, log, starts, files>>

CreateVotos == main = "create_votos" /\ CreateTable("votos", "create_eleitores")
CreateEleitores == main = "create_eleitores" /\ CreateTable("eleitores", "insert")

(* INSERT OR IGNORE of the next id.                                        *)
InsertSeed ==
  /\ main = "insert"
  /\ seed <= Len(Seeds)
  /\ seed' = seed + 1
  /\ \/ /\ "eleitores" \in tables
        /\ eleitores' = eleitores \cup {Seeds[seed]}
        /\ UNCHANGED skipped
     \/ skipped' = TRUE /\ UNCHANGED eleitores
  /\ UNCHANGED <<main, tables, network, log, starts, files>>

DatabaseReady ==
  /\ main = "insert"
  /\ seed > Len(Seeds)
  /\ main' = "dashboard"
  /\ UNCHANGED <<seed, skipped, database, network, log, starts, files>>

(* start_dashboard: three log lines, pthread_create, whose result nobody   *)
(* looks at, and the window with "SERVIDOR ONLINE".                        *)
StartDashboard ==
  /\ main = "dashboard"
  /\ main' = "online"
  /\ net' \in {"ctx", "none"}
  /\ log' = log \cup {"iniciado"}
  /\ UNCHANGED <<seed, skipped, database, held, identity, port, starts, files>>

-----------------------------------------------------------------------------
(* init_server_ssl and start_server.                                       *)

Acquire(r) == held' = [held EXCEPT ![r] = @ + 1]
Release(rs) == held' = [r \in Resource |-> IF r \in rs THEN held[r] - 1
                                           ELSE held[r]]

(* An early return: what is released, and what is logged.                  *)
GiveUp(rs, line) ==
  /\ net' = "ended"
  /\ Release(rs)
  /\ identity' = NoIdentity
  /\ log' = log \cup {line}

BeforeLoop == <<main, seed, skipped, database, starts, files>>

NewContext ==
  /\ net = "ctx"
  /\ \/ net' = "certificate" /\ Acquire("ssl_ctx") /\ UNCHANGED <<identity, log>>
     \/ GiveUp({}, "ssl_falhou")
  /\ UNCHANGED <<BeforeLoop, port>>

(* resolve_runtime_path and SSL_CTX_use_certificate_file.                  *)
LoadCertificate ==
  /\ net = "certificate"
  /\ \/ /\ crt # None
        /\ net' = "private_key"
        /\ identity' = [identity EXCEPT !.crt = crt]
        /\ UNCHANGED <<held, log>>
     \/ GiveUp({"ssl_ctx"}, "ssl_falhou")
  /\ UNCHANGED <<BeforeLoop, port>>

(* Faulty variant: the context is not freed.                               *)
LoadPrivateKeyLeaks ==
  /\ net = "private_key"
  /\ \/ /\ key # None
        /\ net' = "check"
        /\ identity' = [identity EXCEPT !.key = key]
        /\ UNCHANGED <<held, log>>
     \/ GiveUp({}, "ssl_falhou")
  /\ UNCHANGED <<BeforeLoop, port>>

(* The same for the key; OpenSSL may refuse one that does not match here.  *)
LoadPrivateKey ==
  /\ net = "private_key"
  /\ \/ /\ key # None
        /\ net' = "check"
        /\ identity' = [identity EXCEPT !.key = key]
        /\ UNCHANGED <<held, log>>
     \/ GiveUp({"ssl_ctx"}, "ssl_falhou")
  /\ UNCHANGED <<BeforeLoop, port>>

(* Faulty variant: SSL_CTX_check_private_key is not called.                *)
NoCheck ==
  /\ net = "check"
  /\ net' = "socket"
  /\ log' = log \cup {"ssl_ok"}
  /\ UNCHANGED <<BeforeLoop, held, identity, port>>

CheckPrivateKey ==
  /\ net = "check"
  /\ \/ /\ identity.crt = identity.key
        /\ net' = "socket"
        /\ log' = log \cup {"ssl_ok"}
        /\ UNCHANGED <<held, identity>>
     \/ /\ identity.crt # identity.key
        /\ GiveUp({"ssl_ctx"}, "ssl_falhou")
  /\ UNCHANGED <<BeforeLoop, port>>

NewSocket ==
  /\ net = "socket"
  /\ \/ net' = "bind" /\ Acquire("server_socket") /\ UNCHANGED <<identity, log>>
     \/ GiveUp({"ssl_ctx"}, "socket_falhou")
  /\ UNCHANGED <<BeforeLoop, port>>

(* Without SO_REUSEADDR the port cannot be bound while connections of an   *)
(* earlier process linger on it.                                           *)
Bind ==
  /\ net = "bind"
  /\ \/ /\ port = "free"
        /\ net' = "listen"
        /\ port' = "bound"
        /\ UNCHANGED <<held, identity, log>>
     \/ GiveUp({"server_socket", "ssl_ctx"}, "bind_falhou") /\ UNCHANGED port
  /\ UNCHANGED BeforeLoop

(* Faulty variant: "iniciado na porta 8080" is logged before listen.       *)
ListenLoggedFirst ==
  /\ net = "listen"
  /\ \/ /\ net' = "accept" /\ port' = "listening"
        /\ log' = log \cup {"porta_8080"}
        /\ UNCHANGED <<held, identity>>
     \/ /\ net' = "ended" /\ port' = "free"
        /\ Release({"server_socket", "ssl_ctx"})
        /\ identity' = NoIdentity
        /\ log' = log \cup {"porta_8080", "listen_falhou"}
  /\ UNCHANGED BeforeLoop

Listen ==
  /\ net = "listen"
  /\ \/ /\ net' = "accept" /\ port' = "listening"
        /\ log' = log \cup {"porta_8080"}
        /\ UNCHANGED <<held, identity>>
     \/ /\ GiveUp({"server_socket", "ssl_ctx"}, "listen_falhou")
        /\ port' = "free"
  /\ UNCHANGED BeforeLoop

-----------------------------------------------------------------------------
(* The process ends, by "Q Sair" or a crash; connections it had may stay   *)
(* in TIME_WAIT until TCP forgets them.                                    *)
Die ==
  /\ main # "off"
  /\ main' = "off"
  /\ net' = "none" /\ held' = NothingHeld /\ identity' = NoIdentity
  /\ port' \in CASE net = "accept" -> {"free", "time_wait"}
                 [] port = "time_wait" -> {"time_wait"}
                 [] OTHER -> {"free"}
  /\ UNCHANGED <<seed, skipped, database, log, starts, files>>

TimeWaitEnds ==
  /\ port = "time_wait"
  /\ port' = "free"
  /\ UNCHANGED <<BeforeLoop, net, held, identity, log>>

-----------------------------------------------------------------------------
(* generate_certs.sh, which may fail or be interrupted anywhere.           *)

Server == <<main, seed, skipped, database, network, log, starts>>

RunScript ==
  /\ script = "idle"
  /\ runs < MaxScripts
  /\ runs' = runs + 1
  /\ script' = "genrsa"
  /\ key' = None /\ crt' = None
  /\ UNCHANGED Server

MakeKey ==
  /\ script = "genrsa"
  /\ script' = "x509"
  /\ key' = runs
  /\ UNCHANGED <<Server, runs, crt>>

MakeCertificate ==
  /\ script = "x509"
  /\ script' = "idle"
  /\ crt' = key
  /\ UNCHANGED <<Server, runs, key>>

Interrupted ==
  /\ script # "idle"
  /\ script' = "idle"
  /\ UNCHANGED <<Server, runs, key, crt>>

-----------------------------------------------------------------------------

Main == \/ OpenDatabase \/ CreateVotos \/ CreateEleitores \/ InsertSeed
        \/ DatabaseReady \/ StartDashboard

Network == \/ NewContext \/ LoadCertificate \/ LoadPrivateKey
           \/ CheckPrivateKey \/ NewSocket \/ Bind \/ Listen

Script == RunScript \/ MakeKey \/ MakeCertificate \/ Interrupted

Next == Start \/ Main \/ Network \/ Die \/ TimeWaitEnds \/ Script

Spec == Init /\ [][Next]_vars

-----------------------------------------------------------------------------
(* Properties.                                                             *)

TypeOK ==
  /\ main \in {"off", "open", "create_votos", "create_eleitores", "insert",
               "dashboard", "online"}
  /\ seed \in 1..(Len(Seeds) + 1)
  /\ skipped \in BOOLEAN
  /\ tables \subseteq {"votos", "eleitores"}
  /\ eleitores \subseteq {Seeds[n] : n \in DOMAIN Seeds}
  /\ net \in InitSsl \cup {"none", "socket", "bind", "listen", "accept",
                           "ended"}
  /\ held \in [Resource -> 0..1]
  /\ identity \in [crt : 1..MaxScripts \cup {None},
                   key : 1..MaxScripts \cup {None}]
  /\ port \in {"free", "bound", "listening", "time_wait"}

(***************************************************************************)
(* A start in which no statement failed leaves both tables and every voter *)
(* in place, whatever earlier starts did, failed to do or were interrupted *)
(* in: a half-filled table is completed.                                   *)
(***************************************************************************)
SeedsCompleted ==
  main = "online" /\ ~skipped =>
    /\ tables = {"votos", "eleitores"}
    /\ eleitores = {Seeds[n] : n \in DOMAIN Seeds}

(***************************************************************************)
(* start_server gives back what it acquired exactly once on every early    *)
(* return, and holds both the context and the socket while it serves.      *)
(***************************************************************************)
ReleasedExactlyOnce ==
  /\ net \in {"none", "ended"} => held = NothingHeld
  /\ net = "accept" => \A r \in Resource : held[r] = 1

(***************************************************************************)
(* The server never listens with a certificate of one run of the script    *)
(* and the key of another, though the files may change between the two     *)
(* reads.                                                                  *)
(***************************************************************************)
ServesMatchingPair ==
  port = "listening" => identity.crt # None /\ identity.crt = identity.key

Failures == {"ssl_falhou", "socket_falhou", "bind_falhou", "listen_falhou"}

(***************************************************************************)
(* The log says what became of the start: one failure and no "iniciado na  *)
(* porta 8080" when start_server returned, the reverse when it serves.     *)
(***************************************************************************)
LogTellsTheOutcome ==
  /\ net = "ended" => Cardinality(log \cap Failures) = 1
                      /\ "porta_8080" \notin log
  /\ net = "accept" => log \cap Failures = {} /\ "porta_8080" \in log

=============================================================================
