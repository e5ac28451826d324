# TLA+ model of Sistema-Votacao-C-Android

A C voting system: a server (TLS over TCP, SQLite, a newt dashboard) and a
client that lets a voter log in, choose a candidate and send one vote.  This
directory models both programs, checks the models with TLC on small instances
and proves their safety properties with TLAPS for every instance.

## The system

| Part | Code | State | Operations |
|---|---|---|---|
| Vote server | `server/src/network/server_socket.c` | sockets, one detached thread per connection, the locals of the request loop | accept loop, `handle_client` |
| Database | `server/src/database/database.c` | tables `votos` (UNIQUE `voter_id`) and `eleitores`, on disk | `init_database`, `voter_exists`, `has_voted`, `save_vote`, `count_votes`, `get_vote_results` |
| Server state | `server/src/models/server_state.c`, `security/secure_log.c` | counters `connected_clients`, `active_threads`, `total_votes`, a ring of 200 log lines, one mutex | lock, unlock, `add_log` |
| Rate limiter | `server/src/security/rate_limit.c` | 32 entries of at most 5 timestamps, one mutex | `rate_limit_allow` |
| Validation | `server/src/security/validation.c` | none | `parse_vote_message` |
| Receipts | `server/src/protocol/protocol.c` | the `rand` generator | `generate_receipt` |
| Start of the server | `server/src/main.c`, `init_database`, `init_server_ssl`, `start_server` before its loop | `SSL_CTX`, listening socket, tables on disk, files of the certificate | open and fill the database, start the threads, load the identity, bind, listen |
| TLS wrapper | `server/src/network/ssl_wrapper.c` | `SSL_CTX`, `SSL` | `init_server_ssl`, `ssl_accept`, send, receive, cleanup |
| Dashboard | `server/src/ui/dashboard.c`, `results.c`, `security/auth.c` | the window, the numbers in it, the admin password of the environment | refresh by a timer, show logs, clients, results behind a password, quit |
| Client | `client/src/main.c`, `ui/*.c`, `network/*.c` | one connection with its socket and OpenSSL objects, voter id, candidate, response | login, connect, choose, send, show |
| Certificates | `scripts/generate_certs.sh`, `client/src/network/embedded_ca.h` | key and certificate of the server, the CA compiled into the client | make a CA, a key and a certificate |

The dashboard runs in the main thread and starts the network thread
(`start_server`), which accepts connections and starts a thread for each.  The
threads share `votos` (through SQLite, whose calls are atomic to one another)
and `server_state` (through its mutex).  The client and the server share only
the connection.

What is hard:

- threads of several sessions interleave between the SQL statements of one
  vote, and the dashboard reads counters and tables in between;
- the process can stop, or be ended by SIGPIPE, between any two steps, and only
  the database survives; tables may be half-filled by an earlier start;
- an answer can be lost after the vote was saved;
- handshakes and reads block with no timeout; the login's connect has one;
- counters are kept by several threads over several exits, and some twenty
  calls of the client and ten of the server's start can fail, each with its own
  list of what to give back;
- caches and buffers (rate-limit table, log ring, log text, `sscanf` fields)
  cut or forget when full;
- files of the certificate change while the server reads them.

`PROJECT.json` lists every hazard at its line with the property that would show
it going wrong.

## Modules

| Module | Models | Extends | Proofs in |
|---|---|---|---|
| `Election` | the promise of the server | | `VotingServerProofs` |
| `Database` | tables and SQLite calls, as operators | | |
| `VotingServer` | accept loop, client threads, counters, stop and restart | `Database` | `VotingServerProofs`, `VotingServerCountProofs` |
| `VotingSystem` | the server among real clients | `VotingServer` | `VotingSystemProofs` |
| `Dashboard` | the main thread of the server over its other threads | `VotingServer` | `DashboardProofs` |
| `EventLog` | what the log promises to the other threads | | `ServerLogProofs` |
| `ServerLog` | mutex, log ring and the text made from it | | `ServerLogProofs` |
| `RateLimit`, `SlidingWindow` | the table of the limiter; what its verdicts must be | | `RateLimitProofs` |
| `ServerStartup` | the server from `main` to its first accept, and `generate_certs.sh` | | `ServerStartupProofs` |
| `VoteMessage` | `parse_vote_message` on the tokens of a record | | `ClientConnectProofs` |
| `ClientConnect` | the client's connection, call by call | `VoteMessage` | `ClientConnectProofs` |

### Votes: `Election`, `Database`, `VotingServer`, `VotingSystem`

`Election` is the promise: each registered voter casts at most one ballot, a
ballot never changes, and only a cast ballot is confirmed.

`Database` gives the SQLite calls as operators over the rows of `votos`; a call
returns the set of its possible results, which with `DbFaults` includes the 0
the C function returns on any SQLite error.  A row has a ghost field `by`, the
connection that inserted it, so that properties can tell whose row it is.

`VotingServer` is the server process.  `pc[c]` is the statement the thread of
connection `c` is at:

| `pc` | code (`server_socket.c`) | action(s) |
|---|---|---|
| `none` | not yet accepted | `RefuseConnection`, `AcceptConnection` (312-375) |
| `spawn` | between `active_threads++` and `pthread_create` | `ThreadStarts`, `ThreadFails` (377-393) |
| `ssl_accept` | in the handshake | `HandshakeSucceeds`, `HandshakeFails` (45-71) |
| `register` | before `connected_clients++` | `Register` (76-78) |
| `recv` | in `ssl_recv` | `Receive`, `ReceiveEnds` (93-120) |
| `voter_exists`, `has_voted`, `save_vote` | before that call | `CheckVoter`, `CheckNotVoted`, `SaveVote` (134-174) |
| `tally` | before `total_votes++` | `Tally` (176-178) |
| `reply` | before `ssl_send` of the answer in `job[c].answer` | `Reply` |
| `cleanup`, `leave` | after the loop | `Cleanup`, `Leave` (212-218) |

A thread that is `done` will change nothing of this state any more; it may still
be in its last `add_log` (after `active_threads--` in `Leave`, after the failed
handshake in `HandshakeFails`), which is `ServerLog`'s matter.

`job[c]` holds the locals of the current iteration.  `link[c]` is the
connection: a peer may close it (`gone`: the server will see EOF or a reset) or
vanish (`lost`: it will not, until TCP gives up).  `inbox[c]` holds the TLS
records sent and not read; a record is one request, as one `SSL_read` returns
one record.  `replies[c]` is every answer delivered, a history.  `Stop`,
`BrokenPipe` and `Restart` are the process ending and starting again.  Blocks
under the mutex of `server_state` are single actions.  `votos` is left alone by
`Restart` because `init_database` uses `CREATE TABLE IF NOT EXISTS`.

`VotingSystem` extends `VotingServer`: the peers are runs of the real client,
one per connection, and every client step that touches the connection is one of
the peer actions of `VotingServer`.  `stage[s]` is where `main` is, `vote[s]`
what the voter typed and chose, `shown[s]` the answer in the receipt window.

### Limiter: `RateLimit`, `SlidingWindow`

`RateLimit` is the table behind the verdict that `VotingServer` leaves open in
`RefuseConnection`.  `entries[i]` is the C array (`count` is the length of
`timestamps`), `find_entry_index` and `prune_entry` are operators with the C
names (the loop of `prune_entry` is a recursive function of the number of
timestamps it has looked at), `rate_limit_allow` is the one action besides the
clock's `Tick`.  A call
is one step: only the accept loop calls it, so no other call comes between its
`time(NULL)` and its mutex.  `history` is a ghost, every call with its verdict;
`SlidingWindow` says over `history` alone which verdicts are right: a refusal
needs `LIMIT` grants in the window, a grant beyond them needs that `REMEMBERED`
other addresses were heard no earlier than this one, at some point since.

### Log: `EventLog`, `ServerLog`

`VotingServer` and `Dashboard` take a block under the mutex of `server_state` as
one step; `ServerLog` is where that is examined.  `EventLog` says what has to
come out: a log of the latest messages, to which a message is added in one step
and of which a text is made in one step, of as many lines as fit.  `mutex` has an owner, and `pc[t]` is at
`lock`, `shift` (one step per slot moved), `write` and `unlock` in `add_log`
(`server_state.c`), and, for the main thread, at `collect`, `copy` (one step per
line), `release` and `show` in `collect_logs_text` and the equal loop of
`update_dashboard_text` (`dashboard.c`).  A message has a width, a line is
copied when it fits in `TextSize`, and the loop ends at the first that does not.
`show_logs_popup` then puts a header before the lines and cuts both to 8192
characters once more (`dashboard.c:158-170`).  That second cut is no step of the
model: it leaves of the lines what a copy into a text smaller by the header
would have left, and `TextSize` is any number in the proofs.
`history`, all messages in the order of their `write`, and `before`, its length
when the copy was asked for, are ghosts.  `ServerLog` implements `EventLog`
(`ImplementsEventLog`) with `Write` as the step that adds, `Release` as the step
that shows and `Shown` as the one that hides; its log is the end of `history`.

### Dashboard: `Dashboard`

The main thread, with every step of `VotingServer` going on around it.  `at` is
its statement: `update` and `status` are the query and the counters of
`update_dashboard_text`; `run` is `newtFormRun`, left by the timer
(`TimerExpires`) or a key (`PressKey`); `prompt` and `denied` are
`admin_action_allowed` of `auth.c`.  Its entry has 24 columns and no
`NEWT_FLAG_SCROLL` (`auth.c:38-45`), so that it holds at most the first 24 columns
of what is typed (`Entry`); the 128 bytes of `entered_password` are never the
limit.  A configured password that does not fit locks everybody out of these
windows: the operator who types it is told "Senha administrativa incorreta", and
`EachWindowIsAuthorized` says so.  `counters`, `results` and `total` are the
reads of a popup in the order of the code (`show_logs_popup` and
`show_clients_popup` read the counters and then the total, `show_results` the
candidates and then the total); `window` shows what was read.  Keys and
buttons run the same code.  Each query and each block under the mutex is a step
of its own.  `acked` is a ghost: the voters who held an ACK when votes were
counted.

### Start: `ServerStartup`

`main` goes through `open`, `create_votos`, `create_eleitores`, `insert` (one
`INSERT OR IGNORE` a step), `dashboard` and `online`; every statement may fail,
and as in the code only the failure of `open` ends the start.  `net` goes
through `init_server_ssl` (`ctx`, `certificate`, `private_key`, `check`) and
`start_server` (`socket`, `bind`, `listen`, `accept`), and to `ended` by any of
the early returns.  `held` counts what is acquired minus what is given back,
`identity` is what `ssl_ctx` loaded, `port` may be in `time_wait` after a
process that served.  `script` is `generate_certs.sh` removing the old files
(`RunScript`), writing the key (`MakeKey`) and the certificate
(`MakeCertificate`); run n makes key n, and it may be interrupted.  `Die` ends
the process anywhere and `Start` begins again on what is on disk.

### Vote message and client connection: `VoteMessage`, `ClientConnect`

A record is the sequence of its tokens.  A token is some characters and then
perhaps the name of a candidate; `clean` says whether its first character is
alphanumeric, which is enough to refuse it.  `Field` and `After` are one
conversion of `sscanf`: at most `MaxLen` characters, the rest is read by the
next conversion.

`ClientConnect` is `connect_server_ssl`, `send_vote` and `close_ssl_connection`
with `ssl_wrapper.c`.  `at` is the call the client is at; any may fail.  A
failure lists in `pending` the calls on that way out in the order of the code,
and `ReleaseNext` makes them one by one; `held[r]` counts each resource.
`verify`, `trusted` and `pinned` are the three settings by which OpenSSL
verifies the server (`Verified`), `peer` and `cert` what is at the address, and
`embedded` the CA of the build.  `message` is the record that is sent; the
module hands it to `parse_vote_message` in its properties.

### Model checking and proofs

`MCVotingServer`, `MCVotingSystem`, `MCDashboard`, `MCServerLog`,
`MCRateLimit`, `MCServerStartup` and `MCClientConnect` give the constants values
for TLC.  Definitions marked "Faulty variant" are no part of any specification:
each is a plausible bug in the definition after it, and a property that does
not fail with it says nothing (`PROJECT.json`, "mutants").

## Runs

| Run | Asks | Bounds |
|---|---|---|
| `server` | are ACKs, refusals and counters true, and is `Election` implemented, through failures and a restart? | 2 connections, 2 requests on each, 1 registered and 1 unknown voter, 2 candidates, 1 stop |
| `server_faults` | is UNIQUE enough, and is no voter sent two ACKs, when `has_voted` lies and inserts fail? | 3 connections, 1 request on each, 1 voter, 2 receipts, SQLite faults, 1 stop |
| `server_live` | do threads of gone peers end, and are requests answered while another peer is silent? | 2 connections, 2 requests on each, 1 stop |
| `system` | does what a client shows agree with `votos`? | 2 clients, 1 registered and 1 unknown voter, malformed ids, 2 candidates, 1 stop |
| `system_live` | do clients and their threads come to an end? | 2 clients, 1 stop |
| `dashboard` | does every window agree with `votos`, the counters and the ACKs, is each window authorized, and do votes reach the screen? | 1 connection, 2 requests on it, 2 voters, 2 candidates, 3 passwords or none, 1 stop |
| `server_log` | is the log the latest messages, is each block under the mutex one step to the other threads (`EventLog`)? does every call of `add_log` return, and every copy get to its window? | 2 threads, 2 messages (widths 1 and 3), 3 slots, a text of 6, 5 messages logged |
| `rate_limit` | is every verdict the one the full history calls for, evictions apart? | 3 addresses, 2 entries, 2 requests in a window of 1 s, 4 seconds, 7 calls |
| `startup` | are tables completed, resources given back once, a matching pair served and the outcome logged? | 3 seeds, 3 starts, 2 runs of the script |
| `client_connect` | is everything given back on every path, only the right server accepted, and a typed id never another vote? does connecting return? | 2 CAs, 8 kinds of typed id, 2 candidates, names of 10 characters, fields of 63 |
| `threads_ativas` | violation: "Threads ativas" is the number of threads | 2 connections |
| `falha_ao_enviar` | violation: "Falha ao enviar voto" means no vote was recorded | 2 clients |

Why the bounds are enough:

- Two sessions give every race of two threads between `has_voted` and
  `save_vote`; the third in `server_faults` lets two losers meet.  Two requests
  on a connection show what one iteration leaves to the next.  One stop splits
  every run in a before and an after.
- In `dashboard` two votes can arrive between any two reads of a window, which
  is what its properties are about; one connection with two requests gives
  them.  Two passwords fit in the entry, one of them being what the entry holds
  of the third, which does not fit: each of them may be configured and typed.
- In `server_log` five messages overflow a log of three twice, and a text of six
  characters holds two short lines or one long one, so that the cut falls in
  every place.
- In `rate_limit` seven calls fill a quota, evict its address and fill it again;
  the behaviours in which only two of the addresses call are those of a table
  that never overflows.
- In `startup` the first start may leave any part undone, the second may die in
  completing it, the third can complete; two runs of the script give two pairs.
- `client_connect` is finite as it stands: the client is one straight line of
  calls.  Its ids are of every shape `sscanf` treats differently within the 20
  characters an entry holds; longer ones are covered by `AcceptedRecords`.

Connections, sessions and addresses, which differ in nothing, are symmetric in
safety runs; runs with liveness use no symmetry.  (`SlidingWindow` is a property
of single steps, for which symmetry is sound.)  Deadlock is not checked where
the system really stops: connections, calls and starts are finite, and a client
or a server that has ended has no more to do.

Fairness:

- `VotingServer`, `VotingSystem` (`Fairness`, `SystemFairness`): a thread that can
  take a step takes it eventually, `SSL_accept` returns when the peer has closed,
  and in `VotingSystem` a handshake between two running programs completes.
- `ServerLog`: every thread runs, and a thread waiting for the mutex gets it if
  it is free again and again (strong fairness of `Lock` and `CollectLock`): its
  holders keep it for a bounded number of steps, which `HoldIsShort` proves, and
  do something else between two uses; glibc's mutex wakes a waiter on each
  release.  Operators owe nothing here either: `Shown`, the closing of the log
  window, is under no fairness, and a copy counts as returned when its window
  is up.
- `Dashboard`: the main thread runs, and `newtFormRun` returns at the latest when
  its timer expires (`WF(Reading)`).  Operators owe nothing: a window may stay
  open for ever.
- `ClientConnect`: the client's one thread runs, and `select` returns when its
  time is over.  Its peer owes nothing.

Nothing is assumed of users, of peers, of the network, of failures, nor that a
stopped server is started again.

What `threads_ativas` and `falha_ao_enviar` show is in "findings" of
`PROJECT.json`: a failed handshake leaves `active_threads` one too high for
good, and the client reports that sending failed when only the answer was lost.

## What is proved

`VotingServerProofs` proves for every set of connections, voters, candidates and
receipts, any bounds, with and without SQLite faults:

- `TypeCorrect`, `Types`: `TypeOK`, with `LocalsSet` (which locals are set where);
- `OneVote`, `OnlyRegistered`, `AckIsRecord`, `AckOnce`, `RefusalJustified`:
  the safety invariants of the runs;
- `Implementation`: `Spec => Promise!Spec`, the refinement of `Election`.

All rest on `VoteInv`.  One row per voter is inductive by itself.  "Every ACK
has its row" is not: it needs that a thread past `save_vote` still has its row
(`ThreadInv`), and "no two ACKs" needs in addition that no ACK already sent on
the thread's own connection is for the same voter, while an ACK on another
connection would mean another row for the voter.  The refinement uses that with
one row per voter the row `CHOOSE` picks is the only one.  The assumptions are
`EleitoresAssumption`, `DbFaultsAssumption`, `NoneAssumption` and
`BoundsAssumption`.

Its last section proves what `DisconnectNoticed` and `RequestsAnswered` rest on
besides fairness.  `StepsLeft(c)` counts the statements ahead of the thread of a
connection and of every request that waits for it:

- `OnlyRequestsAddWork`: a step that changes where a thread is, or what waits for
  it, lowers `StepsLeft`, unless it is a request that its peer sends;
- `CutOffThreadsOnlyEnd`: a connection whose peer is gone stays so, and its
  thread has no other way than to its end;
- `NoRequestDropped`: a thread that read a request stops serving it only by
  answering it, or with the process.

What is left to fairness is only that a thread that can move does.  `IdleInv`
is needed for the end of the process: with no process, no thread is anywhere.

`VotingServerCountProofs` proves the counters, `TallyBehind` and `Counters`,
by `CountInv`.  The set of connections may be infinite, so that the sets behind
the counters have to be shown finite first: at any time only finitely many
threads run and finitely many rows exist.  A step then moves at
most one connection in or out of a set, and its cardinality by one (`AddOne`,
`RemoveOne`).  For `TallyNeverAhead` it is needed that a thread at `tally` has
its own row.  `CountersAgree` is one-sided in the threads because of the finding
`ThreadsAtivasExact`: `HandshakeFails` removes a thread and not its count.

`VotingSystemProofs` proves `SystemIsServer` (`SystemSpec => Spec`: each client
step is a step of the arbitrary peer of `VotingServer`), so that everything
above holds among real clients too (`SystemImplementation` says it of
`Election`), and `SystemTypes`, `MyReceipt`, `OneReceipt` and `RefusedHasNoVote`.  They
rest on following the one request of each session: it is nowhere, queued, being served or answered, never two of
them, and in every one of these places it is the vote its voter typed and
chose; before `save_vote` and after a NACK no row is by this session.  An ACK
that is shown was delivered to this session, `AckedIsRecorded` gives its row,
and one vote per voter that no two sessions share one.

`NeitherWaitsForTheOther` is the part of `SessionConcludes` without fairness.
Neither end's read has a timeout, so that a client and a thread that both read
would wait for ever.  `MeetInv` says at each state of a connection what either
end is doing: on one that is up, a client that waits has an answer, or a thread
that serves its request or will come to read it, and a thread that waits has a
client that is still connecting or choosing, or that was answered.

`DashboardProofs` proves `DashboardIsServer` (`DashboardSpec => Spec`: the
dashboard only reads) and, with the invariants of the server that it brings in,
`DashboardTypes`, `VotesShown`, `Coherent`, `Authorized` and `LinesAddUp`.  Each
look at the server is honest when it happens: `CountInv` makes threads more than
clients (`MoreThreadsThanClients`), and `AckedIsRecorded` makes the rows of `votos` no
fewer than the voters with an ACK (`NoMoreAcksThanVotes`).  It stays honest
because `votos` only grows (`VotosGrow`).  `GateInv` is what remains of a
password until its window is closed; that a configured password which opens a
window fits in the entry follows from `EntryAssumption`, whatever its columns.  For `LinesAddUp`, `LinesInv` says that no
line has more votes than its candidate has in `votos`, and that the lines of a
window together have no more than the second query counted.  It needs that the
votes for different candidates are different rows, summed over any finite set of candidates (`SumOverSet` and the lemmas beside it,
by a smallest subset that would violate them).  `ShownVotesStay` is what
`SavedVotesReachTheScreen` rests on besides fairness: what the main window shows
never drops while the server runs, because a refresh never counts less than is
on the screen (`RefreshInv`).

`ServerLogProofs` proves `LogTypeCorrect`, `LogRecent`, `TextOfOneInstant`,
`Atomicity` and `HoldIsShort` for any threads, log size and text size.  The
invariant has mutual exclusion (a thread inside `add_log` or the copy owns the
mutex), that while slots are shifted the first `i-2` already hold what their
neighbours held and the others have not moved, that at `write` there is room for
one more, and that otherwise the log is the end of `history`.  For the text,
what is copied at index i is the first i-1 lines of the log of the present
length of `history`, which nobody can change under the mutex (`TextInv`); once
the mutex is released it is a piece of `history`, which only grows at its end
(`TextIsSnapshot`).  `Atomicity` is the refinement of `EventLog`: it adds that the
characters used are those of the lines copied, inside the buffer (`BufferInv`),
and that at the release the copy is of the log as it still is (`CopiedInv`).
`HoldIsShort` bounds the time the mutex is held: its holder is at a statement
that cannot block, at most `MAX_LOGS + 2` of its own steps from giving it back,
and no other thread moves or disturbs it.

`ClientConnectProofs` begins with `AcceptedRecords`, about `VoteMessage`: of
all records, of any number of tokens of any length, `parse_vote_message`
accepts those of two tokens that fit, an alphanumeric one and a candidate, and
one kind nobody meant: a single token of 63 alphanumerics followed by the name
of a candidate, which `sscanf` splits.

It goes on with `Released`, `ShutdownSound`, `Verification` and
`VoteUnchanged`, for every set of CAs, candidates and ids that fit.  `HeldInv`
is the one that matters: on a way out what is held is exactly what `pending`
still lists, each once, and `SSL_shutdown` comes before the socket in the list,
unless `malloc` failed.  `SecureInv` says which of the three settings are made
at which call, and `VoteInv` that what was sent is what was typed and chosen,
to which `AcceptedRecords` applies.  `NoWayBack` gives every statement of the
client a place on the way to its end: each step of the client leads further
along it, and no step of its peer leads back.

`ServerStartupProofs` proves `Completed`, `Released`, `MatchingPair` and
`Outcome` for any seeds, starts and runs of the script.  A start without a
failure has inserted `Seeds[1..seed-1]` (`SeedInv`); `held` is a function of
`net` (`HeldInv`); a listening server has passed `check` with what it still
holds (`IdentityInv`), and every key and certificate is of a run the bound
allows (`FilesInv`); the log has no failure before `ended` and one there
(`LogInv`).

`RateLimitProofs` proves, for every table size, set of addresses, window and
limit, `Types`, `OneEntry`, `Implementation` (`Spec => SlidingWindow`: every
verdict is the one the full history calls for, evictions apart) and
`ExactForFewAddresses` (with no more addresses than entries, evictions are out of
the question too).  `LimiterInv` relates the table to the history of all calls:
an address has one entry (`TableInv`); an entry was last seen when its address
was last heard, and an address without entry may have been forgotten, since
`MAX_ENTRIES` others were heard later (`HeardInv`); the timestamps of an entry
are the calls granted to its address since some point at which it may have been
forgotten, those apart that had left the window when the entry was last pruned
(`GrantInv`).  What the loop of `prune_entry` keeps is `PruneKeepsFresh`.

Induction over numbers and finite sets, which the library states with an operator
parameter no installed prover can instantiate, is done in these proofs with sets:
`NatSetInduction` is about the set of numbers with a property, and follows from
the least number outside it.

Assumptions, beyond those on types and sizes of constants: `NoneAssumption`,
`NoAnswerAssumption`, `NoneIsNoCA`, `NamesAssumption` (the marker for "nothing"
is no real value), `OneRequestAssumption` (a run of the client sends one vote,
as `main` does), `TypedAssumption` (an id fits in a field: an entry holds 20
characters), `EleitoresAssumption` (registered ids are ids),
`CandidatesAssumption` (the candidates are finitely many: the list of
`results.c` is an array), `EntryAssumption` (what an entry holds, typed again, is
held whole).  TLC evaluates all of them in the runs.

Model-checked only: the liveness properties (`DisconnectNoticed`,
`RequestsAnswered`, `SessionConcludes`, `SessionReleasesItsThread`,
`ConnectReturns`, `SavedVotesReachTheScreen`, `CallsReturn`), which need ENABLED of
large actions and well-founded induction over it, out of reach of these provers.
Every safety invariant, action property and refinement that a run checks is
proved.

## Not modelled

- OpenSSL's internals and the contents of certificates (cryptography): a
  certificate is of a CA and for an address, and what verification checks is
  taken from how the client configures it.
- newt's widgets, layout, wording and formatting.
- Memory and descriptors, except where a failing call changes control flow.  So
  not the one byte past `"NACK JA_VOTOU\n"` (`server_socket.c:155`) and not the
  busy loop of a failing `accept` (`server_socket.c:326`).
- Records above 1023 bytes, which `ssl_recv` would split in two.
- The client's port, which `atoi` and `htons` reduce modulo 65536
  (`client_socket.c:84`), and the rewriting of `embedded_ca.h` by the script; the
  CA of the build is a value.
- A wall clock that steps back under the limiter (`rate_limit.c:76`): the code
  promises nothing for it.
- A network thread that was never created (`dashboard.c:285` ignores the result
  of `pthread_create`): `StartDashboard` allows it, and no property can be stated
  of it, since nothing tells it from a slow one.
- Build files, IDE files, the committed database and binaries: no behaviour of
  the running system.

## Plan

What is left:

1. `RateLimit` composed with `VotingServer`: the verdict in `RefuseConnection` as
   that of `rate_limit_allow`.
2. A measure for the sessions of `VotingSystem` and the windows of `Dashboard`,
   like `StepsLeft` of the server and `Way` of the client.
3. The limiter under a wall clock that steps back, once it is decided what it
   should promise then.
