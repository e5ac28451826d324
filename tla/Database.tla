------------------------------ MODULE Database ------------------------------
(***************************************************************************)
(* The SQLite calls of server/src/database/database.c, as operators over   *)
(* the contents of table votos.  A call that can fail returns a SET of     *)
(* possible results: the real answer, and, when DbFaults, the value the    *)
(* function falls back to on any SQLite error (every return code is        *)
(* reduced to "is it SQLITE_ROW / SQLITE_DONE?").                          *)
(***************************************************************************)
EXTENDS FiniteSets, Naturals

CONSTANTS VoterIds,    \* the voter ids is_valid_voter_id accepts
          Eleitores,   \* the ids in table eleitores (seeded by init_database)
          Candidates,  \* the names is_valid_candidate accepts
          Receipts,    \* the receipts generate_receipt can produce
          Conn,        \* the TCP connections made to the server
          DbFaults     \* TRUE: any SQLite call may fail

ASSUME EleitoresAssumption == Eleitores \subseteq VoterIds
ASSUME DbFaultsAssumption == DbFaults \in BOOLEAN

-----------------------------------------------------------------------------

(***************************************************************************)
(* A row of votos.  The field "by" is a ghost: the connection whose thread *)
(* inserted the row.  The autoincrement id plays no part in the program.   *)
(***************************************************************************)
Row == [voter : VoterIds, candidate : Candidates, receipt : Receipts,
        by : Conn]

(* What a call that answers b may return.                                  *)
Outcomes(b) == IF DbFaults THEN {b, FALSE} ELSE {b}

(* The row UNIQUE(voter_id) would collide with is there.                   *)
HasRow(votos, v) == \E r \in votos : r.voter = v

voter_exists(v) == Outcomes(v \in Eleitores)

has_voted(votos, v) == Outcomes(HasRow(votos, v))

(* Faulty variants of save_vote, to see that the properties notice them:   *)
(* votos without the UNIQUE constraint, ...                                *)
save_vote_not_unique(votos, row) == {[ok |-> TRUE, votos |-> votos \cup {row}]}

(* ... INSERT OR IGNORE, which succeeds without inserting, ...             *)
save_vote_or_ignore(votos, row) ==
  {[ok |-> TRUE, votos |-> IF HasRow(votos, row.voter) THEN votos
                           ELSE votos \cup {row}]}

(* ... INSERT OR REPLACE, which overwrites the earlier vote, ...           *)
save_vote_or_replace(votos, row) ==
  {[ok |-> TRUE, votos |-> {r \in votos : r.voter # row.voter} \cup {row}]}

(* ... and the result compared with SQLITE_OK instead of SQLITE_DONE.      *)
save_vote_wrong_code(votos, row) ==
  {[ok |-> FALSE, votos |-> IF HasRow(votos, row.voter) THEN votos
                            ELSE votos \cup {row}]}

(***************************************************************************)
(* save_vote: the INSERT succeeds exactly when the UNIQUE constraint on    *)
(* voter_id lets it; an error of any kind inserts nothing and returns 0.   *)
(***************************************************************************)
save_vote(votos, row) ==
  LET refused  == [ok |-> FALSE, votos |-> votos]
      inserted == [ok |-> TRUE, votos |-> votos \cup {row}]
  IN IF HasRow(votos, row.voter) THEN {refused}
     ELSE {inserted} \cup (IF DbFaults THEN {refused} ELSE {})

(* The true number of rows, what count_votes returns when SQLite works.    *)
CountVotes(votos) == Cardinality(votos)

(* count_votes: 0 when SQLite fails.                                       *)
count_votes(votos) ==
  {CountVotes(votos)} \cup (IF DbFaults THEN {0} ELSE {})

(* One row of the GROUP BY.                                                *)
VotesFor(votos, c) == Cardinality({r \in votos : r.candidate = c})

(***************************************************************************)
(* get_vote_results: the candidates with votes, those with most first, and *)
(* at most max of them; an error ends the loop after any number of rows.   *)
(* The order of equal counts is left open.                                 *)
(***************************************************************************)
get_vote_results(votos, max) ==
  LET voted == {r.candidate : r \in votos}
      tops  == {D \in SUBSET voted :
                  /\ Cardinality(D) <= max
                  /\ \A c \in D, d \in voted \ D :
                       VotesFor(votos, c) >= VotesFor(votos, d)
                  /\ DbFaults \/ D = voted \/ Cardinality(D) = max}
  IN {[c \in D |-> VotesFor(votos, c)] : D \in tops}

=============================================================================
