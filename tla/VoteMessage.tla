----------------------------- MODULE VoteMessage -----------------------------
(***************************************************************************)
(* parse_vote_message (server/src/security/validation.c): what sscanf with *)
(* "%63s %63s %1s" makes of a record.  A record is the sequence of its     *)
(* tokens, the longest runs of characters that are not blanks; how many    *)
(* blanks there are never matters, and nothing after a NUL is read.        *)
(***************************************************************************)
EXTENDS Integers, Sequences

CONSTANTS Candidates,  \* "candidatoA", "candidatoB", "candidatoC"
          NoName,
          NameLength,  \* of each of Candidates
          MaxLen       \* MAX_VOTER_ID_LEN and MAX_CANDIDATE_ID_LEN

ASSUME MessageAssumption ==
  /\ NoName \notin Candidates
  /\ NameLength \in Nat \ {0}
  /\ MaxLen \in Nat \ {0}
  /\ NameLength <= MaxLen

(* A token is pad characters and then the name of a candidate, or no name. *)
(* If it is not clean its first character is no letter and no digit.       *)
Token == {t \in [pad : Nat, name : Candidates \cup {NoName}, clean : BOOLEAN] :
            t.pad = 0 => t.name # NoName /\ t.clean}
Length(t) == t.pad + IF t.name = NoName THEN 0 ELSE NameLength
Fits(t) == Length(t) <= MaxLen

(* What %63s reads of a token, and what it leaves for the next conversion. *)
Read(t) == IF Fits(t) THEN t
           ELSE [pad |-> MaxLen, name |-> NoName, clean |-> t.clean]
Remainder(t) == IF t.pad >= MaxLen
                THEN [pad |-> t.pad - MaxLen, name |-> t.name, clean |-> TRUE]
                ELSE [pad |-> Length(t) - MaxLen, name |-> NoName,
                      clean |-> TRUE]

(* One conversion: the field it fills, and the input after it.             *)
Field(input) == Read(Head(input))
After(input) == IF Fits(Head(input)) THEN Tail(input)
                ELSE <<Remainder(Head(input))>> \o Tail(input)

is_valid_voter_id(field) == Length(field) \in 1..MaxLen /\ field.clean
is_valid_candidate(field) == field.pad = 0 /\ field.name \in Candidates

VoterId(buffer) == Field(buffer)
Candidate(buffer) == Field(After(buffer))

(* Faulty variant: the conversion %1s is missing from the format.          *)
ConvertsTwoOrMore(buffer) == buffer # <<>> /\ After(buffer) # <<>>

(* sscanf(...) = 2: two conversions succeed, and %1s finds nothing more.   *)
ConvertsTwo(buffer) ==
  /\ buffer # <<>>
  /\ After(buffer) # <<>>
  /\ After(After(buffer)) = <<>>

parse_vote_message(buffer) ==
  /\ ConvertsTwo(buffer)
  /\ is_valid_voter_id(VoterId(buffer))
  /\ is_valid_candidate(Candidate(buffer))

(***************************************************************************)
(* What parse_vote_message accepts, for any record: two tokens that fit,   *)
(* an alphanumeric one and a candidate, or the one token in which a        *)
(* candidate follows MaxLen alphanumerics without a blank.                 *)
(***************************************************************************)
TwoFields(buffer) ==
  /\ Len(buffer) = 2
  /\ Fits(buffer[1]) /\ buffer[1].clean
  /\ buffer[2].pad = 0
Glued(buffer) ==
  /\ Len(buffer) = 1
  /\ buffer[1].pad = MaxLen /\ buffer[1].clean /\ buffer[1].name # NoName

=============================================================================
