------------------------------ MODULE Election ------------------------------
(***************************************************************************)
(* What the voting system promises, with no server, thread or connection   *)
(* in it: each registered voter casts at most one ballot, a ballot never   *)
(* changes, and a confirmation is given only for a ballot that was cast.   *)
(***************************************************************************)
CONSTANTS Eleitores, Candidates, NoVote

VARIABLES ballot,     \* ballot[v]: the candidate v voted for, or NoVote
          confirmed   \* the voters that were sent an ACK

vars == <<ballot, confirmed>>

Init == /\ ballot = [v \in Eleitores |-> NoVote]
        /\ confirmed = {}

(* Voter v's ballot enters the box.                                        *)
Cast(v, c) == /\ ballot[v] = NoVote
              /\ ballot' = [ballot EXCEPT ![v] = c]
              /\ UNCHANGED confirmed

(* Voter v is told that the ballot counts.                                 *)
Confirm(v) == /\ ballot[v] # NoVote
              /\ v \notin confirmed
              /\ confirmed' = confirmed \cup {v}
              /\ UNCHANGED ballot

Next == \E v \in Eleitores : Confirm(v) \/ \E c \in Candidates : Cast(v, c)

Spec == Init /\ [][Next]_vars

=============================================================================
