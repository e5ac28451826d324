--------------------------- MODULE MCVotingSystem ---------------------------
(* VotingSystem on a small instance.                                       *)
EXTENDS VotingSystem, TLC

CONSTANTS c1, c2, v1, v2, a, b, r1

TwoSessions == {c1, c2}
OneVoter == {v1}
TwoVoters == {v1, v2}
OneCandidate == {a}
TwoCandidates == {a, b}
OneReceipt == {r1}

(* Sessions are interchangeable.                                           *)
SessionSymmetry == Permutations(Conn)
=============================================================================
