--------------------------- MODULE MCVotingServer ---------------------------
(* VotingServer on a small instance.                                       *)
EXTENDS VotingServer, TLC

CONSTANTS c1, c2, c3, v1, v2, a, b, r1, r2

TwoConns == {c1, c2}
ThreeConns == {c1, c2, c3}
OneVoter == {v1}
TwoVoters == {v1, v2}
OneCandidate == {a}
TwoCandidates == {a, b}
OneReceipt == {r1}
TwoReceipts == {r1, r2}

(* Connections are interchangeable; so are receipts.                       *)
ConnSymmetry == Permutations(Conn) \cup Permutations(Receipts)
=============================================================================
