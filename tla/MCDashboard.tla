----------------------------- MODULE MCDashboard -----------------------------
(* Dashboard on a small instance.                                          *)
EXTENDS Dashboard

CONSTANTS c1, c2, v1, v2, a, b, r1, other, long, long24

OneConn == {c1}
TwoConns == {c1, c2}
TwoVoters == {v1, v2}
TwoCandidates == {a, b}
OneCandidate == {a}
OneReceipt == {r1}

(* Two that fit in the entry, and one of which long24 is what fits.        *)
ThreePasswords == {other, long24, long}
FirstColumns == [p \in ThreePasswords |-> IF p = long THEN long24 ELSE p]
=============================================================================
