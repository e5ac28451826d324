---------------------------- MODULE MCRateLimit ----------------------------
(* RateLimit with more addresses than entries.                             *)
EXTENDS RateLimit, TLC

CONSTANTS ip1, ip2, ip3

ThreeIPs == {ip1, ip2, ip3}

(* Addresses are only compared with one another.                           *)
IPSymmetry == Permutations(IPs)
=============================================================================
