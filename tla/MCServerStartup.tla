--------------------------- MODULE MCServerStartup ---------------------------
(* ServerStartup on a small instance.                                      *)
EXTENDS ServerStartup

ThreeSeeds == <<"101", "102", "20231IREINFINT0040">>
=============================================================================
