---------------------------- MODULE MCGdbServer ----------------------------
(* Values for the constants of GdbServer.                                  *)
EXTENDS GdbServer

CONSTANTS a, b
OneAddr == {a}
TwoAddrs == {a, b}

=============================================================================
