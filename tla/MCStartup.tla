----------------------------- MODULE MCStartup ------------------------------
(***************************************************************************)
(* Model-checking instance of Startup: the default port, the last port     *)
(* there is, one beyond it and a negative one, on machines of none to two  *)
(* cores.                                                                  *)
(***************************************************************************)
EXTENDS Startup

MCPortsAsked == {9987, 65535, 70000, -1}
=============================================================================
