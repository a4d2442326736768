----------------------------- MODULE ByteStream -----------------------------
(***************************************************************************)
(* What one direction of a connection promises to its user: bytes go in at *)
(* one end, leave at the other in the order they went in and at most once, *)
(* and a stream that has died transmits nothing more.                      *)
(*                                                                         *)
(* A byte is identified with its position in the stream, so "in order and  *)
(* at most once" is a counter that never overtakes the bytes put in.       *)
(***************************************************************************)
EXTENDS Naturals

VARIABLES
  put,   \* how many bytes the user has put into the stream
  got,   \* how many of them have been transmitted
  dead   \* the stream has failed

streamVars == <<put, got, dead>>

StreamInit ==
  /\ put = 0
  /\ got = 0
  /\ dead = FALSE

\* The user appends some bytes.
PutBytes ==
  /\ put' \in Nat
  /\ put' > put
  /\ UNCHANGED dead

\* A step may also transmit, before or after the append of the same step.
Transmit ==
  /\ got' \in Nat
  /\ got' >= got
  /\ got' <= put'
  /\ dead => got' = got

StreamNext ==
  \/ PutBytes /\ Transmit
  \/ UNCHANGED <<put, dead>> /\ Transmit
  \/ dead' = TRUE /\ UNCHANGED <<put, got>>

StreamSpec == StreamInit /\ [][StreamNext]_streamVars
=============================================================================
