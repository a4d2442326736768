------------------------------ MODULE MCPrimitives ------------------------------
(***************************************************************************)
(* What signing stands on besides the field: scalars with four limbs of    *)
(* three bits modulo 4011 = 2^12 - 85, and the hashes and the cipher.      *)
(***************************************************************************)
EXTENDS ScalarRegisters, MCDigests

VARIABLE steps   \* how many operations on the two scalars are still taken

allVars == <<x, y, steps, digestVars>>

MaxSteps == 2

\* The order is 2^12 minus the number with limbs 5, 2 and 1.
MCNC(i) == <<5, 2, 1>>[i + 1]

NoScalars == steps = 0 /\ x = Clear /\ y = Clear

\* A behaviour is about one of the two: with this task nothing is fed and nothing asked.
ScalarTask == <<"scalars", 0>>

MCInit == \/ Init /\ steps = MaxSteps /\ Idle /\ task = ScalarTask
          \/ NoScalars /\ DigestInit
ScalarStep == steps > 0 /\ steps' = steps - 1 /\ Next /\ UNCHANGED digestVars
DigestStep == steps = 0 /\ DigestNext /\ UNCHANGED <<x, y, steps>>

MCNext == ScalarStep \/ DigestStep
MCSpec == MCInit /\ [][MCNext]_allVars
=============================================================================
