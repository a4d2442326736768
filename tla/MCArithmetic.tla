------------------------------ MODULE MCArithmetic ------------------------------
(***************************************************************************)
(* The arithmetic below the curve on small instances: the field with four  *)
(* limbs of six bits and the prime 8388539 = 2^23 - 5 - 2^6, and the       *)
(* chains of powers over their real exponents.                             *)
(***************************************************************************)
EXTENDS FieldRegisters, PowerChains

Words == INSTANCE BitWords

VARIABLE steps    \* how many operations on the two field elements are still taken

allVars == <<x, y, steps, chainVars>>

MaxSteps == 4

\* The elements of a chain are exponents, so that its product adds and its square doubles: numbers
\* with 17 digits of 16 bits, the lowest first, of which the argument is 1.
Plus16(u, v) == Words!Sum(u, v, 65536)
Twice(u) == Plus16(u, u)
Argument == {[i \in 1 .. 17 |-> IF i = 1 THEN 1 ELSE 0] \o <<>>}

NoField == steps = 0 /\ x = Elem(SetInt(0), 1, TRUE) /\ y = Elem(SetInt(0), 1, TRUE)
NoChain == chain = <<>> /\ at = 1 /\ left = 0 /\ value = <<>> /\ reg = <<>>

MCInit == \/ Init /\ steps = MaxSteps /\ NoChain
          \/ NoField /\ ChainInit
FieldStep == steps > 0 /\ steps' = steps - 1 /\ Next /\ UNCHANGED chainVars
ChainStep == ChainNext /\ UNCHANGED <<x, y, steps>>

MCNext == FieldStep \/ ChainStep
MCSpec == MCInit /\ [][MCNext]_allVars
=============================================================================
