------------------------------ MODULE PowerChains ------------------------------
(***************************************************************************)
(* The inverse and the square root in the field (field_impl.h) and the     *)
(* inverse modulo the group order (scalar_impl.h), in                      *)
(* src/cipher/secp256k1, are powers with fixed exponents of 256 bits, each *)
(* computed by a chain of squarings and products written out by hand.  A   *)
(* chain is a list of instructions <<to, from, n, by>>: register from is   *)
(* squared n times, multiplied with register by, and kept in to.  The      *)
(* chains run over any set of elements with a square and a product.        *)
(***************************************************************************)
EXTENDS Integers, Sequences

CONSTANTS Arguments, Squared(_), Product(_, _)

VARIABLES
  chain,   \* the instructions
  at,      \* the one that is being done
  left,    \* how many squarings it still needs
  value,       \* the value being squared
  reg      \* the registers: x is the argument, r the result, xN stands for x^(2^N - 1), uN for x^N

chainVars == <<chain, at, left, value, reg>>

\* What the arguments must be elements of, and what the two operations must do on those.
PowerLaw(Elements) ==
  /\ Arguments \subseteq Elements
  /\ \A u, v \in Elements : Product(u, v) \in Elements
  /\ \A u, v, w \in Elements : Product(Product(u, v), w) = Product(u, Product(v, w))
  /\ \A u \in Elements : Squared(u) = Product(u, u)

\* What field_inv and field_sqrt share: the blocks of ones of both exponents.
Ones == << <<"x2", "x", 1, "x">>,       <<"x3", "x2", 1, "x">>,      <<"x6", "x3", 3, "x3">>,
           <<"x9", "x6", 3, "x3">>,     <<"x11", "x9", 2, "x2">>,    <<"x22", "x11", 11, "x11">>,
           <<"x44", "x22", 22, "x22">>, <<"x88", "x44", 44, "x44">>, <<"x176", "x88", 88, "x88">>,
           <<"x220", "x176", 44, "x44">>, <<"x223", "x220", 3, "x3">>,
           <<"t", "x223", 23, "x22">> >>

\* A candidate for the root, and its square, which must be x for the root to exist.
\* A fault in the pattern below is one squaring too few.
SqrtChainShort == Ones \o << <<"t", "t", 5, "x2">>, <<"r", "t", 2, "none">>, <<"check", "r", 1, "none">> >>
SqrtChain == Ones \o << <<"t", "t", 6, "x2">>, <<"r", "t", 2, "none">>, <<"check", "r", 1, "none">> >>

InverseChain == Ones \o << <<"t", "t", 5, "x">>, <<"t", "t", 3, "x2">>, <<"r", "t", 2, "x">> >>

\* The lower half of the exponent has no pattern: windows of up to ten squarings.
Windows == << <<3, "u5">>, <<4, "x3">>, <<4, "u5">>, <<5, "u11">>, <<4, "u11">>, <<4, "x3">>,
              <<5, "x3">>, <<6, "u13">>, <<4, "u5">>, <<3, "x3">>, <<5, "u9">>, <<6, "u5">>,
              <<10, "x3">>, <<4, "x3">>, <<9, "x8">>, <<5, "u9">>, <<6, "u11">>, <<4, "u13">>,
              <<5, "x2">>, <<6, "u13">>, <<10, "u13">>, <<4, "u9">>, <<6, "x">>, <<8, "x6">> >>

ScalarInverseChain ==
  << <<"u2", "x", 1, "none">>,  <<"x2", "u2", 0, "x">>,   <<"u5", "u2", 0, "x2">>,
     <<"x3", "u5", 0, "u2">>,   <<"u9", "x3", 0, "u2">>,  <<"u11", "u9", 0, "u2">>,
     <<"u13", "u11", 0, "u2">>, <<"x6", "u13", 2, "u11">>, <<"x8", "x6", 2, "x2">>,
     <<"x14", "x8", 6, "x6">>,  <<"x28", "x14", 14, "x14">>, <<"x56", "x28", 28, "x28">>,
     <<"x112", "x56", 56, "x56">>, <<"r", "x112", 14, "x14">> >>
  \o [k \in 1 .. Len(Windows) |-> <<"r", "r", Windows[k][1], Windows[k][2]>>]

Chains == {SqrtChain, InverseChain, ScalarInverseChain}
Names(c) == {"x"} \cup {c[k][1] : k \in 1 .. Len(c)}

-----------------------------------------------------------------------------
Start(c, x) ==
  /\ chain = c /\ at = 1 /\ left = c[1][3] /\ value = x
  /\ reg = [n \in Names(c) |-> IF n = "x" THEN x ELSE <<>>]
ChainInit == \E c \in Chains, x \in Arguments : Start(c, x)

Square == /\ at <= Len(chain) /\ left > 0
          /\ value' = Squared(value) /\ left' = left - 1
          /\ UNCHANGED <<chain, at, reg>>

\* The product that ends an instruction; the next one loads its register.
Store ==
  /\ at <= Len(chain) /\ left = 0
  /\ LET i == chain[at]
         v == IF i[4] = "none" THEN value ELSE Product(value, reg[i[4]])
     IN  /\ reg' = [reg EXCEPT ![i[1]] = v]
         /\ at' = at + 1 /\ chain' = chain
         /\ IF at = Len(chain) THEN left' = 0 /\ value' = v
            ELSE left' = chain[at + 1][3] /\ value' = reg'[chain[at + 1][2]]

ChainNext == Square \/ Store
ChainSpec == ChainInit /\ [][ChainNext]_chainVars

-----------------------------------------------------------------------------
\* A power, the exponent given by its hexadecimal digits from the highest, of which the first is not 0:
\* four squarings for each digit, and a product with the power for it.
Power(x, digits) ==
  LET small[d \in 1 .. 15] == IF d = 1 THEN x ELSE Product(small[d - 1], x)
      p[k \in 1 .. Len(digits)] ==
        IF k = 1 THEN small[digits[1]]
        ELSE LET v == Squared(Squared(Squared(Squared(p[k - 1]))))
             IN  IF digits[k] = 0 THEN v ELSE Product(v, small[digits[k]])
  IN  p[Len(digits)]

\* The exponents, for the prime p = 2^256 - 2^32 - 977 and the order n: p - 2, (p + 1) / 4, n - 2.
InverseDigits == [k \in 1 .. 55 |-> 15] \o <<14, 15, 15, 15, 15, 15, 12, 2, 13>>
SqrtDigits == [k \in 1 .. 56 |-> IF k = 1 THEN 3 ELSE 15] \o <<11, 15, 15, 15, 15, 15, 0, 12>>
ScalarInverseDigits ==
  [k \in 1 .. 31 |-> 15] \o
  <<14, 11, 10, 10, 14, 13, 12, 14, 6,  10, 15, 4, 8, 10, 0, 3, 11,
        11, 15, 13, 2, 5, 14, 8, 12,    13, 0, 3, 6, 4, 1, 3, 15>>

\* Each chain ends with the power it is for, of whatever the argument is, and the square root
\* with the square that the argument is compared with.
ChainsExact ==
  at > Len(chain) =>
    /\ chain = InverseChain => reg["r"] = Power(reg["x"], InverseDigits)
    /\ chain = SqrtChain => /\ reg["r"] = Power(reg["x"], SqrtDigits)
                            /\ reg["check"] = Squared(reg["r"])
    /\ chain = ScalarInverseChain => reg["r"] = Power(reg["x"], ScalarInverseDigits)
=============================================================================
