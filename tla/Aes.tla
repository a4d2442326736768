----------------------------------- MODULE Aes -----------------------------------
(***************************************************************************)
(* AES as src/cipher/aes/ctaes.c computes it: without tables, the S-box as *)
(* a circuit of gates (Boyar and Peralta) and the state cut into slices of *)
(* one bit of all sixteen bytes.  The slices only compute sixteen bytes at *)
(* once: here the state is the sixteen bytes, row by row, each a sequence  *)
(* of bits, the lowest first.                                              *)
(***************************************************************************)
EXTENDS BitWords

a ++ b == (a + b) % 2
OrGate(a, b) == a + b - a * b

\* Linear preprocessing: the 28 inputs of the shared gates.
Preprocess(u) ==
  LET T1 == u[0] ++ u[3]   T2 == u[0] ++ u[5]   T3 == u[0] ++ u[6]   T4 == u[3] ++ u[5]
      T5 == u[4] ++ u[6]   T6 == T1 ++ T5   T7 == u[1] ++ u[2]   T8 == u[7] ++ T6
      T9 == u[7] ++ T7   T10 == T6 ++ T7   T11 == u[1] ++ u[5]   T12 == u[2] ++ u[5]
      T13 == T3 ++ T4   T14 == T6 ++ T11   T15 == T5 ++ T11   T16 == T5 ++ T12
      T17 == T9 ++ T16   T18 == u[3] ++ u[7]   T19 == T7 ++ T18   T20 == T1 ++ T19
      T21 == u[6] ++ u[7]   T22 == T7 ++ T21   T23 == T2 ++ T22   T24 == T2 ++ T10
      T25 == T20 ++ T17   T26 == T3 ++ T16   T27 == T1 ++ T12   D == u[7]
  IN  << T1, T2, T3, T4, T5, T6, T7, T8, T9, T10, T11, T12, T13, T14, T15, T16, T17, T18, T19,
         T20, T21, T22, T23, T24, T25, T26, T27, D >>

\* The same inputs for the inverse box: undo the linear postprocessing.
UndoPostprocess(u) ==
  LET T23 == u[0] ++ u[3]   T22 == 1 ++ u[1] ++ u[3]   T2 == 1 ++ u[0] ++ u[1]
      T1 == u[3] ++ u[4]   T24 == 1 ++ u[4] ++ u[7]   R5 == u[6] ++ u[7]
      T8 == 1 ++ u[1] ++ T23   T19 == T22 ++ R5   T9 == 1 ++ u[7] ++ T1   T10 == T2 ++ T24
      T13 == T2 ++ R5   T3 == T1 ++ R5   T25 == 1 ++ u[2] ++ T1   R13 == u[1] ++ u[6]
      T17 == 1 ++ u[2] ++ T19   T20 == T24 ++ R13   T4 == u[4] ++ T8
      R17 == 1 ++ u[2] ++ u[5]   R18 == 1 ++ u[5] ++ u[6]   R19 == 1 ++ u[2] ++ u[4]
      D == u[0] ++ R17   T6 == T22 ++ R17   T16 == R13 ++ R19   T27 == T1 ++ R18
      T15 == T10 ++ T27   T14 == T10 ++ R18   T26 == T3 ++ T16
  IN  << T1, T2, T3, T4, 0, T6, 0, T8, T9, T10, 0, 0, T13, T14, T15, T16, T17, 0, T19, T20, 0,
         T22, T23, T24, T25, T26, T27, D >>

\* The non-linear part, an inversion in the field of 256 elements, shared by both boxes.
Nonlinear(t) ==
  LET M1 == t[13] * t[6]   M6 == t[3] * t[16]   M11 == t[1] * t[15]
      M13 == (t[4] * t[27]) ++ M11   M15 == (t[2] * t[10]) ++ M11
      M20 == t[14] ++ M1 ++ (t[23] * t[8]) ++ M13
      M21 == (t[19] * t[28]) ++ M1 ++ t[24] ++ M15
      M22 == t[26] ++ M6 ++ (t[22] * t[9]) ++ M13
      M23 == (t[20] * t[17]) ++ M6 ++ M15 ++ t[25]   M25 == M22 * M20
      M37 == M21 ++ ((M20 ++ M21) * (M23 ++ M25))
      M38 == M20 ++ M25 ++ OrGate(M21, M20 * M23)
      M39 == M23 ++ ((M22 ++ M23) * (M21 ++ M25))
      M40 == M22 ++ M25 ++ OrGate(M23, M21 * M22)   M41 == M38 ++ M40   M42 == M37 ++ M39
      M43 == M37 ++ M38   M44 == M39 ++ M40   M45 == M42 ++ M41   M46 == M44 * t[6]
      M47 == M40 * t[8]   M48 == M39 * t[28]   M49 == M43 * t[16]   M50 == M38 * t[9]
      M51 == M37 * t[17]   M52 == M42 * t[15]   M53 == M45 * t[27]   M54 == M41 * t[10]
      M55 == M44 * t[13]   M56 == M40 * t[23]   M57 == M39 * t[19]   M58 == M43 * t[3]
      M59 == M38 * t[22]   M60 == M37 * t[20]   M61 == M42 * t[1]   M62 == M45 * t[4]
      M63 == M41 * t[2]
  IN  << M46, M47, M48, M49, M50, M51, M52, M53, M54, M55, M56, M57, M58, M59, M60, M61, M62,
         M63 >>

\* Linear postprocessing; the constant of the box is in the four complements.
Postprocess(m) ==
  LET L0 == m[16] ++ m[17]   L1 == m[5] ++ m[11]   L2 == m[1] ++ m[3]   L3 == m[2] ++ m[10]
      L4 == m[9] ++ m[13]   L5 == m[4] ++ m[16]   L6 == m[17] ++ L5   L7 == m[1] ++ L3
      L8 == m[6] ++ m[14]   L9 == m[7] ++ m[8]   L10 == m[8] ++ L4   L11 == m[15] ++ L2
      L12 == m[3] ++ m[6]   L13 == m[5] ++ L0   L14 == m[7] ++ m[16]   L15 == m[10] ++ L1
      L16 == m[11] ++ L0   L17 == m[12] ++ L1   L18 == m[13] ++ L8   L19 == m[18] ++ L4
      L20 == L0 ++ L1   L21 == L1 ++ L7   L22 == L3 ++ L12   L23 == L18 ++ L2
      L24 == L15 ++ L9   L25 == L6 ++ L10   L26 == L7 ++ L9   L27 == L8 ++ L10
      L28 == L11 ++ L14   L29 == L11 ++ L17
  IN  << 1 ++ L6 ++ L23, 1 ++ L13 ++ L27, L25 ++ L29, L20 ++ L22,
         L6 ++ L21, 1 ++ L19 ++ L28, 1 ++ L16 ++ L26, L6 ++ L24 >>

\* The output of the inverse box: undo the linear preprocessing.
UndoPreprocess(m) ==
  LET P0 == m[7] ++ m[16]   P1 == m[13] ++ m[14]   P2 == m[9] ++ m[17]   P3 == m[2] ++ m[5]
      P4 == m[3] ++ m[11]   P5 == m[1] ++ m[6]   P6 == m[4] ++ m[15]   P7 == P0 ++ P1
      P8 == m[5] ++ m[8]   P9 == m[10] ++ m[18]   P10 == m[12] ++ P4   P11 == P0 ++ P3
      P12 == m[1] ++ m[3]   P13 == m[4] ++ m[6]   P14 == m[4] ++ m[17]   P15 == m[9] ++ m[14]
      P16 == m[12] ++ m[16]   P17 == m[13] ++ P2   P18 == m[18] ++ P5   P19 == P2 ++ P3
      P20 == P4 ++ P6   P22 == P2 ++ P7   P23 == P7 ++ P8   P24 == P5 ++ P7
      P25 == P6 ++ P10   P26 == P9 ++ P11   P27 == P10 ++ P18   P28 == P11 ++ P25
      P29 == P15 ++ P20
  IN  << P9 ++ P16, P14 ++ P23, P19 ++ P24, P23 ++ P27,
         P12 ++ P22, P17 ++ P28, P26 ++ P29, P13 ++ P22 >>

\* The slices are numbered from the lowest bit, the inputs of the circuit from the highest.
Inputs(byte) == [i \in 0 .. 7 |-> byte[8 - i]]
SubByte(byte) == Postprocess(Nonlinear(Preprocess(Inputs(byte))))
InvSubByte(byte) == UndoPreprocess(Nonlinear(UndoPostprocess(Inputs(byte))))

SubBytes(s) == [k \in 1 .. Len(s) |-> SubByte(s[k])] \o <<>>
InvSubBytes(s) == [k \in 1 .. Len(s) |-> InvSubByte(s[k])] \o <<>>

-----------------------------------------------------------------------------
\* The cell of row r and column c is number 4r + c + 1.
Row(k) == (k - 1) \div 4
Shifted(s, n) == [k \in 1 .. 16 |-> s[4 * Row(k) + ((k - 1 + n * Row(k)) % 4) + 1]] \o <<>>
ShiftRows(s) == Shifted(s, 1)
InvShiftRows(s) == Shifted(s, 3)

\* ROT: every row takes the place of the one b above it.
Rot(s, b) == Rotr(s, 4 * b)
XorCells(s, t) == [k \in 1 .. Len(s) |-> Xor(s[k], t[k])] \o <<>>

\* A byte times x, modulo x^8 + x^4 + x^3 + x + 1.
MultX(b) == << b[8], b[1] ++ b[8], b[2], b[3] ++ b[8], b[4] ++ b[8], b[5], b[6], b[7] >>
MultAll(s) == [k \in 1 .. Len(s) |-> MultX(s[k])] \o <<>>

\* Each column times {03}x^3 + x^2 + x + {02}: (x^3 + x^2 + x) + {02}(x^3 + 1).
MixForward(s) ==
  LET s01 == XorCells(s, Rot(s, 1))
  IN  XorCells(MultAll(s01), XorCells(Rot(s01, 1), Rot(s, 3)))
\* The inverse polynomial is the same one times {04}x^2 + {05}.
MixColumns(s, inv) ==
  LET m == MixForward(s)
  IN  IF inv THEN XorCells(m, MultAll(MultAll(XorCells(m, Rot(m, 2))))) ELSE m

-----------------------------------------------------------------------------
Byte0 == Zeros(8)

\* The columns of all round keys: a word of the key, or the one before it transformed
\* every nkeywords words (and substituted half way, with a key of eight words) and mixed
\* with the word nkeywords earlier.
Setup(key, nkeywords, nrounds) ==
  LET grow[w \in Seq(Seq(Seq({0, 1}))), rcon \in Seq({0, 1})] ==
        LET i == Len(w)
            pos == i % nkeywords
            rotated == LET c == SubBytes(w[i]) IN <<Xor(c[2], rcon), c[3], c[4], c[1]>>
            column == IF pos = 0 THEN rotated
                      ELSE IF nkeywords > 6 /\ pos = 4 THEN SubBytes(w[i]) ELSE w[i]
        IN  IF i = 4 * (nrounds + 1) THEN w
            ELSE grow[Append(w, XorCells(column, w[i + 1 - nkeywords])),
                      IF pos = 0 THEN MultX(rcon) ELSE rcon]
  IN  grow[[i \in 1 .. nkeywords |-> [r \in 1 .. 4 |-> Bits(key[4 * i - 4 + r], 8)] \o <<>>] \o <<>>,
           Bits(1, 8)]

\* Column c of round key n; the bytes of a block fill the columns one after the other.
RoundKey(w, n) == [k \in 1 .. 16 |-> w[4 * n + ((k - 1) % 4) + 1][Row(k) + 1]] \o <<>>
LoadBytes(data) == [k \in 1 .. 16 |-> Bits(data[4 * ((k - 1) % 4) + Row(k) + 1], 8)] \o <<>>
SaveBytes(s) == [k \in 1 .. 16 |-> Number(s[4 * ((k - 1) % 4) + Row(k) + 1])] \o <<>>
AddRoundKey(s, w, n) == XorCells(s, RoundKey(w, n))

Cells == Seq(Seq({0, 1}))

Encrypt(w, nrounds, plain) ==
  LET run[s \in Cells, n \in 1 .. nrounds] ==
        LET shifted == ShiftRows(SubBytes(s))
        IN  IF n = nrounds THEN AddRoundKey(shifted, w, n)
            ELSE run[AddRoundKey(MixColumns(shifted, FALSE), w, n), n + 1]
  IN  SaveBytes(run[AddRoundKey(LoadBytes(plain), w, 0), 1])

Decrypt(w, nrounds, cipher) ==
  LET run[s \in Cells, n \in 0 .. nrounds] ==
        LET added == AddRoundKey(InvSubBytes(InvShiftRows(s)), w, n)
        IN  IF n = 0 THEN added ELSE run[MixColumns(added, TRUE), n - 1]
  IN  SaveBytes(run[AddRoundKey(LoadBytes(cipher), w, nrounds), nrounds - 1])

\* The three key lengths; the server uses the longest.
AES128(key) == Setup(key, 4, 10)
AES192(key) == Setup(key, 6, 12)
AES256(key) == Setup(key, 8, 14)
=============================================================================
