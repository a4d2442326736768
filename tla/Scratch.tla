-------------------------------- MODULE Scratch --------------------------------
(***************************************************************************)
(* The memory of a multiplication of many points at once                   *)
(* (src/cipher/secp256k1/scratch_impl.h, ecmult_impl.h): a scratch space   *)
(* of a given size hands out frames, a frame hands out objects in 16-byte  *)
(* steps, and the number of points taken at once is computed from what is  *)
(* left.  The batches never look whether an object was really granted.     *)
(***************************************************************************)
EXTENDS Integers, Sequences, FiniteSetsExt

CONSTANTS WNAF_BITS, WINDOW_A    \* 256 and 5

ALIGNMENT == 16
OBJECTS == 6                         \* PIPPENGER_SCRATCH_OBJECTS, STRAUSS_SCRATCH_OBJECTS
PIPPENGER_MAX_BUCKET_WINDOW == 12

\* sizeof, on a machine of 64 bits.
Sizeof == [gej |-> 124, ge |-> 84, fe |-> 40, scalar |-> 32, int |-> 4,
           strauss_point |-> 1040, pippenger_point |-> 16, pippenger |-> 16]

SumOf(s) == LET t[i \in 0 .. Len(s)] == IF i = 0 THEN 0 ELSE t[i - 1] + s[i] IN t[Len(s)]

-----------------------------------------------------------------------------
Create(max) == [max_size |-> max, frames |-> <<>>]

MaxAllocation(s, objects) ==
  LET left == s.max_size - SumOf([i \in 1 .. Len(s.frames) |-> s.frames[i].size])
  IN  IF left <= objects * ALIGNMENT THEN 0 ELSE left - objects * ALIGNMENT

AllocateFrame(s, n, objects) ==
  IF n <= MaxAllocation(s, objects)
  THEN [ok |-> TRUE, s |-> [s EXCEPT !.frames = Append(@, [size |-> n + objects * ALIGNMENT, offset |-> 0])]]
  ELSE [ok |-> FALSE, s |-> s]
DeallocateFrame(s) == [s EXCEPT !.frames = SubSeq(@, 1, Len(@) - 1)]

\* An object at the next offset of the last frame, or none.
Alloc(s, size) ==
  LET rounded == ((size + ALIGNMENT - 1) \div ALIGNMENT) * ALIGNMENT
      f == Len(s.frames)
  IN  IF f = 0 \/ rounded + s.frames[f].offset > s.frames[f].size
      THEN [ok |-> FALSE, s |-> s]
      ELSE [ok |-> TRUE, s |-> [s EXCEPT !.frames[f].offset = @ + rounded]]

-----------------------------------------------------------------------------
WNAF_SIZE(w) == (WNAF_BITS + w - 1) \div w

StraussObjects(n) ==
  LET table == n * 2^(WINDOW_A - 2)
  IN  << n * Sizeof.gej, n * Sizeof.scalar, table * Sizeof.gej, table * Sizeof.fe,
         table * Sizeof.ge, n * Sizeof.strauss_point >>
StraussScratchSize(n) ==
  n * ((Sizeof.ge + Sizeof.gej + Sizeof.fe) * 2^(WINDOW_A - 2)
       + Sizeof.strauss_point + Sizeof.gej + Sizeof.scalar)
StraussMaxPoints(s) == MaxAllocation(s, OBJECTS) \div StraussScratchSize(1)

\* The most points each window is best for; the last window has no limit.
WindowLimits == <<1, 11, 45, 100, 275, 625, 1850, 3400, 9630, 17900, 32800>>
BucketWindow(n) ==
  Min({w \in 1 .. Len(WindowLimits) : n <= WindowLimits[w]} \cup {PIPPENGER_MAX_BUCKET_WINDOW})
BucketWindowInv(w, n) == IF w <= Len(WindowLimits) /\ n > WindowLimits[w] THEN WindowLimits[w] ELSE n

PippengerObjects(n, w) ==
  LET entries == n + 1                \* the generator counts as one
  IN  << entries * Sizeof.ge, entries * Sizeof.scalar, Sizeof.pippenger,
         entries * Sizeof.pippenger_point, entries * WNAF_SIZE(w + 1) * Sizeof.int, Sizeof.gej * 2^w >>
EntrySize(w) == Sizeof.ge + Sizeof.scalar + Sizeof.pippenger_point + (WNAF_SIZE(w + 1) + 1) * Sizeof.int
\* A fault: there is no room for the generator.
PippengerScratchSizeShort(n, w) == Sizeof.gej * 2^w + Sizeof.pippenger + n * EntrySize(w)
PippengerScratchSize(n, w) == Sizeof.gej * 2^w + Sizeof.pippenger + (n + 1) * EntrySize(w)

Overhead(w) == Sizeof.gej * 2^w + EntrySize(w) + Sizeof.pippenger
\* The points that fit into max_alloc bytes, of those the window is best for.
Fitting(max_alloc, w) == BucketWindowInv(w, (max_alloc - Overhead(w)) \div EntrySize(w))

\* The windows are tried in turn, as long as the memory suffices for all points a window is best for.
PippengerMaxPoints(s) ==
  LET max_alloc == MaxAllocation(s, OBJECTS)
      loop[w \in 0 .. PIPPENGER_MAX_BUCKET_WINDOW] ==
        IF w = 0 THEN [res |-> 0, over |-> FALSE]
        ELSE LET before == loop[w - 1]
                 n == Fitting(max_alloc, w)
             IN  IF before.over \/ Overhead(w) > max_alloc THEN [res |-> before.res, over |-> TRUE]
                 ELSE [res |-> IF n > before.res THEN n ELSE before.res,
                       over |-> w > Len(WindowLimits) \/ n < WindowLimits[w]]
  IN  loop[PIPPENGER_MAX_BUCKET_WINDOW].res

\* What a batch does with its frame: allocate it, take the objects, give it back.
Granted(s, size, objects) ==
  LET frame == AllocateFrame(s, size, OBJECTS)
      taken[k \in 0 .. Len(objects)] ==
        IF k = 0 THEN [ok |-> TRUE, s |-> frame.s]
        ELSE LET before == taken[k - 1]
                 a == Alloc(before.s, objects[k])
             IN  [ok |-> before.ok /\ a.ok, s |-> a.s]
      end == taken[Len(objects)]
  IN  IF ~frame.ok THEN [frame |-> FALSE, objects |-> FALSE, s |-> s]
      ELSE [frame |-> TRUE, objects |-> end.ok, s |-> DeallocateFrame(end.s)]
StraussGranted(s, n) == Granted(s, StraussScratchSize(n), StraussObjects(n))
PippengerGranted(s, n) ==
  Granted(s, PippengerScratchSize(n, BucketWindow(n)), PippengerObjects(n, BucketWindow(n)))

\* How many batches of how many points, with at most max points in each; a batch of none is no way on.
BatchSize(max, limit, n) ==
  LET m == IF max > limit THEN limit ELSE max
      batches == 1 + (n - 1) \div m
  IN  IF m = 0 THEN [ok |-> FALSE, batches |-> 0, points |-> 0]
      ELSE IF n = 0 THEN [ok |-> TRUE, batches |-> 0, points |-> 0]
      ELSE [ok |-> TRUE, batches |-> batches, points |-> 1 + (n - 1) \div batches]
=============================================================================
