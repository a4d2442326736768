--------------------------- MODULE MCFrameReader ----------------------------
(***************************************************************************)
(* Model-checking instance of FrameReader: every stream of at most         *)
(* MaxFrames frames out of six kinds, cut into reads in every way.         *)
(***************************************************************************)
EXTENDS FrameReader, SequencesExt

CONSTANTS MaxFrames   \* bound on the frames of a script

\* ParseFromString on the contents below: a varint field, no field, and a
\* field without its value.  No other content that can come up parses: it
\* would start with the tag of field number 0.
MCParses(type, content) == content \in {<<>>, <<8, 1>>}

Kinds ==
  { Encode(1, <<>>),      \* a Ping with all fields at their defaults
    Encode(3, <<8, 1>>),  \* a LoginRequest with a field
    Framed(7, <<8, 1>>),  \* a type nobody registered
    Framed(0, <<>>),      \* the type that stands for none: Encode never writes it
    Framed(2, <<8>>),     \* a content that does not parse
    <<0, 0, 0, 0>> }      \* a length that does not cover the type

EndsOf(frames) ==
  [k \in 1 .. Len(frames) |-> Len(FlattenSeq(SubSeq(frames, 1, k)))]

MCScripts ==
  { [bytes |-> FlattenSeq(frames), ends |-> EndsOf(frames)] :
      frames \in UNION { [1 .. n -> Kinds] : n \in 1 .. MaxFrames } }
=============================================================================
