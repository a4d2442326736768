---------------------------- MODULE MsgRegistry -----------------------------
(***************************************************************************)
(* The registry of message types in net/msg.cpp: three static maps that    *)
(* every entry point of Msg fills through InitMsgType when the first of    *)
(* them is empty.  No mutex guards them, and every thread of the pool      *)
(* comes here from ClientItem::OnRead (decoding) and ClientItem::Write     *)
(* (encoding a reply).                                                     *)
(*                                                                         *)
(* A map is empty or full.  A thread that looks into a map while another   *)
(* is assigning it races on it, and so do two threads that assign it: a    *)
(* lookup then hits or misses, or the process dies.                        *)
(***************************************************************************)
EXTENDS Naturals, FiniteSets

CONSTANTS
  Threads,  \* the threads of the pool
  MaxCalls  \* bound on the frames a thread decodes

ASSUME ThreadsAssumption  == IsFiniteSet(Threads)
ASSUME MaxCallsAssumption == MaxCalls \in Nat

VARIABLES
  full,    \* the maps that hold all six types
  pc,      \* where each thread is
  calls,   \* how many frames each has decoded
  crashed, \* a race has brought the process down
  raced,   \* a thread has called InitMsgType, or looked a type up, while
           \* another was past the test of InitMsgType
  missed   \* a registered type was not found by a lookup

vars == <<full, pc, calls, crashed, raced, missed>>

(* The maps, named for the steps that fill them, and the code that calls   *)
(* InitMsgType, each with the map it then looks into.                      *)
Maps == {"string2int", "int2string", "int2func"}
Users == {"decode", "encode"}
LookedUp(user) == IF user = "decode" THEN "int2func" ELSE "string2int"

At(t) == pc[t].at
Filling(map) == {t \in Threads : At(t) = map}
Initialisers == {t \in Threads : At(t) \in {"enter"} \cup Maps}
Go(t, user, at) == pc' = [pc EXCEPT ![t] = [user |-> user, at |-> at]]

Init ==
  /\ full = {}
  /\ pc = [t \in Threads |-> [user |-> "decode", at |-> "idle"]]
  /\ calls = [t \in Threads |-> 0]
  /\ crashed = FALSE /\ raced = FALSE /\ missed = FALSE

-----------------------------------------------------------------------------
(* OnRead finds a whole frame of a registered type.                        *)
Decode(t) ==
  /\ At(t) = "idle" /\ calls[t] < MaxCalls
  /\ calls' = [calls EXCEPT ![t] = @ + 1]
  /\ Go(t, "decode", "test")
  /\ UNCHANGED <<full, crashed, raced, missed>>

(* if(msgtype_string2int_map.size())return;  The size of a map that is     *)
(* being assigned may be read as anything.                                 *)
Tests(t, empty, nonempty) ==
  /\ At(t) = "test"
  /\ \/ empty    /\ Go(t, pc[t].user, "enter")
     \/ nonempty /\ Go(t, pc[t].user, "look")
  /\ raced' = (raced \/ Initialisers # {})
  /\ UNCHANGED <<full, calls, crashed, missed>>

TestAlwaysEmpty(t) == Tests(t, TRUE, FALSE)   \* a fault: there is no test

Test(t) ==
  Tests(t, "string2int" \notin full, "string2int" \in full \/ Filling("string2int") # {})

(* An assignment first clears its map; the loop that fills int2string puts *)
(* the elements into it one by one.                                        *)
Enter(t) ==
  /\ At(t) = "enter"
  /\ Go(t, pc[t].user, "string2int")
  /\ full' = full \ {"string2int"}
  /\ UNCHANGED <<calls, crashed, raced, missed>>

(* The map is full at the end of its assignment, but int2string only if    *)
(* string2int, from which it is copied, stayed full meanwhile.             *)
FillThen(t, next) ==
  LET map == At(t) IN
  /\ map \in Maps
  /\ Go(t, pc[t].user, next[map])
  /\ \E done \in BOOLEAN :
       /\ done \/ (map = "int2string" /\ ("string2int" \notin full \/ Filling("string2int") # {}))
       /\ full' = (IF done THEN full \cup {map} ELSE full) \ ({next[map]} \cap {"int2func"})
  /\ UNCHANGED <<calls, crashed, raced, missed>>

FillSkipsFunc(t) ==              \* a fault: the third map is forgotten
  FillThen(t, [string2int |-> "int2string", int2string |-> "look", int2func |-> "look"])

Fill(t) ==
  FillThen(t, [string2int |-> "int2string", int2string |-> "int2func", int2func |-> "look"])

(* What a thread touches while another assigns it may end the process: the *)
(* map it assigns, the one it looks into or, in the second step, the one   *)
(* it copies from.                                                         *)
Touched(t) ==
  CASE At(t) = "look"       -> {LookedUp(pc[t].user)}
    [] At(t) = "int2string" -> {"int2string", "string2int"}
    [] At(t) \in Maps       -> {At(t)}
    [] OTHER                -> {}

Crash(t) ==
  /\ \E map \in Touched(t) : Filling(map) \ {t} # {}
  /\ crashed' = TRUE
  /\ UNCHANGED <<full, pc, calls, raced, missed>>

(* DecodeString2Protobuf looks the type up in int2func, and a Ping is then *)
(* answered: Write encodes, where GetMsgType calls InitMsgType once more   *)
(* and looks the name up in string2int.  A type that is not found makes    *)
(* the decoded frame vanish, the encoded one be empty.                     *)
Look(t) ==
  LET map == LookedUp(pc[t].user)
      after(user, at, hit) == Go(t, user, at) /\ missed' = (missed \/ ~hit)
  IN
  /\ At(t) = "look"
  /\ \/ map \in full /\ after("decode", "idle", TRUE)
     \/ map \in full /\ pc[t].user = "decode" /\ after("encode", "test", TRUE)
     \/ (map \notin full \/ Filling(map) # {}) /\ after("decode", "idle", FALSE)
  /\ raced' = (raced \/ Initialisers # {})
  /\ UNCHANGED <<full, calls, crashed>>

Step(t) == Test(t) \/ Enter(t) \/ Fill(t) \/ Look(t)

Next ==
  /\ ~crashed
  /\ \E t \in Threads : Decode(t) \/ Step(t) \/ Crash(t)

Spec == Init /\ [][Next]_vars

(* Every thread runs on; whether another frame comes is the peer's choice. *)
FairSpec == Spec /\ \A t \in Threads : WF_vars(~crashed /\ Step(t))

-----------------------------------------------------------------------------
(* Properties.                                                             *)

Settled == full = Maps /\ Initialisers = {}

\* The missing mutex is all that is wrong: a registered type is missed, or the
\* process dies, only when a thread came to InitMsgType or looked a type up
\* while another was filling the maps.  A first call that is over before the
\* second begins serves everyone after it.
MissOnlyByRace == missed \/ crashed => raced

\* The race is over once the maps are filled and nobody is at it: no thread
\* ever sets out to fill them again.
StaysSettled == [][Settled => Settled']_vars

\* A frame that arrived gets the registry filled for good, however many
\* threads set out to fill it, unless the race brings the process down.
Settles == (\E t \in Threads : At(t) # "idle") ~> (crashed \/ Settled)

\* msg.hpp: a frame is a length, a registered type and a content.  Every frame
\* that keeps this format is found its type, and so is every reply.
FramesRecognised == ~missed
=============================================================================
