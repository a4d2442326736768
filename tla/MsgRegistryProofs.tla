------------------------- MODULE MsgRegistryProofs --------------------------
(***************************************************************************)
(* Proofs about MsgRegistry, for any number of threads and of frames.      *)
(***************************************************************************)
EXTENDS MsgRegistry, TLAPS

Places == {"idle", "test", "enter", "look"} \cup Maps

TypeOK ==
  /\ full \in SUBSET Maps
  /\ pc \in [Threads -> [user : Users, at : Places]]
  /\ calls \in [Threads -> Nat]
  /\ crashed \in BOOLEAN /\ raced \in BOOLEAN /\ missed \in BOOLEAN

(* MissOnlyByRace is not inductive: what has to be known is how a run      *)
(* without a race goes.  Then at most one thread is past the test, the     *)
(* maps are those it has filled so far, nobody looks a type up before it   *)
(* is done, and before and after it the registry is empty or full.         *)

\* The maps that are full while a single thread is at one of its steps.
FilledAt == [enter |-> {}, string2int |-> {}, int2string |-> {"string2int"},
             int2func |-> {"string2int", "int2string"}]

Alone(t) == \A u \in Threads \ {t} : At(u) \in {"idle", "test"}

Sequential ==
  /\ \A t \in Initialisers : full = FilledAt[At(t)] /\ Alone(t)
  /\ Initialisers = {} => full \in {{}, Maps}
  /\ \A t \in Threads : At(t) = "look" => Settled

IInv == TypeOK /\ (raced \/ Sequential) /\ MissOnlyByRace

-----------------------------------------------------------------------------
LEMMA InitIInv == Init => IInv
<1> SUFFICES ASSUME Init PROVE IInv
  OBVIOUS
<1>1. \A t \in Threads : pc[t] = [user |-> "decode", at |-> "idle"] /\ At(t) = "idle"
  BY DEF Init, At
<1>2. TypeOK
  BY DEF Init, TypeOK, Places, Maps, Users
<1>3. Initialisers = {}
  BY <1>1 DEF Initialisers, Maps
<1> QED
  BY <1>1, <1>2, <1>3 DEF Init, IInv, Sequential, MissOnlyByRace

(* A thread moves, and the others stay where they are.                     *)
LEMMA GoMoves ==
  ASSUME TypeOK, NEW t \in Threads, NEW user \in Users, NEW at \in Places, Go(t, user, at)
  PROVE  /\ pc' \in [Threads -> [user : Users, at : Places]]
         /\ At(t)' = at
         /\ \A u \in Threads \ {t} : At(u)' = At(u)
BY DEF TypeOK, Go, At

LEMMA PcType ==
  ASSUME TypeOK, NEW t \in Threads
  PROVE  pc[t].user \in Users /\ At(t) \in Places
BY DEF TypeOK, At

LEMMA DecodeIInv ==
  ASSUME IInv, NEW t \in Threads, Decode(t)
  PROVE  IInv'
<1>0. TypeOK
  BY DEF IInv
<1>1. /\ pc' \in [Threads -> [user : Users, at : Places]]
      /\ At(t)' = "test" /\ \A u \in Threads \ {t} : At(u)' = At(u)
  BY <1>0, GoMoves DEF Decode, Users, Places
<1>2. TypeOK'
  BY <1>0, <1>1 DEF Decode, TypeOK
<1>3. At(t) = "idle" /\ UNCHANGED <<full, crashed, raced, missed>>
  BY DEF Decode
<1>4. Initialisers' = Initialisers
  BY <1>1, <1>3 DEF Initialisers, Maps
<1>5. ASSUME Sequential PROVE Sequential'
  <2>1. \A v \in Initialisers : v # t /\ At(v)' = At(v)
    BY <1>1, <1>3 DEF Initialisers, Maps
  <2>2. \A v \in Initialisers : Alone(v)'
    BY <1>1, <1>5 DEF Sequential, Alone
  <2>3. \A v \in Initialisers' : (full = FilledAt[At(v)] /\ Alone(v))'
    BY <1>3, <1>4, <1>5, <2>1, <2>2 DEF Sequential, FilledAt
  <2>4. \A u \in Threads : At(u)' = "look" => Settled'
    BY <1>1, <1>3, <1>4, <1>5 DEF Sequential, Settled
  <2> QED BY <1>3, <1>4, <1>5, <2>3, <2>4 DEF Sequential
<1> QED BY <1>2, <1>3, <1>5 DEF IInv, MissOnlyByRace

LEMMA TestIInv ==
  ASSUME IInv, NEW t \in Threads, Test(t)
  PROVE  IInv'
<1>0. TypeOK /\ pc[t].user \in Users
  BY PcType DEF IInv
<1>1. PICK at \in {"enter", "look"} :
        /\ Go(t, pc[t].user, at)
        /\ at = "enter" => "string2int" \notin full
        /\ at = "look" => "string2int" \in full \/ Filling("string2int") # {}
  BY DEF Test, Tests
<1>2. /\ pc' \in [Threads -> [user : Users, at : Places]]
      /\ At(t)' = at /\ \A u \in Threads \ {t} : At(u)' = At(u)
  BY <1>0, <1>1, GoMoves DEF Places
<1>3. /\ At(t) = "test" /\ raced' = (raced \/ Initialisers # {})
      /\ UNCHANGED <<full, calls, crashed, missed>>
  BY DEF Test, Tests
<1>4. TypeOK'
  BY <1>0, <1>2, <1>3 DEF TypeOK
<1>5. ASSUME ~raced' PROVE Sequential'
  <2>1. Sequential /\ Initialisers = {} /\ Filling("string2int") = {}
    BY <1>0, <1>3, <1>5 DEF IInv, TypeOK, Initialisers, Filling, Maps
  <2>2. full \in {{}, Maps}
    BY <2>1 DEF Sequential
  <2>3. \A u \in Threads \ {t} : At(u)' \in Places \ ({"enter"} \cup Maps)
    BY <1>0, <1>2, <2>1, PcType DEF Initialisers
  <2>4. CASE at = "enter"
    <3>1. full = {}
      BY <1>1, <2>2, <2>4 DEF Maps
    <3>2. \A u \in Threads : At(u) # "look"
      BY <2>1, <3>1 DEF Sequential, Settled, Maps
    <3>3. Initialisers' = {t}
      BY <1>2, <2>3, <2>4 DEF Initialisers
    <3>4. \A u \in Threads \ {t} : At(u)' \in {"idle", "test"}
      BY <1>2, <2>3, <3>2 DEF Places
    <3> QED BY <1>2, <1>3, <2>4, <3>1, <3>3, <3>4 DEF Sequential, Alone, FilledAt
  <2>5. CASE at = "look"
    <3>1. full = Maps
      BY <1>1, <2>1, <2>2, <2>5
    <3>2. Initialisers' = {}
      BY <1>2, <2>3, <2>5 DEF Initialisers, Maps
    <3> QED BY <1>3, <3>1, <3>2 DEF Sequential, Settled
  <2> QED BY <2>4, <2>5
<1>6. MissOnlyByRace'
  BY <1>3 DEF IInv, MissOnlyByRace
<1> QED BY <1>4, <1>5, <1>6 DEF IInv

LEMMA EnterIInv ==
  ASSUME IInv, NEW t \in Threads, Enter(t)
  PROVE  IInv'
<1>0. TypeOK /\ pc[t].user \in Users
  BY PcType DEF IInv
<1>1. /\ pc' \in [Threads -> [user : Users, at : Places]]
      /\ At(t)' = "string2int" /\ \A u \in Threads \ {t} : At(u)' = At(u)
  BY <1>0, GoMoves DEF Enter, Places, Maps
<1>2. /\ At(t) = "enter" /\ full' = full \ {"string2int"}
      /\ UNCHANGED <<calls, crashed, raced, missed>>
  BY DEF Enter
<1>3. TypeOK'
  BY <1>0, <1>1, <1>2 DEF TypeOK
<1>4. ASSUME Sequential PROVE Sequential'
  <2>1. t \in Initialisers /\ full = {} /\ Alone(t)
    BY <1>2, <1>4 DEF Sequential, Initialisers, FilledAt
  <2>2. Initialisers' = {t} /\ full' = {} /\ Alone(t)'
    BY <1>1, <1>2, <2>1 DEF Initialisers, Alone, Maps
  <2> QED BY <1>1, <2>2 DEF Sequential, Alone, FilledAt
<1> QED BY <1>2, <1>3, <1>4 DEF IInv, MissOnlyByRace

LEMMA FillIInv ==
  ASSUME IInv, NEW t \in Threads, Fill(t)
  PROVE  IInv'
<1> DEFINE next == [string2int |-> "int2string", int2string |-> "int2func", int2func |-> "look"]
<1>0. TypeOK /\ pc[t].user \in Users
  BY PcType DEF IInv
<1>1. /\ At(t) \in Maps
      /\ Go(t, pc[t].user, next[At(t)])
      /\ UNCHANGED <<calls, crashed, raced, missed>>
  BY DEF Fill, FillThen
<1>2. PICK done \in BOOLEAN :
        /\ done \/ (At(t) = "int2string"
                      /\ ("string2int" \notin full \/ Filling("string2int") # {}))
        /\ full' = (IF done THEN full \cup {At(t)} ELSE full)
                     \ ({next[At(t)]} \cap {"int2func"})
  BY DEF Fill, FillThen
<1>3. next[At(t)] \in Places /\ next[At(t)] \in {"int2string", "int2func", "look"}
  BY <1>1 DEF Places, Maps
<1> HIDE DEF next
<1>4. /\ pc' \in [Threads -> [user : Users, at : Places]]
      /\ At(t)' = next[At(t)] /\ \A u \in Threads \ {t} : At(u)' = At(u)
  BY <1>0, <1>1, <1>3, GoMoves
<1>5. TypeOK'
  BY <1>0, <1>1, <1>2, <1>4 DEF TypeOK
<1>6. ASSUME Sequential PROVE Sequential'
  <2>1. t \in Initialisers /\ full = FilledAt[At(t)] /\ Alone(t)
    BY <1>1, <1>6 DEF Sequential, Initialisers
  <2>2. At(t) = "int2string" => "string2int" \in full /\ Filling("string2int") = {}
    BY <2>1 DEF FilledAt, Filling, Alone
  <2>3. full' = (full \cup {At(t)}) \ ({next[At(t)]} \cap {"int2func"})
    BY <1>2, <2>2
  <2>4. Alone(t)'
    BY <1>4, <2>1 DEF Alone
  <2>5. CASE At(t) \in {"string2int", "int2string"}
    <3>1. At(t)' \in Maps /\ full' = FilledAt[At(t)']
      BY <1>4, <2>1, <2>3, <2>5 DEF next, FilledAt, Maps
    <3>2. Initialisers' = {t}
      BY <2>4, <3>1 DEF Initialisers, Alone, Maps
    <3> QED BY <2>4, <3>1, <3>2 DEF Sequential, Alone, Maps
  <2>6. CASE At(t) = "int2func"
    <3>1. At(t)' = "look" /\ full' = Maps
      BY <1>4, <2>1, <2>3, <2>6 DEF next, FilledAt, Maps
    <3>2. Initialisers' = {}
      BY <2>4, <3>1 DEF Initialisers, Alone, Maps
    <3> QED BY <3>1, <3>2 DEF Sequential, Settled
  <2> QED BY <1>1, <2>5, <2>6 DEF Maps
<1> QED BY <1>1, <1>5, <1>6 DEF IInv, MissOnlyByRace

LEMMA LookIInv ==
  ASSUME IInv, NEW t \in Threads, Look(t)
  PROVE  IInv'
<1>0. TypeOK /\ pc[t].user \in Users
  BY PcType DEF IInv
<1>1. PICK user \in Users, at \in {"idle", "test"}, hit \in BOOLEAN :
        /\ Go(t, user, at) /\ missed' = (missed \/ ~hit)
        /\ hit \/ LookedUp(pc[t].user) \notin full \/ Filling(LookedUp(pc[t].user)) # {}
  BY DEF Look, Users
<1>2. /\ pc' \in [Threads -> [user : Users, at : Places]]
      /\ At(t)' = at /\ \A u \in Threads \ {t} : At(u)' = At(u)
  BY <1>0, <1>1, GoMoves DEF Places
<1>3. /\ At(t) = "look" /\ raced' = (raced \/ Initialisers # {})
      /\ UNCHANGED <<full, calls, crashed>>
  BY DEF Look
<1>4. TypeOK'
  BY <1>0, <1>1, <1>2, <1>3 DEF TypeOK
<1>5. ASSUME ~raced' PROVE Sequential' /\ ~missed'
  <2>1. Sequential /\ ~missed
    BY <1>0, <1>3, <1>5 DEF IInv, TypeOK, MissOnlyByRace
  <2>2. full = Maps /\ Initialisers = {}
    BY <1>3, <2>1 DEF Sequential, Settled
  <2>3. LookedUp(pc[t].user) \in Maps
    BY DEF LookedUp, Maps
  <2>4. Filling(LookedUp(pc[t].user)) = {}
    BY <2>2, <2>3 DEF Filling, Initialisers
  <2>5. Initialisers' = {}
    BY <1>2, <2>2 DEF Initialisers, Maps
  <2> QED BY <1>1, <1>3, <2>1, <2>2, <2>3, <2>4, <2>5 DEF Sequential, Settled
<1>6. MissOnlyByRace'
  BY <1>3, <1>4, <1>5 DEF IInv, MissOnlyByRace, TypeOK
<1> QED BY <1>4, <1>5, <1>6 DEF IInv

(* Without a race nobody touches a map that another thread assigns.        *)
LEMMA CrashIInv ==
  ASSUME IInv, NEW t \in Threads, Crash(t)
  PROVE  IInv'
<1>1. PICK map \in Touched(t) : Filling(map) \ {t} # {}
  BY DEF Crash
<1>2. PICK u \in Threads \ {t} : At(u) = map
  BY <1>1 DEF Filling
<1>3. At(t) \in {"look"} \cup Maps /\ map \in Maps
  BY <1>1 DEF Touched, LookedUp, Maps
<1>4. ASSUME Sequential PROVE FALSE
  <2>1. u \in Initialisers /\ Alone(u)
    BY <1>2, <1>3, <1>4 DEF Initialisers, Sequential
  <2> QED BY <1>2, <1>3, <2>1 DEF Alone, Maps
<1>5. raced
  BY <1>4 DEF IInv
<1> QED
  BY <1>5 DEF Crash, IInv, TypeOK, MissOnlyByRace

LEMMA NextIInv == IInv /\ [Next]_vars => IInv'
<1> SUFFICES ASSUME IInv, [Next]_vars PROVE IInv'
  OBVIOUS
<1>1. CASE UNCHANGED vars
  BY <1>1 DEF vars, IInv, TypeOK, Sequential, Alone, MissOnlyByRace, Initialisers, Settled, At
<1>2. CASE Next
  BY <1>2, DecodeIInv, TestIInv, EnterIInv, FillIInv, LookIInv, CrashIInv DEF Next, Step
<1> QED BY <1>1, <1>2

\* The inductive invariant holds in every state that can be reached.
THEOREM Invariance == Spec => []IInv
BY InitIInv, NextIInv, PTL DEF Spec

-----------------------------------------------------------------------------
(* The theorems.                                                           *)

\* The variables keep their types.
THEOREM TypeCorrect == Spec => []TypeOK
BY Invariance, PTL DEF IInv

\* A registered type is missed, or the process dies, only after two threads
\* were at the registry while one of them was filling it.
THEOREM MissesOnlyByRace == Spec => []MissOnlyByRace
BY Invariance, PTL DEF IInv

(* What a step can do once the maps are filled and nobody is at them.      *)
LEMMA SettledStep ==
  ASSUME Settled, Next, TypeOK
  PROVE  Settled' /\ UNCHANGED <<missed, crashed>>
<1>1. PICK t \in Threads : Decode(t) \/ Step(t) \/ Crash(t)
  BY DEF Next
<1>2. full = Maps /\ \A u \in Threads : At(u) \notin {"enter"} \cup Maps
  BY DEF Settled, Initialisers
<1>3. \A map \in Maps : Filling(map) = {}
  BY <1>2 DEF Filling
<1>4. ASSUME NEW user \in Users, NEW at \in {"idle", "test", "look"}, Go(t, user, at),
             UNCHANGED <<full, missed, crashed>>
      PROVE  Settled' /\ UNCHANGED <<missed, crashed>>
  <2>1. \A u \in Threads : At(u)' \notin {"enter"} \cup Maps
    BY <1>2, <1>4, GoMoves DEF Places, Maps
  <2> QED BY <1>2, <1>4, <2>1 DEF Settled, Initialisers
<1>5. CASE Decode(t)
  BY <1>4, <1>5 DEF Decode, Users
<1>6. CASE Test(t)
  <2>1. "string2int" \in full
    BY <1>2 DEF Maps
  <2> QED BY <1>4, <1>6, <2>1, PcType DEF Test, Tests
<1>7. CASE Enter(t) \/ Fill(t)
  BY <1>2, <1>7 DEF Enter, Fill, FillThen
<1>8. CASE Look(t)
  <2>1. LookedUp(pc[t].user) \in Maps
    BY DEF LookedUp, Maps
  <2>2. \E user \in Users, at \in {"idle", "test"} :
           Go(t, user, at) /\ missed' = (missed \/ ~TRUE)
    BY <1>2, <1>3, <1>8, <2>1 DEF Look, Users
  <2>3. UNCHANGED <<full, missed, crashed>>
    BY <1>8, <2>2 DEF Look, TypeOK
  <2> QED BY <1>4, <2>2, <2>3
<1>9. CASE Crash(t)
  <2>1. Touched(t) \subseteq Maps
    BY DEF Touched, LookedUp, Maps
  <2> QED BY <1>3, <1>9, <2>1 DEF Crash
<1> QED BY <1>1, <1>5, <1>6, <1>7, <1>8, <1>9 DEF Step

\* Once the maps are filled and nobody is at it, no thread sets out to fill
\* them again.
THEOREM SettledForGood == Spec => StaysSettled
<1>1. TypeOK /\ [Next]_vars => [Settled => Settled']_vars
  BY SettledStep DEF vars
<1> QED BY <1>1, TypeCorrect, PTL DEF Spec, StaysSettled

\* From then on the registry serves everyone: no frame is dropped for its type
\* any more, and no lookup can bring the process down.
THEOREM SettledServes == Spec => [][Settled => UNCHANGED <<missed, crashed>>]_vars
<1>1. TypeOK /\ [Next]_vars => [Settled => UNCHANGED <<missed, crashed>>]_vars
  BY SettledStep DEF vars
<1> QED BY <1>1, TypeCorrect, PTL DEF Spec
=============================================================================
