---------------------------- MODULE ServerProofs ----------------------------
(***************************************************************************)
(* Proofs about Server, for any number of clients, replies and broadcasts. *)
(***************************************************************************)
EXTENDS Server, SequenceTheorems, FiniteSetTheorems, TLAPS

-----------------------------------------------------------------------------
(* The list of clients.                                                    *)

\* No client is in the sequence twice.
Distinct(s) == \A i, j \in 1 .. Len(s) : s[i] = s[j] => i = j

LEMMA ToSetOfSeq ==
  ASSUME NEW S, NEW s \in Seq(S)
  PROVE  ToSet(s) = {s[i] : i \in 1 .. Len(s)}
BY DEF ToSet

(* What erasing the only occurrence of an element leaves.                  *)
LEMMA EraseFound ==
  ASSUME NEW S, NEW s \in Seq(S), Distinct(s), NEW c, NEW k \in 1 .. Len(s), s[k] = c
  PROVE  RemoveFirst(s, c) = SubSeq(s, 1, k - 1) \o SubSeq(s, k + 1, Len(s))
<1> DEFINE I == {i \in 1 .. Len(s) : s[i] = c}
<1>1. I = {k}
  BY DEF Distinct
<1>2. Min(I) = k
  BY <1>1 DEF Min
<1>3. SelectInSeq(s, LAMBDA v : v = c) = k
  BY <1>1, <1>2 DEF SelectInSeq
<1> QED BY <1>3 DEF RemoveFirst, RemoveAt

LEMMA EraseProperties ==
  ASSUME NEW S, NEW s \in Seq(S), Distinct(s), NEW c
  PROVE  /\ RemoveFirst(s, c) \in Seq(S)
         /\ Distinct(RemoveFirst(s, c))
         /\ ToSet(RemoveFirst(s, c)) = ToSet(s) \ {c}
<1>1. CASE ~ \E i \in 1 .. Len(s) : s[i] = c
  <2>1. RemoveFirst(s, c) = s
    BY <1>1 DEF RemoveFirst
  <2>2. c \notin ToSet(s)
    BY <1>1 DEF ToSet
  <2> QED BY <2>1, <2>2
<1>2. ASSUME NEW k \in 1 .. Len(s), s[k] = c
      PROVE  /\ RemoveFirst(s, c) \in Seq(S)
             /\ Distinct(RemoveFirst(s, c))
             /\ ToSet(RemoveFirst(s, c)) = ToSet(s) \ {c}
  <2> DEFINE a == SubSeq(s, 1, k - 1)
             b == SubSeq(s, k + 1, Len(s))
             r == a \o b
  <2>1. RemoveFirst(s, c) = r
    BY <1>2, EraseFound
  <2>2. /\ a \in Seq(S) /\ Len(a) = k - 1
        /\ \A i \in 1 .. k - 1 : a[i] = s[i]
    OBVIOUS
  <2>3. /\ b \in Seq(S) /\ Len(b) = Len(s) - k
        /\ \A i \in 1 .. Len(s) - k : b[i] = s[k + i]
    OBVIOUS
  <2> HIDE DEF a, b
  <2>4. r \in Seq(S) /\ Len(r) = Len(s) - 1
    <3>1. r \in Seq(S) /\ Len(r) = Len(a) + Len(b)
      BY <2>2, <2>3, ConcatProperties
    <3>2. (k - 1) + (Len(s) - k) = Len(s) - 1
      OBVIOUS
    <3> QED BY <2>2, <2>3, <3>1, <3>2
  <2>5. \A i \in 1 .. Len(s) - 1 : r[i] = IF i < k THEN s[i] ELSE s[i + 1]
    BY <2>2, <2>3
  <2> HIDE DEF r
  <2>6. Distinct(r)
    <3> DEFINE o(i) == IF i < k THEN i ELSE i + 1
    <3>1. \A i \in 1 .. Len(s) - 1 : o(i) \in 1 .. Len(s) /\ r[i] = s[o(i)]
      BY <2>5
    <3>2. \A i, j \in 1 .. Len(s) - 1 : o(i) = o(j) => i = j
      OBVIOUS
    <3> HIDE DEF o
    <3>3. \A i, j \in 1 .. Len(s) - 1 : r[i] = r[j] => o(i) = o(j)
      BY <3>1 DEF Distinct
    <3> QED BY <2>4, <3>2, <3>3 DEF Distinct
  <2>7. ToSet(r) \subseteq ToSet(s) \ {c}
    <3> SUFFICES ASSUME NEW i \in 1 .. Len(s) - 1 PROVE r[i] \in ToSet(s) \ {c}
      BY <2>4 DEF ToSet
    <3>1. CASE i < k
      BY <1>2, <2>5, <3>1 DEF Distinct, ToSet
    <3>2. CASE ~(i < k)
      <4>1. i + 1 \in 1 .. Len(s) /\ i + 1 # k
        BY <3>2
      <4>2. r[i] = s[i + 1]
        BY <2>5, <3>2
      <4> QED BY <1>2, <4>1, <4>2 DEF Distinct, ToSet
    <3> QED BY <3>1, <3>2
  <2>8. ToSet(s) \ {c} \subseteq ToSet(r)
    <3> SUFFICES ASSUME NEW i \in 1 .. Len(s), s[i] # c PROVE s[i] \in ToSet(r)
      BY DEF ToSet
    <3>1. CASE i < k
      <4>1. i \in 1 .. Len(r) /\ r[i] = s[i]
        BY <2>4, <2>5, <3>1
      <4> QED BY <2>4, <4>1 DEF ToSet
    <3>2. CASE i > k
      <4>1. i - 1 \in 1 .. Len(r) /\ r[i - 1] = s[i]
        BY <2>4, <2>5, <3>2
      <4> QED BY <2>4, <4>1 DEF ToSet
    <3> QED BY <1>2, <3>1, <3>2
  <2> QED BY <2>1, <2>4, <2>6, <2>7, <2>8
<1> QED BY <1>1, <1>2

LEMMA ListProperties ==
  ASSUME NEW S, NEW s \in Seq(S), Distinct(s), NEW c \in S, c \notin ToSet(s)
  PROVE  /\ Append(s, c) \in Seq(S)
         /\ Distinct(Append(s, c))
         /\ ToSet(Append(s, c)) = ToSet(s) \cup {c}
<1> DEFINE r == Append(s, c)
<1>1. /\ r \in Seq(S) /\ Len(r) = Len(s) + 1 /\ r[Len(s) + 1] = c
      /\ \A i \in 1 .. Len(s) : r[i] = s[i]
  OBVIOUS
<1> HIDE DEF r
<1>2. \A i \in 1 .. Len(s) : s[i] # c
  BY DEF ToSet
<1>3. Distinct(r)
  BY <1>1, <1>2 DEF Distinct
<1>4. ToSet(r) \subseteq ToSet(s) \cup {c}
  BY <1>1 DEF ToSet
<1>5. ToSet(s) \cup {c} \subseteq ToSet(r)
  BY <1>1 DEF ToSet
<1> QED BY <1>1, <1>3, <1>4, <1>5 DEF r

LEMMA ListsOnce ==
  ASSUME NEW S, NEW s \in Seq(S), Distinct(s), NEW c
  PROVE  Cardinality({i \in DOMAIN s : s[i] = c}) <= 1
<1> SUFFICES ASSUME NEW I, I = {i \in DOMAIN s : s[i] = c}
             PROVE  Cardinality(I) <= 1
  OBVIOUS
<1>1. \A i, j \in I : i = j
  <2>1. DOMAIN s = 1 .. Len(s)
    OBVIOUS
  <2> QED BY <2>1 DEF Distinct
<1>2. CASE I = {}
  <2>1. Cardinality(I) = 0
    BY <1>2, FS_EmptySet, Zenon
  <2> QED BY <2>1
<1>3. CASE I # {}
  <2>0. PICK i \in I : TRUE
    BY <1>3
  <2>1. I = {i}
    BY <1>1
  <2>2. Cardinality({i}) = 1
    BY FS_Singleton, Zenon
  <2>3. Cardinality(I) = 1
    BY <2>1, <2>2, Zenon
  <2> QED BY <2>3
<1> QED BY <1>2, <1>3

-----------------------------------------------------------------------------
(* The inductive invariant.  NoGhosts and NoOrphans follow from Served,    *)
(* which says exactly who is on the list.  It is inductive only with what  *)
(* is known of a client the accept loop is still at (Fresh), as an error   *)
(* may come between its being listed and its being read, and with what the *)
(* holders of a mutex have seen before they took it (ReaderLock,           *)
(* BroadcastLock).                                                         *)

TypeOK ==
  /\ loop \in {"idle", "armed", "accepted", "listed", "started", "failed"}
  /\ item \in 0 .. MaxItems /\ (item = 0 => loop = "idle")
  /\ client_list \in Seq(Items)
  /\ list_mutex \in {"free", "broadcast"}
  /\ buffer_mutex \in [Items -> {"free", "reader", "writer", "broadcast"}]
  /\ reading \in [Items -> {"none", "armed", "handling", "erring", "ended"}]
  /\ replies \in [Items -> Nat]
  /\ writing \in [Items -> {"idle", "pending", "handling", "erring", "failed"}]
  /\ peer \in [Items -> {"absent", "open", "gone"}]
  /\ targets \in Seq(Items) /\ reached \in Seq(Items) /\ broadcasts \in Nat

\* OnAccept has not listed the client yet.
Unseen(c) == c > item \/ (c = item /\ loop \in {"armed", "accepted", "failed"})

\* OnError has been called for the client.
Errored(c) == reading[c] = "ended" \/ writing[c] = "failed"

Fresh ==
  \A c \in Items :
    /\ Unseen(c) => writing[c] = "idle"
    /\ Unseen(c) \/ (c = item /\ loop = "listed") => reading[c] = "none"

Served == \A c \in Items : c \in Listed <=> ~Unseen(c) /\ ~Errored(c)

ReaderLock ==
  \A c \in Items : buffer_mutex[c] = "reader" => reading[c] = "handling" /\ replies[c] > 0

BroadcastLock ==
  \A c \in Items : buffer_mutex[c] = "broadcast" =>
    list_mutex = "broadcast" /\ Cursor <= Len(client_list) /\ client_list[Cursor] = c

IInv ==
  /\ TypeOK /\ Distinct(client_list)
  /\ Fresh /\ Served
  /\ ReaderLock /\ BroadcastLock /\ BroadcastExact

-----------------------------------------------------------------------------
LEMMA ItemsAreNat ==
  /\ Items \subseteq Nat
  /\ \A n \in 0 .. MaxItems : n # 0 => n \in Items
BY MaxItemsAssumption DEF Items

LEMMA InitIInv == Init => IInv
<1> SUFFICES ASSUME Init PROVE IInv
  OBVIOUS
<1>1. 0 \in 0 .. MaxItems
  BY MaxItemsAssumption
<1>2. <<>> \in Seq(Items) /\ Len(<<>>) = 0 /\ ToSet(<<>>) = {}
  BY DEF ToSet
<1>3. TypeOK
  BY <1>1, <1>2 DEF Init, TypeOK
<1>4. Distinct(client_list)
  BY DEF Init, Distinct
<1>5. \A c \in Items : Unseen(c) /\ c # item
  BY ItemsAreNat DEF Init, Unseen, Items
<1>6. Fresh /\ Served
  BY <1>2, <1>5 DEF Init, Fresh, Served, Listed, Errored
<1>7. ReaderLock /\ BroadcastLock
  BY DEF Init, ReaderLock, BroadcastLock
<1>8. BroadcastExact
  BY DEF Init, BroadcastExact, IsPrefix
<1> QED BY <1>3, <1>4, <1>6, <1>7, <1>8 DEF IInv

-----------------------------------------------------------------------------
(* The accept loop.                                                        *)

LEMMA AsyncAcceptIInv ==
  ASSUME IInv, NEW from \in {"idle", "started"}, AsyncAccept(from)
  PROVE  IInv'
<1>0. TypeOK /\ Fresh /\ Served /\ ReaderLock /\ BroadcastLock /\ BroadcastExact
  BY DEF IInv
<1>1. /\ loop = from /\ item < MaxItems /\ item' = item + 1 /\ loop' = "armed"
      /\ UNCHANGED <<client_list, list_mutex, targets, reached, broadcasts,
                     buffer_mutex, reading, replies, writing, peer>>
  BY DEF AsyncAccept, broadcastVars, readVars
<1>2. item \in Nat /\ item' \in Nat /\ item' # 0 /\ item' \in 0 .. MaxItems
  BY <1>0, <1>1, MaxItemsAssumption DEF TypeOK
<1>3. TypeOK'
  BY <1>0, <1>1, <1>2 DEF TypeOK
<1>4. \A c \in Items : Unseen(c)' <=> Unseen(c)
  <2>1. \A c \in Items : c \in Nat
    BY ItemsAreNat
  <2>2. \A c \in Items : Unseen(c) <=> c > item
    BY <1>1 DEF Unseen
  <2>3. \A c \in Items : Unseen(c)' <=> c > item + 1 \/ c = item + 1
    BY <1>1 DEF Unseen
  <2>4. \A c \in Nat : c > item + 1 \/ c = item + 1 <=> c > item
    BY <1>2
  <2> QED BY <2>1, <2>2, <2>3, <2>4
<1>5. Fresh' /\ Served'
  BY <1>0, <1>1, <1>4 DEF Fresh, Served, Listed, Errored
<1>6. (Distinct(client_list) /\ ReaderLock /\ BroadcastLock /\ BroadcastExact)'
  BY <1>1 DEF IInv, ReaderLock, BroadcastLock, BroadcastExact, Cursor
<1> QED BY <1>3, <1>5, <1>6 DEF IInv

LEMMA ConnectIInv ==
  ASSUME IInv, Connect \/ AcceptFails
  PROVE  IInv'
<1>0. TypeOK /\ Fresh /\ Served
  BY DEF IInv
<1>1. /\ loop = "armed" /\ loop' \in {"accepted", "failed"}
      /\ peer' \in {peer, [peer EXCEPT ![item] = "open"]}
      /\ UNCHANGED <<item, client_list, list_mutex, targets, reached, broadcasts,
                     buffer_mutex, reading, replies, writing>>
  BY DEF Connect, AcceptFails, broadcastVars, readVars
<1>2. peer' \in [Items -> {"absent", "open", "gone"}]
  BY <1>0, <1>1 DEF TypeOK
<1>3. TypeOK'
  BY <1>0, <1>1, <1>2 DEF TypeOK
<1>4. \A c \in Items : Unseen(c)' <=> Unseen(c)
  BY <1>1 DEF Unseen
<1>5. Fresh' /\ Served'
  BY <1>0, <1>1, <1>4 DEF Fresh, Served, Listed, Errored
<1>6. (Distinct(client_list) /\ ReaderLock /\ BroadcastLock /\ BroadcastExact)'
  BY <1>1 DEF IInv, ReaderLock, BroadcastLock, BroadcastExact, Cursor
<1> QED BY <1>3, <1>5, <1>6 DEF IInv

LEMMA PushBackIInv ==
  ASSUME IInv, PushBack("accepted", "listed")
  PROVE  IInv'
<1>0. TypeOK /\ Distinct(client_list) /\ Fresh /\ Served /\ ReaderLock /\ BroadcastLock
      /\ BroadcastExact
  BY DEF IInv
<1>1. /\ loop = "accepted" /\ loop' = "listed" /\ list_mutex = "free"
      /\ client_list' = Append(client_list, item)
      /\ UNCHANGED <<item, list_mutex, targets, reached, broadcasts,
                     buffer_mutex, reading, replies, writing, peer>>
  BY DEF PushBack, broadcastVars, readVars
<1>2. item \in Items
  BY <1>0, <1>1, ItemsAreNat DEF TypeOK
<1>3. Unseen(item) /\ reading[item] = "none" /\ writing[item] = "idle" /\ item \notin Listed
  BY <1>0, <1>1, <1>2 DEF Fresh, Served, Unseen
<1>4. /\ client_list' \in Seq(Items) /\ Distinct(client_list')
      /\ Listed' = Listed \cup {item}
  BY <1>0, <1>1, <1>2, <1>3, ListProperties DEF TypeOK, Listed
<1>5. TypeOK'
  BY <1>0, <1>1, <1>4 DEF TypeOK
<1>6. \A c \in Items : Unseen(c)' <=> Unseen(c) /\ c # item
  <2>1. \A c \in Items : c \in Nat
    BY ItemsAreNat
  <2>2. item \in Nat
    BY <1>2, ItemsAreNat
  <2> QED BY <1>1, <2>1, <2>2 DEF Unseen
<1>7. Fresh'
  BY <1>0, <1>1, <1>3, <1>6 DEF Fresh
<1>8. Served'
  BY <1>0, <1>1, <1>3, <1>4, <1>6 DEF Served, Errored
<1>9. ReaderLock' /\ BroadcastLock' /\ BroadcastExact'
  BY <1>0, <1>1 DEF ReaderLock, BroadcastLock, BroadcastExact
<1> QED BY <1>4, <1>5, <1>7, <1>8, <1>9 DEF IInv

LEMMA StartItemIInv ==
  ASSUME IInv, StartItem("listed", "started")
  PROVE  IInv'
<1>0. TypeOK /\ Distinct(client_list) /\ Fresh /\ Served /\ ReaderLock /\ BroadcastLock
      /\ BroadcastExact
  BY DEF IInv
<1>1. /\ loop = "listed" /\ loop' = "started"
      /\ reading' = [reading EXCEPT ![item] = "armed"]
      /\ UNCHANGED <<item, client_list, list_mutex, targets, reached, broadcasts,
                     buffer_mutex, replies, writing, peer>>
  BY DEF StartItem, broadcastVars
<1>2. item \in Items
  BY <1>0, <1>1, ItemsAreNat DEF TypeOK
<1>3. reading[item] = "none"
  BY <1>0, <1>1, <1>2 DEF Fresh
<1>4. /\ reading' \in [Items -> {"none", "armed", "handling", "erring", "ended"}]
      /\ \A c \in Items : reading'[c] = IF c = item THEN "armed" ELSE reading[c]
  BY <1>0, <1>1 DEF TypeOK
<1>5. TypeOK'
  BY <1>0, <1>1, <1>4 DEF TypeOK
<1>6. \A c \in Items : (Unseen(c)' <=> Unseen(c)) /\ (Unseen(c) => c # item)
  <2>1. item \in Nat
    BY <1>2, ItemsAreNat
  <2> QED BY <1>1, <2>1 DEF Unseen
<1>7. Fresh'
  BY <1>0, <1>1, <1>4, <1>6 DEF Fresh
<1>8. Served'
  BY <1>0, <1>1, <1>3, <1>4, <1>6 DEF Served, Errored, Listed
<1>9. ReaderLock'
  BY <1>0, <1>1, <1>2, <1>3, <1>4 DEF ReaderLock
<1>10. Distinct(client_list') /\ BroadcastLock' /\ BroadcastExact'
  BY <1>0, <1>1 DEF BroadcastLock, BroadcastExact, Cursor
<1> QED BY <1>5, <1>7, <1>8, <1>9, <1>10 DEF IInv

-----------------------------------------------------------------------------
(* The clients' handlers.                                                  *)

\* What a handler may do without having called OnError: nobody's read begins
\* or ends, and nobody's write fails or begins unseen.
Quiet(c) ==
  /\ \/ reading'[c] = reading[c]
     \/ reading[c] \notin {"none", "ended"} /\ reading'[c] \notin {"none", "ended"}
  /\ \/ writing'[c] = writing[c]
     \/ ~Unseen(c) /\ writing[c] # "failed" /\ writing'[c] # "failed"

LEMMA QuietIInv ==
  ASSUME IInv, TypeOK', UNCHANGED <<loop, item, client_list, list_mutex, targets, reached>>,
         \A c \in Items : Quiet(c), ReaderLock',
         \A c \in Items : buffer_mutex'[c] = "broadcast" => buffer_mutex[c] = "broadcast"
  PROVE  IInv'
<1>0. Fresh /\ Served /\ BroadcastLock /\ BroadcastExact /\ Distinct(client_list)
  BY DEF IInv
<1>1. \A c \in Items : (Unseen(c)' <=> Unseen(c)) /\ (Errored(c)' <=> Errored(c))
  BY DEF Unseen, Errored, Quiet
<1>2. Fresh'
  BY <1>0, <1>1 DEF Fresh, Quiet
<1>3. Served'
  BY <1>0, <1>1 DEF Served, Listed
<1>4. BroadcastLock' /\ BroadcastExact' /\ Distinct(client_list')
  BY <1>0 DEF BroadcastLock, BroadcastExact, Cursor
<1> QED BY <1>2, <1>3, <1>4 DEF IInv

LEMMA ReadArrivesIInv ==
  ASSUME IInv, NEW c \in Items, ReadArrives(c)
  PROVE  IInv'
<1>0. TypeOK /\ ReaderLock
  BY DEF IInv
<1>1. /\ reading[c] = "armed" /\ reading' = [reading EXCEPT ![c] = "handling"]
      /\ UNCHANGED <<loop, item, client_list, list_mutex, targets, reached, broadcasts,
                     buffer_mutex, writing, peer>>
  BY DEF ReadArrives, acceptVars, broadcastVars
<1>2. PICK n \in 0 .. MaxReplies : replies' = [replies EXCEPT ![c] = n]
  BY DEF ReadArrives
<1>3. n \in Nat
  BY MaxRepliesAssumption
<1>4. TypeOK'
  BY <1>0, <1>1, <1>2, <1>3 DEF TypeOK
<1>5. \A u \in Items : Quiet(u)
  BY <1>0, <1>1 DEF Quiet, TypeOK
<1>6. ReaderLock'
  BY <1>0, <1>1, <1>2 DEF ReaderLock, TypeOK
<1> QED BY <1>1, <1>4, <1>5, <1>6, QuietIInv

LEMMA ReplyLocksIInv ==
  ASSUME IInv, NEW c \in Items, ReplyLocks(c)
  PROVE  IInv'
<1>0. TypeOK /\ ReaderLock
  BY DEF IInv
<1>1. /\ reading[c] = "handling" /\ replies[c] > 0
      /\ buffer_mutex' = [buffer_mutex EXCEPT ![c] = "reader"]
      /\ UNCHANGED <<loop, item, client_list, list_mutex, targets, reached, broadcasts,
                     reading, replies, writing, peer>>
  BY DEF ReplyLocks, Take, acceptVars, broadcastVars, readVars
<1>2. TypeOK'
  BY <1>0, <1>1 DEF TypeOK
<1>3. \A u \in Items : Quiet(u)
  BY <1>1 DEF Quiet
<1>4. ReaderLock'
  BY <1>0, <1>1 DEF ReaderLock, TypeOK
<1>5. \A u \in Items : buffer_mutex'[u] = "broadcast" => buffer_mutex[u] = "broadcast"
  BY <1>0, <1>1 DEF TypeOK
<1> QED BY <1>1, <1>2, <1>3, <1>4, <1>5, QuietIInv

LEMMA StartWriteStarts ==
  ASSUME TypeOK, NEW c \in Items, StartWrite(c)
  PROVE  /\ writing' \in [Items -> {"idle", "pending", "handling", "erring", "failed"}]
         /\ \A u \in Items \ {c} : writing'[u] = writing[u]
         /\ writing'[c] = "failed" <=> writing[c] = "failed"
BY DEF TypeOK, StartWrite

LEMMA ReplyWritesIInv ==
  ASSUME IInv, NEW c \in Items, ReplyWrites(c)
  PROVE  IInv'
<1>0. TypeOK /\ Fresh /\ ReaderLock
  BY DEF IInv
<1>1. /\ buffer_mutex[c] = "reader" /\ buffer_mutex' = [buffer_mutex EXCEPT ![c] = "free"]
      /\ StartWrite(c)
      /\ replies' = [replies EXCEPT ![c] = @ - 1]
      /\ UNCHANGED <<loop, item, client_list, list_mutex, targets, reached, broadcasts,
                     reading, peer>>
  BY DEF ReplyWrites, Give, acceptVars, broadcastVars
<1>2. reading[c] = "handling" /\ replies[c] \in Nat /\ replies[c] > 0
  BY <1>0, <1>1 DEF ReaderLock, TypeOK
<1>3. replies[c] - 1 \in Nat
  BY <1>2
<1>4. replies' \in [Items -> Nat]
  BY <1>0, <1>1, <1>3 DEF TypeOK
<1>5. TypeOK'
  BY <1>0, <1>1, <1>4, StartWriteStarts DEF TypeOK
<1>6. ~Unseen(c)
  BY <1>0, <1>2 DEF Fresh
<1>7. \A u \in Items : Quiet(u)
  BY <1>0, <1>1, <1>6, StartWriteStarts DEF Quiet
<1>8. ReaderLock'
  BY <1>0, <1>1 DEF ReaderLock, TypeOK
<1>9. \A u \in Items : buffer_mutex'[u] = "broadcast" => buffer_mutex[u] = "broadcast"
  BY <1>0, <1>1 DEF TypeOK
<1> QED BY <1>1, <1>5, <1>7, <1>8, <1>9, QuietIInv

LEMMA ReadMovesIInv ==
  ASSUME IInv, NEW c \in Items, ReadRearms(c) \/ ReadFails(c)
  PROVE  IInv'
<1>0. TypeOK /\ ReaderLock
  BY DEF IInv
<1>1. PICK to \in {"armed", "erring"} : reading' = [reading EXCEPT ![c] = to]
  BY DEF ReadRearms, ReadFails
<1>2. /\ reading[c] = "armed" \/ (reading[c] = "handling" /\ replies[c] = 0)
      /\ UNCHANGED <<loop, item, client_list, list_mutex, targets, reached, broadcasts,
                     buffer_mutex, replies, writing, peer>>
  BY DEF ReadRearms, ReadFails, acceptVars, broadcastVars
<1>3. TypeOK'
  BY <1>0, <1>1, <1>2 DEF TypeOK
<1>4. \A u \in Items : Quiet(u)
  BY <1>0, <1>1, <1>2 DEF Quiet, TypeOK
<1>5. buffer_mutex[c] # "reader"
  BY <1>0, <1>2 DEF ReaderLock
<1>6. ReaderLock'
  BY <1>0, <1>1, <1>2, <1>5 DEF ReaderLock, TypeOK
<1> QED BY <1>2, <1>3, <1>4, <1>6, QuietIInv

LEMMA OnWriteIInv ==
  ASSUME IInv, NEW c \in Items, OnWrite(c)
  PROVE  IInv'
<1>0. TypeOK /\ Fresh /\ ReaderLock
  BY DEF IInv
<1>1. PICK who \in {"writer", "free"} : buffer_mutex' = [buffer_mutex EXCEPT ![c] = who]
  BY DEF OnWrite, OnWriteLocks, OnWriteEnds, Take, Give
<1>2. PICK to \in {"idle", "pending", "handling"} : writing' = [writing EXCEPT ![c] = to]
  BY DEF OnWrite, OnWriteLocks, OnWriteEnds
<1>3. /\ writing[c] \in {"pending", "handling"}
      /\ UNCHANGED <<loop, item, client_list, list_mutex, targets, reached, broadcasts,
                     reading, replies, peer>>
  BY DEF OnWrite, OnWriteLocks, OnWriteEnds, acceptVars, broadcastVars, readVars
<1>4. TypeOK'
  BY <1>0, <1>1, <1>2, <1>3 DEF TypeOK
<1>5. ~Unseen(c)
  BY <1>0, <1>3 DEF Fresh
<1>6. \A u \in Items : Quiet(u)
  BY <1>0, <1>2, <1>3, <1>5 DEF Quiet, TypeOK
<1>7. ReaderLock'
  BY <1>0, <1>1, <1>3 DEF ReaderLock, TypeOK
<1>8. \A u \in Items : buffer_mutex'[u] = "broadcast" => buffer_mutex[u] = "broadcast"
  BY <1>0, <1>1 DEF TypeOK
<1> QED BY <1>3, <1>4, <1>6, <1>7, <1>8, QuietIInv

-----------------------------------------------------------------------------
(* The error callbacks.                                                    *)

LEMMA ErrorIInv ==
  ASSUME IInv, TypeOK', NEW c \in Items, OnError(c),
         UNCHANGED <<loop, item, buffer_mutex, replies>>,
         \/ /\ reading[c] = "erring" /\ reading' = [reading EXCEPT ![c] = "ended"]
            /\ UNCHANGED writing
         \/ /\ writing[c] = "erring" /\ writing' = [writing EXCEPT ![c] = "failed"]
            /\ UNCHANGED reading
  PROVE  IInv'
<1>0. /\ TypeOK /\ Distinct(client_list) /\ Fresh /\ Served
      /\ ReaderLock /\ BroadcastLock /\ BroadcastExact
  BY DEF IInv
<1>1. /\ list_mutex = "free" /\ client_list' = RemoveFirst(client_list, c)
      /\ UNCHANGED <<list_mutex, targets, reached, broadcasts>>
  BY DEF OnError, Erase, broadcastVars
<1>2. Distinct(client_list') /\ Listed' = Listed \ {c}
  BY <1>0, <1>1, EraseProperties DEF TypeOK, Listed
<1>3. ~Unseen(c)
  BY <1>0 DEF Fresh
<1>4. \A u \in Items : Unseen(u)' <=> Unseen(u)
  BY DEF Unseen
<1>5. Errored(c)' /\ \A u \in Items \ {c} : Errored(u)' <=> Errored(u)
  BY <1>0 DEF Errored, TypeOK
<1>6. Fresh'
  BY <1>0, <1>3, <1>4 DEF Fresh, TypeOK
<1>7. Served'
  BY <1>0, <1>2, <1>4, <1>5 DEF Served
<1>8. ReaderLock'
  BY <1>0 DEF ReaderLock, TypeOK
<1>9. BroadcastLock' /\ BroadcastExact'
  BY <1>0, <1>1 DEF BroadcastLock, BroadcastExact
<1> QED BY <1>2, <1>6, <1>7, <1>8, <1>9 DEF IInv

LEMMA OnReadErrorIInv ==
  ASSUME IInv, NEW c \in Items, OnReadError(c)
  PROVE  IInv'
<1>0. TypeOK /\ Distinct(client_list)
  BY DEF IInv
<1>1. client_list' \in Seq(Items)
  BY <1>0, EraseProperties DEF OnReadError, OnError, Erase, TypeOK
<1>2. /\ reading[c] = "erring" /\ OnError(c)
      /\ reading' = [reading EXCEPT ![c] = "ended"]
      /\ UNCHANGED <<loop, item, list_mutex, targets, reached, broadcasts,
                     buffer_mutex, replies, writing, peer>>
  BY DEF OnReadError, OnError, acceptVars, broadcastVars
<1>3. TypeOK'
  BY <1>0, <1>1, <1>2 DEF TypeOK
<1> QED BY <1>2, <1>3, ErrorIInv

LEMMA OnWriteErrorIInv ==
  ASSUME IInv, NEW c \in Items, OnWriteError(c)
  PROVE  IInv'
<1>0. TypeOK /\ Distinct(client_list) /\ Fresh /\ ReaderLock
  BY DEF IInv
<1>1. CASE /\ writing[c] = "pending"
           /\ writing' = [writing EXCEPT ![c] = "erring"]
           /\ UNCHANGED <<acceptVars, client_list, broadcastVars, buffer_mutex, readVars, peer>>
  <2>1. UNCHANGED <<loop, item, client_list, list_mutex, targets, reached, broadcasts,
                    buffer_mutex, reading, replies, peer>>
    BY <1>1 DEF acceptVars, broadcastVars, readVars
  <2>2. TypeOK'
    BY <1>0, <1>1, <2>1 DEF TypeOK
  <2>3. ~Unseen(c)
    BY <1>0, <1>1 DEF Fresh
  <2>4. \A u \in Items : Quiet(u)
    BY <1>0, <1>1, <2>1, <2>3 DEF Quiet, TypeOK
  <2>5. ReaderLock'
    BY <1>0, <2>1 DEF ReaderLock
  <2> QED BY <2>1, <2>2, <2>4, <2>5, QuietIInv
<1>2. CASE /\ writing[c] = "erring" /\ OnError(c)
           /\ writing' = [writing EXCEPT ![c] = "failed"]
           /\ UNCHANGED <<acceptVars, buffer_mutex, readVars, peer>>
  <2>1. client_list' \in Seq(Items)
    BY <1>0, <1>2, EraseProperties DEF OnError, Erase, TypeOK
  <2>2. UNCHANGED <<loop, item, list_mutex, targets, reached, broadcasts,
                    buffer_mutex, reading, replies, peer>>
    BY <1>2 DEF OnError, acceptVars, broadcastVars, readVars
  <2>3. TypeOK'
    BY <1>0, <1>2, <2>1, <2>2 DEF TypeOK
  <2> QED BY <1>2, <2>2, <2>3, ErrorIInv
<1> QED BY <1>1, <1>2 DEF OnWriteError

-----------------------------------------------------------------------------
(* Server::Write.                                                          *)

LEMMA PrefixGrows ==
  ASSUME NEW S, NEW s \in Seq(S), NEW t \in Seq(S), IsPrefix(s, t), Len(s) + 1 <= Len(t)
  PROVE  IsPrefix(Append(s, t[Len(s) + 1]), t)
<1> DEFINE n == Len(s)
           r == Append(s, t[n + 1])
<1>1. n \in Nat /\ n + 1 <= Len(t)
  OBVIOUS
<1>2. \A i \in 1 .. n : s[i] = t[i]
  <2>1. SubSeq(s, 1, n) = SubSeq(t, 1, n)
    BY DEF IsPrefix
  <2>2. \A i \in 1 .. n : SubSeq(s, 1, n)[i] = s[i] /\ SubSeq(t, 1, n)[i] = t[i]
    BY <1>1
  <2> QED BY <2>1, <2>2
<1>3. t[n + 1] \in S
  BY <1>1
<1>4. r \in Seq(S) /\ Len(r) = n + 1 /\ \A i \in 1 .. n + 1 : r[i] = t[i]
  BY <1>1, <1>2, <1>3
<1> HIDE DEF n, r
<1>5. SubSeq(r, 1, n + 1) = SubSeq(t, 1, n + 1)
  BY <1>1, <1>4
<1> QED BY <1>1, <1>4, <1>5 DEF IsPrefix, n, r

LEMMA BroadcastBeginsIInv ==
  ASSUME IInv, BroadcastBegins
  PROVE  IInv'
<1>0. TypeOK /\ Fresh /\ Served /\ ReaderLock /\ BroadcastLock /\ Distinct(client_list)
  BY DEF IInv
<1>1. /\ list_mutex = "free" /\ list_mutex' = "broadcast"
      /\ targets' = client_list /\ reached' = <<>> /\ broadcasts' = broadcasts + 1
      /\ UNCHANGED <<loop, item, client_list, buffer_mutex, reading, replies, writing, peer>>
  BY DEF BroadcastBegins, acceptVars, readVars
<1>2. TypeOK'
  BY <1>0, <1>1 DEF TypeOK
<1>3. Fresh' /\ Served' /\ ReaderLock' /\ Distinct(client_list')
  BY <1>0, <1>1 DEF Fresh, Served, ReaderLock, Unseen, Errored, Listed
<1>4. BroadcastLock'
  BY <1>0, <1>1 DEF BroadcastLock
<1>5. BroadcastExact'
  <2>1. Len(targets') \in Nat /\ SubSeq(targets', 1, 0) = <<>> /\ SubSeq(<<>>, 1, 0) = <<>>
    BY <1>0, <1>1 DEF TypeOK
  <2> QED BY <1>1, <2>1 DEF BroadcastExact, IsPrefix
<1> QED BY <1>2, <1>3, <1>4, <1>5 DEF IInv

LEMMA BroadcastLocksIInv ==
  ASSUME IInv, BroadcastLocks
  PROVE  IInv'
<1>0. TypeOK /\ Fresh /\ Served /\ ReaderLock /\ BroadcastLock /\ BroadcastExact
      /\ Distinct(client_list)
  BY DEF IInv
<1> DEFINE c == client_list[Cursor]
<1>1. /\ list_mutex = "broadcast" /\ Cursor <= Len(client_list)
      /\ buffer_mutex' = [buffer_mutex EXCEPT ![c] = "broadcast"]
      /\ UNCHANGED <<loop, item, client_list, list_mutex, targets, reached, broadcasts,
                     reading, replies, writing, peer>>
  BY DEF BroadcastLocks, Take, acceptVars, broadcastVars, readVars
<1>2. Cursor \in 1 .. Len(client_list) /\ c \in Items
  BY <1>0, <1>1 DEF TypeOK, Cursor
<1>3. TypeOK'
  BY <1>0, <1>1, <1>2 DEF TypeOK
<1>4. Fresh' /\ Served' /\ BroadcastExact' /\ Distinct(client_list')
  BY <1>0, <1>1 DEF Fresh, Served, BroadcastExact, Unseen, Errored, Listed
<1>5. ReaderLock'
  BY <1>0, <1>1 DEF ReaderLock, TypeOK
<1>6. BroadcastLock'
  <2>1. Cursor' = Cursor
    BY <1>1 DEF Cursor
  <2>2. \A u \in Items : buffer_mutex'[u] = "broadcast" => u = c \/ buffer_mutex[u] = "broadcast"
    BY <1>0, <1>1 DEF TypeOK
  <2> QED BY <1>0, <1>1, <2>1, <2>2 DEF BroadcastLock
<1> QED BY <1>3, <1>4, <1>5, <1>6 DEF IInv

LEMMA BroadcastWritesIInv ==
  ASSUME IInv, NEW c \in Items, BroadcastWrites(c)
  PROVE  IInv'
<1>0. TypeOK /\ Fresh /\ Served /\ ReaderLock /\ BroadcastLock /\ BroadcastExact
      /\ Distinct(client_list)
  BY DEF IInv
<1>1. /\ buffer_mutex[c] = "broadcast" /\ buffer_mutex' = [buffer_mutex EXCEPT ![c] = "free"]
      /\ StartWrite(c) /\ reached' = Append(reached, c)
      /\ UNCHANGED <<loop, item, client_list, list_mutex, targets, broadcasts,
                     reading, replies, peer>>
  BY DEF BroadcastWrites, Give, acceptVars, readVars
<1>2. list_mutex = "broadcast" /\ Cursor <= Len(client_list) /\ client_list[Cursor] = c
  BY <1>0, <1>1 DEF BroadcastLock
<1>3. c \in Listed
  BY <1>0, <1>2 DEF Listed, ToSet, Cursor, TypeOK
<1>4. ~Unseen(c)
  BY <1>0, <1>3 DEF Served
<1>5. TypeOK'
  BY <1>0, <1>1, StartWriteStarts DEF TypeOK
<1>6. \A u \in Items : (Unseen(u)' <=> Unseen(u)) /\ (Errored(u)' <=> Errored(u))
  BY <1>0, <1>1, StartWriteStarts DEF Unseen, Errored
<1>7. Fresh'
  BY <1>0, <1>1, <1>4, <1>6, StartWriteStarts DEF Fresh
<1>8. Served' /\ Distinct(client_list')
  BY <1>0, <1>1, <1>6 DEF Served, Listed
<1>9. ReaderLock'
  BY <1>0, <1>1 DEF ReaderLock, TypeOK
<1>10. \A u \in Items : buffer_mutex'[u] # "broadcast"
  BY <1>0, <1>1, <1>2 DEF BroadcastLock, TypeOK
<1>11. BroadcastLock'
  BY <1>10 DEF BroadcastLock
<1>12. BroadcastExact'
  BY <1>0, <1>1, <1>2, PrefixGrows DEF BroadcastExact, Cursor, TypeOK
<1> QED BY <1>5, <1>7, <1>8, <1>9, <1>11, <1>12 DEF IInv

LEMMA BroadcastEndsIInv ==
  ASSUME IInv, BroadcastEnds
  PROVE  IInv'
<1>0. TypeOK /\ Fresh /\ Served /\ ReaderLock /\ BroadcastLock /\ BroadcastExact
      /\ Distinct(client_list)
  BY DEF IInv
<1>1. /\ list_mutex' = "free" /\ Cursor > Len(client_list)
      /\ UNCHANGED <<loop, item, client_list, targets, reached, broadcasts, buffer_mutex,
                     reading, replies, writing, peer>>
  BY DEF BroadcastEnds, acceptVars, readVars
<1>2. TypeOK'
  BY <1>0, <1>1 DEF TypeOK
<1>3. Fresh' /\ Served' /\ ReaderLock' /\ BroadcastExact' /\ Distinct(client_list')
  BY <1>0, <1>1 DEF Fresh, Served, ReaderLock, BroadcastExact, Unseen, Errored, Listed
<1>4. BroadcastLock'
  BY <1>0, <1>1 DEF BroadcastLock, Cursor, TypeOK
<1> QED BY <1>2, <1>3, <1>4 DEF IInv

-----------------------------------------------------------------------------
LEMMA PeerLeavesIInv ==
  ASSUME IInv, NEW c \in Items, PeerLeaves(c)
  PROVE  IInv'
<1>0. TypeOK /\ ReaderLock
  BY DEF IInv
<1>1. /\ peer' = [peer EXCEPT ![c] = "gone"]
      /\ UNCHANGED <<loop, item, client_list, list_mutex, targets, reached, broadcasts,
                     buffer_mutex, reading, replies, writing>>
  BY DEF PeerLeaves, acceptVars, broadcastVars, readVars
<1>2. TypeOK'
  BY <1>0, <1>1 DEF TypeOK
<1>3. ReaderLock' /\ \A u \in Items : Quiet(u)
  BY <1>0, <1>1 DEF ReaderLock, Quiet
<1> QED BY <1>1, <1>2, <1>3, QuietIInv

LEMMA StutterIInv ==
  ASSUME IInv, UNCHANGED vars
  PROVE  IInv'
BY DEF vars, acceptVars, broadcastVars, readVars, IInv, TypeOK, Fresh, Served, ReaderLock,
       BroadcastLock, BroadcastExact, Unseen, Errored, Listed, Cursor

LEMMA NextIInv == IInv /\ [Next]_vars => IInv'
<1> SUFFICES ASSUME IInv, [Next]_vars PROVE IInv'
  OBVIOUS
<1>1. CASE UNCHANGED vars
  BY <1>1, StutterIInv
<1>2. CASE Start \/ Connect \/ AcceptFails \/ OnAccept
  BY <1>2, AsyncAcceptIInv, ConnectIInv, PushBackIInv, StartItemIInv DEF Start, OnAccept
<1>3. CASE BroadcastBegins \/ Broadcast
  BY <1>3, BroadcastBeginsIInv, BroadcastLocksIInv, BroadcastWritesIInv, BroadcastEndsIInv
  DEF Broadcast
<1>4. ASSUME NEW c \in Items,
             \/ ReadArrives(c) \/ OnRead(c) \/ ReadFails(c)
             \/ OnWrite(c) \/ OnWriteError(c)
             \/ PeerLeaves(c)
      PROVE  IInv'
  BY <1>4, ReadArrivesIInv, ReplyLocksIInv, ReplyWritesIInv, ReadMovesIInv, OnReadErrorIInv,
     OnWriteIInv, OnWriteErrorIInv, PeerLeavesIInv DEF OnRead
<1> QED BY <1>1, <1>2, <1>3, <1>4 DEF Next

\* The inductive invariant holds in every state that can be reached.
THEOREM Invariance == Spec => []IInv
BY InitIInv, NextIInv, PTL DEF Spec

-----------------------------------------------------------------------------
(* The theorems.                                                           *)

\* The variables keep their types.
THEOREM TypeCorrect == Spec => []TypeOK
BY Invariance, PTL DEF IInv

\* A client whose connection has reported an error is not on the list and
\* never gets back there, though the accept loop may still be at it.
THEOREM ErasedForGood == Spec => []NoGhosts
<1>1. IInv => NoGhosts
  BY DEF IInv, Served, Errored, NoGhosts
<1> QED BY <1>1, Invariance, PTL

\* A client that is still read from is on the list, once, unless its write has
\* failed.
THEOREM ListedOnce == Spec => []NoOrphans
<1>1. ASSUME IInv, NEW c \in Items
      PROVE  /\ reading[c] \in {"armed", "handling", "erring"} /\ writing[c] # "failed"
                  => c \in Listed
             /\ Cardinality({i \in DOMAIN client_list : client_list[i] = c}) <= 1
  <2>1. reading[c] \in {"armed", "handling", "erring"} => ~Unseen(c)
    BY <1>1 DEF IInv, Fresh
  <2>2. reading[c] \in {"armed", "handling", "erring"} /\ writing[c] # "failed" => c \in Listed
    BY <1>1, <2>1 DEF IInv, Served, Errored
  <2>3. client_list \in Seq(Items) /\ Distinct(client_list)
    BY <1>1 DEF IInv, TypeOK
  <2> QED BY <2>2, <2>3, ListsOnce
<1>2. IInv => NoOrphans
  BY <1>1 DEF NoOrphans
<1> QED BY <1>2, Invariance, PTL

\* Server::Write goes through the clients that were listed when it took the
\* mutex, each once and in order.
THEOREM BroadcastKeepsToItsList == Spec => []BroadcastExact
BY Invariance, PTL DEF IInv

\* When it gives the mutex back it has written to all of them.
THEOREM BroadcastIsComplete ==
  Spec => [][list_mutex = "broadcast" /\ list_mutex' = "free" => reached = targets]_vars
<1>1. IInv /\ [Next]_vars
        => [list_mutex = "broadcast" /\ list_mutex' = "free" => reached = targets]_vars
  <2> SUFFICES ASSUME IInv, Next, list_mutex = "broadcast", list_mutex' = "free"
               PROVE  reached = targets
    OBVIOUS
  <2>1. BroadcastEnds
    BY DEF Next, Start, Connect, AcceptFails, OnAccept, AsyncAccept, PushBack, StartItem,
           BroadcastBegins, Broadcast, BroadcastLocks, BroadcastWrites,
           ReadArrives, OnRead, ReplyLocks, ReplyWrites, ReadRearms, OnReadError, ReadFails,
           OnWrite, OnWriteLocks, OnWriteEnds, OnWriteError, OnError, PeerLeaves, broadcastVars
  <2>2. /\ Len(reached) + 1 > Len(targets) /\ IsPrefix(reached, targets)
        /\ reached \in Seq(Items) /\ targets \in Seq(Items)
    BY <2>1 DEF BroadcastEnds, IInv, TypeOK, BroadcastExact, Cursor
  <2>3. Len(reached) = Len(targets)
    BY <2>2 DEF IsPrefix
  <2>4. /\ SubSeq(reached, 1, Len(reached)) = reached
        /\ SubSeq(targets, 1, Len(targets)) = targets
    BY <2>2, SubSeqFull
  <2> QED BY <2>2, <2>3, <2>4 DEF IsPrefix
<1> QED BY <1>1, Invariance, PTL DEF Spec
=============================================================================
