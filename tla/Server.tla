------------------------------- MODULE Server -------------------------------
(***************************************************************************)
(* net/server.cpp with the life of each net/client_item.cpp it creates:    *)
(* the accept loop, the list of clients and the error callback that takes  *)
(* a client off it, Server::Write, and the two mutexes these run under.    *)
(*                                                                         *)
(* The handlers run on as many threads as the machine has, so any two may  *)
(* interleave wherever a mutex does not forbid it.  The work done under    *)
(* client_list_mutex alone is one step; Server::Write holds that mutex     *)
(* over one ClientItem::Write per client, each of which takes the client's *)
(* own mutex_buffer_write.                                                 *)
(*                                                                         *)
(* What ClientWrite and FrameReader show is taken over: a client has at    *)
(* most one read and one write outstanding, a Write starts one only if     *)
(* none is, and none is started after an error.                            *)
(***************************************************************************)
EXTENDS Naturals, Sequences, SequencesExt

CONSTANTS
  MaxItems,      \* bound on the client items the server creates
  MaxReplies,    \* bound on the replies to the messages of one read
  MaxBroadcasts  \* bound on the calls of Server::Write

ASSUME MaxItemsAssumption      == MaxItems \in Nat \ {0}
ASSUME MaxRepliesAssumption    == MaxReplies \in Nat
ASSUME MaxBroadcastsAssumption == MaxBroadcasts \in Nat

Items == 1 .. MaxItems

VARIABLES
  loop,         \* where the accept loop is
  item,         \* the newest item, which the accept loop is at
  client_list,  \* the clients, in the order they were accepted
  list_mutex,   \* "free", or "broadcast" while Server::Write holds it
  buffer_mutex, \* who holds each client's mutex_buffer_write
  reading,      \* where each client's read is
  replies,      \* the replies its OnRead has still to make
  writing,      \* where each client's write is
  peer,         \* "absent", "open" or "gone"
  targets,      \* the clients listed when Server::Write began
  reached,      \* those it has written to
  broadcasts    \* how often it was called

acceptVars    == <<loop, item>>
readVars      == <<reading, replies>>
broadcastVars == <<list_mutex, targets, reached, broadcasts>>
vars == <<acceptVars, client_list, broadcastVars, buffer_mutex, readVars, writing, peer>>

Listed == ToSet(client_list)

-----------------------------------------------------------------------------
Init ==
  /\ loop = "idle" /\ item = 0
  /\ client_list = <<>>
  /\ list_mutex = "free" /\ targets = <<>> /\ reached = <<>> /\ broadcasts = 0
  /\ buffer_mutex = [c \in Items |-> "free"]
  /\ reading = [c \in Items |-> "none"] /\ replies = [c \in Items |-> 0]
  /\ writing = [c \in Items |-> "idle"]
  /\ peer = [c \in Items |-> "absent"]

-----------------------------------------------------------------------------
(* The accept loop.                                                        *)

(* A new item is made and its socket handed to async_accept, by Start and  *)
(* at the end of OnAccept.                                                 *)
AsyncAccept(from) ==
  /\ loop = from
  /\ item < MaxItems
  /\ item' = item + 1
  /\ loop' = "armed"
  /\ UNCHANGED <<client_list, broadcastVars, buffer_mutex, readVars, writing, peer>>

Start == AsyncAccept("idle")

(* A peer connects: OnAccept(item, no error) begins.                       *)
Connect ==
  /\ loop = "armed"
  /\ loop' = "accepted"
  /\ peer' = [peer EXCEPT ![item] = "open"]
  /\ UNCHANGED <<item, client_list, broadcastVars, buffer_mutex, readVars, writing>>

(* OnAccept(item, error) returns, and nothing arms the accept again.       *)
AcceptFails ==
  /\ loop = "armed"
  /\ loop' = "failed"
  /\ UNCHANGED <<item, client_list, broadcastVars, buffer_mutex, readVars, writing, peer>>

(* The three parts of OnAccept: push_back under the mutex, the item's      *)
(* Start without it, the next accept.                                      *)
PushBack(from, to) ==
  /\ loop = from
  /\ list_mutex = "free"
  /\ client_list' = Append(client_list, item)
  /\ loop' = to
  /\ UNCHANGED <<item, broadcastVars, buffer_mutex, readVars, writing, peer>>

StartItem(from, to) ==
  /\ loop = from
  /\ reading' = [reading EXCEPT ![item] = "armed"]
  /\ loop' = to
  /\ UNCHANGED <<item, client_list, broadcastVars, buffer_mutex, replies, writing, peer>>

OnAcceptStartsFirst ==                  \* a fault: read first, list later
  \/ StartItem("accepted", "listed")
  \/ PushBack("listed", "started")
  \/ AsyncAccept("started")

OnAcceptArmsOnce ==                     \* a fault: the loop is no loop
  \/ PushBack("accepted", "listed")
  \/ StartItem("listed", "started")

OnAccept ==
  \/ PushBack("accepted", "listed")
  \/ StartItem("listed", "started")
  \/ AsyncAccept("started")

-----------------------------------------------------------------------------
(* Server::OnError, from the read's and from the write's handler: the item *)
(* is looked for under the mutex, and erased if it is still there.         *)
EraseLast(c) ==                         \* a fault: the wrong iterator
  IF client_list = <<>> THEN <<>> ELSE Front(client_list)

Erase(c) == RemoveFirst(client_list, c)

OnErrorUnlocked(c) ==                   \* a fault: the mutex is not taken
  /\ client_list' = Erase(c)
  /\ UNCHANGED broadcastVars

OnError(c) ==
  /\ list_mutex = "free"
  /\ client_list' = Erase(c)
  /\ UNCHANGED broadcastVars

(* ClientItem::Write under mutex_buffer_write: a write is started unless   *)
(* one is outstanding or has failed.                                       *)
StartWrite(c) ==
  writing' = [writing EXCEPT ![c] = IF @ = "idle" THEN "pending" ELSE @]

Take(c, who) == buffer_mutex[c] = "free" /\ buffer_mutex' = [buffer_mutex EXCEPT ![c] = who]
Give(c, who) == buffer_mutex[c] = who /\ buffer_mutex' = [buffer_mutex EXCEPT ![c] = "free"]

-----------------------------------------------------------------------------
(* A client's read.                                                        *)

(* Bytes that a peer sent before it left are still read.                   *)
ReadArrives(c) ==
  /\ reading[c] = "armed"
  /\ reading' = [reading EXCEPT ![c] = "handling"]
  /\ \E n \in 0 .. MaxReplies : replies' = [replies EXCEPT ![c] = n]
  /\ UNCHANGED <<acceptVars, client_list, broadcastVars, buffer_mutex, writing, peer>>

(* on_read: ProcessPing answers with ClientItem::Write.                    *)
ReplyLocks(c) ==
  /\ reading[c] = "handling" /\ replies[c] > 0
  /\ Take(c, "reader")
  /\ UNCHANGED <<acceptVars, client_list, broadcastVars, readVars, writing, peer>>

ReplyWrites(c) ==
  /\ Give(c, "reader")
  /\ StartWrite(c)
  /\ replies' = [replies EXCEPT ![c] = @ - 1]
  /\ UNCHANGED <<acceptVars, client_list, broadcastVars, reading, peer>>

(* The end of OnRead.                                                      *)
ReadRearms(c) ==
  /\ reading[c] = "handling" /\ replies[c] = 0
  /\ reading' = [reading EXCEPT ![c] = "armed"]
  /\ UNCHANGED <<acceptVars, client_list, broadcastVars, buffer_mutex, replies, writing, peer>>

(* OnRead(error, _) calls on_error and arms nothing.                       *)
ReadFails(c) ==
  /\ reading[c] = "armed" /\ peer[c] = "gone"
  /\ reading' = [reading EXCEPT ![c] = "erring"]
  /\ UNCHANGED <<acceptVars, client_list, broadcastVars, buffer_mutex, replies, writing, peer>>

OnReadErrorSilent(c) ==                 \* a fault: on_error is not called
  /\ reading[c] = "erring"
  /\ reading' = [reading EXCEPT ![c] = "ended"]
  /\ UNCHANGED <<acceptVars, client_list, broadcastVars, buffer_mutex, replies, writing, peer>>

OnReadError(c) ==
  /\ reading[c] = "erring"
  /\ OnError(c)
  /\ reading' = [reading EXCEPT ![c] = "ended"]
  /\ UNCHANGED <<acceptVars, buffer_mutex, replies, writing, peer>>

-----------------------------------------------------------------------------
(* A client's write.                                                       *)

(* OnWrite(no error, _), under mutex_buffer_write: what is left in the     *)
(* buffer is written on, or nothing is left.                               *)
OnWriteLocks(c) ==
  /\ writing[c] = "pending"
  /\ Take(c, "writer")
  /\ writing' = [writing EXCEPT ![c] = "handling"]
  /\ UNCHANGED <<acceptVars, client_list, broadcastVars, readVars, peer>>

OnWriteEnds(c) ==
  /\ Give(c, "writer")
  /\ writing[c] = "handling"
  /\ \E next \in {"idle", "pending"} : writing' = [writing EXCEPT ![c] = next]
  /\ UNCHANGED <<acceptVars, client_list, broadcastVars, readVars, peer>>

(* OnWrite(error, _), which takes no mutex of its own before on_error.     *)
OnWriteErrorLocked(c) ==                \* a fault: the lock_guard is moved up
  \/ /\ writing[c] = "pending" /\ peer[c] = "gone"
     /\ Take(c, "failing")
     /\ writing' = [writing EXCEPT ![c] = "erring"]
     /\ UNCHANGED <<acceptVars, client_list, broadcastVars, readVars, peer>>
  \/ /\ writing[c] = "erring"
     /\ OnError(c)
     /\ Give(c, "failing")
     /\ writing' = [writing EXCEPT ![c] = "failed"]
     /\ UNCHANGED <<acceptVars, readVars, peer>>

OnWriteError(c) ==
  \/ /\ writing[c] = "pending" /\ peer[c] = "gone"
     /\ writing' = [writing EXCEPT ![c] = "erring"]
     /\ UNCHANGED <<acceptVars, client_list, broadcastVars, buffer_mutex, readVars, peer>>
  \/ /\ writing[c] = "erring"
     /\ OnError(c)
     /\ writing' = [writing EXCEPT ![c] = "failed"]
     /\ UNCHANGED <<acceptVars, buffer_mutex, readVars, peer>>

-----------------------------------------------------------------------------
(* Server::Write, which holds client_list_mutex over the whole iteration.  *)

BroadcastBegins ==
  /\ list_mutex = "free"
  /\ broadcasts < MaxBroadcasts
  /\ list_mutex' = "broadcast"
  /\ targets' = client_list
  /\ reached' = <<>>
  /\ broadcasts' = broadcasts + 1
  /\ UNCHANGED <<acceptVars, client_list, buffer_mutex, readVars, writing, peer>>

(* The client the iteration is at.                                         *)
Cursor == Len(reached) + 1

BroadcastLocks ==
  /\ list_mutex = "broadcast"
  /\ Cursor <= Len(client_list)
  /\ Take(client_list[Cursor], "broadcast")
  /\ UNCHANGED <<acceptVars, client_list, broadcastVars, readVars, writing, peer>>

BroadcastWrites(c) ==
  /\ Give(c, "broadcast")
  /\ StartWrite(c)
  /\ reached' = Append(reached, c)
  /\ UNCHANGED <<acceptVars, client_list, list_mutex, targets, broadcasts, readVars, peer>>

BroadcastEnds ==
  /\ list_mutex = "broadcast"
  /\ Cursor > Len(client_list)
  /\ list_mutex' = "free"
  /\ UNCHANGED <<acceptVars, client_list, targets, reached, broadcasts, buffer_mutex,
                 readVars, writing, peer>>

Broadcast ==
  \/ BroadcastLocks
  \/ \E c \in Items : BroadcastWrites(c)
  \/ BroadcastEnds

-----------------------------------------------------------------------------
PeerLeaves(c) ==
  /\ peer[c] = "open"
  /\ peer' = [peer EXCEPT ![c] = "gone"]
  /\ UNCHANGED <<acceptVars, client_list, broadcastVars, buffer_mutex, readVars, writing>>

OnRead(c) == ReplyLocks(c) \/ ReplyWrites(c) \/ ReadRearms(c) \/ OnReadError(c)

OnWrite(c) == OnWriteLocks(c) \/ OnWriteEnds(c)

Next ==
  \/ Start \/ Connect \/ AcceptFails \/ OnAccept
  \/ BroadcastBegins \/ Broadcast
  \/ \E c \in Items : \/ ReadArrives(c) \/ OnRead(c) \/ ReadFails(c)
                      \/ OnWrite(c) \/ OnWriteError(c)
                      \/ PeerLeaves(c)

Spec == Init /\ [][Next]_vars

(* A handler that has begun runs on, and a mutex a thread waits for is     *)
(* granted to it at last.  Nothing is assumed of the peers, but that the   *)
(* socket reports it when one is gone: what it sent before is read first,  *)
(* and what is written to it then may still be taken for a while.          *)
Fairness ==
  /\ WF_vars(Start) /\ SF_vars(OnAccept)
  /\ SF_vars(Broadcast)
  /\ \A c \in Items :
       /\ SF_vars(OnRead(c)) /\ SF_vars(ReadFails(c))
       /\ WF_vars(OnWriteEnds(c)) /\ SF_vars(OnWriteError(c))

FairSpec == Spec /\ Fairness

-----------------------------------------------------------------------------
(* Properties.                                                             *)

\* A shared_ptr to the item exists, in client_list, in the accept loop, or in
\* the handler of an outstanding operation.  Without one the destructor has
\* closed its socket.
Held(c) ==
  \/ c \in Listed
  \/ c = item /\ loop \in {"armed", "accepted", "listed"}
  \/ reading[c] \in {"armed", "handling", "erring"}
  \/ writing[c] \in {"pending", "handling", "erring"}
  \/ buffer_mutex[c] # "free"

\* No ghosts: a client whose connection has reported an error to OnError, from
\* its read or from its write, is not on the list and never gets back there,
\* though OnAccept may still be at work on the item when the error comes.
NoGhosts ==
  \A c \in Items : reading[c] = "ended" \/ writing[c] = "failed" => c \notin Listed

\* No orphans: a client that is still read from, and so still served, is on
\* the list, once, unless its write has failed.  (Then it is served unlisted
\* until its read fails too.)
NoOrphans ==
  \A c \in Items :
    /\ reading[c] \in {"armed", "handling", "erring"} /\ writing[c] # "failed"
         => c \in Listed
    /\ Cardinality({i \in DOMAIN client_list : client_list[i] = c}) <= 1

\* Server::Write reaches the clients that were on the list when it took the
\* mutex, each once and in order, whoever connects or fails meanwhile.
BroadcastExact ==
  /\ list_mutex = "broadcast" => client_list = targets
  /\ IsPrefix(reached, targets)

\* The two mutexes are always taken in the same order, so Server::Write and
\* the error callbacks that wait for it come to an end.
BroadcastReturns == list_mutex = "broadcast" ~> list_mutex = "free"

\* The accept loop survives whatever happens to the connections: after each
\* one it waits for the next.  Only an error of the accept itself ends it.
AcceptGoesOn == loop = "accepted" ~> loop = "armed" \/ item = MaxItems

\* Nothing keeps the item of a peer that is gone: its memory and its socket
\* are released.
Released == \A c \in Items : peer[c] = "gone" ~> ~Held(c)
=============================================================================
