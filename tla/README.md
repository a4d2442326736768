# Verification of antimatter-chat-server

TLA+ models of the chat server in `src/`, the TLC runs that check them on small
instances, and TLAPS proofs of their safety properties for every value of the
constants. Paths below are relative to `src/`.

## The system

A single process accepts TCP connections and exchanges length-prefixed protobuf
messages with its clients. `main.cpp` reads the configuration, creates the
`Server`, spawns one thread per core to run the same `boost::asio::io_context`,
starts the accept loop and joins the threads. Everything after that happens in
completion handlers, on any of these threads.

| Component | State | Operations | Interacts through |
|---|---|---|---|
| `main` (`main.cpp`) | the io_context, the Server on the stack, the threads | configure, create, spawn, start, join | calls |
| `Config` (`config/`) | the singleton `instance` with `lession_port` | `GetInstance`, the constructor that parses the command line | read by `Server::Server` |
| Log (`log/`) | `lob_inited`, the sinks | `InitLog`, tested before every line | called everywhere |
| `Server` (`net/server.*`) | acceptor, work object, `client_list` under `client_list_mutex` | `Start`, `OnAccept`, `OnReadMsg`, `OnError`, `Write` (broadcast, called by nothing yet), `GetClientList` (called by nothing), the destructor | holds `shared_ptr`s to items, is called back by them through a raw `this` |
| `ClientItem` (`net/client_item.*`) | socket, `buffer_read`, `buffer_write` under `mutex_buffer_write` | `Start`, `OnRead`, `Write`, `OnWrite`, `Stop`, `OnConnect` | keeps itself alive through the handlers of its outstanding operations |
| `Msg` (`net/msg.*`) | three static maps, filled on first use, without a mutex | `InitMsgType`, `EncodeProtobuf2String`, `DecodeString2Protobuf`, `GetMsgType` | called by every item on every thread |
| Key tools (`cipher/key_tool.*`) | none: every call creates and randomizes a context of its own | key pairs, signatures, ECDH, `AesEncode`, `AesDecode`, `GetHash`, random numbers | `SignIsValidate` is called by `Server::ProcessLogin` |
| AES (`cipher/aes/`) | the round keys, the vector of the chain | `AES128_init` to `AES256_decrypt`; `CBCEncrypt`, `CBCDecrypt` with padding | called by the key tools |
| BLAKE2b (`cipher/blake2/`) | chain value, counter, flags, a buffer of one block | `init`, `init_key`, `update`, `final`, `blake2b_long` | called by the key tools |
| secp256k1: field (`field_*`) | limbs that may exceed their width, up to a magnitude | normalize, add, negate, multiply, square, invert, root, convert | used by the group |
| secp256k1: scalars (`scalar_*`) | limbs below the group order | add, multiply with folding, negate, invert, bits | used by signatures and multiplications |
| secp256k1: hashes (`hash*`) | SHA-256 with its buffer, HMAC, the generator of nonces | `write`, `finalize`, `generate` | used by the interface |
| secp256k1: group, multiplication (`group_*`, `ecmult_*`, `scratch_*`) | affine and Jacobian points, tables, blinding, scratch memory | add, double, five ways of multiplying | used by signatures and the interface |
| secp256k1: signatures, keys (`ecdsa_*`, `eckey_*`) | none | sign, verify, recover, DER, tweaks | used by the interface |
| secp256k1: interface (`secp256k1.c`, `modules/`) | contexts, key and signature objects | create, randomize, parse, serialize, sign, verify, recover, ECDH | called by the key tools |
| String tools, `proto/base.proto`, build files | none | | |

What is hard here: any two handlers of different connections run at once, and
so do the read and the write handler of one connection; `Write` may be called
from all of them; the socket takes a part of what it is given, or takes it
later, from memory the caller must keep alive; frames arrive in arbitrary
pieces; an item lives as long as somebody still refers to it; errors of reads
and writes arrive in any order; three lazy initialisations are not locked. Below
the network the code is sequential, and hard for another reason: the cases that
break limbs, carries, windows and paddings come up with random inputs of 256
bits about never.

What makes each component correct:

* write half: one outstanding write at a time, none forgotten, every byte once
  and in order, nothing after an error;
* read half: the place in the stream is never lost, exactly the good frames are
  delivered, in order;
* registry: a registered type is found, by every thread;
* server: the list holds exactly the connections that have not failed, a
  broadcast reaches them, the accept loop goes on, no deadlock, no leaked item;
* key tools: a key pair stays one, what is signed verifies, what is sealed opens,
  a login with a correct signature is let in;
* hashes and cipher: the result depends on the bytes only, not on their pieces,
  and is the one other implementations give;
* field, scalars: every sequence of operations within the magnitudes computes
  modulo the prime and the order;
* group, multiplication: the point that was asked for, for all points and
  scalars, in the memory there is;
* startup: the threads do not leave early, the Server outlives them, the
  configuration that counts is the one of the command line, the log's sinks are
  added once.

## Modules

| Module | Models | Kind |
|---|---|---|
| `ByteStream` | what a direction of a connection promises | abstract specification |
| `ClientWrite` | `ClientItem::Write`, `OnWrite`, the socket beneath them | state machine, implements `ByteStream` |
| `ClientWriteProofs` | | theorems about `ClientWrite` |
| `MsgCodec` | `EncodeProtobuf2String`, `DecodeString2Protobuf` | operators |
| `FrameReader` | `ClientItem::Start`, `OnRead` with its decoding loop | state machine over `MsgCodec` |
| `FrameReaderProofs` | | theorems about `MsgCodec` and `FrameReader` |
| `MsgRegistry` | `InitMsgType` and the lookups after it, from several threads | state machine |
| `MsgRegistryProofs` | | theorems about `MsgRegistry` |
| `Server` | accept loop, client list, error callbacks, broadcast, the life of each item | state machine |
| `ServerProofs` | | theorems about `Server` |
| `Startup` | `main`, `Config`, `InitLog`, the Server's constructor and destructor, the threads | state machine |
| `StartupProofs` | | theorems about `Startup` |
| `KeyTool` | `key_tool.cpp`, `Server::ProcessLogin` | operators over `Secp256k1` |
| `Secp256k1` | contexts, objects, what a refused argument leaves, recovery, ECDH | operators over `Ecdsa` |
| `Ecdsa`, `Der` | signing, verifying, recovering, key encodings, tweaks; DER | operators |
| `EcmultGen`, `Ecmult`, `EcmultMulti` | multiples of the generator with blinding; of a point, in constant and in variable time; of many points (Strauss, Pippenger) | operators over `Group` |
| `Scratch` | the scratch space, its frames and objects, the batch sizes | operators |
| `Group` | `group_impl.h` | operators over `FieldElem` |
| `FieldElem` | an element as its value, magnitude and normalization | operators |
| `FieldOps` | what an operation on two elements promises | abstract specification |
| `FieldRegisters` | two elements as limbs, all operations in any order | state machine, implements `FieldOps` |
| `FieldLimbs`, `ScalarLimbs` | `field_10x26_impl.h`, `scalar_8x32_impl.h` for any number and width of limbs | operators |
| `FieldProofs` | | theorems about `FieldRegisters` |
| `ScalarOps` | what an operation on two scalars promises | abstract specification |
| `ScalarRegisters` | two scalars as limbs, all operations in any order | state machine, implements `ScalarOps` |
| `PowerChains` | inverse and root in the field, inverse of a scalar | state machine |
| `CurveProofs` | | theorems about `ScalarRegisters`, `PowerChains` and `Scratch` |
| `Sha256`, `Sha256Block` | SHA-256 over any transformation, HMAC, nonces; the transformation | operators |
| `Blake2b`, `Blake2bBlock` | the streaming interface over any compression; the compression | operators |
| `AesCbc`, `Aes` | chaining and padding over any block cipher; the cipher | operators |
| `CipherProofs` | | theorems about `Sha256`, `Blake2b` and `AesCbc` |
| `BitWords` | words as bits, for the real widths | operators |
| `MC*` | instances for TLC, where values in a configuration do not suffice; `MCDigests` and `MCCurve` are also the state machines that call the operators, and state their properties | |

How they build on each other: `ClientWrite` is proved to implement `ByteStream`,
`FieldRegisters` to implement `FieldOps` and `ScalarRegisters` to implement `ScalarOps`,
so the curve computes on numbers modulo the order; `FieldElem`, the value with a
magnitude that the curve computes on, is what that justifies. On it stand `Group`, the
`Ecmult*`, `Ecdsa`, `Secp256k1` and, at the top, `KeyTool`. `Sha256`, `Blake2b`
and `AesCbc` take the transformation as a parameter, and are instantiated twice: with one that only
records its blocks, and with the real one. The loops of these three are recursive
functions, `Chain` and `Chained`, from how many blocks are done to the state after them.

Definitions whose comment says "a fault" are single plausible bugs. They take no
part in any specification; substituting one for the definition that follows it
shows which property would notice.

### ClientWrite

`Write` and the success branch of `OnWrite` hold `mutex_buffer_write`
throughout, so each is one step. A byte is named by its position in everything
ever appended; `buffer_write` is `erased+1 .. appended`. An outstanding
`async_write_some` is a record of the bytes its buffer covers and of the memory
they are in: the member, a block the member has since moved out of, or the
local `buf` of `Write`. The socket is tried at once; if it has no room the write
is queued and performed later, from that memory, and freed memory may still hold
its bytes or anything else (`garbled`). After a short write asio waits for the
socket to become writable even if there is room (`mayDefer`).
`OnWrite`'s error branch takes no lock and changes nothing but the callback.

`Msg` encodes a message of no registered type as nothing, and `Write` then starts a write of no
bytes, which asio completes at once. Since `buffer_write` stays empty, the next `Write` starts a second
one. The module has this (`AsyncWriteSome`), and TLC finds `OneWrite` violated if 0 is added to the
`FrameSizes` of `ClientWrite.cfg`. That configuration leaves it out, and the theorems assume `NoEmptyFrame`: the
classes of `base.proto` are all registered, so a frame can be empty only where the race of `MsgRegistry` misses a type.

Position and content are kept apart on purpose: `InOrder`, `Accounted` and
`ImplementsStream` are about which byte is sent and hold; `StreamIntact` is
about the memory it is sent from and does not (see Findings).

### MsgCodec and FrameReader

Strings are sequences of bytes. `Parses(type, content)`, whether protobuf
accepts a content, is a constant. `Encode` gives nothing for type 0, which is what `GetMsgType` finds for
a message that is not registered, and the bytes of the frame (`Framed`) for any other. `Complete`, `Content`, `Rest` and `Yields` are the
tests and cuts of `DecodeString2Protobuf` in their order, with the wrap-around
of `len - sizeof(type)` for a length below 4. In `FrameReader` a script is all a
peer will send, together with the places where its frames end, and one turn of
the loop in `OnRead` is one step. `parsed` and the frame number in `delivered`
are history, to relate what is delivered to what was sent.

A frame is *good* if its length covers its type, the type is registered and the
content parses. A peer that sends a length below 4 gets whatever the buffer holds behind it
taken for a content, and the reader still keeps its place: `InSync` makes
no exception for such frames, `OnlyGood` makes one.

### MsgRegistry

A map is empty or full, and filling it is a step between two others; a thread
passes the test, clears and fills each map in turn, and then looks into
`int2func` (decoding) or `string2int` (encoding a reply). A lookup into a map
that another thread is assigning, and two assignments at once, are data races:
the lookup hits or misses, or the process dies. `raced` records that a thread
came to `InitMsgType`, or to a lookup, while another was past its test.

### Server

What is done under `client_list_mutex` alone is one step; `Server::Write` holds
it over one `ClientItem::Write` per client, each under the client's own mutex,
so the two mutexes are variables. Nothing in the repository calls `Server::Write` yet (the replies of `ProcessPing`
go through `ClientItem::Write`): it is modelled as the interface it is, callable at any time from
any thread, and `BroadcastExact` and `BroadcastReturns` are about its future callers. Reads and writes are abstracted to where they
are (none, outstanding, in the handler, in the error callback); that there is at
most one of each is what `ClientWrite` and `FrameReader` establish. A read's
handler makes a bounded number of replies (`ProcessPing`). A peer that has gone
may still have bytes to be read, and writes to it may succeed for a while.

### Startup

`main` is a sequence of statements, and the workers run as soon as they are
spawned. A handler is reduced to what `OnAccept` and `OnRead` share: it logs and
arms what comes next; one for an accept that failed does neither (`OnAcceptError`). `OutOfWork` is asio's condition for `run()` to return.
`hardware_concurrency()` may be 0, the port may be taken, and the command line
may be absent, `--help`, unknown or any number.

### FieldLimbs, FieldRegisters, FieldOps, PowerChains

`FieldLimbs` is the arithmetic on limbs with its number of limbs, their width and the
width of words and accumulators as constants; sums wrap round as words do. The
unrolled carry chains and columns of the code are functions on the limbs. `Reduce` is the
interleaved reduction of `mul_inner` and `sqr_inner`, column by column, with both accumulators.
`FieldRegisters` holds two elements with the fields `magnitude` and `normalized`
of the `VERIFY` build and performs any operation whose precondition holds, so a
sequence can drive the magnitudes to their limit; `Verify` is `secp256k1_fe_verify`.
Its assumptions say what the code's comments leave to the reader: the shape of the prime
(`ShapeAssumption`), and that a word holds a limb of the largest magnitude (`WordAssumption`) and
an accumulator what a column of a product comes to, with what is carried into it and
the reduction adds (`ProductAssumption`). `ContractAssumption` is the contract of `field.h`: magnitudes
of at most 32, factors of at most 8, and elements that start as numbers of 32 bytes;
`FormAssumption` says that bytes divide the bits of an element, with none over. The code's numbers meet them (10 limbs of 26 bits, the
top one 22, `C0` = 977, `S` = 6, words of 32 bits, accumulators of 64, magnitudes
32 and 8), and TLC evaluates them for the run's. `FieldOps` is the same on
residues. `PowerChains` lists the squarings and products of the three chains,
one instruction per line of the code, over any squaring and product; `Power` is
what they are checked against, by the hexadecimal digits of the exponent.

### ScalarLimbs, ScalarRegisters, ScalarOps

The same for the group order, of which the code uses that it is `2^256` minus
129 bits. An accumulator of three limbs is one number modulo `Base^3`, and modulo `Base^2`
where the fast macros leave its third limb alone. `FoldedOnce` and `FoldedTwice` are the
foldings of `reduce_512`, and `Reduce` the one subtraction at the end. `ScalarRegisters`
holds two scalars and performs any operation; what the code asserts of the caller is a
guard (a bit is added only if the sum is a scalar, a product is shifted by all of its
lower limbs at least). Bytes that are loaded need not be below the order. `ScalarOps` is the
same on numbers modulo the order.

`ShapeAssumption` is the shape of the order: `2*J` limbs, fewer than a limb counts, and
an order that is `2^(L*W)` minus a number `C` of `J + 1` limbs, the top one 1, the lowest not 0, with `C*C` at
most twice `2^(L*W)`. `FormAssumption` says that bytes divide a limb, `UseAssumption`
that values loaded have `L*W` bits. The code's order meets them (8 limbs of 32 bits,
`J` = 4, bytes of 8 bits, `C` about `1.27 * 2^128`).

### FieldElem, Group, Ecmult, EcmultGen, EcmultMulti, Scratch

An element that breaks a precondition asserted by the `VERIFY` build becomes
`Broken` and spoils what is computed from it, so the magnitudes in the
comments of `group_impl.h` are checked along with the values. Prime, order,
windows and table sizes are constants, since the code derives all else from them.
The endomorphism is a build option that is off. The constant-time loops that read all entries
of a table and keep one are modelled by the entry they keep.

`Scratch` is the memory of the batches: what a frame is granted, what each
object takes of it, and how many points `pippenger_max_points` and
`strauss_max_points` say would fit. It uses the sizes of a 64-bit build.

### Der, Ecdsa, Secp256k1, KeyTool

A DER text is a sequence of bytes; every other encoding is a record of its fields,
which the code copies without a condition. A nonce function is the list of the nonces it gives
in turn (`Sha256` has the one the code uses). Objects hold the point or scalars they stand for.
A call gives what it returns, `ret`, and what it leaves in its output, `out`. An argument that fails its
`ARG_CHECK` makes it return 0 and nothing else (`Illegal`): the body of `secp256k1_callback_call` is commented out
(`util.h:24-27`), so the callbacks that would end the program are never called. A caller that does
not look at the result goes on with what is there: `SignIsValidate` with a key of which nothing was
serialized, `GetEcdhKey` with a point of two zeros. Only the assertions of `key_tool.cpp` end the program, and
that is `Died`.

### Sha256, Blake2b, AesCbc and their blocks

The buffered bytes and the counts are as in the code; a copy in pieces into a
buffer is one concatenation. `IncrementCounter` carries from one 64-bit counter to the other.
`Aes` follows the circuit of gates of `SubBytes` gate by gate, on bytes
instead of slices of bits, as the slices only serve to do sixteen bytes at once.
In `AesCbc` a failed call returns the empty text, which is 0 in the code.

### MCArithmetic, MCPrimitives, MCDigests, MCCurve

`MCArithmetic` steps through
`FieldRegisters` and `PowerChains`, `MCPrimitives` through `ScalarRegisters` or `MCDigests`,
each behaviour through one of the two. `MCDigests` feeds pieces to both hashes and finishes
them; apart from that it asks questions with known answers. `MCCurve` meets pairs of
points; apart from that a key pair is made, changes with its context by every call that
changes it, signs and logs in. What these calls compute is checked on the step that
makes them, so most of their properties are action properties; `KeysAgree` is
an invariant written as one (`I /\ [][I']`). The long calls of `MCCurve` go through the
constant `Call`, whose value is the operator `Library`: TLC's profiler unfolds a
definition at each of its uses, which for the curve would have no end, and stops
at constants.

## Runs

| Run | Instance | States | Shows |
|---|---|---|---|
| `ClientWrite` | frames of 1 and 3 bytes, a socket buffer of 2, 6 bytes in all | 7 000 | one write at a time, no lost wake-up, order, silence after an error, progress, refinement |
| `ClientWriteMemory` | frames of 1, socket buffer of 1 | violation | bytes sent from freed memory |
| `FrameReader` | streams of 1 to 3 frames of six kinds, every cut | 28 600 | framing, dropped frames, held-back frames, progress |
| `Server` | 3 items, 1 reply per read, 2 broadcasts | 1.5 million | the client list and the broadcast |
| `ServerLive` | 2 items, 1 reply, 1 broadcast | 14 500 | no deadlock, accept loop, release |
| `MsgRegistry` | 3 threads, 2 frames each | 158 000 | what the race can and cannot do |
| `MsgRegistryRace` | 2 threads, 1 frame each | violation | a good frame dropped |
| `Arithmetic` | field: 4 limbs of 6 bits (the top one 5), prime 8388539, 4 operations; the real chains | 30 500 | limbs never overflow and implement the field; inverses and root |
| `Primitives` | scalars: 4 limbs of 3 bits, order 4011 = 2^12 - 85, 2 operations; messages up to 300 bytes in pieces around the block sizes; known answers; every text of up to 4 two-bit bytes sealed with a toy cipher of 3 | 7 800 | limbs implement the numbers modulo the order; products within their accumulators; pieces do not matter, the real answers, sealing and opening |
| `Curve` | y² = x³ + 7 modulo 43, 31 points, windows 3 and 4, scratch spaces of real sizes | 4 600 | every multiplication, memory of the batches, key pairs, signatures, encodings |
| `CurveLogin` | the same curve, without a second blinding | violation | no login is told right |
| `Startup` | 4 ports, 0 to 2 cores, 2 connections, an accept that fails | 530 | port, log, threads, end of `main` |

Why the bounds suffice. In `ClientWrite` a frame larger than the socket's buffer
and one smaller give short writes, full sockets, appends during a queued write,
and a rest that spans frames; six bytes allow several frames to pile up behind a
rest. `FrameReader`'s six kinds take every branch of the decoder, three of
them in a row allow a good frame before, between and after bad ones, and
`ReadMax` exceeds every stream, so a read may bring any number of frames and cut
anywhere. In `Server` three items give a broadcast a first, a middle and a last
client, any of which may fail while another is accepted. Two threads suffice for
the registry's race and a third may come late. One core serialises the workers,
two do not.

In `Arithmetic` an element has, as in the code, a lowest limb with `C0`, a next one
with the rest of the prime's form, a full middle one and a short top one; words and accumulators
are as wide as the largest magnitude needs and not a bit wider, so that
exceeding it would show. Four operations suffice to reach the largest magnitude from fresh elements
and multiply, normalize or compare there. What a scalar of `Primitives` is loaded with is 0, 1, a full limb, half the order and one more,
the order less one, the order itself and the largest number there is, so sums and bytes
overflow and do not, the first folding of a product leaves 0 and 1, the second 0, 1 and 2. Two operations on such
scalars reach 6 000 pairs, in each of which every product, window of bits and shift is checked. The
chains are run on exponents of the real 256 bits. For the
hashes the pieces, of 0 to 129 bytes, end before, at and after the boundaries of
both block sizes (64 and 128) and of the length field of SHA-256; two full
blocks and a rest fit into 300 bytes. The S-box is checked on all 256 bytes. On a curve of 31 points all
pairs are added, all scalars recoded, sums are infinite or doublings, an x
may reach the order (as 43 exceeds 31), and all four recovery ids occur, which no
test on the real curve can do. There `SignaturesHold` says of each signature, and of it changed in `r`, in `s` and in `v`, exactly which keys `SignIsValidate`
tells right (among the signers, another key, a short one and none): those whose signature it is, and no key at
all where nothing is recovered; the windows are as small as gives digits of
both signs, several digits and carries. `Scratch` runs at its real sizes, for about a thousand sizes
of memory up to 9 MB, with the point counts at which the windows change.

`CHECK_DEADLOCK` is off throughout, as every model stops when its
bound is reached or its peers are gone.

`FrameReader` bounds nothing but the scripts: `MaxFrames` is in its MC module.
`MaxMagnitude` and `MaxFactor` (`FieldRegisters`) are the magnitudes the
words have room for, 32 and 8 in the code. The other bounds are `MaxBytes` (`ClientWrite`), `MaxItems`, `MaxReplies`,
`MaxBroadcasts` (`Server`), `MaxCalls` (`MsgRegistry`), `MaxCores` and
`MaxClients` (`Startup`), `MaxSteps` (`MCArithmetic`, `MCPrimitives`), `MaxFed` (`MCDigests`) and
`MaxRounds` (`MCCurve`: how often a context is blinded anew).

### Fairness

The ciphers, digests and the curve are sequential and have no liveness property. Nothing is assumed of a peer: it need not send, read or leave. What is assumed
is what the pool and asio guarantee.

* A handler that has begun runs to its end, and a posted one is run: weak
  fairness of the handlers in `ClientWrite`, `FrameReader`, `MsgRegistry`,
  `Startup`, and strong fairness in `Server` where a handler waits for a mutex
  that others keep taking and giving back (`std::mutex` is granted in the end).
* The reactor performs a write the socket has room for, and reports the end of a
  connection. In `Server` that takes strong fairness, because what arrived
  before the end is read first.
* `Startup`: a queued accept is taken by some thread, however many reads
  are queued besides it.

`Drains` has the two ways out that the code leaves: the connection breaks, or the
peer stops reading for good. `GoodPeerServed` and `NextReadFrees` end with the
connection at the latest.

## Findings

* **Bytes from freed memory** (`ClientWriteMemory`, `net/client_item.cpp:50`
  and `:98`). `async_write_some` is given a buffer over a local string, or over a
  member that a later `append` may move. The write must wait if the socket is
  full, and is then performed from memory that is gone. A frame as `net/msg.hpp:7-11` describes it
  is not what the peer receives.
* **A good frame dropped** (`MsgRegistryRace`, `net/msg.cpp:18`). A second
  thread takes the registry for filled as soon as its first map is, finds no
  constructor for the type of its frame in the third and drops the frame.

* **No login is told right** (`CurveLogin`, `net/server.cpp:114`). `ProcessLogin`
  hands `SignIsValidate` the public key with a time and an index behind it, and
  `SignIsValidate` refuses whatever is not 32 bytes (`key_tool.cpp:117`), although
  `key_tool.h:48-55` promises the answer whether the signature is correct.

Met on the way, and stated by the properties as they are: a good frame behind a
dropped one waits in memory until the peer sends more (`HeldBackByBad`,
`NextReadFrees`); after a failed write the client is off the list but still
read from and answered, into a buffer that is never sent (`NoOrphans`,
`SilentAfterError`); an error of the accept itself ends the accept loop
(`AcceptFails`, `OnAcceptError`); a negative port wraps around (`Parse`); a signature with
recovery id 2 or 3 is written with the byte 0 and then not told right; one
that recovers no key is compared over no bytes, so it is told right for the empty public key and for no other, though
`ProcessLogin` never gets that far (`SignIsValidate`); bytes that are no public key give one and the same
secret with every private key (`GetEcdhKey`); a message of no registered type is written as no
bytes at all (`Encode`, `NoEmptyFrame`); with no cores `main` ends at once (`Join`); the empty text is not sealed (`AesEncode`).

## Proofs

All theorems are proved by `tlapm`, for every value of the constants that meets
the named assumptions of the modules. `FrameSizes` are numbers, `SockBuf` is positive and
`MaxBytes` a number; every script is delimited by its own lengths (`Delimited`) and
`ReadMax` is positive; there are finitely many `Threads`; there is at least one item
(`MaxItems`) and `MaxReplies`, `MaxBroadcasts`, `MaxCalls`, `MaxCores` and `MaxClients`
are numbers; `PortsAsked` are integers, negative ones among them. The assumptions of `FieldRegisters` and `ScalarRegisters` are described
with them. The theorems of `ClientWriteProofs` have `NoEmptyFrame` as a hypothesis, and those about
the digests, the ciphers, the chains of powers and the scratch space have theirs in their statements.

**ClientWriteProofs.** `OneWrite` is not inductive: that `Write` starts no
second write depends on `buffer_write` being empty exactly when nothing is
outstanding, which is `Pumped`; that in turn depends on a completed write
erasing no more than it covered (`Covers`: the outstanding write starts at the
first byte of the buffer and ends within it) and on nothing being outstanding
after an error (`Halted`). `Accounted` ties the socket's count to `erased`, from
which `InOrder` follows. `IInv` is their conjunction; one lemma per action shows
that it is preserved, with `StartWrite` shared by `Write` and `OnWrite`. From it
come `TypeCorrect`, `OneWriteAtATime`, `NeverStranded`, `BytesInOrder`,
`ErasesWhatWasSent` (the theorem of `Accounted`), `SilenceAfterError`, and `WriteImplementsStream`, that each step is a step of
`ByteStream` or a stutter.

**FrameReaderProofs.** First the codec: `RoundTrip`, that an encoded message
with anything behind it decodes to its type and content and leaves what was
behind it, and `FrontFrame`, that a window of the stream that starts at a frame
and holds all of it decodes exactly as the frame alone does. Then the reader:
`IInv` adds to the checked invariants that the frames parsed lie within what has
arrived. `FrontFrame` is what makes the step from the buffer to the script.
`StaysInSync`, `DeliversTheGoodFrames`, `SkipsNone` (the theorem of
`AllGood`), `HeldBackOnlyByBad` and `TypeCorrect` follow.

**MsgRegistryProofs.** `MissOnlyByRace` says nothing of how a run without the race goes,
so it is not inductive. `Sequential` does: at most one thread is past the test, the maps
are those it has filled so far (`FilledAt`), before and after it the registry is
empty or full, and who looks a type up finds it full. `IInv` is `raced` or
`Sequential`, with the property. From it come `MissesOnlyByRace` and, with a
lemma about one step, `SettledForGood` (the theorem of `StaysSettled`).
`SettledServes` adds that no lookup misses in a settled registry and no thread crashes
there, raced or not: the danger is confined to the first frames of a process.

**StartupProofs.** Everything follows from the order of the statements of `main`, which
`IInv` spells out: what the port of the configuration and of the acceptor can be
at each statement (`FromArgv`), that the log is set up before there is a thread
(`LogBeforeThreads`), that the work object exists and `main` has not
ended while there are threads (`WorkKept`), and that the threads are those spawned (`OnlySpawned`).

**ServerProofs.** What `RemoveFirst` and `Append` do to a list without repetitions comes
first, as lemmas. `NoGhosts` and `NoOrphans` follow from `Served`, which says exactly who is
on the list: who has been put there and has had no error. To be inductive it needs to know of the
client the accept loop is still at that it can have had none yet (`Fresh`); the steps
under a mutex need what their holder has seen before it took it (`ReaderLock`,
`BroadcastLock`). `BroadcastExact` is inductive with these, and gives
`BroadcastIsComplete`: a broadcast that gives its mutex back has written to every client that was
listed when it took it.

**CipherProofs.** Induction, with the hypothesis as a set of numbers, comes from the
library's theorem that `<` on the numbers is well-founded (`LeastNatural`, `Induction`). With it
`Chain` exists and takes one step per block, and `ChainOfBoth` says that a chain over two pieces is that
of the first, resumed with its rest before the second. It is what the buffer of SHA-256 does:
`PiecesDoNotMatter`, for every transformation, and for HMAC on top of it. `BytesTellTheBuffer`
is the invariant the code relies on in keeping no length of the buffer, and `DigestOfThePadded` says the
padding ends on a block for every length, so `finalize` hashes the whole padded message. BLAKE2b differs in what it holds back: a full
buffer stays until something follows. `BlakePiecesDoNotMatter` holds all the
same, `BlakeKeepsTheLastBlock` says that there is something left to
flag as the last block and that the buffer never overruns, and `BlakeOneDigest` that a state serves once.

The rest is about sealing. `IsSealed` is the invariant of the loop of `CBCEncrypt`: the text written so far
starts with the vector, and each block is what the mode says of the one before it and the data.
`UnchainOpens` turns it round, one block at a time, for the loop of `CBCDecrypt`: `SealedOpens`.
`PaddedText` and `PaddingComesOff` are about the padding, for every length of a text and of a block:
`PaddedOpens`, and `EncodedDecodes` for the calls of the key tools with the rooms they compute.
`OpenedWasSealed` is the converse, and the harder half: whatever opens at all is
the one sealing of what it opens to, so the tests of the padding accept nothing that was not
padded that way. The hypothesis is that the block cipher and the mixing of bytes can be undone
(`BlockCipher`, for the converse also the other way round, `BothWays`). Both hold of the toy cipher
of the run `Primitives`, whose property about sealing is the two theorems on an instance.
That the operators of `Aes` meet them is not proved; the run has known answers for them.

**FieldProofs.** That nothing wraps is stated without a list of places where something might: `Wide` is
the same machine with words and accumulators of any larger width, and `NoWrap` says that every
behaviour of the one is a behaviour of the other, step by step. The second machine's
widths are constants of the module, and `Wider`, the only hypothesis, says that they are no smaller.
`fe_verify` is not inductive: limbs as large as it allows at the largest magnitude would
wrap in `normalize_weak`, where the lowest limb takes in up to 63 times `C0`. What is inductive
is that limb `i` is at most `2*m` times limb `i` of the prime (`Bounded`), which is what `negate` subtracts from; it leaves
exactly the room `C` needs. `Carries` says of limbs that they have room for their carries, and then
a pass does the same in words of any size (`AddCAgrees`). `NormalizeAgrees` is the argument for a single conditional
subtraction at the end of `normalize`. For products, `TotalBelow` bounds a sum by weights, one for each
term of `mul_inner`, two or one for those of `sqr_inner`; `StepGoes` bounds what the accumulators
carry from column to column, and `FinishedIsClosed` follows the last of it into the lowest limbs. The
carries, the sums and the reduction are recursive functions, whose existence is by `Induction`, as for `Chain`; that a
power of two is a number comes from counting subsets. `VerifyHolds` and
`VariableTimeAgrees` follow from the invariant; both are parts of `LimbsFaithful`.

The second half of the module is about what limbs are worth, from the same invariant:

* *Carries.* A pass keeps the sum of each limb and its carry, so `Part`, the share of the value that the lower
  limbs have, differs from what it was by the carry times its weight; the top limb keeps its own. Hence
  `normalize_weak` changes the value by a multiple of the prime, and `normalize` gives
  the residue. That `AtLeastP`, a test on single limbs, compares with the prime is `AtLeastPValue`; that
  the two patterns of limbs which the test for zero looks for are all the multiples there can be
  after a pass is `NormalizesToZeroValue`.
* *Forms.* The bytes and the words of the storage form group the bits of the number anew (`Regroup`). An
  element is the sum of its bits, whatever digits they are read in (`SumOfBits`, `RegroupBack`), so it comes
  back: `FormsGiveBack`. `Faithful` puts these together with comparing: `LimbsFaithful` in every reachable state.
* *Products.* Adding up by columns is adding up by rows (`ColumnsByRows`), so the columns of `mul_inner` are worth
  the product and those of `sqr_inner`, which double instead of repeating, the square. `ReductionHolds` is
  the invariant of the interleaved reduction: the limbs given up and both accumulators (`Holds`) are
  worth, modulo the prime, the columns taken so far (`Taken`), because a limb above the
  top is worth `R0` and, one limb up, `R1` (`Fold`). `ReduceValue` adds the end of it, where the accumulators
  meet at the top limb.
* *Refinement.* One lemma for each action (`NegateComputes`, `MulComputes` and so on) says that the step is the
  step of `FieldOps` with the element replaced by its residue, magnitude and flag, and `Implements` that `FieldRegisters` implements
  `FieldOps`. What `Times` of `FieldElem` computes by a recursion on digits is the product modulo the prime (`TimesValue`).

That the prime is one is used nowhere.

**CurveProofs.** Three parts. The provers round large literals to other numbers, so
none appears: the powers of 2 are symbols with the laws that are proved first.

*Scalars.* The inductive invariant `IInv` is short, as scalars have no magnitude: both are `L` limbs below `Base`, and
worth less than the order. All the work is in what one step computes.

* Sums, weights and `ColumnsByRows` are as for the field. `Ripple` keeps the sum of its terms, so an
  addition is the sum of two scalars less its carry. `CheckOverflow` compares limbs from the top, which is comparing numbers.
  Together they say how often the order has to be taken off, 0 or 1, and `Reduce` does it by adding `C` and dropping the carry.
* The accumulator of a column is three limbs, whose third the fast macros leave alone. That nothing is lost takes
  `L < Base`: at most `L` products of two limbs and a carry stay below `Base^3`, and the first and last two columns below `Base^2`.
  `Sqr512` doubles instead of repeating and gives the same columns.
* A folding replaces what is above `L` limbs by its product with `C`, which is the same modulo the
  order. The bounds are the argument of the comment in the code, for any order of the shape: after the first there are
  `J + 1` limbs above and the topmost is at most 1, after the second what is left over is at most 2, and a single
  subtraction of the order suffices. From this come `ProductsStayWithinChecks` and `MulHas`.
* Windows of bits that span two limbs, shifts and rounding are quotients and remainders by powers of 2;
  a number is the sum of its limbs and its bytes whatever they group (`LoadedBack`).

`ScalarsImplement` is the refinement: each step is a step of `ScalarOps` on the numbers. `ScalarsAreExact` follows
from `IInv` in each state, with the products and their bounds among what it says. That the order is a prime is used nowhere.

*Chains.* `ChainsAreExact` is about any set of elements with an associative product whose square is the product with itself
(`PowerLaw`), with the arguments among them: the field and the scalars are two, and the exponents that the
run counts with a third. The invariant `ChainInv` says of each register that has been written the exponent of
which it holds the power: the exponents are computed by the instructions (`InverseInstructions` and
so on), and those of the last registers are the numbers that the digits of `Power` stand
for. `Power` itself multiplies by digits, and `PowerOfNumber` gives the exponent of the number they form. Which number this
is for each chain is never written out, as it has 256 bits: the blocks of ones and the
windows are joined as sums of powers of 2, and the digits are shown to give the same sums.

*Scratch.* `PippengerFits` and `StraussFits`: in every space, with whatever frames there are in it, a
batch of any number of points up to what was said to fit is granted its frame and all of its objects, and leaves
the space as it was. So the batches are right not to look. For Strauss each object is a part of the size that the
number of points was divided by; the rounding to 16 bytes of the six objects is what `MaxAllocation` keeps back
(`GrantedFits`). For Pippenger the number of points is found with one window and used with another:
`BestWindow` is the window a batch takes, and `Tried` the invariant of the loop of `pippenger_max_points`, that every window it
has gone past has memory for as many points as it is best for. A smaller number of points therefore fits with its
own, smaller window, which is what the comment above that function promises. The loop is cut off early on purpose, and
`Tried` would not hold without. `BatchesSuffice` adds that no batch is empty and none takes more points than
that. The hypothesis `Widths` is that the windows of Strauss have at least two bits.

### What is only model-checked

* Every liveness property (`Drains`, `NextReadFrees`, `GoodPeerServed`,
  `BroadcastReturns`, `AcceptGoesOn`, `Released`, `Settles`, `Serves`): they rest on fairness and
  `ENABLED`, out of the prover's reach.
* The answers of the transformations, which are fixed long computations.
* The curve: that its additions agree with the group of points is a fact about one small
  curve, found by going through it. So `MultiplesExact`, `KeysAgree` and `SignaturesHold` stay with TLC. `ScratchSuffices`
  does too, as its run fixes the sizes of the spaces; `PippengerFits` and `StraussFits` say it for all.

## Not modelled

* Code that is not compiled: `basic-config.h` selects limbs of 26 and 32 bits
  (`field_10x26`, `scalar_8x32`) and no GMP, so `field_5x52*`, `scalar_4x64*`,
  `num_gmp*` and the tables for assembler are other forms of what is modelled;
  `scalar_low`, `testrand*`, `gen_context.c` and the SSE headers of BLAKE2b are for
  tests, measuring or other processors. The branches of the endomorphism are off. `bench_ecdh.c`
  is compiled, as `CMakeLists.txt` lists it, but its functions are static and its `main` is commented out: nothing of it runs.
* The interface's null pointers and public scratch spaces: the program passes none. The callbacks,
  which are never called.
* What the operating system draws at random is a choice; `CreatePrivateKey` and
  `CreateCustomRandom` do nothing else. `SigHasLowR` is called by nothing.
* The constructor of `ClientItem` that connects, `OnConnect`, `IsOpen`, the
  endpoint getters and `Server::GetClientList`: nothing in the repository calls them.
* The contents of a reply: what a client is told beyond the frame it is in.
* Memory exhaustion (two buffers of 10 MiB per client, buffers without a limit, the
  context `SignIsValidate` does not free), secrets wiped from memory and the
  absence of timing differences, wording of the log, hexadecimal output, the build.

## Plan

1. *Done*: `ClientWrite`, `MsgCodec`, `FrameReader`, `Server`, `MsgRegistry`,
   `Startup`; proofs of the first three. The ciphers: arithmetic, digests, curve,
   signatures, key tools and the login over them.
2. *Done*: proofs of the safety of `Server`, `MsgRegistry` and `Startup`; of the digests
   over any transformation and of `AesCbc` over any cipher; that no operation of the
   field exceeds its words, that limbs say what is true of their number, and that the limbs implement the field.
3. *Done*: that the limbs of the scalars implement the numbers modulo the order, that the chains
   end with the powers they are for, and that the batches find room in the scratch space.
4. `ChatSystem`: a client and the server with both halves of a connection, a Ping
   answered by its Pong, composed from the `ByteStream` of each direction; the
   abstract specification is a channel of messages. Include the connecting
   constructor and `OnConnect`.
