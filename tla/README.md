# A TLA+ specification of mgclient

mgclient is the C client of Memgraph: it opens a connection, speaks the Bolt
protocol (versions 1 and 4.1) over it, and hands out results as values. This
directory holds TLA+ models of its stateful parts, TLC configurations that check
them on small instances, and TLAPS proofs for the properties that matter most.

Paths below are relative to the repository; the C sources are in `src/`, the
public header is `include/mgclient.h`.

## The system

| part | state | operations | talks to |
|---|---|---|---|
| session (`mgclient.c`, `mgsession.c`) | status, protocol version, transaction flag, `query_number`, the last result message, the column list | `mg_session_run`, `pull`, `fetch`, `begin_transaction`, `commit/rollback_transaction`, `invalidate`, `destroy` | the server, through encoder, framing and transport |
| connection establishment (`mgclient.c`) | socket under construction, transport, out parameter | `mg_connect`: parameters, addresses, socket, TLS, trust callback, handshake, INIT/HELLO | operating system, OpenSSL, the user's callback, other threads through the descriptor table |
| framing (`mgsession.c`) | `out_buffer`, `in_buffer` and their positions | `write_raw`, `flush_chunk`, `flush_message`, `read_chunk`, `ensure_space_for_chunk`, `receive_message` | transport |
| transports (`mgtransport.c`, `linux/mgsocket.c`) | descriptor or SSL object | send, recv, destroy | kernel, OpenSSL |
| encoder, decoder (`mgsession-encoder.c`, `mgsession-decoder.c`, `mgmessage.c`) | cursor in `in_buffer` | one function per type and message | framing, values, decoder allocator |
| values (`mgvalue.c`, `mgclient-value.hpp`) | trees of blocks, and C++ objects that own them | make, append/insert, at, copy, move, assign, destroy, equal | allocators |
| allocators (`mgallocator.c`) | list of blocks, offset | malloc, reset, destroy | system allocator |
| C++ client (`mgclient.hpp`) | a session pointer, a column list | `Connect`, `Execute`, `FetchOne`, ... | session |
| other platforms (`windows/`, `apple/`, `mgwasm.c`) | - | the same socket interface | kernel |

A session is used by one thread at a time; different sessions may be used by
different threads. What makes the code hard to get right is not parallelism inside
it but the two state machines at the ends of a connection: each call sends one
request, takes the next message for its reply, and must leave both ends agreeing
on what is open, after every one of its error paths.

What makes each part correct:

* session - requests and replies never get out of step; a call is possible only
  in the statuses the API promises; a lost session is reported, stays lost and is
  never used again; client and server agree on transactions and open results;
  every call returns.
* connection - every socket is closed exactly once by the one that owns it, also
  when threads share the descriptor table; the result tells what the out
  parameter holds; every address is tried once.
* framing - what is sent is a framing of what was written and what is received is
  the message that was framed, whatever the transport cuts it into; nothing is
  read or written past a buffer.
* encoding - what one side writes the other reads back; malformed or truncated
  input is refused, and never read past its end; a path that was accepted can be
  walked.
* decoder memory - decoded objects lie apart in memory that is allocated; no block
  is lost; a message is not used once the next one has been received.
* values - every block is destroyed by exactly one owner, whatever was copied,
  moved, wrapped or inserted before; a copy is the same tree in blocks of its own,
  or leaves nothing behind, and does not touch what it copies; equality is an
  equivalence.
* C++ client - what a method returns says what became of the session; rows are
  read under the columns of their own query; a drained result makes room for the
  next statement; the fetching loops end.

`PROJECT.json` lists the hazards line by line and the properties that cover them.

## Modules

| module | models |
|---|---|
| `BoltChannel` | a connection at the level of messages: two queues, two ends |
| `MgSession` | the client: every call of a session, in the steps at which it can block |
| `SessionContract` | what the API promises of those calls: an abstract specification |
| `AnyServer` | `MgSession` with a peer that sends anything, at any time |
| `BoltServer` | a conforming server (not in the repository: read off what the client sends and expects and the servers `tests/client.cpp` plays) |
| `BoltSystem` | `MgSession` with `BoltServer` |
| `Connect`, `MCConnect` | `mg_connect_ca` run by several threads; parameters for TLC |
| `ChunkWriter`, `MCChunkWriter` | the sending half of a session's buffers |
| `ChunkReader` | the receiving half |
| `ChunkFormat` | bytes, sizes, and what a framing of a message is; extended by both |
| `LinearAllocator` | the decoder's allocator: its list of blocks, `malloc`, `reset`, `destroy` |
| `DecodedMessages`, `MCDecodedMessages` | messages decoded into that memory, over the calls of a session; extends `LinearAllocator` |
| `PackFormat` | encoder and decoder of numbers, sizes and strings, on bytes, and the markers |
| `PathFormat` | the indices of a path: how the decoder checks and how the accessors use them; extends `PackFormat` |
| `PackStream` | encoder and decoder of all values, on top of these two (recursive, used by TLC only) |
| `BoltMessages`, `MCBoltMessages` | messages on top of it, arriving whole, cut or damaged |
| `Values` | the types of values and the two equalities on them (recursive) |
| `ValueMemory` | the blocks values are made of: make, insert, copy and destroy, with an allocation that may fail; extends `Values` |
| `CppValues`, `MCCppValues` | a program that uses the value classes of the C++ header; extends `ValueMemory` |
| `CppClient` | the class `Client`, over `MgSession` and `BoltServer` |
| `Session_proofs` | the theorems about `AnyServer`, and lemmas about the session's steps and about session and conforming server together, that the next two use |
| `BoltSystem_proofs`, `CppClient_proofs`, `Connect_proofs`, `ChunkReader_proofs`, `ChunkWriter_proofs`, `DecodedMessages_proofs`, `PackFormat_proofs` | theorems and proofs |

**Session.** The variables of `MgSession` are the fields of `mg_session` and
`mg_result` under their own names, and the call in progress: `call`, `phase`
("reply": waiting for the answer to its request; "ack": for that to RESET or
ACK_FAILURE inside `handle_failure`), `qid_arg` (was a `qid` pointer given),
`failure_status` (the local of that name) and `ret`. A function that receives is
two or three actions: the call up to the receive (`mg_session_run`), the reply
(`RunReply`), and the reply to the acknowledgement (`AckReply`); `ReceiveFails`
is every receive or decode that fails. A function that refuses the call is
`BadCall`. A message keeps what `mgclient.c` looks at: its type, `qid`, whether
"fields" is a list, "has_more" (absent, true, false, not a boolean), and the class
of an error code. Sending blocks while `MaxInFlight` messages are unread, and fails
when the peer is gone or when the user's map cannot be encoded; the encoder's odd
result 1 (`mg_session_write_string2` returns a comparison) is kept. `columns` is
the query whose columns the list has. A mutation of a definition, used to show that
a property can fail, stands before it and is marked "Mutant".

**Connection.** In `Connect` a descriptor is a number with an owner; `socket()`
gives the lowest free one, `close()` frees it for any thread. One action per
blocking or failing call, `cleanup` and `mg_session_invalidate` apart, since other
threads run in between. History variables record a close of a free descriptor
(`twice`), of another thread's (`foreign`), and that a trust callback refused. A
thread is at `no_session` when `mg_session_init` had no memory, and at `crashed` when
the process ended inside `mg_secure_transport_init`: `SSL_connect` returned 0, which the
code takes for success, or `hex_encode` had no memory (`NoCertificateOrMemory`). No
thread runs on after that, and `ConnectReturns` does not ask for it.

**Framing.** A byte is a number below `Base`, chunk headers are two of them, and
the largest chunk is `Base * Base - 1`: 65535 in the code, 3 with one-bit bytes. So
header and data bytes share values, and full chunks, chunk boundaries and buffer
enlargement happen in messages of a few bytes. `message`, `wire` and `headers` are
history variables: what was written, what the peer got, and where the chunk headers
of the message are in what is sent or received. `IsFraming` says that one who follows
the sizes from the first header finds exactly those headers, the bytes of the message
between them, and the end marker, all within the bytes at hand; it needs no
recursion, so it can be proved about.

**Decoder memory.** `LinearAllocator` has the block list as it is in memory: an
address per block, its `next`, the size it was allocated with; a freed address may
be given out again. The two loops that walk the list, in `reset` and `destroy`, are
one action per round, so the list is checked in between. `objects` is a history
variable: what was placed since the last reset. In `DecodedMessages` the three
pointers to decoded messages (`session->result.message`, the `response` of the
call, that of `handle_failure`) lead to sets of objects; a receive empties
`objects` and makes every non-NULL pointer stale. What a message says is reduced to
its type, and every reply a call treats alike is one choice. An allocation that
finds no memory ends the process (`crashed`), since the allocator writes through
the NULL it got. The exchange of `mg_connect`, which decodes one message and drops
it, is a run of this kind and not modelled apart; the copies of columns live in
other memory.

**Encoding.** In `PackFormat` and `PackStream` messages are sequences of real bytes. A
64-bit integer is its eight bytes (TLC's integers have 32 bits), and so is a float,
which is copied as it is. Sizes are numbers; for the same reason a size of 2^31 or
more is read as `Huge`, which is longer than any message. `PathFormat` compares the
indices of a path with the numbers of nodes and relationships, which are below 2^31
therefore: an index that needs more than four bytes is out of range. `Structs` gives
for every struct its signature and the kinds of its fields; `WriteStruct` and `ReadStruct` stand for the functions of the structs, which
differ in nothing else, except that the last field of `date_time_zone_id` is read
without a look at the result. A read gives success, the cursor and the value. Values
the client cannot send (`WrittenByServer`) are written in the same format.
`BoltMessages` starts with a message of the server or the client, encoded, changes
one byte at most, and cuts bytes off its end; the decoder is a function of the
bytes that are left.

**Values.** A value is a tree of blocks, one for each allocation: the `mg_value`, and
below it the `mg_list`, `mg_map`, `mg_node` and so on. `data` are the numbers in a
block (a string and a double are numbers too; of the doubles two zeros and NaN are
told apart), `kids` the pointers, in the order in which the copy functions follow
them. The structs of the temporal types differ in nothing that matters here and
are one kind of block, as are the two points. In `ValueMemory` the kids are
addresses, and every function takes the memory and returns it. `fail` counts down
to the one allocation that fails, so a copy is tried with a failure at each of its
allocations. The memory says when behaviour is undefined (`ub`): a block freed that
malloc did not give out, NULL or freed memory dereferenced, an uninitialised count
that is not 0 (`garbage`). A block remembers whether it lies in a decoder's linear
allocator. `CppValues` has variables (`Slots`) with objects in them, each a class
and a `ptr_`; an action is a constructor, a destructor, an assignment, `Append` or
`Insert`, for all classes that have it. The constructors from vectors and
initialiser lists are a constructor with a capacity and a sequence of `Append` or
`Insert`. `view` is a `ConstValue`, a row for instance, and `row` the tree it was in the
beginning. Nothing is said of a program once its behaviour is undefined, or once a
copy of a map with entries or of a path has failed (`Spoiled`, `Fragile`): that the
clean-up of those two is wrong is what `source_intact` and the findings show.

**C++ client.** A method of `Client` is a sequence of calls of the session, with
`pc` between them; the actions of `MgSession` are used as they are, server
included. `out` is the last method and its result: true or false, a row, no value
(`nullopt`), an exception (`throw`). `columns_` is the query whose columns it has. The
program may call any method between two others, or destroy the client. A row is not
copied value by value here: that is `CppValues`.

## Runs

Passing runs; `tlc -config X.cfg M`:

| run | checks | bounds |
|---|---|---|
| `any_server` | The session against any peer: fields consistent (`BadIffNoTransport`, `QueryCountCoversExecution`), `BadIsFinal`, and `ImplementsContract` (refinement of `SessionContract`) | one query id (an arbitrary peer may use any, the session does not look at its value), one message in flight each way, 2 queries counted, both versions, two classes of error codes: one of the names and the empty one, which takes all three branches |
| `bolt_system` | Client and server in step (`InStep`, `OneRequestOutstanding`), agreement on results (`CountMatchesServer`, `AutocommitMatchesServer`) and on transactions (`EndedWhole`: a commit or rollback that returns 0 ends a transaction in which no call failed, so all its queries were in it), `RowsHaveColumns`, `LostOnlyToEnvironment`, liveness `CallsReturn` | three results open in a transaction, two messages in flight, so that records queue behind each other; one error code, as replies to all codes are alike |
| `connect` | `NoSocketLeaked`, `ClosesAreSound` (which includes that no `abort()` behind a failed close, or for want of a host, is reached), `ResultMatchesSession` (the out parameter is unwritten exactly if there was no memory for a session, and otherwise the status tells READY from BAD), `TypeOK`, liveness `ConnectReturns` | two threads, two descriptors (a thread has at most one socket), up to two addresses, each kind of transport and each kind of invalid parameters |
| `chunk_writer` | `ChunkFits`, `WireIsFraming` | two messages of up to three fragments of 0 to 6 bytes: below, at and above one and two chunks |
| `decoded_messages` | `Placed`, `BlocksAccounted`, `OnlyFailureIsStale` (what is looked at, destroyed or held by the user is intact, with the one exception of the findings) | three blocks of 5 bytes, alignment 2, objects of 1, 3 and 4 bytes, 4 being the threshold for a block of their own: padding past the end of a block, both kinds of new blocks and reuse of freed addresses happen; up to three objects a message, any number of calls |
| `bolt_messages` | `RoundTrip`, `StaysInMessage`, `PrefixRefused`, `PathsWalkable` | a message of each type in its versions; a value of each type, nested ones, integers at both sides of every boundary, strings of up to 65536 bytes and containers of up to 256 elements at both sides of the boundaries of sizes; messages of up to `MaxLength` = 40 bytes damaged at every position by 29 bytes (a marker of each class, small numbers, signatures), and cut by up to `MaxCut` = 2 bytes at a time, so to every prefix |
| `chunk_reader` | `ChunkFits`, `GrowthBounded`, `BufferIsMessage`, liveness `ReceiveReturns` | every stream of up to 11 one-bit bytes: three chunks and more, several messages, two enlargements, closed anywhere |
| `cpp_values` | `OneOwner`, `EqualityLaws`, `CopyIsFaithful`, `FailedCopyCleansUp`, `NothingLost` | three variables; 20 values, at least one of every kind of block, with pairs that differ in the order of entries or labels, in the sign of a zero or in the direction of an edge; an allocation failure at every position; lists and maps with room for one or two; two calls from each value, three from a date (assignments), four from an integer, from which the program builds, fills, wraps and copies a container |
| `cpp_client` | `ExecuteMeansFetching`, `RowsMatchColumns`, `DrainedCanExecute`, liveness `MethodsReturn` | query ids 0 to 2, so three queries in a transaction, each pulled whole as the class does; two messages in flight, both versions, an error code that `FetchOne` throws and one it does not |

The type invariants of `AnyServer`, `ChunkReader`, `ChunkWriter` and
`DecodedMessages` are in no run: they are theorems.
All invariants that these runs check are theorems too, those of `bolt_messages` and
`cpp_values` excepted; for `bolt_messages` there are theorems about the parts that do
not nest (see Proofs).

Runs that end in a violation, each for a statement of the documentation that the
code does not keep (details under "findings" in `PROJECT.json`):

| run | statement | what happens |
|---|---|---|
| `transaction_until_ended` | "Every run will be part of that transaction until its explicitly ended." | after a FAILURE the client's RESET ends the transaction; the flag stays set and later queries are committed one by one |
| `source_intact` | "Functions that take a const pointer to a object do not change the owner of the passed object nor they modify it", copy functions among them | out of memory within a map, the copy's clean-up destroys keys and values of the map it copies |
| `fetch_all_is_all` | "Fetches all results." | `FetchAll` returns the rows it has when the connection is lost, as if they were all |

Findings that came up in modelling and have no run of their own:

* `mg_connect` closes the socket and then the transport, which closes the number
  again, when a trust callback refuses; in between it may be another thread's
  (`foreign` in `Connect`). Without memory it leaves its out parameter unassigned,
  where the header promises NULL. A TLS handshake in which `SSL_connect` returns 0 is
  taken for a success and ends in `assert(peer_cert)` or with a NULL certificate.
* `mg_session_run` returns with a READY session and the server still streaming when
  it runs out of memory while the columns are copied; the columns of all results of
  a transaction are those of the last run; `mg_session_begin_transaction` on version
  1 sets its error text and goes on, and an assertion of `mg_session_run` counts on it.
* A FAILURE is walked by `mg_message_destroy_ca` after the reply to its
  acknowledgement was received over it (`OnlyFailureIsStale` states it as the one
  exception); the linear allocator writes through NULL
  when it finds no memory, so the decoder's out-of-memory returns are never taken.
* A zoned date and time without its last field is accepted, `tz_id` uninitialised.
* `mg_path_copy_ca` cleans up with an uninitialised count; `mg_value_make_string`
  loses its string when the value cannot be had.
* Assignment of the temporal and spatial classes loses what the object had; `Append`
  and `Insert` lose what a full container, or one with the key, did not take;
  `Append` of a copy that failed appends NULL and succeeds, `Insert` with a key that
  failed dereferences NULL.
* `Client::Connect` returns a client with a BAD session when `mg_connect` returned
  1, and does not destroy the session when it fails; a moved `Client` is destroyed
  twice.

### Fairness

Safety runs need none. `BoltSystem` assumes that a call in progress takes its next
step when it can (its thread is scheduled) and that the server takes a request it
has, or closes, and ends a batch it streams; without the latter a client without a
timeout waits for ever, which is what the code does. `CppClient` assumes the same, a method in
progress being the thread that runs on. `Connect` assumes that the system calls of a thread
return (each may fail instead), `ChunkReader` that `recv()` does: with bytes, an
error, or 0 once the peer has closed. No fairness is assumed for the program
making calls, for messages the server may volunteer, or for failures.

## Proofs

All with TLAPS, for every value of the constants allowed by the assumptions in the
modules (`BoundsAssumption`, `CodesAssumption`, `VersionsAssumption`,
`ThreadsAssumption`, `BaseAssumption`, `FragmentsAssumption`, `AllocatorAssumption`,
`LengthsAssumption`).

* `Session_proofs`, about `AnyServer`: `SessionTypeCorrect`, `TransportFollowsStatus`,
  `QueryCountSafe`, `BadForever`. The inductive invariant is `TypeOK` with the two
  safety invariants and `CallInProgress`, in which state of the session each call waits: that `query_number` covers the result being fetched
  needs to know which calls are possible in which status, and
  that needs the transport to follow the status. One step per action of the client
  and of the peer; a lemma for each way a call can end.
  `Refinement`: `AnyServer` implements `SessionContract`. Those invariants are used,
  and one more about the locals of a call (`CallLocals`): the error to be returned
  after an acknowledgement is not 0, and no call is between its steps without
  waiting. Each action is shown to be a step of the contract or to leave its
  variables alone (`ClientMaps`, for the client's own steps under these invariants;
  `OthersUnseen`, for steps that change none of its fields).
  The same module has what the proofs about a session and a conforming server rest
  on. `Flow` lists the situations the two can be in: nothing
  under way (`Quiet`), a request sent and not taken (`Requested`), records on their
  way, with or without the summary that ends them (`Streaming`), one reply that is
  not yet read (`Answered`), or the connection gone (`Lost`); `Kind` says, from the
  client's state, which request and reply they are about. `PairOK` is this with the
  invariants of the two ends. Every step of either end keeps it, and a reply that
  arrives is one the call in progress expects.
* `BoltSystem_proofs`: `RequestsInStep` and `OneOutstanding`
  follow from `PairOK`; `LostOnlyToEnvironmentHolds`, an action property, from the
  fact that a reply under `PairOK` is an expected one. `QueryCountIsServers`,
  `AutocommitIsServers` and `RowsKeepColumns` need more, since client and server
  change their counts at different times: while a reply is under way, the server's
  open results are those the client will count once it has read it (`AgreeAfter`),
  and otherwise the two agree (`Agree`); `ColumnsKnown` says whose columns the list
  has. `ResultsOK` is all of this, for any number of queries, results open at a time
  and messages in flight. `EndedWholeHolds`, an action property, needs what is left of a
  transaction once a call in it has failed (`SpoiltOK`): the server's transaction is gone
  for good, since the client does not begin another while its flag is set, or, after a run
  that ran out of memory, it holds one result more than `query_number` counts, so the
  session is READY too early and the server refuses to end the transaction. Either way
  the reply on its way is no SUCCESS, also when the server closes behind it
  (`NoEndReply`). `SystemRefinement`: this system, too, implements
  `SessionContract`; `PairOK` contains the invariants the refinement needs, and a step
  of the server leaves the client's fields alone.
* `CppClient_proofs`: `ExecuteFetches`, `RowsOfColumns`, `DrainedIsReady`. `PairOK`
  again, and in which state of the session each place of a method is reached
  (`InMethod`, `Executing`, `Fetched`), that the records on their way are of the
  query the client's columns are of (`Stream`), and what the last method promised,
  which holds until the next call. `WrapperRefinement`: whatever methods the program
  calls, the session below them implements `SessionContract`, since every step of a
  method is a step of the session or leaves it alone (`MethodsAreSessionSteps`).
* `Connect_proofs`: `TypeCorrect`, `SocketsAccounted`, `ClosesSound`, `ResultsMatch`, for any
  number of threads and descriptors. The invariant says at every place of
  `mg_connect_ca` what the locals hold (`Local`), and, as long as no trust callback has
  refused, that a descriptor is owned by exactly the thread that holds it as `sockfd` or
  as transport, and by one of the two only (`Ownership`, `OneHolder`). `ResultsMatch`
  needs to know from which place on the session is handed out and when it became READY
  (`LocalsOK`).
* `ChunkReader_proofs`: `ReaderStaysInBuffer`, `ReaderGrowthBounded`,
  `ReaderTypeCorrect`. The invariant adds that what is in the buffer, or on its way
  there, has been taken from the stream, and that a chunk is read from its start; the
  arithmetic fact is that two bytes carry at most `Base * Base - 1`.
  `ReceivedIsMessage`: at each place of the loop, the chunks before the last header
  are complete and in the buffer, and what `recv()` has returned so far are the bytes
  behind that header (`Content`).
  `EndToEnd` puts the two halves together. `SentIsFraming` says that a conforming
  writer puts some framing `w` of its message `m` on the wire. If the stream has, from
  where the reader began, the bytes of `w` as far as it goes, then a message that is
  received is `m`, all of `w` has arrived, and the next message begins behind it. So a
  framing that was cut delivers nothing. Two framings of the same bytes have the same
  headers (`SameHeaders`, from the smallest place at which they would differ), hence
  the same chunks and the same message.
* `ChunkWriter_proofs`: `WriterStaysInBuffer`, `WriterTypeCorrect`. A full buffer
  is flushed at once, so there is room at the head of the loop, and the buffer less
  its header is the largest chunk. `SentIsFraming`: a message is at any time the
  complete chunks on the wire (`Chunks`), followed by what is in the buffer and what
  `mg_session_write_raw` has yet to copy (`Pending`), and a send in progress has put
  the first `total_sent` bytes on the wire (`OnTheWire`); the arithmetic fact is that
  the two bytes of a header give back the size they were made from.
* `DecodedMessages_proofs`: `MemoryTypeCorrect`, `ObjectsApart`,
  `ResultOutlivesCalls`, `NoBlockLost`, for any blocks, block size, threshold up to the
  block size, alignment, and lengths greater than 0. The invariant has the list as
  well: the first block is of the standard size and nothing leads to it, no two blocks
  lead to the same one. That objects lie apart needs to know that
  those in the first block end before `current_offset`, that no object is in a block
  not allocated, and that there are none while the reset runs; that the result
  is intact needs to know which pointers are NULL at each point of a call: the
  result when a message is received, the response before one is decoded. That the
  FAILURE is always stale when it is destroyed needs to know that it was decoded before
  the receive of its acknowledgement, which made it so. That no
  block is lost is shown with the list itself: there are distinct blocks, all that are
  allocated, each leading to the next (`Chained`), and each step of the allocator puts
  one into this list or takes one out.
* `PackFormat_proofs`: facts about the encoder and the decoder as functions, at every
  place of a message of any bytes. `IntegerRoundTrip` (all 64-bit integers),
  `FloatRoundTrip`, `SizeRoundTrip` (sizes below 2^31, which covers the four forms and
  the boundaries between them) and `StringRoundTrip`: what was written is read back,
  and the cursor is behind it. `FirstByteTellsType`: no encoding begins with a byte
  that `mg_session_read_value` would take for another type. `ScalarsStayInMessage`: on
  bytes that nobody wrote, too, the cursor stays in the message. `ScalarsUnchanged`: a
  read that succeeds does the same if the message goes on. From these two and the
  round trips follows `CutIsRefused`: if a cut encoding were accepted, the whole one
  would be read the same way, and its reader would stop before its end. The readers
  are taken apart by their first byte (`IntegerByMarker`, `SizeByMarker`,
  `IntegerForms`, `SizeForms`); that an integer fits the width it is written in, and
  that sign extension undoes the cut to that width, is `WidthFits` and `TinyFits`.
  `AcceptedPathsWalkable`: for any indices whatever, a path that passes the checks of
  `mg_session_read_path` is one whose accessors, which check nothing, stay inside its
  nodes and relationships (what `PathsWalkable` checks of the paths in messages).

Only model-checked: all liveness (`CallsReturn`, `ConnectReturns`, `ReceiveReturns`,
`MethodsReturn`: fairness and ENABLED are out of the prover's reach), and what
`bolt_messages` and `cpp_values` check of whole values: the encoder and decoder of
containers, structs and paths, copies and equalities follow trees of any depth, so
they are recursive operators, which the prover cannot take, and what they compute
would be shown by induction over the values, which is out of its reach too. (A
smallest counterexample among the numbers can be had, from `WFMin`; that is how the
headers of two framings are compared.)

## What is not modelled

* Formatting of error texts, logging, `mg_session_error`.
* Assertions, which the release build compiles out. The one at `mgclient.c:700` counts
  on `mg_session_begin_transaction` to refuse version 1, which it does not; with a
  conforming server, which refuses that BEGIN, it holds.
* `mg_empty_map`, the static map that stands for a missing "extra" and that
  `mg_map_destroy_ca` leaves alone: no value owns it.
* OpenSSL and the kernel beyond what they return; EINTR, which is retried, except
  that the retry of `close()` is listed as a hazard.
* `mg_init`, `mg_finalize`, and the setters of `mg_session_params`: plain
  assignments.
* Windows, macOS and WebAssembly sockets: the interface `Connect` models.
* Of the values, what only a C program calls: `mg_node_make` and its like,
  `mg_date_make` and its like, `mg_map_insert` and `mg_map_insert_unsafe` with a
  `char` pointer, which check before they allocate. Sizes at the limit of 32 bits.
* Use of a C++ object whose `ptr()` is NULL, except its destruction and assignment;
  iterators; moving a `Client`; `Path::operator=`, which is declared and not defined.

## Plan

Done: session, conforming and arbitrary server, contract and refinement (in all
three systems a session is part of), connection, framing, decoder memory, encoding,
values, the C++ client; the proofs above. What could follow: `EINTR` as an outcome of
`close()` in `Connect`, and the functions on values that only a C program calls.
