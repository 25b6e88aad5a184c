# fixure in TLA+

A formal model of [fixure](../src/README.md), a C++ test harness for the FIX
protocol: TLA+ modules for its components, TLC configurations that check them on
small instances, and TLAPS proofs of the properties that matter most. Line
references are to the files under `src/`.

## The system

| component | state it keeps | operations | who uses it |
|---|---|---|---|
| **FixSession** (`src/session.cpp`) | next outgoing number, next expected incoming number, logged-on flag | `receive_message`, `on_message_sent`, setters, `prepare_header` | the scenario runner, one thread |
| **InMemoryConnection** (`src/runner.cpp:20-85`) | connected flag, two queues, a mutex, two condition variables | `connect`, `disconnect`, `send`, `receive`, `server_send`, `server_receive` | the runner on one side, threads of a mock system on the other |
| **TcpConnection** (`src/runner.cpp:87-177`) | a socket | `connect`, `disconnect`, `send`, `receive` | runner, replayer |
| **ScenarioRunner** (`src/runner.cpp:181-434`) | active mocks; per run: step counter, receive buffer, deadline | `run`, with one handler per step: CONNECT, SEND, EXPECT, MOCK, DISCONNECT | the CLI, tests |
| **framing** (`extract_next_message`, `src/runner.cpp:185-209`, `src/proxy.cpp:22-46`) | a byte buffer | cut the next message off the buffer | runner, proxy |
| **parser and serializer** (`src/parser.cpp`) | none | `parse`, `get_field`, `get_int`, `get_group`, `serialize_message` | everything |
| **Scenario** (`src/scenario.cpp`) | steps with their string pools | `parse_dsl`, `add_step`, and one builder per kind of step | CLI, tests |
| **Dictionary** (`src/dictionary.cpp`) | tags and messages of an XML dictionary | `load_xml`, `validate_message` | CLI, proxy |
| **SessionReplayer** (`src/replay.cpp`) | per replay: a count, the last recorded time | `replay_file` | CLI |
| **Proxy** (`src/proxy.cpp`) | listening socket, running flag, latency registry, per connection two sockets and two threads | `start`, `stop`, `handle_connection`, `forward_traffic`, `analyze_message` | CLI |
| **CLI** (`app/main.cpp`) | none | argument handling | the user |

The runner calls the connection and the session; the session calls nobody, it
answers each message with an action its host is expected to perform. The
replayer writes to a connection. The proxy uses neither: it owns raw sockets and
shares one latency registry between all its threads.

What is hard here:

- *the wait protocol* of InMemoryConnection: wake-ups lost or sent to the wrong
  thread, receivers racing each other, timeouts and disconnects;
- *state of different lifetimes* in the runner: the receive buffer belongs to
  one `run()`, the mocks to the runner, the session and the connection to its
  caller. Errors leave a run half-way;
- *the clock of EXPECT*, which is looked at only between messages;
- *numbering* in both directions across errors, reconnects and partial failure;
- *the limits of the codec*: a field array, a buffer and a placeholder of fixed
  size, and three readers (runner, proxy, CLI) that must agree on what was sent;
- *a dictionary read in one pass*: what a tag means depends on what is open and
  on what has been defined so far;
- *a replayer that never reads*: it shares its connection with a system that may
  want its answers read;
- *the proxy's threads*: both forwarders of a connection close both of its
  descriptors, descriptors are reused, `stop` races `start`, and the latency
  registry is written without a lock.

`PROJECT.json` lists each hazard at its line.

What makes each component correct:

| component | correct means | state of the project |
|---|---|---|
| FixSession | incoming messages are taken once, in the order of their numbers | checked and proved |
| InMemoryConnection | a FIFO link; no wake-up is lost | checked and proved (liveness: checked) |
| ScenarioRunner | success means every EXPECT was met; numbering out and order in survive errors and runs; EXPECT keeps its deadline | checked, every invariant proved |
| framing | messages come off the stream whole and in order, whatever pieces it arrives in | checked and proved |
| Proxy, connections | streams are forwarded whole and to the right remote; descriptors are closed once and all of them; `stop` ends `start` | checked; proved but for `StopEndsStart` and `ConnectionEnds`, streams for clients one at a time |
| Proxy, measurements | an order's latency is measured once and over the right span | checked and proved, up to a data race and for clients that share no identifier |
| TcpConnection | a message is handed over in order and once, however it is cut; nothing blocks for ever but a peer that waits for us | checked, order proved |
| parser, serializer | what is serialized parses to the same fields, for every reader, up to the limits; damage is noticed | checked and proved |
| Scenario | a script means the same to SEND, to EXPECT and to the proxy | checked and proved |
| Dictionary | a message is rejected only for what the file requires, and passes only if it has all of it | checked and proved |
| SessionReplayer | messages are sent in file order, paced as recorded and counted when whole | checked; proved but for `ReplayEnds` |
| CLI | wiring and output; `validate` and `replay` end to end | in part |

## Modules

| module | models |
|---|---|
| `FixSession` | the session: one operator per branch of `receive_message`, plus the outgoing counter and the setters. Extended by the modules that own a session. |
| `FixSessionHost` | a session under any host and any counterparty |
| `DuplexLink` | what a connection promises: an abstract up/down FIFO link whose calls are instantaneous |
| `InMemoryConnection` | the class of that name: critical sections as steps, the wait set of each condition variable, notify, timeout and spurious wake-up; implements `DuplexLink` |
| `ScenarioRunner` | the runner over either transport, a session (it extends `FixSession`), and a SUT that does as it likes |
| `Framing` | `extract_next_message` and the loops around it, over a stream of bytes |
| `ProxyTraffic` | the proxy's threads and the kernel's descriptor table |
| `ProxyLatency` | what the forwarders measure, in shared objects nobody locks |
| `FixCodec` | parser and serializer: operators on bytes |
| `ScenarioDsl` | `parse_dsl`, extends `FixCodec` |
| `Dictionary` | `load_xml` as a scan over tags, `validate_message` |
| `MessagePath` | composes the three above: script, SEND, wire, and the three readers of a message |
| `Replay` | `replay_file` over a `TcpConnection`, the kernel and a system under test |
| `MC...` | small instances for TLC |
| `SessionProofs` | proofs about `FixSessionHost` and `ScenarioRunner`, which share the session |
| `CodecProofs` | what the loops of `FixCodec` and `ScenarioDsl` compute |
| `MessagePathProofs` | proofs about `Dictionary` and `MessagePath`, from `CodecProofs` |
| `FramingProofs`, `InMemoryConnectionProofs`, `ProxyLatencyProofs`, `ProxyTrafficProofs`, `ReplayProofs` | proofs about the module each is named after |

### FixSession

`next_out_seq`, `next_in_seq` and `logged_on` are the three members; `result`
is the `ProcessResult` of the last call without its text. A message is a record
whose domain is the set of tags the code looks at, so a missing tag, and an
integer tag whose text does not parse, is an absent field. Ints have a width:
`Succ` wraps at `MaxInt`. The code's branches are disjoint; `Classify` is their
disjunction and `ReceiveMessage` adds that the outgoing counter is left alone.

### InMemoryConnection

Every method holds the mutex for its whole body, so it is one step. Only
`wait_for` lets go of it: `Wait` enters the wait set, `NotifyOne`, `NotifyAll`,
`Timeout` and `SpuriousWakeUp` take threads out, and `Resume` is the rest of the
method once the thread has the mutex again. `NotifyOne` picks any waiter.

### ScenarioRunner

`phase`, `steps_executed`, `scenario`, `elapsed` and `outcome` are the progress
of `run()`; `rx_buffer` is its local buffer; `active_mocks` is the member;
`transport` says which class the connection is of. `conn` and `to_client` are
the connection: over TCP a new CONNECT or a DISCONNECT drops what was not read,
in memory the queues stay. The SUT may send any message of a set at any time
while the link is up and, over TCP, close or reset it.

The loop of EXPECT is one action per way through its body. Time is counted in
ticks of 500 ms, the timeout of one receive; a receive that returns data takes
nothing or a tick. The session's answers other than Disconnect have no
consequence in the code and have none here. Two ways to die are modelled: SEND
without a field reads through a null pointer (`runner.cpp:243`) and a write to a
reset socket raises SIGPIPE (`runner.cpp:148`).

Abstracted: messages arrive whole (`Framing` is about the pieces), texts of
errors, header fields other than type and number (`MessagePath` has them all), a
send that blocks (`Replay` has one).

### Framing

The receive buffer is only shortened at its front, cleared or appended to, so it
is always a stretch `wire[lo + 1 .. hi]` of all bytes that ever arrived, and a
message is a pair of positions. `Clear`, `Align` and `Extract` are the three
ways out of `extract_next_message`; `try` is the separator being tried, of which
the runner has one and the proxy two; when none is left the loop receives. Bytes
are the few characters the code looks for, or any other. `Reconnect` is what
DISCONNECT and CONNECT do to a message that is half-way: its rest is gone, its
beginning still in the buffer.

### ProxyTraffic

A thread holds descriptor *numbers* (`fd`, `m_server_fd`); `table` says what a
number means now. `recv` looks its number up on entry and stays with that socket
(`reading`) even when the number is closed or given away; `send` and `close` look
it up at each call. `start` and `stop` are the threads in the two methods, `handler` the
detached thread of each client, `fwd` the two forwarders. Each system call, and
each test of a flag, is a step. The program's other files take any set of
numbers (`Taken`), so that descriptors may run out anywhere.

Abstracted: one `start()` and one `stop()` per proxy; a `send` never blocks on a
full socket; data are units that name their origin.

### ProxyLatency

One thread per direction of each connection reads a message, uses the registry
or the last client message or one after the other, and forwards. `at` says which
object it is using; two threads using the same one, one of them writing, is a
data race, after which C++ promises nothing and the model stops. A message is
the data of one `recv`. A client uses each ClOrdID once; nothing in the proxy
needs two clients not to use the same, and the registry would mix them up (see
below).

### FixCodec and ScenarioDsl

A byte is its code and a text a sequence of bytes, because everything that can go
wrong here is about bytes: lengths, sums, separators inside values, numbers with
something behind them. The loops are recursive functions, so that the prover can
reason about them: `NextField` is a turn of the loop of `parse` with its errors
in the order of the code, `Turns` the loop, `Instances` that of `get_group`.
`serialize_message` is
written as what it leaves in the buffer: the draft with its placeholder, the
length in the place of the placeholder, the trailer; `Fits` stands for the
bounds checks of the single writes, the largest of which is the draft or the
whole. The scenario language splits a line at the next `|` and, when none is left,
at SOH; `FieldEnds` says so of all places at once.

### Dictionary

One action per kind of tag, with the flags and maps of `parse_xml`. The file is
a sequence of tags; the last part of the module (`Defines`, `Demands`, `Orderly`)
says what a file means to a reader who may look ahead, and is what the
properties compare the maps with.

### MessagePath

`phase` says where a message is. A script is read, its steps are run; a SEND
composes header and fields and serializes them; one byte may be damaged; then
one of three readers parses the bytes. The runner reads them as if its own
scenario had an EXPECT with the words of this SEND, the proxy guesses the
separator, the CLI finds them in a file with or without a line feed at the end
and may validate them with a dictionary, which is loaded tag by tag. Numbers out
and the failures of connection and session are the subject of `ScenarioRunner`;
here every send arrives.

### Replay

`phase` is the place in `main` and `replay_file`. A line is what the code tells
apart: whether it is skipped, its length in units, and its time stamp. `handed`
is everything `::send` ever took and `arrived` how much of it has been read;
between the two at most `Room` units are on their way, so that `send` blocks.
`link` is the connection as the kernel sees it: a system that has left still
takes data (`left`) until its reset comes back. The system under test reads a
unit at a time, may answer each message, and waits for room for its answer.

## What the runs check

| run | shows | bounds |
|---|---|---|
| `session` | `TakenOnceInOrder`: whatever comes in, the messages taken within one numbering carry consecutive numbers just below the counter | ints -6..5, so that gaps, duplicates and the wrap all occur; histories are cut only by restarts |
| `link` | `NoLostWakeUp`; `ImplementsLink`: every call is one operation of `DuplexLink`; `QueuedIsTaken`, `DisconnectReleases`: blocked receivers come back by notifications alone | two competing client threads, one server thread, queues of at most two: enough for a waiter, a thief and a second message |
| `message_path` | `SentIsUnderstood`: undamaged, a message parses to header and fields for each reader; `SendMatchesExpect`; `ProxyReadsTheSame`; `DamageDetected`; `FitsExactly`: refused if and only if too long; `GroupsAsWritten`; `RequiredIsDemanded`, `AcceptedMeansComplete`: a dictionary demands what its file says, no more, and no less if the file is in the order the loader expects | 23 scripts, 14 dictionaries, one damaged byte; 14 fields, 2 group instances, a placeholder of 3 digits and a buffer of 121 bytes in place of 256, 64, 5 and 4096 |
| `replay` | `InOrder`, `CountsWholeMessages`, `PacedAsRecorded`, `ReplayEnds` | six logs, with and without timing; two units and one answer on their way |
| `runner` | `SuccessMeansExpectationsMet`; `LostOnlyToTimeout`; `OutgoingNumbered`; `IncomingInOrder`; `ExpectKeepsDeadline`; `RunEnds` | both transports, two runs of six scenarios, three SUT messages, EXPECT of one tick |
| `framing` | `LostOnlyToFraming`: a message that arrives is extracted unless it contains a second `10=`, its first byte came alone, or it follows a cut-off beginning; `NothingInvented`; `ExtractedApart` | three messages of two kinds, with `98=`, `110=` and the other separator inside, in all possible pieces; one lost connection |
| `proxy_single` | `StreamFaithful`, `ClosedWhenDone`, `StopEndsStart`, `ConnectionEnds` | one client, three descriptors of which any may be taken, two units of data |
| `proxy_one_by_one` | `NoCrossTalk` when clients follow one another and reuse the numbers | two clients, three descriptors, one unit |
| `latency` | `ReportedOrdersMeasured`, `OrderLatencyExact` | one connection, two orders, three messages a side |

Two runs of the runner are needed for what one leaves to the next (buffer,
mocks, session, link). Three SUT messages are the longest exchange the scenarios
distinguish: a logon, a mocked or ignored message, and the expected one. A
longer timeout only repeats the round of the loop. Three messages of a stream
are a disturbed one, its victim and one to recover with.

The limits of the codec are small so that the scripts reach them from both sides:
messages with as many fields as there is room and one more, that fill the buffer
exactly and miss it by one, whose length has fewer digits than the placeholder
and as many; groups announced with fewer, as many and more instances than follow.
The scripts also have overridden header fields, repeated and generated tags, SOH
as a separator and in a value, numbers with a tail, and errors. The replay's
messages are up to three units over a connection that holds two: a message that
fits, one that fills it, one that cannot be handed over in one call. Its logs
have times that rise, stand still, go back, and are missing or cut short.

Three runs end in a violation, each of a sentence in the code or the docs
(`PROJECT.json`, "findings"):

- `proxy_cross_talk`: with two clients at a time, a forwarder uses a number its
  partner has closed and the kernel has given to the other connection;
- `duplicate_satisfies_expect`: a message the session calls an ignored duplicate
  satisfies an EXPECT;
- `dictionary_order`: with `<fields>` after `<messages>`, the order of the files
  QuickFIX ships, no field of any message is required. The loader's comment
  (`dictionary.cpp:127`) says that `<fields>` always comes first.

Other behaviour of the code that a reader of the models meets, and that no run
is devoted to:

- A message that matches the EXPECT is not given to the mocks, whether or not it
  would trigger one (`runner.cpp:313`).
- A Test Request is never answered, a gap never leads to a Resend Request: the
  runner looks only for Disconnect (`runner.cpp:307`). A mock reply the
  connection refused still uses up a number (`runner.cpp:425`; `skipped` in
  `OutgoingNumbered`).
- A client that resets its connection can end the whole proxy by SIGPIPE
  (`SendKills`).
- A `stop()` before `start()` has set its flag is overwritten (`proxy.cpp:65`);
  `StopEndsStart` speaks of a flag that is down once `start` has begun.
- When one side leaves, the other is told only when its own forwarder's `recv`
  returns: `close` does not wake it (`proxy.cpp:246`).
- The latency registry is an ordinary map used by several threads
  (`proxy.hpp:39`), described as lock-free in `src/README.md:88`.
- The registry does not tell connections apart (`proxy.cpp:265`): when two clients
  use the same ClOrdID, one order overwrites the other's start time, and both
  `OrderLatencyExact` and `ReportedOrdersMeasured` fail. The run has one client,
  the theorems any number under `OwnIds`.
- A round trip is measured between the last client message and whatever the
  target sends next, related or not (`proxy.cpp:306`).
- A buffer whose last byte is the `8` of the next message is cleared
  (`runner.cpp:188`; `split` in `Framing`).
- A message with exactly `MAX_FIELDS` fields parses, but not with a line feed
  after it: the check for a full array comes first (`parser.cpp:42`; `Clean`).
- A checksum with something behind its three digits still reads as the same number
  (`parser.cpp:141`), which is why `DamageDetected` leaves the last field out.
- The required fields of a `<group>` are required of the whole message, whether
  or not the group is there, and a `<component>` brings no fields with it
  (`dictionary.cpp:114`; `Direct`).
- A value in a script cannot contain `|`, but it can contain SOH if a `|` follows
  later in the line (`scenario.cpp:126`); such a message does not parse (`Clean`).
- The replayer's comment says it strips "trailing/leading spaces/newlines", the
  code strips trailing ones (`replay.cpp:65`): an indented comment line is sent.
- A time stamp without milliseconds is shorter than 21 characters and counts as
  none (`replay.cpp:21`): its message is sent without a pause.
- The replayer never reads. A system that answers before it reads on, and has no
  more room for answers, waits for the replayer, which waits for it in `send`
  (`MutualWait`). When the replayer closes a socket with unread answers in it the
  kernel resets the connection, and what was still on its way is lost although
  the replay succeeded (`Close`).

### Fairness

`InMemoryConnection`: a thread that was woken gets the mutex in the end; no
method holds it while waiting. Timeouts and spurious wake-ups are not relied
upon. `ScenarioRunner`: the thread in `run()` is scheduled; each of its calls
returns within a tick. A TCP send into a full socket buffer is the exception in
the code, it has no timeout; it is not modelled. `ProxyTraffic`: every thread of
the proxy is scheduled, each call but `recv` returns; remotes owe nothing, and
`recv` waits for them. `Replay`: the replayer is scheduled, the system under test
reads and answers as long as it is there, resets are delivered; nobody has to
leave. It is a harness for a system that works; one that stops reading blocks
`send` for ever, which has no timeout, and `MutualWait` is the case where it
stops for want of the replayer's own attention. Deadlock is not checked where programs may stop: runs are
bounded, remotes go silent, a proxy ends.

## What is proved

All proofs hold for every value of the constants under the named assumptions of
the modules (`SessionAssumption`, `MaxOutAssumption`, `ConnectionAssumption`,
`RunnerAssumption`, `FramingAssumption`, `ProxyAssumption`,
`LatencyAssumption`, `DictionaryAssumption`, `ReplayAssumption`,
`CodecAssumption`, `PathAssumption`). Where a theorem has a hypothesis of its own
it is named below. Of the last two: `CodecAssumption` says that an int holds a
byte, a group view an instance, and that the placeholder of the length is no
longer than eight digits, one more than the trailer that is not yet there when it is
written (the code has 5): with a longer one a message could be refused that
would have fit. `PathAssumption` says that what the runner is configured with
(BeginString, the CompIDs, the clock's text) has no `|`: the proxy takes a message
with one for a message separated by it.

- `SessionProofs`, the session: `HostTypeCorrect`, and `TakenOnceInOrderHolds`. The
  invariant is inductive relative to the types; the heart is the lemma
  `ReceiveMovesByOne`: a call takes a message at the counter and moves it by
  one, starts the numbering (Logon), or leaves the counter.
- `InMemoryConnectionProofs`: `TypeCorrect`; `NoLostWakeUpHolds`, where each
  wake-up and each resumption moves one thread between the two sides of the
  inequality; `LinkImplemented`, the refinement of `DuplexLink`, under which waits
  and wake-ups are stuttering steps.
- `SessionProofs`, the runner: all its invariants, `TypeCorrect` first. `OutgoingNumberedHolds`:
  a SEND and a mock reply each append the number just counted.
  `ExpectKeepsDeadlineHolds` needs to know of every phase that is not a wait that
  no timeout has been reported (`Deadline`). `IncomingInOrderHolds` is about one
  stream, what was handled followed by what waits in the buffer and then on the
  link; each step is shown to keep that stream, to move its boundary by one, or to
  drop a stretch of it (`OneStream`, and the lemmas `DropKeepsStream`,
  `HandleMovesOne`, `ReadKeepsStream`, `SendKeepsStream`). `LostOnlyToTimeoutHolds`
  rests on an in-memory receive yielding one message at a time (`OneAtATime`): the
  buffer is empty whenever the loop receives, so only a timeout can leave
  something in it. `SuccessMeansExpectationsMetHolds` says of every step before
  the current one what success says of all (`ExpectationsSoFar`).
- `FramingProofs`: all invariants. For `ExtractedApartHolds` the lemma
  `FirstIsFirst` takes the existence of a smallest place from the well-founded
  order of the numbers; `ExtractedWithin` places a message between what was
  erased and what was received. `LostOnlyToFramingHolds` and
  `NothingInventedHolds` assume that every message is `WellFormed`, which is what
  `serialize_message` makes: `8=` first, and after some `10=` a value without
  separator or `=`, then the first separator as the last byte. Another `10=`
  may come earlier in it: such a message is one that may be lost (`EndsEarly`).
  Without `WellFormed` the claims are false of any framing by `10=`; `MCFraming`
  has TLC evaluate it of the messages of the run. The invariant says that the
  messages lie one behind the other in the stream and that those not cut off
  are whole in it (`LaidOut`), that the buffer holds no complete message when
  the loop is done with it (`NoneComplete`), and that a message nothing can
  harm still waits behind what was erased or has been extracted (`NotHarmed`).
- `ProxyTrafficProofs`: all invariants. `TypeCorrect`, where the bound on what
  remotes send needs that what was sent is finite however many clients there
  may be (`SendingCounts`). `ClosedWhenDoneHolds`: the inductive invariant is
  `HeldUntilClosed`: a number that means a socket is the number its threads
  hold, and none of the calls that would close it has been made. `WaitingOnce`
  (a waiting client has no handler) is needed for `Accept`. Numbers reused by
  other connections are the reason the claim is about what a number means and
  not about the numbers a thread holds. `StreamFaithfulHolds` and
  `NoCrossTalkHolds` assume clients one at a time (`~Overlapping`); without it
  `NoCrossTalk` is false (`proxy_cross_talk`). Their invariant has two parts.
  `Alone`: one connection is live, its forwarders run only while its handler
  does, its two numbers differ, and the listening socket's number is nobody
  else's; with it a number held by a running connection means its own socket or
  nothing (`MeansItsOwn`). `Streams`: every unit a remote sent is handed on, under
  way or waiting (`Conserved`), or its forwarder has given up for good (`GivenUp`).
- `ProxyLatencyProofs`: all invariants of the measurements, as far as the program
  is defined: `Next` ends at a data race, and the theorems say nothing of what
  comes after one. `Typed` says more than `TypeOK`: the messages under way in one
  direction are of one side. The rest is about streams: what a thread has handed
  on, has at hand and has not read together is what its remote sent, which no
  step of the proxy changes (`MovesAlong`), and `Analyzed` counts how much of it has
  been to the registry. `Informed`: what a target reports it had heard, so that
  its order was analyzed before (`ReportedWasAnalyzed`). `RegistryOfOrders`: what
  is registered under an identifier is an order with it. `Settled`: an order
  analyzed is registered and not measured, or not registered and measured once.
  `Unregistered`: the identifier of a report analyzed is not registered.
  `OrderLatencyExactHolds` and `ReportedOrdersMeasuredHolds` have the hypothesis
  `[]OwnIds`, that no two clients send the same identifier; with a single client
  it is always true (`OneClient`), with two it is what whoever runs them has to
  see to, since the registry is common to all connections.
- `CodecProofs`: no state, only what the operators of `FixCodec` and `ScenarioDsl`
  compute, for every input. The loops of the code are recursive functions there;
  `Recursion` shows that each has the values its definition gives it, and
  `Induction`, over a set of turns, what it computes. On these rest, in the order
  of the module: `FindProps` (the next separator), `ToCharsIsRead` (an int is read
  back from what was written of it, by way of its digits), `ParseType` (what
  `parse` may answer, whatever the bytes), `ParseDslType`, `SerializeIs` (the
  message in one formula instead of a draft with a gap that is closed again;
  refused exactly if it does not fit), `ParsesWritten` (fields written one behind
  the other are read one behind the other, at the places they were written to) and
  `OnePipe` (no message parses whose separator occurs only once). `DamageBefore`
  and `DamageBehind` are about a message with one byte changed. In front of the
  trailer the sum changes by less than 256 and by something, so that, if all else
  can be read, the checksum is wrong (`DamageBefore`); else everything in front of
  the trailer is as it was, and the loop comes to the same fields by the same
  turns (`DamageBehind`).
- `MessagePathProofs`, the dictionary: `DictionaryTypeCorrect` and
  `RequiredIsDemandedHolds`, for any file. The invariant (`Origins`) gives every
  entry of the maps the tag of the file it comes from, and ties the flags and the
  open message to the tags read so far. For the other direction
  (`AcceptedMeansCompleteHolds`, of a whole `MessagePath`) `Entries` says that
  what the tags read so far define and demand is in the maps; it is inductive only
  for a file that is `Orderly`, the order the loader expects. `AtTheEnd` (what is
  loaded was read to its end) and `Judged` (a verdict is that of
  `validate_message` on the maps as they are) take it to the verdict.
- `MessagePathProofs`, the path: all invariants. `TypeCorrect` and the others rest
  on one inductive invariant, `Course`: what is on the wire is the message of the
  step that is being run, with the number it was given, damaged in at most one
  byte; what was received is what `parse` makes of it with the separator the
  reader takes. With it each claim becomes one about the codec.
  `SentIsUnderstoodHolds` and `SendMatchesExpectHolds` come from `ParsesWritten`
  by way of `CleanIsRead`; `FitsExactlyHolds` from `SerializeIs`;
  `ProxyReadsTheSameHolds` from the fact that neither a script's values nor the
  configuration hold a `|`. `DamageDetectedHolds` also needs `OnePipe`: when the
  damage puts a `|` into the message the proxy takes it for the separator, and
  reads nothing. The theorem has the hypothesis `~Contains(BeginString, SOH)`: a
  separator in BeginString ends field 8 early and puts other fields at the head of
  the message than the code means to write; no version of FIX has one.
  `GroupsAsWrittenHolds` counts delimiters (`Rank`): the instances found by the
  loop are the stretches from one delimiter to the next, by induction over its
  turns.
- `ReplayProofs`: `TypeCorrect`, `InOrderHolds`, `CountsWholeMessagesHolds` and
  `PacedAsRecordedHolds`.
  `InOrderSoFar` adds to `InOrder` where the message under way stands: the last
  unit handed over is the one before `total_sent`, and between two messages the
  lines read are complete. `PacedSoFar` adds to `PacedAsRecorded` what
  `last_msg_time` and the pauses say when no message is under way (`Clock`): it
  is the time of the last message that has one, and the pauses since each earlier
  one add up to what was recorded.

Only model-checked:

- the liveness properties and fairness, which are out of the prover's reach:
  `QueuedIsTaken`, `DisconnectReleases`, `RunEnds`, `StopEndsStart`,
  `ConnectionEnds`, `ReplayEnds`.

Every invariant and every other action property of the passing runs is stated by
a theorem. Three things came out of the proofs rather than the runs, and are in
the models or the theorems now. `Orderly` used to admit a `<fields>` that is never ended, two
sections of fields that define one name, and two names with one number, and for
each of them there is a file whose required field is not demanded: it now
asks for what the loader really relies on. That the configuration has no `|`
was a silent property of the instances. And `DamageDetected` is a claim about the
BeginStrings there are, not about any text in their place.

## What could be added

`NoCrossTalk` for overlapping clients, if the forwarders come to close their own
descriptors only (`proxy.cpp:246`): the claim that is false today.

## Not modelled, and why

- Of `app/main.cpp`: argument handling, printing, and the wiring of `run` and
  `proxy`, which create one object each and call it. Separators other than SOH
  on the command line of `validate`.
- The lifetime of what fields point to: the string pool of a step, which a mock
  shares with the scenario it was copied from (`scenario.hpp:30`), and the buffer
  `prepare_header` keeps per thread (`session.cpp:61`). Values are all there is
  to a step or a header in the models.
- `get_attribute` and the text of XML: which substring of a tag is an attribute,
  comments, and the text between tags. The maps of a dictionary that nothing
  validates with.
- `get_double`, which only a test calls.
- Resend of a message, gap fill and heartbeats on a timer: the code has none.
- A `send` that blocks, in the runner and in the proxy; `Replay` models the same
  method blocking.
- The Windows branches (`_MSC_VER`), which mirror the POSIX ones.
- Wording of errors and logs, which no property is about.
- The end of a `Proxy` object's life under its detached handlers: the CLI's
  proxy lives as long as the process.
- `select` on descriptors beyond `FD_SETSIZE`, and resolution of host names
  other than as success or failure.
