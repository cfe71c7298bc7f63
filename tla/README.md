# Verification of decakelauncher

decakelauncher is a Windows console program that starts the powder extraction
("decake") process of a 3D printer and waits for its end.  It talks OPC UA to
the machine's controller (PLC) through the amalgamated open62541 client library.
This directory holds TLA+ modules of the launcher, of the client library as
the launcher uses it, of its log file, and of the machine as the launcher sees
it; TLC configurations; and proofs checked by TLAPS.

## 1. Inventory

| Part | Source | State | Operations |
|---|---|---|---|
| Program | `main.cpp` 1231-1256, `RunIteration` | one `DecakeLauncher` | logger, loop over RunIteration and SleepWithKeepAlive |
| Launcher methods | `DecakeLauncher.cpp`, `.h` | `client_`, `connected_`, retries | connectClient, connectRetry, LaunchAutoDecake, LaunchBuildUnitExit, SleepWithKeepAlive, Stop, the state callback |
| Wait loops | `DecakeLauncherHelpers.cpp` 112-204 | timeout, conditionMet, readValue, retry, retry2 | waitIntCondition, waitBooleanCondition, waitIntConditionDescription |
| Typed reads | `DecakeLauncherHelpers.cpp` 1-110 | none | OPCUAReadNumber, -Boolean, -String |
| Client | `open62541.c`, UA_Client part | client state, TCP connection, SecureChannel, session | connect, disconnect, delete, synchronous services |
| SecureChannel, chunks | `open62541.c` 19105-19890, 20503, 40240-40396 | messages, receiveSequenceNumber, incompleteChunk, token; the request id | processPacket, processServiceResponse, receiveServiceResponse |
| Node tables | `OPCUAMethods.h` | none | node names, ISA-88 states, the set of final values |
| Server and PLC | not in the repository | node values, the process | answers, executes or refuses calls, hangs up |
| Options | `getopt.cpp`, `main.cpp` 1157-1229 | static `optind`, `optarg`; which options are set | getopt, the loop of main |
| Logging | `include/spdlog`: `rotating_file_sink`, `file_helper`, `base_sink`, `periodic_worker`, `registry` | the files, `fd_`, `current_size_`, `active_` | log, rotate, flush, exit |
| Disabled load launcher | `main.cpp` 1-1141, `OPCUAHelpers.cpp` | - | under `#if 0`, never compiled |
| Server and stack of open62541, fmt | vendored | - | linked, not called by the launcher |

How they interact.  main calls methods; a method calls the library and blocks;
the library waits for the network and may call back into the launcher
(`clientStateCallback`, which clears `connected_`) from anywhere inside a
failing call; the server answers requests and hands method calls to the PLC,
which works on its own time, may still act on a call of a connection that is gone,
and shows its state in a node that the launcher polls.  The program is single-threaded
(`UA_MULTITHREADING` is 0) except for spdlog's flusher, which shares the log file with it and nothing
else.  What makes it hard is not locking: it is that a
request, the connection it went out on, the machine that acts on it and the
launcher's idea of all three fail independently.

What is hard, and the property that makes each part correct:

- **Client**: `UA_Client_disconnect` runs on a client in every state of
  construction, nested in itself and again from cleanup labels.  After any call
  the client must be wholly up or wholly down, the callback must have heard of
  a loss exactly once, and an error that says the connection failed must come
  from a client that is down.
- **Launcher methods**: `connected_`, `client_` and the retry count are three
  records of one fact.  The flag must match the session, no call may go out
  over a link known to be down, and the retries must be all used, no more.
- **Launching**: the call may be executed and its answer lost, or be executed
  after the launcher has given up, even during its next launch.  The machine must
  never be started twice for one request, and a success must rest on an end that
  came after this request was executed.
- **SecureChannel**: TCP cuts the stream anywhere, a message comes in several
  chunks, an answer comes after its call gave up, and a call that failed sends
  CloseSession over the channel on which it failed.  A call must take its own
  reply, once and whole, or fail.
- **Waiting**: reads fail, are slow, and the node changes at any time.  TRUE
  must rest on a final value that was just read; the wait must end in time; it
  must not miss a process that ended.
- **Options**: what getopt keeps between two calls (`optind`, `optarg`) must not
  reach an option that it does not belong to, and the loop must end although
  getopt stays where it is on a word that it refuses.
- **Logging**: a rotation is a loop of renames any of which may fail, be cut
  short by the end of the process, or be watched by a flusher that takes no
  lock.  Nothing may be written to no file, no file may grow without limit,
  and nothing may be dropped that there is room for.
- **Program**: every run must end, and a step must follow only a step that
  succeeded, although nothing but `exit` inside Stop keeps RunIteration from
  going on.

## 2. Modules

| Module | Models | Composes |
|---|---|---|
| `UAClient` | the client library, TCP to session, with its failure paths; server and network at the other end | - |
| `LinkContract` | abstract: a link that is up or down, and a flag | implemented by `UAClient` |
| `WaitLoop` | the locals of the polling loops as pure operators | - |
| `TypedReads` | the types that the launcher reads and the casts to `int` and `bool` | - |
| `WaitCondition` | one wait, three forms, with the clock | `WaitLoop`, `TypedReads` |
| `DecakeLauncher` | the methods, the server's requests, the PLC | `UAClient`, `WaitLoop` |
| `LaunchContract` | abstract: a launch asked for, sent, executed or refused, and what its caller is told | implemented by `LauncherAPI` and `LauncherMain` |
| `LauncherMain` | RunIteration, exit | `DecakeLauncher` |
| `LauncherAPI` | any caller of the public methods | `DecakeLauncher` |
| `GetOpt` | getopt and the option loop of main | - |
| `SecureChannel` | packets, chunks, messages and the call that waits for its reply | - |
| `RequestReply` | abstract: requests one after the other, each with one reply or none | implemented by `SecureChannel` |
| `LogSink` | the rotating file sink, its flusher, exit, kill and the next run | - |
| `MC*` | constants for TLC | the above |
| `*_proofs` | theorems | the above |

### UAClient

One thread is inside the library at a time, so the module's steps are the
stretches between two waits for the network; `at` names the wait (TCP connect,
ACK, OPN response, the three services of connect, the launcher's own request,
CloseSession).  Everything the library does between two waits, nested
disconnects included, is one step: `Teardown` is the whole of
`UA_Client_disconnect` below the session, entered in a state of the client and a
state of the connection.  `Reports` is `setClientState`'s test for a change,
counted into `notices`; `FlagAfter` is what the callback does to `connected_`.

The failure paths are separate actions because they tear down different
things.  Two examples: a handshake without an ACK is *not* an error to
`HelAckHandshake` (`receiveChunksBlocking` makes GOOD of the timeout), so the
state becomes CONNECTED before `openSecureChannel` refuses; a send failure closes
the connection first, so that no CloseSession follows, whereas a timeout of a
request finds an open channel and sends one.

The server side is three things: it answers the request it was sent, it hangs
up (a restart, an expired channel, a cut cable are one event to the client), or
it stays silent, which needs no action.  An answer and a hang-up may both be
waiting when the client looks.

Abstracted: message contents, which endpoint is selected, encryption (security
policy None), and the asynchronous interface, which the launcher never uses.  That
the process may die inside CloseSession, of bytes that an error amid a packet has
freed, is in `SecureChannel` and not repeated here.
A server is assumed to send OPN responses only to OPN requests.

`Caller` is the discipline of the launcher: it connects a new client, sets the
flag after a connect that returned GOOD, deletes a client it has disconnected.
It is not taken on trust: `MainIsACaller` proves that the program keeps to it, and
`APIIsACaller` that any other caller of the launcher's methods does.

`WaitsLeft` counts the waits that are still ahead of a call; `CallsShorten` says that
each step of the library lowers it, whatever the answers are.

### DecakeLauncher, LauncherMain, LauncherAPI

`pc` is the launcher's program point; an action runs from one library call to
the next and is enabled only outside the library.  `object` is what `client_`
points to, including a client that was deleted and kept (`freed`); its use is
undefined behaviour, modelled as a choice between the death of the process and a
use that goes unnoticed.  `site` is the caller of connectClient, which decides where
its success leads.

`LauncherMain` is the program; `LauncherAPI` calls the public methods in any order.
Both are needed: RunIteration never reaches connectRetry or SleepWithKeepAlive
(`NeverReconnects` is a theorem), so the correctness of those methods is a
question about other callers of the class.

The server and the PLC are external and modelled from the launcher's use: the
server answers what it was sent on the connection that stands, whatever the PLC has
or has not done with a method call; the PLC executes or refuses a call, possibly long
after the client gave up, during a later launch or in the next run of the program; a
running process moves through non-final values and ends in a final one.  `pending` is
the last call of this run, `late` are those before it, among them `LeftOver` calls of
earlier runs.  No order is assumed between the answers of one connection and another,
nor between a method call and the requests around it.  A call is answered with
success only if the PLC executed it.  A process that has ended
stays ended until the next launch, so the resumption of a held or paused
process is not modelled.  The launcher treats all final values alike (an
aborted process ends the wait like a completed one), which is why one
final value stands for all of them in the runs.  A run may begin with any node
value, and with a process that an earlier run left going.

Two things the launcher takes on trust about the PLC: that GOOD as the answer to a
method call means that the call was executed, and `PromptStart`: when the call
returns, the sequencer has left the final state of the process before.
`SuccessMeansEnded` states the end of a process only under `PromptStart`; without it
the first poll may read the old final value.

Even so TRUE is less than it seems.  The launcher polls a node that tells nothing of
the call that its state comes from.  If the PLC executes an earlier call, one that
timed out before a reconnect or was left by the run before, it may do so between the
end that the last poll has read and the return of LaunchAutoDecake, and TRUE is
returned over a running machine.  `restarted` remembers such an execution; it is read
by the properties only.  What holds is that this call was executed and that a process
has ended since (`finished`), and that the machine stands unless it was `restarted`.
Nothing in the repository claims more, and the launcher has no way to know more.

SleepWithKeepAlive passes `client_` to the library as it is.  Over no client or a
freed one this is undefined behaviour (`KeepAliveTouches`); over a freed one the read
may also go unnoticed and find no channel.

`LaunchContract` is the launch as the caller of LaunchAutoDecake sees it, with the
link, the flag, the retries and the polls left out: a call sends at most one
request; it and `older` ones, those of earlier callers included, may be executed or
refused at any later time; and TRUE is returned only when this request was executed
and is no longer open, and (with `Prompt`) a process has ended since, with a machine
that stands unless an older request was executed `again`.  FALSE says nothing.
`CallStatus` maps the program points to it.

`StepsLeft` bounds the steps that a method still takes: an attempt to connect takes
at most 12 (`AttemptSteps`), a poll four and a second of the clock (`PollSteps`).  The
numbers are those of the model's steps, and stand for the waits of the code, one to
a step; what matters is that there is a bound, that it is made of `MaxConnectRetry`,
`TimeoutSec` and `SleepSec` alone, and that nothing the server answers raises it.
`RunStepsLeft` adds what RunIteration has ahead.

### WaitLoop, WaitCondition

`WaitLoop` holds what an iteration does to the locals, shared by the launcher
and by `WaitCondition`, where one wait is refined to the seconds: `elapsed`
advances in reads (`Tick`) and in `Sleep(1000)`, the node changes at any moment
of it, and `since` remembers when it reached what is waited for.

The node holds a number of a type, and a read returns what `TypedReads` makes of
it: `OPCUAIsNumber` decides for all three typed reads what is accepted,
`OPCUAGetNumberValue` takes the low 32 bits, `OPCUAGetBooleanValue` reads the first
byte of a number as a `bool`, which for a byte other than 0 and 1 may come out as
either.  `taken` is the number that the server made its answer of.  A final value
that ends a wait was at the node when the server answered: casts of 16 and 32
bits cannot make one, since the final values are natural numbers of an `int`; the
cast of 64 bits can, and `TrueMeansFinalRead` names that as its one exception.

### SecureChannel, RequestReply

The channel is open when the module begins; opening it and tearing it down is in
`UAClient`, which sees of this module only the outcome of a call.  A step is one
chunk or one message of the packet in hand.  The stream is a sequence of chunks,
each of two halves, so that a packet may end inside a chunk: the code treats a
header that is not complete and a body that is not alike.  `held` is
`incompleteChunk`, `inHand` what is left of the packet.

A failed service call disconnects, and that begins with CloseSession over the
same channel, in the phase "closing"; if that fails the client goes down.  This is
where late answers are read: the request id is all that keeps them from being
taken for the reply.  An error amid a packet drops the rest of the packet but no
message in the queue, so that CloseSession begins with a queue that is not empty and,
if the packet ended inside a chunk, with a stream that is cut (`cut`): its bytes are
garbage and make an error (`GarbageFails`) or a header of a chunk that never gets
complete (`GarbageWaits`).

The chunks of a message point into the packet until they are copied, at its end.
`uncopied` are the messages that do; an error jumps over the copying and frees the
packet, which makes them `freed`.  CloseSession decodes them or copies them all the
same: undefined behaviour, after which the process is dead (`TouchFreed`) or has not
noticed (`Deliver`, `PacketEnds`; what is decoded there is no reply, since the id is
not in the freed bytes).

Worth knowing, and in the model:

- behind a chunk that is not a MSG the loop ends, and the rest of the packet is
  held until the next one arrives;
- a message over the size limit stays begun and can be completed with a hole, but
  only during CloseSession, which drops it by its id;
- the numbers start again if `receiveSequenceNumber + 1 > 4294966271`, in unsigned
  arithmetic: after 2^32-1 this is 0, and a server that counts to the very end and
  goes on with 1 to 1023 is refused (`CountsToTheEnd`);
- a chunk lost just where the numbers start again goes unnoticed (`Unnoticed`);
- `checkSymHeader` compares a time of the server's wall clock with the monotonic
  clock of the client: `TokenTimesOut` may happen at any chunk.

External are the server, which answers in the order of the requests with numbers
that follow each other, aborts an answer or ends with an ERR; and the network,
which loses, repeats or spoils a chunk of which nothing has arrived (the
interface of TCP would not; the module asks what the numbers are good for).
`RequestReply` is what a synchronous call promises: a reply is taken only for the
last request, once, and never after it was given up.

### LogSink

Two threads: the launcher's (`main`) logs, and rotates when a message does not
fit, and the flusher wakes up every second.  Each call of the C library is a
step, since the sinks of the launcher are of the `_st` kind and lock a
`null_mutex`; `locks` is chosen at the start, so that one run covers both the `_st`
sink and an `_mt` sink.  The flusher's step is two steps: the argument of `fflush`
is read, and the call is made.  `fclose` frees the FILE, and `fflush` of a freed FILE
is undefined behaviour: nothing, a flush of whatever has taken its place, or the
end of the process.

What fails: a rename (after the second attempt), the reopening (after all its
attempts; one may have truncated the file), `fclose` and `fwrite`.  `logger::sink_it_`
catches the exception and the message is lost.  `Kill` ends the process at any
point, `Restart` is the next run of main, over what files there are.  A message is
its number, so that what is missing can be told.

Worth knowing: while reopening keeps failing each further message rotates again,
shifting the older files out one by one (`WithinSize` and `WritesOpen` hold;
`Retention` does not claim anything after a failure).

### GetOpt

One action is one call of getopt, by its outcome, or one pass of main's switch.  A
word is what getopt sees of it, the option character or "none", and a value is
the position of its word, so that two values are never confused; `atoi`, which
makes 0 of a text, is not modelled.  For the word "-" the character that decides
whether an argument follows lies behind the option string: both outcomes are
actions.  The meaning of a command line is defined without a loop (`Pairs`,
`LastArgument`, `Accepted`), and `ParseExact` compares the two.

## 3. Runs

Passing runs:

- **client** (`UAClient.cfg`): no constants, 102 distinct states, exhaustive.  Every
  call returns with a client that is wholly up or down (`NothingHalfOpen`), a loss
  is reported once, a connection error comes from a client that is down;
  `KeepsContract` is the refinement of `LinkContract`, which has the flag go down
  with the link; `CallsShorten` the bound on the waits of a call; `CallsReturn` and
  `LossDiscovered` the liveness.
- **program** (`LauncherMain.cfg`): from main to exit, with one call that the run before
  left at the PLC; 13,162 distinct states.  One launch at most on top of that, no use
  of the freed client after the machine was asked for anything, a lost connection during the
  wait dooms the run at once (`LossIsFinal`; as every run ends, by `RunEnds`, it ends
  in a failure), and an end comes after a bounded number of steps (`RunShortens`).
- **methods** (`LauncherAPI.cfg`): two launches, two connect attempts, keep-alive
  sleeps and Stop in any order, with one call that the run before left at the PLC;
  651,506 distinct states.  The flag is exact, nothing is launched that
  nobody asked for, a success follows the execution of its own call and an end after
  it, also if an earlier call is executed amid the wait, retries are used up, every
  method returns
  within its bound (`MethodsShorten`); `KeepsPromise` is the refinement of
  `LaunchContract`.
- **wait** (`WaitCondition.cfg`): each form, with failing and slow reads, over nodes of
  a signed, an unsigned, a long and a Boolean type whose numbers equal the final
  one in 16 bits, in 32 bits, and not at all.  TRUE rests on a final value just
  read, the wait ends within two iterations of its limit, a process that ended an
  iteration before the limit is not missed if no read failed.
- **options** (`GetOpt.cfg`): every command line of up to five words, and of up to
  eight of the three options and other words, enough for all three, one given
  twice and something behind them.  The launcher is created for exactly the lines
  that give all three options, with the last value of each; no stale `optarg`
  gets through (`ArgumentIsFresh` proves it of each pass of the switch); the loop ends.
- **channel** (`SecureChannel.cfg`): two requests and CloseSession, answers of up to
  three chunks, one fault.  A call takes its own reply (`ReturnsReply`, and
  `RepliesKept`, the refinement of `RequestReply`), whole unless a chunk was lost
  where the numbers start again (`RepliesWhole`); nothing is refused that was not
  spoilt (`RefusesOnlySpoilt`); only CloseSession after an error amid a packet meets
  freed bytes (`FreedOnlyWhileClosing`); every call ends, unless the process dies of
  just those (`CallsEnd`).  563,434 distinct states.
- **log** (`LogSink.cfg`): four messages over two runs.  Nothing is written without an
  open file, files keep their limit, what is dropped is older than what is kept
  and was dropped for full files, what was written leaves the buffer, exit joins
  the flusher; with a lock no closed file is flushed.

The type invariants of the client, the wait, the options and the log are theorems for
every value of the constants (`ClientTypeCorrect`, `WaitTypeCorrect`, `OptTypeCorrect`,
`LogTypeCorrect`) and are not run again; the runs keep `TypeOK`, which has the client's in
it, and `ChannelTypeOK`.

Runs that TLC refutes, each stating what a comment or usage line says:

| Run | What the source says | What the code does |
|---|---|---|
| connection | "Disconnect and close a connection" (`open62541.h` 27217) | a handshake without ACK leaks its socket |
| freed | "Client = nullptr" (`DecakeLauncher.cpp` 74) | after a failed connect Stop uses the deleted client |
| cycles | `-s <sleep_between_cycles>` (`main.cpp` 1154) | no cycle follows the first; the process always exits with a failure |
| persist | "Persist full chunks that still point to the packet" (`open62541.c` 19847) | an error amid the packet jumps over it, and CloseSession reads the freed bytes |
| flush | "Use only if all your loggers are thread safe!" (`spdlog.h` 83) | the sinks take no lock, and the flusher may flush a file that the rotation has closed |

Met on the way and worth knowing: a loss of the connection during the wait burns
its retries in as many iterations and fails the run while the machine works on
(`LossIsFinal`); both reconnects are dead code, in the program
(`ReconnectIsDead`) and the second for any caller (`NoReconnectBeforeWait`);
EXIT_SUCCESS is unreachable; a condition met in the very iteration that finds the
limit passed is reported as a failure (which is why `NotMissed` asks for one
iteration in hand); the comment above the reconnect says five attempts
(`DecakeLauncher.cpp` 103) and the call makes ten; a response of another service is
handled under the comment "Close the connection" (`open62541.c` 40294) and leaves it
open; `OPCUAReadString` accepts numbers only, so that a description kept in a String
node ends its wait by the retries; `waitBooleanCondition`, which nothing calls, starts
from false, counts running out of retries as success, and reads numbers only, so that
its TRUE may mean that the expected value was never read.

### Bounds

| Bound | Code | Runs | Why it is enough |
|---|---|---|---|
| `MaxConnectRetry` | 10 | 2 | one retry that is not the last and one that is |
| `MaxRetry` | 10 | 2 or 3 | a failed read among good ones, and all failed |
| `TimeoutSec` | 1800 | 1 or 4 | iterations that end before, at and after the limit |
| `SleepSec` | `-s` | 1 or 2 | a keep-alive loop that repeats, one that does not |
| `MaxReadTime` | client timeout, 5 s | 1 or 2 | an iteration that steps over the limit |
| `Values` | 32-bit numbers | one working, one final | the code tells only these apart |
| `CommandLines` | any | up to 5 or 8 words | see the run |
| widths of `TypedReads` | 8, 16, 32, 64 bits | 2, 3, 4, 5 bits | each type has values that the narrower ones have not |
| `Samples` | any number | 5 numbers | final, equal to it in 16 and in 32 bits, negative only as an `int`, none of these |
| `Modulus`, `RollFrom`, `RollTo` | 2^32, 4294966271, 1024 | 16, 11, 4 | numbers far from the end, before it, and started again |
| `LastNumber`, `FirstNumber` | the server's choice | 14, 1 | a server that starts again with another number than the successor |
| `MaxRequests`, `MaxParts` | unbounded | 2, 3 | an answer that is late for the next call; a first, a middle and a last chunk |
| `MaxMessageSize`, `MaxChunkCount` | 0, 0 (no limit) by default | 3, 0 | the limit met at the second full chunk; the chunk limit ends a message in the same way |
| `MaxFaults` | unbounded | 1 | a loss, a repetition and a bad token, each anywhere |
| `MaxFiles`, `MaxSize`, `Sizes` | 5, 100 MB, any | 2, 3, {1, 2} | a rename onto a file, a missing one, files that fill exactly and not |
| `MaxMessages`, `MaxRuns` | unbounded | 4, 2 | a message that rotates the last file out, and one more; a run that takes up the files of another |
| `MaxAsked` | unbounded | 2 | a launch after a finished, a failed and a pending one |
| `LeftOver` | unbounded | 1 | a call of an earlier run beside those of this one; that one may become late as well |

`elapsed` inside `DecakeLauncher` is exact up to the limit and then stays
one past it, the only thing the code compares.  `LauncherAPI` needs a short
wait because everything else repeats; `LauncherMain` takes the longer one.
The proofs hold for every value of these constants.
`MarkConnected` is guarded by an open session, which the code does not test: the
deadlock check of the runs, and `CallInv` in the proofs, show that the guard never
keeps a connect that returned GOOD from going on.

### Fairness

In the launcher and the client, weak fairness of the process's own steps: every wait of the library has a
timeout (`client->config.timeout`), `Sleep` ends, and nothing else blocks.  In
`FairAPISpec` the caller is not fair: nobody has to call a method.  Nothing is
assumed of the server, the network or the PLC, so each liveness property holds
against a server that never answers and a process that never ends.
`CallsShorten`, `MethodsShorten` and `RunShortens` are what these liveness properties
have in them that needs no fairness: there are only so many steps to take.  The
fairness adds that they are taken.

In the channel the thread goes on with the packet in hand (`WF` of `Process`) and
a wait ends by its timeout (`WF` of `Timeout`); nothing is assumed of the server, and a
process that is dead takes no step.

In the log both threads run (`WF` of `Works` and of `Flushes`), which includes that the
second of `wait_for` passes.  `StopFlusher` needs the mutex of the flusher, which is
free only while that waits: `SF`, because it waits a whole second each time.  No
fairness of the sink's lock is assumed; the messages are bounded, and a thread
that takes the lock gives it back.

Deadlock is checked everywhere; `Over`, `Returned` and `Parsed` are the final
states in which the process or the connection is gone, the wait has returned or
the options are read.

## 4. Proofs

Assumptions: `ValuesAssumption` (the final values are among the values, the -1 is
none of them, and the failed read is no value), `LauncherAssumption` (limits
are naturals, retry limits not zero, there is a working value), `WidthAssumption`
and `WaitAssumption` (16, 32 and 64 bits, and any
widths that grow like them; the final values are natural numbers of an `int`), `ChannelAssumption`
(where the numbers may start again lies within the modulus, and a server that
counts as it should starts again there) and `LogAssumption` (a message is not
empty).  `RepliesAreWhole` alone assumes `NumbersSuffice`: in one connection the server
sends fewer chunks than there are numbers from `FirstNumber` to `LastNumber`.  The launcher
reads a node or two each second in waits of half an hour, thousands of chunks, and there
are more than four thousand million numbers.  The run has it too (9 chunks, 14 numbers).
Of the PLC it is assumed that GOOD to a method call means that it executed the call
(the guard of `LibraryMoves`), and `PromptStart` where a property names it; and of the
server that it sends an OPN response only to an OPN request.  No order of their answers
is assumed, within a connection or across two.

**UAClient_proofs.**  `ClientInv` is inductive: what stands (connection, channel,
session) is a function of where the thread waits.  None of the properties is
inductive on its own; `NothingHalfOpen`, for one, speaks of the moment outside the
library and says nothing about a step that starts inside.  The step is proved
action by action, after lemmas on what a disconnect does from each state.  From
`ClientInv` follow type correctness, the four safety properties and the
refinement `ContractKept` (every step of the client is a step or a stutter of
`LinkContract`).  `CallsAreShort` proves the bound on the waits action by action:
nothing that is tried on a failure leads back to a wait that is over.

**DecakeLauncher_proofs.**  The invariant of the methods, `LauncherInv`, in parts:

- `CallInv`: the program point says which call the thread is in and what its
  return says about the client;
- `ObjectInv`: client object, flag and program point agree;
- `RetryInv`: connectClient knows its caller, and has an attempt left;
- `CountInv`: launches, calls in flight and the call on its way are all
  covered by requests.  `Armed` is the strengthening: a launcher still on the way to
  its call has one request to its credit, so sending the call cannot exceed them;
- `LaunchInv`: a call that was executed is not open any more, and a machine that has
  ended a process since stands, unless it was restarted by an earlier call;
- `FinalInv`: a final value in the locals, in a reply or at the node of a machine
  started promptly means that a process has ended since the call was executed.  It
  speaks of `finished` and not of `process`, because a late execution may restart the
  machine between the read and its evaluation;
- `ClockInv`: a wait that goes on has not passed its limit by more than a second,
  and has noticed if it has.  `StepsLeft` counts with it: without the second part a
  poll behind the limit could be followed by another one.

One lemma per part shows that the methods' steps preserve it, another set that
the library's steps do, another that server and PLC do, each with one
step per action.  `SystemKeepsInv` combines them for any caller.
`MethodShortens` and `LibraryLowersBound` lower `StepsLeft` for any caller too, on the
lemmas `ServiceWaits` and `DisconnectWaits` (what a call costs) and `LaterIsLater` (what
a second of the clock saves); `PromiseStep` shows that a step of the launcher,
the library or the PLC is a step or a stutter of `LaunchContract`, where `LaunchInv` and
`FinalInv` give what a success needs, and `CountInv` one request to a call.  `Discipline` shows that the
launcher's steps are steps of `ClientNext`, which carries `ClientInv` over.

**LauncherMain_proofs.**  `RunInv` adds what RunIteration makes true: it goes on only
over an open session, with a client that was never freed, and asks once.  From it:
`RunsOverTheLink`, `LaunchesOnce`, `ReconnectIsDead`, `CrashesEarly`,
`MainTypeCorrect`, and `MainIsACaller`, which shows that the program implements `ClientSpec`,
so that every theorem about the client holds under it: `MainKeepsContract` draws
that conclusion.  `LossIsForGood` proves `LossIsFinal`: of the steps that a doomed run
can take (`LostWaitGoesOn`, `FailureGoesOn`) none leads to a success or a request,
because a poll over a link that is down reads nothing, and Stop is told of the
failure.  `RunsAreShort` combines `MethodShortens` with what each return leaves
ahead (`FollowingFalls`); `RunKeepsPromise` is the refinement of `LaunchContract` by
the program.

**LauncherAPI_proofs.**  `LauncherInv` for any caller and any number of launches, and
from it `FlagIsExact`, `LaunchesAsAsked`, `WaitsForLaunched`, `SuccessIsReal`,
`AllAttemptsUsed`, `CallsOverTheLink`, `NoReconnectBeforeWait`, the bound
`MethodsAreShort` and the refinements `PromiseKept` and `APIIsACaller`.

**WaitCondition_proofs.**  `WaitInv`, in parts: `Undecided` (between two iterations
nothing has ended the wait), `Converted` (what was read is the cast of what the node
held), `Clocked` (a bound of `elapsed` at each point of the iteration, by which
`EndsInTime` is inductive: two iterations, because the limit is tested at the top of
an iteration and takes effect at its end) and `Followed` (what a read says of
`since`, through the rest of the iteration and up to the next top, by which
`NotMissed` is).  `CastProperties` is the arithmetic of the casts: what fits is kept,
and a natural number comes of one that fits or has 64 bits.

**SecureChannel_proofs.**  `ChannelInv`, in three layers.  The types and `Halves` (no
more is held than was sent).  The order: `TodoInOrder`, `StreamInOrder`,
`QueueInOrder` say that requests, chunks and messages follow the order of the
requests, an ERR behind them, and that only the last message of the queue is
incomplete; lost and repeated chunks keep it, and with `Received` it gives
`RepliesAreOwn`.  The link: as long as nothing was spoilt, the chunks to come follow
each other and go on where the queue ends (`Sent`, `Joined`, `Accepted`), which gives
`OnlySpoiltRefused` and `UnspoiltRepliesWhole`.  After a failure, when the rest of a
packet has been dropped, the link holds only for the answer to CloseSession, of
which nothing can have been dropped (`Minds`).  Beside these stands `Freed`: no service
is asked for over a queue with freed bytes, because the first error ends the last
service, which gives `OnlyClosingMeetsFreed`.  `ChannelImplements` is the refinement,
step by step.

With faults the link is gone, and `RepliesAreWhole` counts instead.  `Tally(p, B, L)`
says that there are a beginning p and a count B[i] of the chunks sent before the answer
to request i such that the number of every chunk on its way is the one that many places
behind p (`Place`, `Nth`), and that the last chunk taken was the L-th.  Loss, repetition
and refusal leave such counts as they are (`TallyKept`), each chunk sent extends them
(`SendsTally`).  A chunk whose number is one higher than the last one's can then only
be the (L+1)-th (`PlaceSucceeds`), so that it continues the message in the queue or
begins one (`OwnMessage`, `TakeTally`).  B cannot be read off a state: a chunk that was lost
left no trace but the number of the next one.  `LossInv` therefore says that there are
such counts, as long as the numbers have not started again (`Numbered`).  The argument
needs `NumbersSuffice`: were as many chunks lost as there are numbers, the next one would
look like the successor.

**LogSink_proofs.**  `LogInv`: `Locked` (who is inside of the sink has its lock, if it is
one), `Opened` (a sink without a file has a size beyond the limit, so that the next
message rotates again) and `Counted` (no more is written than `current_size_` says),
by which `SizeKept` is inductive.  `RetentionKept` needs to know of the messages
themselves where they are.  `RetentionInv` speaks of the time before anything fails: each file holds older
messages than the next younger one, and what is gone is older than all that is kept
(`Sorted`); the files are numbered without a gap, and none is missing once a message is
gone (`Numbered`), so that a file is dropped only when all places are taken; and a file
is left only when it is full (`Filled`).  In the middle of a rotation one place is free
and moves (`Spare`): the invariant holds at each rename of the loop, and not only when
the loop is over, because a kill may come there.  `Unhurt` says that without a failure the
sink has its file open wherever it writes to it.

**GetOpt_proofs.**  `ParseInv`: at the top of the loop the words before `optind` are n
options with their arguments, and `taken` holds the last of each.  The lemmas say
that such a prefix extends by a pair (`NextPair`), that a word which neither
continues nor ends it spoils every reading of the line (`BadWord`), and that a line
has one reading (`CompleteIsLast`).  Nothing is assumed of the command lines but
that they are sequences of words.

Only model-checked: all liveness (`CallsReturn`, `LossDiscovered`,
`RunEnds`, `MethodsReturn`, `WaitEnds`, `ParseEnds`, `CallsEnd`, `Flushed`, `ExitEnds`), which
rests on fairness and is outside the prover, though `CallsAreShort`, `MethodsAreShort`
and `RunsAreShort` prove the bounds behind three of them.  Every invariant and every
action property that the runs check is a theorem.

## 5. Not modelled

- Of the channel: the sending side, HEL, ACK and OPN (their outcomes are in
  `UAClient`; a client never revolves its tokens, because it never renews the
  channel), encryption (the policy is None), and asynchronous calls, which the
  launcher does not make.  Decoding a message: a reply is its chunks.
- Of spdlog: levels, patterns and formatting, the console sink (it has no state),
  the registration of loggers and the map's mutex (one logger, looked up at the
  start), an `fflush` that fails, a message written in part, and a constructor that
  cannot open the file (main ends by the exception).
- `atoi` of the options, and a negative argument of SleepWithKeepAlive: like 0, it
  gives one iteration.
- The text of a description.
- Memory: the variant that SleepWithKeepAlive leaks each second, and allocations
  that fail.
- The program under `#if 0` in `main.cpp` and `OPCUAHelpers.cpp`, which is not compiled.
- The server, node store, subscriptions, encodings and type tables of open62541,
  and the bundled fmt: third-party code that the launcher does not call or that
  keeps no state for it.  They are by far most of the lines under `src/`, which is
  why the share of all lines that the models cover is small although the
  launcher's own code is covered nearly whole.

What could be added is small: a refinement of a wait inside the launcher by
`WaitCondition`.
