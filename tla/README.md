# Verification of simple-boost-coroutines

TLA+ modules, TLC configurations and TLAPS proofs about the library in `src/`:
asynchronous TCP and UDP servers and clients on Boost.Asio coroutines
(`include/asio`, `tools/asio`) and a set of helpers (`include/core`, `tools/core`).

What is hard to test in the library is mostly concurrent: coroutines of one
service thread, threads that start and stop the service, callbacks that run
on `std::async` threads, timers that race the transfers they watch, flags that
several objects share. The helpers add sequential code with many borders: packages
cut out of a stream, conversions that have to be inverse, wrappers that go on
after a failure in the middle.

## 1. The system

| part | state | operations | talks to |
|---|---|---|---|
| `AsioService` (+ `AsioSignals`) | `m_Active`, `m_WorkPtr`, the stop flag of the `io_service`, `m_State`, `m_Error`, lists of callbacks | `Start`, `Poll`, `Stop`, `RunService`, `IsError`, signal handlers | runs every handler; calls the BeforeStart and BeforeStop callbacks of servers and clients on the caller's thread |
| `AsioError` | an error code, a table of callbacks | `SetErrorCode`, `Execute`, copy, move | calls back on threads of their own |
| `AsioSocketSession` (+ `SteadyTimer`, `IOChannel`) | socket, mode, timer, two coroutines that own it, `m_AfterStop` | `Start`, `Receive`, `Send`, `CheckTimeout`, `Stop`, destructor | created by acceptor, client or UDP server; its `m_AfterStop` lowers their count |
| `ClientServerBase` | `m_SocketsCount`, `m_SocketsLimit` | `Inc`, `Dec`, `SetSocketsCount`, `SocketsValid` | shared by service thread, callback threads, callers |
| `AsioAcceptor`, `AsioTCPServer`, `AsioServer` | `m_Acceptor` | `StartAcceptor` (`TryOpen`), `StopAcceptor` (`TryClose`), `AcceptorAction` | callbacks of the service; makes sessions |
| `AsioClient` (+ `AsioResolver`) | `m_KeepAlive`, `m_Endpoints`, session callback | `TryConnect`, `Scan`, `Connect`, `SetKeepAlive` | callback of the service; makes sessions |
| `AsioServerDuplex` | two servers | `Start` on a thread per server | the service, twice |
| `AsioUDPServer` | - | `Init`, `Listen` | makes one session per start of the service |
| `BytesDocument`, `DocumentPkg`, `IDocument` | content, rules of stuffing | add, remove, assign, `ToStream`, `FromStream`, `GetPackage` | the buffers of `IOChannel`; devices |
| `ByteStuffing`, `CoreUtils` | - | replace, split, join, hexadecimal | documents, devices |
| `Devices`, `Device` | a map of devices, each a map of properties | `ToByteArray`, `FromByteArray`, `=`, `Diff`, files | udev enumerates |
| `PasswdGenerator` | flags, length, exclusions | setters, `run` | calls back with the password |
| `FilesAction` | a static busy flag, a stack of calls | `FileActions`, `ResetBusy` | calls back for each file |
| `SshTools` | session, channel, error code | `Connect`, `VerifyKnownHost`, `Authenticate`, `Disconnect` | libssh, any call of which may fail |
| `SharedPool` | a map of shared pointers, a status | `Insert`, `Remove`, `Clear`, `=` | key allocator of the application |
| `InotifyManager` | actions per path, error code | `Run`, `Init` | libinotifytools, run handler |
| installer, examples | - | scripts, programs that use the library | - |

What makes each modelled part correct:

* **session** - a stopped session has nothing left to wait for; no silent peer holds
  a one-way session; one transfer at a time, the second only after a successful
  first; its callback runs when the connection is over.
* **count** - never more than the sockets that are open (a slot is never lost), never
  above the limit by more than the accepting coroutines account for, never
  far below zero.
* **server** - an open server that reports no error has a coroutine that accepts;
  starting and stopping it at any time keeps the bounds on the count.
* **acceptor** - an acceptor a `TryOpen` reports as opened is open and listens, although
  other threads open it too, write the error it reads, and calls are refused.
* **client** - the count stays at zero or above; a scan under a running `Connect`
  does not take the service thread for good.
* **service** - `m_Active` has a thread behind it; `run()` ends only because of a
  `Stop`; a `Start` leads to an active service; a `Stop` ends the run.
* **duplex server** - an active service has both servers serving behind it; `Start`
  tells the truth. That it comes through is documented, and does not hold.
* **UDP server** - the count stays within zero and the limit, and a place that is taken
  is accounted for, even when a callback does not find its server any more.
* **error cell** - a callback gets the code it was registered for, whatever another
  thread has set in the meantime, and its setter waits for it.
* **packages and documents** - the stream is cut at headers only, nothing of it is lost
  or repeated, however it is spread over reads; stuffed content hides every header; copies and
  moves leave each package with its rules; what is converted can be had back.
* **devices** - file and assignment restore what an array can carry; `Diff` finds what
  has changed, as far as the comparison of two devices looks.
* **passwords** - a run delivers one password of the length that was set and from the
  characters left over, and ends when the flags can be met.
* **file actions** - every path once, and every path a walk can reach if it is let, under
  the names the code makes of them.
* **ssh** - after any failure no channel outlives its session, no channel without a
  login, no host written that was not unknown.
* **pool** - what is in the pool stays until it is taken out, and the status tells
  whether an insertion took place.
* **inotify** - a run that starts watches something, and one that does not is told.

The hazards, each at its line and with the properties that cover it, are listed in
`PROJECT.json`. The hard behaviours are interleavings of the service thread with
callers and callbacks (no lock protects any of the asio state above), the order in which
completion, cancellation and deadline are queued, non-atomic reads and writes
of the count, the stop flag, the busy flag and the error cell, waits for futures,
borders of buffers, and operations that go on after one of their steps has failed.

## 2. Modules

    AsioSocketSession ---- implements ----> ConnectionService
          |        ClientServerBase
          |       /       |        \
      AsioTCPServer   AsioClient   AsioUDPServer

      AsioService                  AsioAcceptor
             \ cut down to             / in full
              AsioServerDuplex                             AsioError

    CoreUtils   BytesDocument   ByteStuffing
        |  \          \          /
        |   \         DocumentPkg ---- Documents
      Devices
                 PasswdGenerator   FilesAction   SshTools   SharedPool   InotifyManager

    MCAsioTCPServer, MCAsioServerDuplex, MCCore: instances for TLC      *Proofs: theorems

**AsioSocketSession** models a pool of session objects, each a record. One action is
the code a coroutine executes between two suspensions. `Start` posts both
coroutines: the transfer (`Receive`, `Send` or one after the other) and
`CheckTimeout`. `io` and `watch` say where each is suspended or what it will resume
with. A completion that is queued stays queued: `StopTimer` cancels a wait that
is still waiting and cannot take back one that has expired, and `Stop` turns a
pending operation into a failed one and leaves a finished one alone. When both
coroutines have ended, the last `shared_ptr` is gone and the destructor stops
the session within the same action. The peer, the kernel and the clock are the
`Environment`.

**ConnectionService** is the abstract specification: phases of one connection with no
timers, coroutines or ownership. `ServesConnection` is its `Spec` under the mapping
`PhaseOf`, checked as a PROPERTY of the session run.

**ClientServerBase** is the count. `DecSocketsCount` is three steps (two loads and a
store), taken by the callback thread; `owed` counts the runs of `m_AfterStop` that the
service thread has to wait for in the destructor of the future, so no handler runs
while `owed > 0`, but callers do.

**AsioTCPServer** composes sessions and count with the acceptor. `StartAcceptor*` are
what `TryOpen` can come to (in time, late, never, refused), `StopAcceptor` and
`StopAcceptorResets` the two halves of stopping. `LoopHead` is the head of the loop of
`AcceptorAction`, taken at the end of every handler of the coroutine.

**AsioAcceptor** opens up `TryOpen` and `TryClose`. Each thread in `TryOpen` has a task of
its own; `open`, `bind` and `listen` are one step each, which sets the error that goes
into the shared cell `m_Error`, and reading the cell back (`IsError`) is a step behind that, so
tasks and handlers write it for each other. A call fails when the acceptor is not in the
state the call needs, or when the system refuses it (`Failures`); the task goes back to
the head of the loop after each failure, and is told success by whatever is in the cell.
`wait_for` is kept by its outcome when `TryOpen` returns: in time with what the task says, or late
with false, behind the destructor of the future. Two threads use one acceptor object
at a time, which is a data race; each call of the library is taken as atomic, in any order. Histories
say which acceptors the system refused something (`refused`), of which a `TryOpen` was late (`late`) and
for which `StopAcceptor` was called (`stopped`).

**AsioClient** composes sessions and count with `Connect`, `Scan` and `SetKeepAlive`
(three steps). A `Connect` with an empty list of endpoints does not suspend: it is
"spinning" and holds the service thread.

**AsioService** is the life of the `io_service`: the actors are the callers and
the threads of `RunService`; each access of `m_Active`, `m_WorkPtr` or the stop flag is
a step. A signal handler runs inside `run()` and calls `Stop` and `Start` there. Of the
server, only its pending accept is kept, because it is outstanding work and
because a BeforeStart callback on an open acceptor never returns.

**AsioServerDuplex** extends `AsioAcceptor` with the service around it: `Start`, which may be called
again over threads that are still opening, detaches a thread per server, each of which runs the BeforeStart
callbacks of *both* servers, last registered first, with every `TryOpen` step by step, and then
`RunService`. Handlers of the running service write the error cell (`RunHandles`), an exception can
leave `run()` (`RunThrows`), and a `Stop` of the service closes both acceptors under the threads that open
them. The activity flag, the work object and the two halves of `Stop` are those of `AsioService`.

**AsioUDPServer** composes sessions and count with `Listen`, which never suspends. The
parameter of the session's `m_AfterStop` lies on the stack of a coroutine that has ended:
what the callback finds there is undefined, and the model chooses between the
server and something else, in which case the place is `lost`.

**AsioError** is the cell on its own: setters, callbacks on their own threads, copy and move.

**BytesDocument**, **ByteStuffing** and **CoreUtils** are the pure operations, translated as
functions on sequences of bytes. **DocumentPkg** is the stream: reads of
any length, the buffer of the channel, the shared document, and the packages taken out.
**Documents** is the life of several packages: filled, copied, moved, written to and read
from one stream buffer. **Devices** is the document of devices, its configuration file
and its comparison; a name is one byte and a value a short sequence, because the properties
are about signs of equality, empty values and ends of arrays. `Diff` compares devices by
`Device::operator!=`, and `Device.h`, which declares it, is not in the repository; the one comparison
there is `IsStrongEqual`, which looks from one side only: what one device has more than the other
is no difference to it. `Diff` is therefore a function of the reading of `!=` (`Readings`): whole
devices, or `IsStrongEqual` asked of either side, and `DiffFindsChange` says for each reading
what no difference means; that nothing was lost or added follows only if whole devices are compared.

**PasswdGenerator** represents a password by the set of its characters and its length; a draw
that misses a kind is drawn again. **FilesAction** is a stack of calls per
walker, with the test of the static flag and the call behind it as two steps. Every path goes
through `RecurciveCalc`, where `StrJoin` puts as many blanks in front as the path has parts: a path is
its parts and its blanks, and what is matched, tested for a directory and handed to the callback is the path with
blanks. A walk therefore reaches only directories whose names begin with the right number of
blanks (`Reachable`); an ordinary directory is handed to the callback like a file.
**SshTools** lets every call of libssh fail, also inside an operation. **SharedPool** has pools,
keys and addresses, an address being used again after its element is destroyed, and null, which
`Insert` takes like any element and for which it may set no status at all.
**InotifyManager** keeps `errno` and the error of the library apart.

**MCAsioTCPServer** and **MCAsioServerDuplex** add the symmetry sets for TLC, used by the runs that
check invariants only. **MCCore** puts the components that share nothing side by side, one of them
moving in each behaviour, and gives their constants values. The other modules are checked
as they are.

## 3. Runs

| run | shows | bounds |
|---|---|---|
| `session` | drain after stop, watched first transfer, callback counts, one transfer at a time, endings, refinement | 2 sessions, 4 modes; sessions do not interact, the second shows they do not |
| `server` | bounds on the count and the accepting coroutine under starts and stops | 3 sessions, 2 accepting coroutines, limit 1: the limit is passed, a coroutine outlives a stop, decrements are clamped |
| `server_live` | one-way sessions end in a shared service, whose thread waits for callbacks | 2 sessions, 1 coroutine |
| `limit` | **violated**: the documented limit, because a session can give its place back twice | 4 sessions, limit 3, a server left alone |
| `service` | activity flag, ends of runs, starts; signals, polls, exceptions | 1 caller, 2 threads |
| `stop_ends` | **violated**: a stop ends the run | 1 caller, 1 thread |
| `client` | bounds on the count, end of spinning | 1 session, 2 `Connect` coroutines, limit 1; hosts that always resolve and hosts that do not |
| `duplex` | what an active service and a `Start` that returned true have behind them | 3 threads: one more than a call detaches, so a second call meets a thread that hangs; 2 calls of `Start` and `Stop` together (`MaxCalls`); one acceptor the system refuses calls of at times |
| `duplex_spins` | **violated**: `Start` brings the servers up | 2 threads, 1 `Start`, no call refused |
| `core` | the sequential components, file walks, pool, error cell and UDP server | see below |
| `reset_stops` | **violated**: `ResetBusy` ends a walk at once | 2 walkers over two files, 1 reset |
| `walk_descends` | **violated**: a walk lists the directories of its list | 2 walkers over one ordinary directory |

For the asio runs the bounds are pools of identities: a session object or coroutine is used
again when it has ended, so runs of any length are covered, and no counter but the calls in
`duplex` (`MaxCalls`) is capped. What a
pool cuts off is only the number of connections or coroutines at one time. The
violated properties quote a comment of the repository (`findings` in `PROJECT.json`).

`core` bounds data. Its bytes are the two of a header, the terminator and a newline; a read
has at most 3 bytes and all reads together 6 (`BufferSize`, `MaxTaken`), so a header is
spread over two reads, two packages come in one, and stuffing meets AA at both borders.
A document grows to `MaxContent` bytes before it is written, the stream takes `MaxSent`;
two packages are enough for copy and move. Devices have one of 5 contents, among them an empty value and
a sign of equality at the end of one. A kind of characters has one or two members, one of
them ambiguous or a vowel, and the exclusions can take a whole kind away. Two walkers share
the busy flag, with one reset from outside (`MaxResets`); their lists hold a directory whose name begins with a
blank, with one in it whose name the blanks of two conversions make, an ordinary directory, and a path that ends
in an asterisk, and one file is excluded. The UDP server has 2 sessions, 2 listeners,
limit 2 and 1 callback that misses the server (`MaxLost`). Two pools
with one of them full (`MaxSize`), two watched paths with two runs (`MaxRuns`), two cells and
two setters are the smallest numbers at which their hazards occur.

Many properties are conjunctions of named parts, each with its comment next to it:
`StreamIsCut` is packages in order, the rest kept, and words that arrive;
`SessionIsSound` (ssh) is nothing outliving the session, no stale error, a login before a
channel, and only unknown hosts written; `ClientSafe` and `UdpCountReports` join
types or ranges with the bounds on their counts. The type invariants of the server and of the duplex
server are proved and not run.

`ActiveMeansServing` and `TrueMeansServing` exempt by name what the code does not keep: an acceptor a
`Stop` has been called for; one the system refused a call, for which the success of another thread's call can
be read from the cell, so that it may be open without listening; and one of which a `TryOpen` was late, for
which no coroutine may have been spawned although it listens.

`EndsOnlyByStop` holds while a wait for signals keeps the `io_service`
from running out of work, or while nobody polls and no two threads overlap in
`RunService`. Without both, the `reset()` of one thread and the release of the work
object by another let `run()` end by itself; and a `Poll` without work and without signals
leaves the `io_service` stopped for the `Start` that follows.

What the models show besides, at the lines named in the hazards, without a run of its own:
the second transfer of a half-duplex session has no deadline (`CheckTimeout` watches
once), so only `FirstTransferEnds` and `OneWaySessionEnds` are stated; a run for flags the exclusions
leave no character of draws for ever, so `RunEnds` is about flags that can be met; an element refused by
a pool can leave an earlier status behind; the callback of a UDP session may lower another word;
only the error of the last watched path is told; an assignment from a device without properties takes
its name and keeps the old properties; an accepting coroutine that
finds the count at the limit ends, and nothing starts it again when a session ends;
two threads can be inside `RunService`, and the first to leave clears `m_Active` under the
other; `TryOpen` on an acceptor that is open never returns, whatever time it was given, unless it reads
the success of another from the cell.

Comments of the headers that the code does not keep, beside the findings: the initial flags of
`PasswdGenerator` are said to ask for upper case, lower case and digits (`PasswdGenerator.h:295-296`), but `run`
asks for a digit and a symbol at most, and nothing enforces the maximal length (`PasswdGenerator.h:36-40`);
`PasswordFits` says only what `run` does. `m_DirList` is said to be cleared by each
`FileActions` that is not recursive (`FilesAction.h:153-154`), which no line does; in the model, too,
it grows over the walks of an object.

Deadlock is checked for sessions and clients. Servers and services may really
stop: a caller that hangs in `TryOpen` and an accepting coroutine that has ended leave
nothing to do; the core components end with their bounds. Their configurations say
`CHECK_DEADLOCK FALSE`.

### Fairness

* Handlers: the service thread runs what is queued. Alone, a session needs weak
  fairness. In a server or client the service thread is busy again and again while
  callbacks run, which disables a queued handler for a moment; the queue of an
  `io_service` is first in, first out, so a handler that is ready between the callbacks
  again and again is run: strong fairness.
* Deadlines pass (weak fairness on the clock). A peer owes nothing: no fairness on
  completions, connections or signals.
* Threads of callers, callbacks, the duplex server and walkers that have begun go on (weak
  fairness). Nobody has to call `Start`, `Stop`, `SetKeepAlive` or `FileActions`.
* Passwords: a draw that has been possible at every attempt is made at last (strong fairness
  on `DrawSatisfied`). It stands for the random generator: each attempt draws
  anew, and a kind that has characters left is drawn with a probability that does not shrink.
* The UDP server, the error cell and the sequential components have safety properties only.

## 4. Proofs

| module | theorems | for any |
|---|---|---|
| `AsioSocketSessionProofs` | `SessionSafety`, and one by one `SessionTypes`, `StoppedDrains`, `FirstIsWatched`, `AfterStopCounted`; `TransfersAlternate` (an action property); `SessionServes` (the refinement) | sets of sessions and modes |
| `AsioTCPServerProofs` | `ServerSafety`, and one by one `ServerTypes`, `CountReports`, `AdmissionIsBound`, `CountNearZero`; `OpenAccepts` | limit, sessions, coroutines |
| `AsioClientProofs` | `ClientSafety` | limit, sessions, coroutines |
| `AsioUDPServerProofs` | `UdpSafety` | limit, sessions, listeners, missing callbacks |
| `AsioServiceProofs` | `ServiceSafety`, `ServiceTypes`, `RunEndsByStop` (an action property) | callers and threads, with or without acceptor, signals, polls |
| `AsioServerDuplexProofs` | `DuplexTypes`, `DuplexServes`, `TrueServes` | threads, calls of `Start` and `Stop`, refused calls |
| `CoreProofs` | `ErrorSafety`, `SshSafety`, `PoolSafety` (an action property), `InotifySafety`, `PasswdSafety`, `FilesSafety` | cells, codes, threads; failures of libssh; pools, elements, allocators; paths, runs; kinds of characters and lengths; trees of files, walkers, resets |
| `DocumentProofs` | `StreamSafety`, `PackagesValid`, `CutSafety`, `StuffingSafety`, `ConversionSafety`, `ArraySafety`, `DiffSafety` | texts, bytes, reads, buffer, bounds; names and contents of devices |

*Sessions.* The properties are not inductive: nothing in them excludes a stopped
session whose timer runs on, for which `CheckTimeout` would stop it again. `SessionInv`
describes an object by its stage (`Posted`, `Running`, `Gone`); the key conjunct is
that a closed but living session has a finished watcher and an inactive timer, so
only its destructor stops it a second time. With it, a step in which a transfer begins is
a handler of its own session, whose socket is open (`TransfersAlternate`), and every step maps to the step of
`ConnectionService` that its phases name, or leaves them (`SessionServes`).

*Server.* `CountInv` adds to the bounds on the count the same bounds on the value that
`DecSocketsCount` is about to store, because a reset may come between its load and
its store; and it reserves a place for every coroutine that has found the
count below the limit. The number of open sockets falls exactly when `owed` rises.
For `OpenAccepts` a coroutine that ends has either reported or left the acceptor closed, and a
`TryOpen` that succeeds posts a new one.

*Client.* `ClientCountInv` reserves a place for each `Connect` that is posted and one for a
scan under way, which is going to post one. An identity that is free has no
reservation, so all together stay within the limit and one more for each coroutine but the
first. Nobody resets the count of a client: what a decrement is about to store
stays within the count.

*UDP server.* `UdpCountInv` states of the value to be stored what it states of the count. A
place is opened together with its socket; when the socket closes, `owed` or `lost` rises.

*Service.* `ServiceInv` adds that only a `Stop` is followed by the `Start` of a
restart. Then a handler of `run()` cannot leave while it has a call to finish, and
the thread that set the flag is always on its way to clearing it.
`RunEndsByStop` adds two facts that hold while `Quiet` does: a service that has been stopped without
its flag is in the hands of a caller that will clear it, and the `io_service` has work as long as
nobody has asked for a stop.

*Duplex.* `Truth` says what a task has behind it, by the place it is at, for an acceptor that no `Stop` has
reached: a task that was told the success of `open` or `bind`, by its own call or by another's, has an open
acceptor, and one that is told the success of `listen` has a listening one, for a `listen` fails only on a closed
acceptor unless the system refuses it. No step of anybody takes that back (`Stays`), so it is inductive
although the cell itself promises nothing. A thread behind a callback has an acceptor that serves
(`Passed`, `PassedServe`), whoever opened it; it is behind both when it sets the activity flag; and `retval` is
still true only if an active service has been seen.

*Error cell.* A step that starts no callback and moves no thread that a callback runs for keeps the
invariant; the one that starts callbacks takes the code from its own setter, not from the cell.

*Tools.* `SshInv` follows a channel through the middle of an operation: `setErrorCode` and every
option keep that a channel has a session, whatever fails, so a disconnect takes it away.
`InotifyInv` says that the paths still to come end as the list of actions does; hence the last answer
of the library that reaches `errno` is that of the last path. The pool needs only that its variables
are functions.

*Passwords.* The alphabet is what the exclusions leave of the kinds that are asked for, the kinds
share no character, and a draw is accepted only if it satisfies the flags; the length set last is
never below the least.

*File walks.* A path is given to a walk by the list it begins with, or when the directory that holds it is
entered (`Given`). `WalkInv` divides what is given, without overlap, among what the callback has been
shown, the directories entered, and the calls on the stack, and says that nothing given is missing
unless the flag was lost. The directories entered are some of those in `m_DirList`, which remembers
earlier walks too, so the invariant says that there is such a set and each step that enters a directory
names the next. That no path is given twice rests on no path of a list lying inside a directory
(`FilesAssumption`), on different directories having different entries, and on `CalculatedInjective`: the blanks
of a conversion do not make two paths one.

*Documents.* What a recursive function of the models computes for every string is shown in three
steps: a function with its equations exists (the choice is of something), so the equations may be used;
what follows from them is an induction over the places of the string, from the front or the back. The
library states induction for an operator, which the provers cannot instantiate; `NumbersInduction`
states it for a set of numbers, from the well-foundedness of their order. A stream is then blanks,
a word and a rest, so a read takes from the stream what it adds to the document.
A package is valid because what `Stuff` writes holds no header, whatever was written before.

*Packages of a stream.* `CutBehind` says that the packages taken are what lies between the first
headers of all that was received, and the rest is what is behind them. Two headers never overlap, so
the header found first in the rest is the next of the stream, and `TakeAll` ends because the rest gets
shorter. The first word of a read stands where the read begins, because words are taken out of a buffer
that is emptied.

*Stuffing and conversions.* Behind the first rule no AA is left, so no header; the second rule adds
none, and undone in the other order both give back a text without AA. A hexadecimal form is read two
digits at a time, and each half has one digit. The parts of `StrSplit` joined again give the string from
the separator found last back to the first, for any beginning. A rule has two parts unless its name holds a
separator.

*Devices.* Strings without a splitter, the last of them not empty, put together as lines are split
into these strings again (`LinesSplit`): `Find` stops at the splitter that ends a line, and the place
behind it begins the next. This is used at three depths: the lines of a file, the halves of a
device and the lines of its properties. A property line has two parts exactly when `Carried` says so,
so a device reads back as `Restored`, unless it has no properties: then its text has one
half and nothing of the file is taken. `DevInv` says that the list and what was saved are devices, and
that the file is what was written of them. The order of the keys matters nowhere, only that each key occurs once.
`DiffSafety` goes through the three readings of the comparison: a difference in the value of a property that both
devices have is one for each of them.

The assumptions are those named in the modules: the modes are among the four, the
limit is a positive number, the pools are finite, callers and threads are distinct,
switches are Boolean, the list of watched paths is a sequence that is not empty, texts are sequences of
bytes, no path of a list lies inside a directory, the kinds of characters share none,
no value udev keeps of a device holds a newline (one that does is cut there when it is read back). TLC evaluates them in every run.

Only model-checked: liveness and what needs fairness (out of the prover's reach).

## 5. What is abstracted or left out

* Payloads of a session: a transfer finds bytes or it does not (`bytes`).
* One thread runs the handlers in the server, client and UDP models, although `AsioService` can
  end up with two.
* The error cell is shared by everything that calls `IsError`; its write and its
  read are two steps in `AsioAcceptor`, with all tasks and the handlers of the service writing
  it. In the models of sessions, TCP server and client each sees its own errors. The callbacks of
  `AsioError` set no code themselves.
* In `AsioServerDuplex` the limit of sockets refuses a `TryOpen` only of an acceptor that a
  `Stop` has reached, as before there are no connections; `SetSocketsLimit` can store zero or less, with
  which a server refuses from the start, and the models take a positive limit (`SocketsLimitAssumption`).
* `AsioService` and `AsioTCPServer` take a `TryOpen` on an open acceptor as one that never returns; that
  it does when it reads another's success is in `AsioAcceptor` and `AsioServerDuplex` only.
* `DirListClear`, which empties the list of directories of an object between walks.
* Accesses of `m_WorkPtr`, `m_Acceptor` and `m_Endpoints` from two threads are data
  races; they are taken as atomic, in any order.
* The state change of a handler comes before the steps of the callbacks it waits for.
* The server runs use one-way sessions; the half-duplex modes are covered by the
  session run and, as far as proved, by `ServerSafety`, which has all four.
* Exceptions: those that leave `run()` are modelled (`RunThrows`), those that a method
  catches and logs are not, nor are the error callbacks that stop the service.
* The callers of the server models reach the service directly, as signal handlers do.
  `AsioServer::Start` is part of `AsioServerDuplex`.
* Not modelled because no program can have it: `AsioServer::Stop` and `TemporaryStart`, and
  `Stop`, `TemporaryStart` and `IsActive` of `AsioServerDuplex`, are members of templates that do not
  compile when they are used; `PoolObject` and `DocumentPool.h` do not compile; the source of
  `SharedInfo` is not in the repository; `AsioSessionPing` is commented out.
* Not modelled because the source does not say what happens: `FromStream` writes a terminator
  one byte past its array when a word fills the buffer; `Swap` of two documents holds the mutex of
  one, so two threads that assign two documents to each other race on their contents.
* Not modelled because it is input and output or formatting: the interactive shell and the execution of
  commands, what udev enumerates, decoding of inotify events, conversions of numbers, dates
  and upper case, logging, installer and examples (but for the channel actions of `Common.h`).

## 6. What is left

* The order in which two documents are locked, once `Swap` locks both.
* Composition of the error cell with sessions, acceptor loop and client, as it is done for `TryOpen`.
* The stop of the service by `SetBeforeServiceStart` after a failed `TryConnect`, composed with
  the client.
