# A verification of vamp_alsa_host in TLA+

`vamp_alsa_host` is a server that reads audio from ALSA sound cards and from
radios (rtl_tcp), feeds it to Vamp feature-extraction plugins, records it to
`.WAV` files and streams it raw, all under the command of TCP clients. It is one
process with one event loop and one small helper thread per recorded file. This
directory holds TLA+ models of the server and of `vamp-host`, the batch host beside
it, the TLC configurations that check them, and TLAPS proofs: every invariant and
action property that a run checks and finds to hold is also a theorem, for all values
of the constants (section 7 names the few that need a hypothesis).

Contents: 1 inventory, 2 plan, 3 modules and code, 4 runs, 5 bounds,
6 fairness, 7 proofs, 8 findings, 9 disagreements not carried as runs,
10 what is assumed and what is not modelled.

## 1. Inventory

### The parts

| part | state it keeps | operations |
|---|---|---|
| `Pollable` (event loop and registry) | `pollables` (label -> shared pointer), `allpollfds`, `regen_pollfds`, `doing_poll`, `deferred_removes`, `controlSocketLabel`; each object's `pollfd`, `indexInPollFD`, `outputBuffer` | `poll`, `regenFDs`, `doDeferrals`, `remove`, `asyncMsg`, `queueOutput`, `writeSomeOutput` |
| `TCPListener` | listening descriptor | accept, construct a `TCPConnection` |
| `TCPConnection` | `inputBuff`, `outputPaused` | split input into commands, send replies, hang up |
| `VampAlsaHost` | `defaultOutputListener` | `runCommand`: open, close, start, stop, startAll, stopAll, attach, detach, receive, receiveAll, rawFile, rawFileOff, rawStream, rawStreamOff, fmOn, fmOff, status, list, param, help, quit |
| `DevMinder` | `hasStarted`, `shouldBeRunning`, `plugins` (label -> weak pointer), `rawListeners`, `downSampleFactor`, `downSampleCount`, `demodFMForRaw` | open, start, stop, delivering data, stall detection |
| `AlsaMinder`, `RTLSDRMinder` | the PCM with its descriptors; the radio's sockets, `segi`, the segment header | `hw_open`, `hw_do_start`, `hw_do_stop`, `hw_handleEvents`, `hw_getFrames` |
| `PluginRunner` | `plugbuf`, `framesInPlugBuf`, `frameTimestamp`, `outputListeners` | load, `handleData`, output |
| `WavFileWriter` | `outputBuffer`, `byteCountdown`, `timestampCaptured`, `ensureDirsState`, `filename`, `pathTemplate` | `queueOutput`, `openOutputFile`, `ensureDirs` (a thread), `handleEvents`, `doneOutputFile`, `resumeWithNewFile` |
| `WavFileHeader` | none | 44 constant bytes |
| `vamp-alsa-host.cpp` | the host; the name of its socket in the file system; `Pollable::terminating` | make way for the socket, signals, `terminate`, `run`, static destruction |
| `vamp-host.cpp` | a sound file, an output file and a plugin per run | the batch host of the Vamp SDK: command line, block loop |

### How they interact

All sockets, devices and files are `Pollable`s in one map, kept in the order of
their labels. A round of `Pollable::poll` rebuilds `allpollfds` if that was asked
for, calls `::poll`, calls `handleEvents` of every object with an entry until one
of them asks for a new rebuild, and carries out the removals that the handlers
have deferred. Everything else is a call inside a handler: a connection's handler
calls `runCommand`, which constructs, removes and rewires objects; a device's
handler hands its samples to plugins, to the file writer and to raw streams,
which queue output on connections or files; plugins and files report by
`asyncMsg` to the "control" connection. Objects refer to one another by weak
pointers kept under labels, and labels are reused. The only other thread is
`WavFileWriter::ensureDirs`, which shares `ensureDirsState` and `filename` with
the loop.

### What is hard, and what makes each part correct

* *Event loop.* Handlers change the registry while the loop iterates over it and
  while `allpollfds` describes the state before; descriptors, and the labels made
  of them, are reused by the kernel. Correct means: no round polls a stale
  descriptor, no handler of a destroyed object runs, a connection is never
  replaced by its successor, deferred removals happen, nobody starves.
* *Commands.* Removal is deferred but construction is immediate, and lists hold
  labels, not identities. Correct means: a device and its plugins agree, no
  command destroys what another one built, only devices that run deliver.
* *Recording.* Device, file and the thread that creates directories proceed at
  their own paces over a buffer of limited size, and recordings follow one
  another in one writer. Correct means: files continue one another without a
  gap, the captured first frame survives, files are opened where their directories
  were made, descriptors are neither leaked nor polled after close, "rawFileDone" tells
  the truth, recordings end.
* *Connections.* Commands may be cut or joined by TCP; output is produced by
  others between partial writes; `POLLOUT` exists in two copies. Correct means:
  every line runs once, output arrives in order and always goes out.
* *Time.* Silence is measured by a clock that may be set meanwhile, and only in
  rounds that reach the device. Correct means: no false alarm, no unnoticed silence.
* *Processes.* A server meets what an earlier one left, signals come at any moment,
  and destructors of static variables run while signals still may. Correct means:
  the server starts, ends when told to, and lets go of the hardware.
* *Batch host.* Every call may fail with some things open. Correct means: what is
  held is released, failures are told, the plugin sees the whole file.
* *Data paths.* Blocks, subsampling and segmented streams are all split at places
  that have nothing to do with one another. Correct means: nothing lost, repeated
  or swapped, and each time stamp belongs to its frame.

`PROJECT.json` lists the hazards line by line with the properties that answer
them.

## 2. Plan

The order is that of importance: whatever goes wrong in the event loop takes every
client with it; then the commands; then the paths of data.

1. `Pollable`, abstract in what handlers do, proved about. *Done.*
2. `VampAlsaHost`, the concrete handlers, shown to refine 1. *Done, proved about.*
3. `WavFileWriter`. *Done, proved about.*
4. `TCPConnection`, `PluginRunner`, `DevMinder`, `RTLSDRMinder`. *Done, proved about.*
5. `Server`: start, signals, `terminate`, static destructors. *Done, proved about.*
6. `PollFDs`: `allpollfds` by position, with devices that fail and asynchronous
   messages during `regenFDs`. *Done, proved about.*
7. `StallTimer`: the stall timer, the 2 s of `::poll`, a clock that is set. *Done,
   proved about.*
8. Hangup, half-close and SIGPIPE in `TCPConnection`. *Done, proved about.*
9. `RadioRate`, the search for the radio's rate, and `BatchHost`, `main` and
   `runPlugin` of `vamp-host.cpp`. *Done, proved about.*
10. Open. Proofs: that `PollFDs` implements what `Pollable` takes to be one step
    (`BeginPoll`).
11. Open. Models: averaging in `DevMinder`; failing `recv` and end of file inside a
    segment in `RTLSDRMinder`; the life of a writer past its removal.

The abstract specification worth stating is `Pollable` itself: what every
subclass may do to the registry. `VampAlsaHost` is the detailed one.

## 3. Modules and code

Variables bear the names of the code's fields, and actions those of its
functions or of the commands. `PROJECT.json` "map" gives the lines of every
definition. Definitions whose comment begins with "Mutant" are deliberately wrong
variants of the definition that follows; no specification uses them, they show
that the properties can fail.

**`Pollable`** models `Pollable.cpp`, and of `TCPListener` and `TCPConnection`
whatever touches the registry. `pc` is the place of the loop: `top` (before
`regenFDs`), `dispatch` (at the head of the loop over `pollables`), `handler`.
`slot[o]` stands for the entry of `allpollfds` at the index of `o`, so that
"index -1" is `NoFD`. `at` is the map's iterator, `running` the plain pointer
held during the call. `Accept` and `Hangup` are exact. `Construct`, `Erase`,
`Reconfigure`, `RemoveClient` and `DropFD` are, together, what the handlers of
other classes may do; a destroyed device may take others with it (`cascade`),
which the module leaves open and `VampAlsaHost` makes precise. `Erase` is "detach":
the code erases whatever has the label, at once and without a regeneration. The
constant `DetachAny` says whether clients make use of that; if not, they detach plugins
only, as the help asks them to. A handler may do
any number of these before `HandlerReturn`, as a read with several commands does.

**`VampAlsaHost`** models `runCommand`, the life cycle of `DevMinder` and its two
subclasses, the attachment of plugins and the place of the file writer in the
registry. `obj` maps each label to an object or to `[kind |-> "none"]`; a device
carries its generation (so that an old and a new object under one label differ),
whether it should run, whether its hardware is open, its descriptors, the labels
it lists as plugins, and the subset `stale` whose weak pointer has expired. An
attach whose plugin cannot be loaded leaves the kind "dangling": the
registry keeps a shared pointer to released storage. `batch` counts the commands
of one read. The last section instantiates `Pollable` with the refinement mapping:
object identity and descriptor are both `<<label, generation>>`.

**`WavFileWriter`** models the whole class in rounds of four steps: `top`, the
device's handler (`Deliver`), the writer's own handler, and commands. The buffer
holds frame numbers modulo `Modulus`; a frame's number is also its time. A
write takes any number of frames; every call may fail. `EnsureDirs` is the thread.
History: `head` (the frame whose time was captured), `written` and `lastWritten`,
`lost` (the buffer has been too full), `disturbed` (a write has failed, or a
`rawFile` came before the last recording was done), `made` (the name whose directories
the thread made).

**`TCPConnection`** models one client. Text is a sequence of pieces
`<<line, part>>`, the last part of a line being its newline, so that what is cut
or mixed up shows. `events` and `slotEvents` are the two copies of `POLLOUT`.
`Leave` lets the client stop sending ("half") or go at any moment; `Reported` says
what `::poll` then reports, and `HandleHangup`, `HandleEnd`, `HandleInput` and
`HandleOutput` are the branches of `handleEvents` in the order of the code.
`BrokenPipe` is the write to a client that has gone since `::poll`: nobody handles
SIGPIPE.

**`PollFDs`** models `regenFDs` object by object, and `indexInPollFD` as places in
the vector. `Visit` is an object's turn, `VisitFails` a device whose `getPollFDs`
fails after its entries were made, and sends a message through an index of the last
vector; `VisitWithout` resets the index of an object without descriptors. What
handlers do is `Handle`, `Disarm` and `Reconfigure`. `Pollable` takes all of this
to be one step; this module shows what happens within it.

**`StallTimer`** models one device against the time of day: start, stop, data,
errors, and the check in `handleEvents`. `clock` is true time, `timeNow` the time of
day, and `ClockSet` sets it, forward or back, to any other of `Times`. `stepped` says
that this has happened since the last data, otherwise than from near 1970 to the
present. `missed` counts the waits that ended without the
device's turn.

**`Server`** models processes that are given the same SOCKNAME: `Check`, `Unlink`,
`InstallHandlers`, `Bind`, the loop with one device and one plugin, the ways out of
it (`Quit`, an abort, `Terminate`, `Kill`) and the destructors. `terminating` is the
static flag. A signal that interrupts an allocation leaves the process at
"allocating", where `terminate` may wait for the heap's lock for ever.

**`RadioRate`** models `getHWRateForRate`, one iteration per step.

**`BatchHost`** models `main` of `vamp-host.cpp` on command lines of tokens, one for
each kind of argument it tells apart, and `runPlugin`: opening, sizes, the block
loop with its padding and seeks, and the releases at the end. `held` is what
is open.

**`PluginRunner`** models `handleData`, one iteration of its loop per step, frames
being numbers that are their times.

**`DevMinder`** models a delivery in one step, with the nested loops of the
subsampler as recursive functions over the buffer in place, the demodulator, and
the raw listeners: the set of weak pointers against those alive. Factor and counts are
converted to 16 bits (`ToShort`). History: `got` and `left` (the samples a listener was
given as frames, and those that demodulation left behind them and that went out too),
`counted` (the counts have been assigned), `fed` (the pairs a plugin was given).

**`RTLSDRMinder`** models the stream of segments byte by byte and the loop of
`hw_getFrames` one iteration per step.

`DataParts` and `ServerParts` put parts that share nothing side by side, so that one
run checks them: the part of a behaviour is chosen by `runs`, that part moves and the
others rest in an initial state, so the states add up and do not multiply. `ServerParts`
holds `Server`, `PollFDs`, `StallTimer` and `TCPConnection`. Neither is
a claim about how the parts interact; `PartsAreThemselves` in `DataProofs` and in
`ServerProofs` proves that a behaviour of the whole is one of each part, so that what
is proved of a part is proved of what the run checks.

`MCPollable`, `MCVampAlsaHost`, `MCData` and `MCServer` give values to the constants
that are functions, sequences or larger sets. The modules whose names end in `Proofs`
hold the theorems of section 7.

## 4. Runs

Passing runs:

| run | what it asks and shows |
|---|---|
| `Pollable` | rounds with accepts, hangups, construction, removal, plugins that are detached, descriptors that come and go, and a control connection. `SlotsFresh`: while no rebuild is pending, `allpollfds` is exactly the open descriptors of live objects. `RunningIsRegistered`: neither pointer nor iterator dangles. `ControlIsLive`, `ConnNeverReplaced`: reuse of descriptors never confuses connections. Under fairness `RemovalCompletes` and `Served`. |
| `HostRounds` | `RefinesPollable`: each command and event, two commands to a read and "detach" of any label, does to the registry only what `Pollable` allows, so its invariants carry over: `ConnNeverReplaced` always, the others as long as only plugins are detached. |
| `HostDevices` | two devices (ALSA and radio), a plugin that moves between them, two clients that wait for each reply and detach nothing but plugins. `HostOK` (types, and that devices, plugins, writers and connections agree on who feeds whom), `DataNeedsStart`, and `ConstructedIsKept`: what a command constructs survives the end of the round (with `MaxBatch = 1`; finding 1 is the rest). |
| `Wav` | recordings that follow and overlap one another, all failures. Nothing is skipped from one file to the next; the captured frame is the first one written; the time in the name is exactly one frame early (finding 2 says it should not be) and never worse; the file is opened under the name whose directories were made (`DirectoriesMade`); a closed descriptor is never polled and, until a `rawFile` comes during a recording or a write fails, none leaks (`WriterOK`; section 9 has the rest); "done" means written; and the recording ends unless the buffer fills first. |
| `Data` | the sequential parts, one to a behaviour. Plugin: `SoundIsWhole` and `StampIsFirstUnlessLost`, overlapping blocks from deliveries of any size, with hardware gaps. Device: `RawIsWhole`, mono and stereo, with and without demodulation, two raw listeners that come, go, expire, counts of any value before they are assigned, factors that overflow: listeners are given each frame that is due once, with its channels together, and so are plugins once the counts are assigned and as long as nothing is demodulated. Radio: `StreamIsWhole`, segments with 1, 2 or 3 samples, cut anywhere by reads that find an even number of samples. Rate: `RateIsLeast`, the least multiple that the hardware supports. Batch host: `ArgumentsFollowUsage` (the command line means what the usage message says, or is refused if it gives both `-a` and `-s`), `FileIsCovered` (the k-th block is the file from `k - 1` steps on, the rest zeros, and the last block reaches the end), `EndsCleanly` (nothing stays held, a call that fails is told by the exit code; the exceptions are in section 9). |
| `Server` | what surrounds a round, one part to a behaviour. Descriptors: `EntriesOK`, the vector is laid out as the indices promise, and `EventsOK`, which says that `POLLOUT` of the control connection is in its entry, and when alone it may get into somebody else's. Timer: `NoFalseStall` (no false alarm, unless the clock was set otherwise than from near 1970 to the present), and `StateIsTold` (silence is reported in time, and a device that delivers is not reported as stopped). Processes: `StartsAfterAnything`, `SignalsAreClean`, `DevicesAreReleased` and, under fairness, `SignalEndsIt`. Connection, with a client that sends whole lines and stops sending or goes at any moment: `CommandsAreLines` (each runs once, in order), `OutputInOrder`, `OutputIsArmed` (`POLLOUT` is never lost), `ToldIsNotKilled` (a client whose leaving `::poll` has reported cannot kill the server by SIGPIPE) and, under fairness, `OutputGoesOut` and `LeavingIsNoticed`. |

Runs that show a finding (section 8): `HostPipelined`, `HostCloseOther`, `WavStamp`,
`WavStuck`, `ConnSplit` and `ServerQuit`.

Every property of a passing run has a mutant in `PROJECT.json`: a plausible bug
in a mapped definition under which TLC finds the property violated. Several
properties are conjunctions of named parts (`HostOK`, `WriterOK`, `SoundIsWhole`,
`RawIsWhole`, `StreamIsWhole`, `EntriesOK`, `EventsOK`, `StateIsTold`), each with its own
comment in its module. Type invariants are checked within `HostOK`, `WriterOK`,
`EntriesOK` and `PartTypesOK`, and proved with them; those of `Pollable`,
`TCPConnection`, `StallTimer` and `Server` are proved.

## 5. Bounds

* `Pollable`: client labels before and after the sockets in the order of the map
  (a handler may act on objects that the iterator has passed or not yet reached),
  two socket descriptors (one is reused while the other lives), one device
  descriptor, four objects: listener, two connections and one client object, or
  one connection and two client objects. A third connection repeats the second.
  `DetachAny` is FALSE: the properties but one are
  about clients that detach plugins (section 9 says what others do). The theorems of
  section 7 are free of the bounds.
* `HostRounds`: one device with a descriptor, its writer, a plugin, a connection,
  two commands per read. This is every kind of object and every pair of commands.
  Two devices are left to `HostDevices`.
* `HostDevices`: two devices, one plugin label (so that it must be reused), two
  connections, one command per read, plugins detached only. A file would only add its own
  states and is in `HostRounds`. `HostOK` was also checked once outside these
  configurations with two commands per read and `DetachAny` (one connection, 1.6 million
  states), and its theorem has no such bounds.
* `Wav`: a buffer of 2 frames, a recording of 3, deliveries of 1 or 2, writes of
  at least 2 frames where possible, two paths, one descriptor. Files are longer
  than the buffer, so it fills, drains and is left with frames of the next
  recording. With this buffer the file that is opened has had at most one frame
  waiting when its time was taken. `StampIsFrameBefore` was also checked once, outside these
  configurations, with a buffer of 3 (6.6 million states), where old and new frames
  are there together. `Modulus` 5 exceeds all frames that can be in the buffer
  and a delivery.
* `Data`, plugin: blocks of 4 with steps of 3, deliveries up to 9 frames (more than
  two blocks), 14 frames. The theorems are free of the bounds.
* `Data`, device: the hardware at 4, the device at 2, listeners at 1 or 2, so that factors
  are 4 and 2; deliveries up to 3 frames (not a multiple of either), four frames.
  `ShortMax` is 3 instead of 32767: the factor 4 overflows as in the code a factor of
  32768 does. `Garbage` is {1, 2}: the counts of two channels may agree with each other
  and with the factor, or not. `SYMMETRY` over the raw listeners, which are names only;
  the run has no liveness property.
* `Data`, radio: headers of 3 bytes (cut in every place), eight samples: at least
  three segments, each of which may be odd.
* `Data`, rate: the hardware's true ranges, usual rates and the ends of the ranges with
  their halves and neighbours. The theorem is free of the bounds.
* `Data`, batch host: command lines of up to five arguments (all of the usage
  message's forms have at most that many, and one too many is possible for most),
  files of up to 7 frames, preferred sizes 0 (none), 2, 3 and 4: steps below, at and
  above the block, files that end in a block, at its end, and before the first one.
* `Server`, descriptors: two devices with 0 to 2 descriptors, one before and one after
  the control connection: every direction in which an index may be off.
* `Server`, timer: `MAX_DEV_QUIET_TIME` 2 instead of 30 s, the timeout and the radio's
  2 s as in the code, 7 s in all: a device can stall and be started again. `Times`
  has one time near 1970 and two present ones that are further apart than the limit,
  so that the clock is set in every direction. The theorems are free of the bounds.
* `Server`, connection: three command lines of two pieces, two lines of output, reads of up
  to two lines, a buffer of three lines: it overflows when replies and output meet.
* `Server`, processes: two, which start after one another or at once. The part was
  checked once with three (1.4 million states) outside these configurations, and the
  theorems hold for any number.

`HostDevices` has about 2 million distinct states, `Data` 760 000, `Server` 260 000.

`MaxFrame`, `MaxFrames`, `MaxArgs`, `MaxSamples`, `MaxLines`, `MaxOutput` and `MaxClock`
bound counters. `CHECK_DEADLOCK FALSE` is given where the system really stops, or the
bound stops it: `Data` (no more frames; the rate found; the batch host ended) and
`Server` (the processes have ended; the clock at its bound; the connection is removed),
and for the runs `ConnSplit` and `ServerQuit` for the
same reasons. The other models never stop: when the process exits they stutter in an
explicit action.

## 6. Fairness

* `Pollable`: weak fairness of the loop's own steps together. `::poll` has a
  timeout of 2 s and handlers never wait: files and sockets are non-blocking.
  Nothing is assumed of clients or devices. `Served` is therefore conditional:
  an object is served again and again unless rebuilds are asked for again and
  again.
* `WavFileWriter`: weak fairness of the round, strong fairness of the device's
  delivery (a running device delivers again and again; in between rounds may pass
  without data), weak fairness of the thread. Nothing makes clients act.
* `TCPConnection`: weak fairness of the round and of the client's reading, strong
  fairness of a device's handler that lets the round reach the connection:
  rebuilds are caused by commands and by file or device events, which do not
  recur in every round. Nothing makes a client send, stop sending or leave.
* `Server`: weak fairness of each process's own way out: destructors return, and a
  process that has called `abort` gets its own SIGABRT. Whether a process is
  signalled, told to quit or served is up to others. A process that is caught in
  `malloc` by a signal may stay there, and `SignalEndsIt` says so.

## 7. Proofs

`PollableProofs` proves, for all labels, descriptors and objects that meet the
assumptions of `Pollable` (labels of clients are not labels of sockets,
distinct descriptors give distinct labels, the kinds of descriptors are disjoint,
the "none" values are outside their sets), that `Spec` implies `[]TypeOK` and
`ConnNeverReplaced`, whatever clients detach, and, if they detach plugins only
(`~DetachAny`), `[]SlotsFresh`, `[]RunningIsRegistered` and `[]ControlIsLive`; section 9
is about the other case. None of these is inductive alone. The inductive invariant
`Inv` adds

* `Injective`: an object is registered under one label only;
* `DeadClosed`: an object that is not registered has no descriptor; without it the
  entry of a destroyed object could be that of a new one;
* `ConnOwnsFD`: the connection `Socket#f` owns descriptor `f`; with it a free
  descriptor means a free label, which is `ConnNeverReplaced`;
* `DeferredRegistered`: a connection whose removal is deferred is still
  registered, so that `doDeferrals` cannot take a later one, and a new control
  connection is not due for removal;
* `RunningAt`: the iterator is on a registered label in a handler.

There is one lemma per action or group of actions, and the theorem `Invariance`
combines them.

`VampAlsaHostProofs` proves for any labels, devices, radios, writers, plugins and
connections, any number of commands to a read and a "detach" of any label, `[]HostOK`,
`[]DataNeedsStart` and `RefinesPollable`, from `HostAssumption` (labels are of one kind,
and no two devices
share a writer). The inductive invariant `IInv` adds to them

* `Typed`: a label names only what it was made for, and a device lists labels of
  plugins only;
* `RoundsOK`: removals wait only within a round;
* `PlugsAgree` and `RecordersAgree`: a device's live weak pointers are to plugins that
  were attached to it, and to the writer of its own label;
* `OrphansGo`: a plugin that no device lists is due for removal. `HostOK` says this of
  the states between rounds only, for within a round commands defer the removal of
  what they leave without a device;
* `DevSlotsFresh` and `PlugsUnslotted`: between regenerations only devices that are to
  be polled have entries, which is why a stopped ALSA device delivers nothing.

One lemma per command or event shows that it keeps `IInv`, over a few on what a whole
class of commands changes ("one device changes", "a command constructs an object and
destroys what had the label"). The refinement has the same shape: for each class the
mapped registry, descriptors and entries of the new state are those that an action of
`Pollable` gives, or the old ones. It does not need `MaxBatch`. With it the theorems of
`PollableProofs` become theorems about the whole server: `HostRoundsSafe` and
`HostConnectionsKept` instantiate that module and discharge its assumptions about labels
and descriptors. No command whatever makes a connection replace another; and as long as
"detach" is given plugins only, a check that the code leaves to its clients, none makes
a round poll a stale descriptor or destroys the object whose handler runs.

`ConstructedStaysKept` proves `ConstructedIsKept` from `MaxBatch = 1` and `~DetachAny`,
the case of clients that wait for each reply and detach plugins only; without the first
hypothesis it is false (finding 1). Its
invariant `FilesWait` says that until a regeneration is asked for, only writers can be
due for removal: every other removal ends the round before the next command.

`TCPConnectionProofs` proves, for lines, reads and buffers of any size, any number of
lines either way, and also when lines arrive in parts and flood the socket,
`[]TypeOK`, `[]OutputIsArmed`, `[]OutputInOrder` and `[]ToldIsNotKilled`, from
`ConnectionAssumption`. The invariant adds types, the bound of the circular
buffer (without it, queueing nothing would cut the buffer), that a connection
without an entry is in no round and gets one (`HasEntry`), that no regeneration is
pending when a handler runs (`NoneIsAsked`: `Arm` writes an entry that is still the
one in force) and that only a bare `POLLOUT` leads to a write (`KilledByWrite`).
Order rests on two lemmas about texts: adjacent ones concatenate (`StreamConcat`),
and a write takes from the front what it leaves off (`WritingKeepsOrder`).

`CommandsStayLines` proves `[]CommandsAreLines` when lines arrive whole and no more of
them than one read takes (`~Split`, `~Flood`), for lines of any length and
any number of them; where they are split it is false (finding 4). The invariant
`LinesAreWhole` says that the input buffer is empty between reads and what is on the
wire are the lines that have not been run. That each read is cut exactly at its newlines
is a lemma about `Ends`, the places of newlines in order (`EndsFacts`): the i-th has i
newlines up to it, and the newlines among whole lines can be counted (`NewlinesCount`).

`WavFileWriterProofs` proves all that `Wav` checks but liveness, for any sizes of the
buffer, of deliveries and of recordings, any number of paths and descriptors, and any
modulus: `[]WriterOK`, `[]NothingSkipped`, `[]DirectoriesMade`, `FirstFrameKept`,
`StampIsFrameBefore` and `DoneMeansWritten`, from `WavAssumption`. What these say of leaks,
of the first frame and of its time is said of recordings that no `rawFile` and no failed
write disturbs (finding 2, and section 9). The invariant has
four parts. `Bookkeeping` says that no regeneration is pending while handlers run,
that an entry which is stale after a `rawFile` belongs to a file without a header (so
that `WriteData` never meets a closed file), and that frames written and to come add up
to those asked for. `Naming` says that time and name are taken before the directories
are made and not again, and that the directories are those of the name. `HeadKept` says
that from then until the first write the
buffer begins with the captured frame. `CountedBack` says what `NothingSkipped` does,
counted from the next frame back, so that neither a delivery at one end nor a write at
the other changes it; it rests on two lemmas about remainders. `Consecutive` is stated
by the distance from the first frame, since step by step it would take an induction
over the sequence to compare its ends.

`PollFDsProofs` proves for any labels and order of them, any devices with any numbers
of descriptors, and any of them failing, `[]EntriesOK` and `[]EventsOK`, from
`OrderAssumption`. The invariant (`Built`) says of a vector that is only partly built
what the properties say of a complete one, for the objects that have been visited; an
index of the last vector may then only belong to an object that has not been, which is
why the events of the control connection can get into another's entry, and only
into one before its own. Messages do not move entries (`RewrittenIsBuilt`), and adding
entries moves none (`AddedIsBuilt`).

`DataProofs` proves everything that `Data` checks, part by part.

* *Plugin*, for every `Block >= 1` and `1 <= Step <= Block`, whatever the sizes of
  deliveries: `[]TypeOK` (the buffer is never full or overrun between iterations),
  `[]SoundIsWhole` (the k-th block holds the frames from `(k - 1) * Step` on, and every
  frame is in a block or waits) and `[]StampIsFirstUnlessLost`, as long as the hardware
  loses nothing. The invariant says that the buffer holds the frames from
  `blocks * Step` on (`Buffered`), that `frameTimestamp` is behind `src` by what
  is buffered (`Timed`), what the last block was (`Given`) and that the total is right
  (`Counted`).
* *Rate*: `[]RateIsLeast`, for any two ranges of which the upper one is wide enough
  that a rate below it cannot step over it (`RateAssumption`; the hardware's ranges
  meet it). The invariant says that all smaller multiples have been tried.
* *Radio*: `[]StreamIsWhole`, for every length of headers, set of segment sizes and way
  the reads cut the stream, until a call finds an odd number of samples (section 9). The
  invariant speaks of one segment at a time: one that
  starts at place `p` on the wire (which may lie before it, if the segment is half read)
  has its header, consecutive samples and a successor that goes on where it ends
  (`IsSegment`), every header that follows a sample starts one (`OnWire`), and what has
  been copied and returned are the samples up to the next one that comes (`BufHolds`,
  `Returned`, `Estimated`).
* *Device*: `[]RawIsRegular` and `[]RawIsWhole`, whatever `downSampleCount` held before it
  was assigned and wherever factors overflow: every raw listener is given each frame that
  is due by `downSampleFactor`, or every one if that is not above 1, with the channels of
  one frame together; so is every plugin, once a raw listener has come and had the counts
  assigned and as long as nothing is demodulated (section 9 has the rest). The
  invariant says that the channels count together once there is a listener (`Together`)
  and where the next frame is taken, as seen from the last one given (`Continues`). The
  subsampler's loops are recursive functions whose runs are shown to exist
  for every number of frames, and their results to be the frames that are due, in place.
* *Batch host*: `[]FileIsCovered`, `[]EndsCleanly` and `ArgumentsFollowUsage`, for files
  and command lines of any length. The first two need what is held and what has failed
  at each place of `runPlugin` (`BatchInv`); for the last, a line that is put together
  from a request is parsed back to it, and one that is accepted is put together from
  what was read off it; lines that give both `-a` and `-s` are refused (section 9).
  `EndsCleanly` leaves out two failures that section 9 names.
* `[]PartTypesOK`, the types of all of them.

The installed provers cannot use an induction rule, so where a proof needs induction over
numbers it takes the least exception: `LeastExists` shows that a set of natural numbers
has a least element, `AllNumbers` that a set which holds 0 and each successor holds all.

`ServerProofs` proves for any number of processes `[]StartsAfterAnything`,
`[]SignalsAreClean` and `[]DevicesAreReleased`, from the assumption that the values
that stand for file names are distinct. The invariant adds how the way out, the
flag and the place agree (`WayOutAgrees`), and that between its unlink and its bind
a process finds the name free unless another raced with it (`NameIsTaken`).

The same module proves for the parts of `ServerParts` what `Server` checks of them:
`[]EntriesOK`, `[]EventsOK`, `NoFalseStall`, `[]StateIsTold`, `[]OutputInOrder`,
`[]OutputIsArmed`, `[]ToldIsNotKilled` and `[]CommandsAreLines` follow from the theorems of
`PollFDsProofs`, `StallTimerProofs` and `TCPConnectionProofs`, which it instantiates, and
`PartsAreThemselves`.

`StallTimerProofs` proves for any limits, timeouts and times the clock is set to
`NoFalseStall`,
`[]StallIsNoticed` and `[]RunningIsReported`. The invariant says that the count by the
time of day and true seconds agree unless the clock was set in between, and that one set
from near 1970 to the present cannot look like silence (`CountsAgree`), that a started
device is polled or about to be
(`StartedIsPolled`), and how long a silence can have gone untold at every point of
a round (`SilenceIsBounded`).

What stays with TLC: liveness and `ENABLED`, which are out of the prover's reach.
These are `RemovalCompletes` and `Served` (`Pollable`), `RecordingEnds` (`Wav`),
`OutputGoesOut`, `LeavingIsNoticed` and `SignalEndsIt` (`Server`). Every
other property of a passing run is a theorem. These theorems have a hypothesis on a
constant beyond the assumptions of their modules: `SlotsAreFresh`,
`RunningStaysRegistered`, `ControlStaysLive` and `HostRoundsSafe` (`~DetachAny`),
`ConstructedStaysKept` (`MaxBatch = 1`, `~DetachAny`), `CommandsStayLines` and
`LinesStayCommands` (`~Split`, `~Flood`). Each is met by the run that checks the property,
and excludes what section 8 or 9 is about, `~Flood` apart: more lines than one read takes
are cut in the same way as
lines that arrive in parts.

## 8. Findings

1. **`HostPipelined`** (`ConstructedIsKept`) and **`HostCloseOther`**
   (`SurvivorsKeepPlugins`). "close" stops a device and defers the removal of its label;
   "open" of the same label in the same read replaces the object at once, and
   `doDeferrals` then removes the new one (`VampAlsaHost.cpp:146`, `Pollable.cpp:34-45`).
   The client has been told that its device is open. And "detach" does not take the
   plugin out of its device's `plugins` (`VampAlsaHost.cpp:216` removes a raw
   listener instead): if the label is then attached to another device, closing
   the first removes the plugin of the second (`DevMinder.cpp:12`).
2. **`WavStamp`** (`StampIsFirstFrame`). The time in a file's name is that of the frame
   before its first one (`WavFileWriter.cpp:67`; `VampAlsaHost.cpp:361-362`,
   `WavFileWriter.hpp:30`, `33-35`), since the length of the whole buffer is taken off the
   time of its last frame.
3. **`WavStuck`** (`RecordingCompletes`). `queueOutput` returns early when the
   buffer is full and the timestamp captured (`WavFileWriter.cpp:53-57`), but the
   file is only opened from `queueOutput`. When making the directories takes
   longer than the buffer lasts, or the frames left from the last recording fill
   it, the file is never opened.
4. **`ConnSplit`** (`CommandsAreLines`). `inputBuff.erase(0, inputBuff.npos ...)`
   empties the buffer whenever it holds no newline (`TCPConnection.cpp:86`): the
   first part of a command that arrives in two reads is lost.
5. **`ServerQuit`** (`DestructorsUseNoMap`). Only `terminate` sets
   `Pollable::terminating`, which keeps destructors from using the map that is being
   destroyed (`Pollable.hpp:34`). A "quit", another exception or an error of `::poll`
   reaches `exit` with it unset, and the destructor of a device then calls
   `Pollable::remove` for its plugins (`DevMinder.cpp:9-15`).

## 9. Disagreements met while modelling, not carried as runs

Read off the source, or seen in counterexamples; the models contain the code's
behaviour in all of them. For the first nine the module named states as a property what
help texts or comments promise. TLC refutes each of these with the constants of the run
that checks the module (`HostRounds`, `Wav`, `Data` or `Server`); no run of section 4
claims them, and they are kept for whoever repairs the code.

* *Detach* (`VampAlsaHost`, `HandlerIsRegistered`, with `DetachAny`). "detach" erases
  whatever has the label (`VampAlsaHost.cpp:220`). A connection that detaches itself is
  destroyed while its handler runs; a device or the control socket goes without the
  regeneration that would take its entry out of `allpollfds`. Help and error message
  speak of plugins (`VampAlsaHost.cpp:207`, `320`).
* *A file left open* (`WavFileWriter`, `OpenIsWritten`). "rawFile" during a recording sets
  `pollfd.fd` to -1 without closing it (`WavFileWriter.cpp:199`); the help says that the
  command closes the file (`VampAlsaHost.cpp:359`).
* *A path ignored* (`WavFileWriter`, `FileUsesLatestPath`). The path of a "rawFile" that
  comes while the directories of the one before are being made is not used: the file is
  opened under the earlier name (`WavFileWriter.cpp:200`; `VampAlsaHost.cpp:360-361`).
* *Usage* (`BatchHost`, `UsageIsAccepted`). After `-s` the place of the plugin's name is
  taken to be 2 whatever came before (`vamp-host.cpp:230-233`): `-a` with `-s`, which the
  usage message allows (`111-112`), is answered with that message.
* *Unassigned counts* (`DevMinder`, `PairsTogether`). `open` sets `downSampleFactor`, but
  only the first raw listener has `downSampleCount` assigned (`DevMinder.cpp:20`, `70-74`).
  Where its two places differ, a plugin is given left and right from different frames;
  the comment says "works the same for all channels" (`208`).
* *Plugins and "fmOn"* (`DevMinder`, `PluginsSeeSamples`). "fmOn" demodulates the buffer in
  place that the plugins are given next (`DevMinder.cpp:255`, `280`); the help says that it
  does not change what they see (`VampAlsaHost.cpp:377`).
* *Leftover samples* (`DevMinder`, `RawIsMono`). While demodulating, as many bytes are
  queued as for two channels, the second half of them leftovers (`DevMinder.cpp:265`,
  `243`); the help says that the output is reduced to a single channel
  (`VampAlsaHost.cpp:380-381`).
* *Odd reads* (`RTLSDRMinder`, `SamplesAlwaysInOrder`). A call that finds an odd number of
  samples drops the last, and the channels are swapped from there on
  (`RTLSDRMinder.cpp:175`, `105-108`).
* *Clock steps* (`StallTimer`, `StallIsReal`). Silence is measured by the time of day: a
  clock that is set forward by more than the limit, from a present time, makes a device
  that delivers be stopped (`DevMinder.cpp:287-288`, `291`; `DevMinder.hpp:26`).
* *Devices.* A radio's samples are handed on before "start"
  (`RTLSDRMinder.cpp:73`; help at `VampAlsaHost.cpp:279-280`). A device that could
  not be opened stays registered (`DevMinder.cpp:124`, `VampAlsaHost.cpp:294`),
  and so does a plugin that could not be loaded, as a dangling pointer
  (`PluginRunner.cpp:146`).
* *Silence.* A stalled device is stopped and never restarted, although comments say it
  is (`DevMinder.cpp:294`; `DevMinder.hpp:26`, `DevMinder.cpp:289`). A device that was
  started before the clock was set and then goes silent is never reported
  (`DevMinder.cpp:288`). Since a radio delivers before its first start, that start
  finds it running and returns early, and `stopped` stays true
  (`DevMinder.cpp:40-41`, `151`; `DevMinder.hpp:49`). An ALSA device whose
  `mmap_begin` fails after frames were announced is never reported as stalled
  (`DevMinder.cpp:184-195`, `AlsaMinder.cpp:152`). A start that fails leaves
  `shouldBeRunning` set (`DevMinder.cpp:39-43`). A radio's socket stays readable at
  the end of its stream, so that the loop is busy until the stall is noticed.
* *Poll entries.* When a device fails in `regenFDs`, an asynchronous message may set
  `POLLOUT` in the entry of an object before the control connection
  (`Pollable.cpp:126`, `146`); `StrayNeedsFailure` and `StrayIsBefore` say that
  this is all.
* *Clients that leave.* One that shuts down its sending side is removed as soon as its
  input is read, and its outstanding replies are lost (`TCPConnection.cpp:64`); the
  commands of one that closes are dropped if `POLLHUP` is reported with them; one
  that goes between `::poll` and the write ends the server (`Pollable.cpp:167`).
* *Processes.* A second server unlinks the socket of one that runs
  (`vamp-alsa-host.cpp:251`). `terminate` allocates and frees in a signal handler and
  may wait for the heap for ever; a fault while it runs returns to the
  faulting instruction (`vamp-alsa-host.cpp:182`). A signal during the destructors of
  "quit" leaves devices to the kernel.
* *Batch host.* A read error is reported as success, and the sound file stays open
  when the output file fails (`vamp-host.cpp:321-326`). With too few arguments `argv`
  is read past its end. A plugin of the frequency domain that prefers blocks of 1 is
  given a step of 0.
* *Output.* `defaultOutputListener` outlives its connection: a later client that
  is given the same descriptor receives the output (`VampAlsaHost.cpp:171`,
  `172-173`, `305-307`). Lines are cut when the output buffer overflows
  (`Pollable.cpp:145`; `PluginRunner.hpp:51-53`).
* *Recording.* After a device is opened anew, "rawFile" finds the old writer and
  does not connect it (`VampAlsaHost.cpp:106`, `355-357`), and a second "rawFile"
  keeps the number of frames of the first. After a "rawFile" during a recording the handler
  that follows on the old entry reports `rawFileDone` for a recording that has not
  begun (`WavFileWriter.cpp:171`). A write error is
  reported as done (`WavFileWriter.cpp:183`; `VampAlsaHost.cpp:364-365`). An error
  of `create_directories` ends the server (`WavFileWriter.cpp:134`). The time in
  the file's name is wrong by more than a frame if frames are missing in the
  buffer (`WavFileWriter.cpp:67`; `WavFileWriter.hpp:33-35`). Writes below
  `MIN_WRITE_SIZE` happen, since
  `Pollable::queueOutput` sets `POLLOUT` in the copy in any case
  (`Pollable.cpp:146`; `WavFileWriter.hpp:21`).
* *Plugins.* After a gap the time of the block that straddles it is wrong
  (`PluginRunner.cpp:177`). Plugins read a mono device with stride 2
  (`DevMinder.cpp:281`, `PluginRunner.cpp:174`), and are always given two channels
  although `plugbuf` has `numChan` (`PluginRunner.cpp:182`, `DevMinder.cpp:280`).
* *Subsampling.* A raw listener changes the rate of plugins
  (`DevMinder.cpp:70`; `DevMinder.hpp:29`), a second one gets the rate of the
  first (`DevMinder.cpp:69`; `VampAlsaHost.cpp:341`). The factor is `round` of
  a quotient already truncated (`VampAlsaHost.cpp:92`; `341-342`), and kept in 16 bits
  (`DevMinder.hpp:57`): a slow stream of a fast radio gets another rate, every frame if the
  value becomes negative. A negative error code is added to `totalFrames`
  (`DevMinder.cpp:193`; `DevMinder.hpp:39`).

## 10. Assumptions, and what is not modelled

* Clients do not use labels of sockets or of the listener in "open", "attach" or "close".
  "detach" may name anything where `DetachAny` holds; after a connection has detached
  itself its handler is taken to go on as if the storage had not been reused.
* Using released storage (the dangling plugin) is taken to end the process or to
  do no harm.
* `AlsaMinder`: PCM descriptors come and go with the hardware; what the mmap copy
  loop delivers is frames, its overrun of the buffer is outside the model.
* `RTLSDRMinder`: every segment has samples, a segment without any would make
  `hw_getFrames` loop for ever.
* `DevMinder`: requested rates are between 1 and that of the hardware; averaging,
  which no caller requests, is left out (before the first raw listener the flag that asks
  for it has not been assigned: a sample then stands for the average that ends with it).
  Counts that are not assigned hold any of `Garbage`. Sample values and
  the arithmetic of demodulation are left out, their places are not.
* `WavFileWriter`: sizes are in frames; regular files are always writable; the
  model ends with the removal of the writer.
* `TCPConnection`: finitely many command lines; in `Server` lines arrive whole (`Split`)
  and fit a read (`Flood`). A removal is final here; what it does to the other objects
  is in `Pollable`.
* `StallTimer`: the clock is set to any of `Times`, any number of times, each of which
  stays on its side of 1000000000 s while the model runs. Time passes only in `::poll`.
* `Server`: one device and one plugin stand for the registry; the other objects'
  destructors use no static variable. Each process runs once.
* `BatchHost`: plugins that prefer blocks of 1 are left out (`BatchAssumption`); of a
  feature only that there is output is kept.
* `AlsaMinder`'s mmap copy loop writes twice the stereo frames (`AlsaMinder.cpp:169`):
  memory beyond what was asked for is outside the models.
* Not modelled: `WavFileHeader.hpp` (a constant record); the lists of plugins and the
  layout of features in `vamp-host.cpp`; option parsing of the server; help texts and
  the format of replies; the parameters of plugins; `ParamSet.hpp`, `system.h`, the
  makefiles.
