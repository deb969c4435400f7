# Verification of CANpie FD

TLA+ specifications of the CANpie repository: the frame FIFO and the driver of the C API, the networks, the
sockets and the life of the CAN server, three of its interface plug-ins, the setup of the networks, the
command line tools, and the value classes they all use. The modules are checked with TLC on small
instances; theorems that hold for every value of the constants are proved with TLAPS.

All paths below are relative to `src/source/`.

## The system

A *server* process holds CAN *networks*. Clients attach to a network with a *socket* (a local socket or a
WebSocket); a *plug-in* offers *interfaces* to the physical bus, one of which may be attached to a network.
Every frame a member sends is copied to all other members. On the client side, an application either uses
the socket class directly, as the command line tools do, or the C API (`CpCore...` functions) that a
*driver* implements on top of the socket. Other WebSockets carry the *settings* of the server and of its
networks as JSON.

    application --CpCore API--> driver --QCanSocket--> (local socket | WebSocket) --> network <--> interface
                 <--callbacks--        <--readyRead--                                   |          (plug-in)
    tools ------------------------QCanSocket--------------------------------------------+
          ----------- QCanServerSettings, QCanNetworkSettings (WebSocket, JSON) ---- server: heartbeat, setup

Everything in one process runs in one event loop, except the two sides of a FIFO, which a target with
interrupts may run preemptively. What is hard comes from there: slots that run inside of other functions
(`abort()`, `flush()`, callbacks that process events), answers that come in any order, processes that
crash, and state that is shared where nobody expects it (global variables, one frame object for many reads).

| Component (code) | State it keeps | Operations | What makes it correct | What is hard | Status |
|---|---|---|---|---|---|
| FIFO (`canpie-fd/cp_fifo.c`) | two indices, an element counter, frames | Init, Clear, Copy, IsFull, DataInPtr, IncIn, IsEmpty, DataOutPtr, IncOut | a bounded queue: whole frames, once, in order | two contexts at the level of memory accesses; atomic or not; full versus empty | modelled, proved |
| QCan driver (`device/qcan/qcan_socket_canpie_fd.cpp`) | buffers, masks, attached FIFOs, callbacks, counters, link | the CpCore functions, `onSocketReceive`, `handleCanFrame` | filters stay as configured, no frame forgotten, counters exact | a callback may call the API and run the event loop; a slot connected several times | partly, proved |
| Network (`qcan/qcan_network.cpp`) | lists of sockets, interface, counters, bit rates, features, enable flag | attach and detach, data handlers, `handleCanFrame`, setters | a bus: one order for all, no echo, nobody left out; an interface has the rates of its network | a list that changes under a loop, a mutex of the same thread, setters that depend on each other | partly, proved |
| Socket (`qcan/qcan_socket.cpp`) | kind of connection, two pointers, flag, receive queue | connect, disconnect, setHostAddress, read, write, error handlers | one connection, told truly | handlers that abort, delete and emit; calls during a pending connection | modelled, proved |
| Server (`qcan/qcan_server.cpp`) | shared memory with a heartbeat, networks, WebSocket server | start, take over, timer, routing of WebSockets | one server at a time | simultaneous starts, crash and restart, age of the heartbeat | partly, proved |
| Plug-ins (`application/plugins/qcan-usart`, `qcan-peak`, `qcan-hms-vci4`) | connection, mode, queues, timers | connect, disconnect, read, write, reset, setBitrate, setMode | each frame once, in order, of this connection; polling goes on | polling that each `read()` must start again, half-way failures, global lists | USART modelled, others partly, all proved |
| USART driver library (`qcan-usart/cp_usart.c`) | as the QCan driver, per channel | the CpCore functions, byte handlers | frames reach the buffer they belong to | one channel looks into the buffers of another | partly |
| Setup and dialog (`application/server/qcan_server_dialog.cpp`, `qcan_interface_widget.cpp`) | settings file, interface of each network | start, quit, change of interface, features and rates | settings survive a restart | order in which they are loaded | partly, proved |
| Settings access (`qcan/qcan_network_settings.cpp`, `qcan_server_settings.cpp`) | a mirror of the server's JSON | connect, commands, close | the mirror is the truth | when it is sent | partly |
| Tools (`application/can-send`, `can-dump`, `can-config`, `can-error`) | options, three connections, timers | parse, attach, send, receive, quit | they do what the options say, and end | answers in any order, a server that goes away | partly, proved |
| Frame, message (`qcan/qcan_frame.cpp`, `canpie-fd/cp_msg.c`) | a value | setters, conversions | conversions keep what they carry | format against DLC and flags | partly, proved |
| Filters (`qcan/qcan_filter*.cpp`) | a list of filters | configure, append, decide | decides as asked | off filters, accept and reject mixed | modelled, proved |
| Time stamps (`qcan/qcan_timestamp.cpp`) | seconds, nanoseconds | arithmetic, comparison, conversion | exact or invalid | carry, borrow, 32 bits | modelled, proved |
| Template plug-in, compiler abstraction (`qcan-template`, `misc/mc_compiler.h`) | | | | | partly, with the setup and the FIFO |
| VCI 3 plug-in, server logger, socket dialog, driver template | | | | | not modelled, see below |

The hazards of this code, each at its line and with the properties that cover it, are listed in
`PROJECT.json`.

## Modules

| Module | Models | Composed with |
|---|---|---|
| `FrameFifo` | what a FIFO promises: a bounded queue | abstract specification of `CpFifo` |
| `CpFifo` | `cp_fifo.c`, access by access | implements `FrameFifo` |
| `QCanSocketCpFD` | one port of the QCan driver | uses the promise of `FrameFifo` for attached FIFOs |
| `QCanNetwork` | members and frame distribution of one network | |
| `QCanServer` | start, heartbeat, crash and takeover of the server process | |
| `QCanSocket` | the CAN socket of an application | |
| `QCanTools` | one run of a command line tool, server settings, routing | uses what `QCanSocket` promises |
| `QCanNetworkSetup` | rates, features, interface of the networks; dialog and settings file | |
| `QCanNetworkSettings` | a settings program and its connection | extends `QCanNetworkSetup` |
| `CpUsart`, `QCanInterfaceUsart` | the serial library; the interfaces on top of it | the second extends the first |
| `QCanInterfacePeak`, `QCanInterfaceVci4` | an interface, and the network that reads it | |
| `CpMsg`, `QCanFrame` | the message structure; the frame class and the conversions | the second extends the first |
| `QCanTimeStamp`, `QCanFilterList` | time stamps; filters and filter lists | |
| `QCanFrameArray` | the byte array of a frame that sockets and networks exchange | extends `QCanFrame` and `QCanTimeStamp` |
| `Subsequences` | the part of a sequence that is in a set, as an operator the prover can reason about | used by `QCanTools`, `QCanInterfacePeak`, `QCanInterfaceVci4` |
| `MC...` | constants of the runs; `MCQCanInterfaces`, `MCQCanTools`, `MCQCanValues` and `MCCpFifo` also choose, with a variable (`kind`, `situation`), which module a behaviour is about | |
| `CpFifoProofs`, `QCanSocketCpFDProofs`, `QCanServerProofs`, `QCanNetworkProofs` | theorems about the module of that name | extends it |
| `QCanSocketProofs` | theorems about the socket and about the tools | extends `MCQCanTools` |
| `QCanNetworkSetupProofs` | theorems about the setup and the settings program | extends `QCanNetworkSettings` |
| `QCanInterfacesProofs`, `QCanValuesProofs` | theorems about the three plug-ins; about conversions, filters and time stamps | extend `MCQCanInterfaces`, `MCQCanValues` |

Operators whose comment begins with *Mutant* are changed forms of a definition next to them; they document
which mistake a property catches (`PROJECT.json`, "mutants") and belong to no specification.

### CpFifo

The writer's program counter goes `idle, copy, copying, inIndex, inCount(, inStore)`, through `dropIndex,
dropCount(, dropStore)` before when it makes room; the reader's `idle, read, reading, outIndex, outCount(,
outStore)`. Each step is one access: a `memcpy` is two, and an entry in between, or one that changes while
it is copied out, is `NoFrame`. With `Atomic = FALSE` the counter is loaded and stored in two steps, as
`ulElements++` may be compiled to. `Preemptive = FALSE` means that both sides run in one event loop, where
a sequence is not interrupted by the other side. `DropOldest = TRUE` is the QCan driver's writer.

`CpFifoClear` and `CpFifoCopy` require both sides to be idle: they use `atomic_init`, which the C standard
excludes while others access the counter, and none of the callers does otherwise. All properties assume
`Discipline`: an event loop, or an atomic counter with a writer that leaves the reader's index alone. A
preemptive build without atomics, or one that drops the oldest frame from an interrupt, breaks
`CountMatchesIndices` (set the constants and see).

### QCanSocketCpFD

Identifiers are sets of bits, so that masks are intersections. The state is that of one port; `filter`,
`allocated` and `delivered` are history variables. `loops` is the stack of running calls of
`onSocketReceive()`: a call takes `framesAvailable()` as its bound, and is suspended in the receive callback
(`inCallback`), in which the application may call the API (`Api`) or run the event loop (`EventsRun`), so
that `ReadyRead` can start another call on top. `slots` counts the connections of the slot, which every
successful `CpCoreDriverInit` adds one to; `again` is how often the slot is still to be called for the same
signal. Releasing the driver inside of a callback does not end the loops. Qt does not emit `readyRead()` of
one device while a slot connected to it still runs; a nested call needs a second device behind the same
socket, which a `CpCoreDriverInit` repeated during a pending connection creates. The model allows nesting
without asking for one.

### QCanNetwork

`handleCanFrame()` is a sequence of steps (`WriteInterface`, `WriteLocal`, `WriteWeb`, `CountFrame`) with
the code's loop counters, because the list of WebSockets may change between them: `QWebSocket::flush()`
writes to the operating system, a failure aborts the socket, and `disconnected()` is emitted from inside.
`LoseWeb` is that event. If the frame came from a WebSocket, the handler holds `clWebSockMutexP` and stops
(phase `stuck`). Otherwise the list shrinks under the loop, the sockets behind move up, and the one directly
behind takes the place the loop is done with: `skipped` remembers that frame and that socket. It is the only
exception `NobodyLeftOut` makes; a loop that ended there would break the property.
Frames are sent once each, so that order and duplicates can be seen in `outbox`.

### QCanServer

Each process walks through `checkServerSettings()`: `Create`, then `ClearMemory` and `SetupDone`, or `Attach`
and `CheckHeartbeat` if the memory exists. `pc` names the place: `exists` (create failed), `attached`, `setup`
(about to clear the memory), `cleared`, `running`; `active` and `crashed` are the two ways to be refused. A
refused process stays attached until its destructor runs (`Quit`); in the server application that is when the
user closes the message box. The time stamp is kept as its `age`, capped one tick above the limit (`Zero`,
the age of a memory full of zeroes), so that time needs no bound; `elapsed` is the time since the timer of
each server last fired, and `Tick` lets no timer be more than `MaxLag` late.

`Create`, `Attach` and `Detach` are what `QSharedMemory` does: creation succeeds once, the last process that
detaches removes the segment, and on Unix (`SurvivesCrash`) a crash leaves it behind. Its lock is not modelled:
only the clearing and the heartbeat take it explicitly, the age is read without it, and a creating process
resets its semaphore; the model allows what the lock excludes. Clock changes and failures of `create()` other
than `AlreadyExists` are not modelled.

### QCanSocket

`c` holds the members: both pointers, the flag, the kind of connection, the receive queue, and the Qt
sockets that were ever created, with their state (`pending`, `up`, `down`, `gone`) and the frames in them.
`view` is what the application believes from the signals it got. Qt and the server are external: `Answer`
settles an attempt, `Receive` delivers. The error handlers are steps of their own: `abort()` of a socket
in use emits `disconnected()` at once, and in that slot the application may reconnect before the handler
cleans up. `Patient` says that the application waits for the answer before it calls `connectNetwork()` or
`setHostAddress()` again; `Reconnects` is the set of kinds for which it reconnects inside of the slot. With
`Patient = FALSE` a second call leaves the first Qt socket alive behind the pointer (`qcan_socket.cpp:121`)
and the properties fail; with `Reconnects` including `"local"` the flag is wrong (run `socket_reconnect`).

### QCanTools

One run of a tool, chosen by `call` (the tool and its options). `t.timers` are its single shots, `t.settings`
and `t.net` the connections for the settings of server and network, `t.object` and `t.objects` the JSON objects
that have arrived, `t.sock` the CAN socket. `quit()` ends the event loop and with it all events. `Route` is the
routing of a WebSocket by the server, with the cast of the number to eight bits. `ServerChanges`,
`NetworkChanges` and `ConnectionFails` let what a tool depends on come and go at any time; `trouble` remembers
that, so that `AsAsked` may ask for everything from a run that was not disturbed, and for nothing wrong from any
other. `Named` is the network a call means: of can-error over a WebSocket, which does not ask how many networks
there are, the one of the lowest byte of the number, of all others the number itself. What a command of
can-config sets is in `QCanNetworkSettings`; here it only has to reach its network. can-send does not return to
the event loop while it sends (`t.loop`), except that a write may notice the loss of the connection. The socket
is used by what `QCanSocket` shows of it, that flag, signals and connection agree; both modules are checked in
one run. What the tool prints of a frame, and the options' syntax, are left out; a call with a wrong option ends
before it connects.

### QCanNetworkSetup, QCanNetworkSettings

The members of each network and each interface, changed by the dialog (`qcan_server_dialog.cpp`), and the
settings file that a regular end writes and a start loads setting by setting through the same setters. A
crash writes nothing. The interfaces behave as the template plug-in does; it stores no bit rates, so that `taken`
stands for what an interface has that does: the last pair its `setBitrate()` answered `eERROR_NONE` to. Bit rates
are units of 500 kBit/s. `RatesGiven` relates `taken` with what the network shows, for pairs the interface does not
refuse: the network ignores the answer, and after a refusal shows what nobody runs with (`RatesShown`, below).
Which widgets are enabled is left out, so that each operation may be used for each network.
`QCanNetworkSettings` adds a program that reads and changes one network over a WebSocket, messages being in
order and lost with the server.

### CpUsart, QCanInterfaceUsart, QCanInterfacePeak, QCanInterfaceVci4

The vendor libraries and the serial port are external. The USART plug-in uses global lists, one serial port
and one pending flag for all interfaces; `epoch` numbers the connections, so that a frame of an earlier one
can be told. In the PEAK and VCI plug-ins a timer polls, announces a frame, and only `read()` starts that
timer again: every kind of result of the library (frame, status, bus error, failure, information) is in the
queue. `disturbed`, `glitch`, `broken` and `failed` record a use or a failure that the code does not survive,
which the properties exclude and the list of divergences names.

### CpMsg, QCanFrame, QCanFrameArray, QCanTimeStamp, QCanFilterList

One object each, under every sequence of calls. Identifiers keep a bit of the low and one of the high part, data
fields the bytes at `Positions`. `FrameSeen` is what a conversion into the other class has to keep of a frame:
format, identifier, bit-rate switch, DLC and data. The remote bit is lost in one direction
(`QCanValues_remote.cfg`), and the error state bit and the type of a frame are not compared; through the byte
array a frame keeps everything (`WireKeeps`). Time stamps have the units as constants, so that the limits of the
code keep their order in a few bits. `exact` is the time a stamp should show; a count of micro- or milliseconds
stands in it modulo 2^32 seconds (`CounterTime`), as the code cuts the seconds to 32 bits. In `QCanFrameArray`
every member has its position in the array, and a 32-bit field is four bytes of base `Base` (whose fourth power
is `Width`); `LocalTime` is the network that replaces the time stamp on the way. A filter list is compared with
the rules that the program asked for.

## Runs

| Run | Question | Instance | Result |
|---|---|---|---|
| `cpfifo_ring` | Do writer and reader, preempting each other at every access (atomic counter) or sharing an event loop (no atomics, oldest frame dropped), implement the queue? | 3 entries, 2 symmetric frames, counter modulo 8 | holds, 46 185 states |
| `driver_port` | Do filters survive receptions; do nested calls lose or miscount frames; does reception end? | 2 buffers, 2 identifier bits, 3 settings, nesting 2, 2 connections of the slot, a FIFO of 1 | holds, 510 090 states |
| `network_bus` | Is the network a bus, whatever comes and goes? | 1 local socket, 3 WebSockets, an interface, a data and an error frame | holds, 1 573 020 states |
| `server_takeover` | Is there one server, and one again after a crash? | 3 processes, period 2, lag 1, limit 4, 2 crashes | holds, 110 208 states |
| `socket_patient` | Is an application told the truth about its connection? Do the tools do what they were asked for, and end? | 4 Qt sockets, 2 frames; 4 tools, 2 networks, calls for networks 2, 3 and 5, numbers modulo 4, counts 0, 1, 3, 2 changes | holds, 186 111 states |
| `plugins` | Are frames read once, in order, of this connection, and does polling go on? | 3 plug-ins; 2 frames in each direction, 3 restarts, 2 changes of devices | holds, 100 611 states |
| `settings_restart` | Has an interface the rates of its network, unless it refuses them, and do settings survive a restart? | 2 networks, 1 interface, 2 nominal and 2 data rates, 4 changes, 1 command | holds, 2 312 593 states |
| `values` | Are conversions, sums and decisions right? | 5 byte positions, 5 DLCs, 2 identifier bits; time stamps of 4 bits; 3 filters | holds, 363 502 states |
| `server_single` | Can only one server run (`qcan_server.hpp:52`) when two start together? | 2 processes, no crash | violated |
| `network_mutex` | Is the mutex of the WebSockets always unlocked (`qcan_network.cpp:1085`)? | 1 local socket, 2 WebSockets, 1 frame | violated |
| `peak_remote` | Is a remote frame one that was received as such (`qcan_frame.hpp:495`)? | 2 frames, one remote | violated |
| `socket_reconnect` | Does `isConnected()` tell the truth (`qcan_socket.hpp:145`) to a slot that reconnects? | 3 Qt sockets, 2 frames | violated |

What the properties say is in the comment above each. In short: `RingImplements` is the refinement of
`FrameFifo`; `CountMatchesIndices` and `NoSharedEntry` are what it rests on. `NothingLeftBehind`,
`RcvCountExact`, `AcceptanceStable` and `ReceptionEnds` are about the driver. `OrderedOnce`, `NobodyLeftOut`
and `CountsExact` make a network a bus. `AtMostOneServer`, `Visible` and `ServiceReturns` are about the life
of the server. `IsConnected`, `OnlyOnce`, `ReadInOrder` and `Answered` are about the socket, `AsAsked` and
`ToolEnds` about its users. `UsartInOrder`, `UsartNothingOld`, `UsartOneUnderWay`, `UsartNotStuck`,
`ReadExactly`, `VciLineIsUsed`, `InterfacesPolled`, `UsartAnswered`, `PeakEmptied` and `VciNoticed` are about
interfaces; `RatesGiven`, `InService` and `SettingsSurvive` about the setup.

### Bounds

Three entries are the least with an entry that is neither first nor last; the counter modulus only has to exceed
the size, as `ulElements` never passes it. Two identifier bits, one outside of the standard format, distinguish
all cases of mask and format. Nesting of two and two slots give every combination of a stale bound, an inner
call and a repeated call; a third level adds a further copy of the second. `MCBound` of the driver either uses
one buffer with everything nested calls can do, or two without nesting. In the network, three WebSockets are one
that is lost, one directly behind it and one further behind, or a sender and two others of its kind; local
sockets are copied to in the same way by a list that does not shrink meanwhile, so that the run has one (with
two, and two WebSockets, it also holds). In the server, three processes make the one that crashed, the one that
takes over and one that is still attached, and a tick of half a second is the coarsest with a lag between zero
and the limit. Four Qt sockets are two failed attempts, a connection and one made inside of a slot. Of the
networks 2, 3 and 5 of a call, the first is there, the second is not, and the third becomes 1 by the cast
(`NumberWidth` 4 stands for 2^8); counts of 0, 1 and 3 are the default, the last frame at once, and a loop;
`CountWidth` 8 exceeds all counts; identifier and DLC start at their limits, so that they wrap. Three restarts
of an interface allow add, remove and add again; one frame in each list (`ListMax` 1) is the limit at which the
next is refused. Two networks and one interface make an interface that is added twice; four changes are a start,
two changes and an end. The units of time stamps (seconds of 6 nanoseconds, 3 to a millisecond, 4-bit fields)
keep every inequality of the code's limits (`UnitsAssumption`), counts run up to 18 seconds (`MaxSeconds`), two
more than the fields hold, and three filters are one that accepts, one that rejects and one that is off, in any
order.

Deadlock is not checked where the system may really stop: in `network_bus` (that is the finding of
`network_mutex`), when the Qt sockets, restarts or changes of a bound are used up (`socket_patient`, `plugins`,
`settings_restart`), and when a tool has ended.

### Fairness

- `QCanSocketCpFD!FairSpec`: the code of `onSocketReceive()` keeps running and callbacks return, at every
  depth of nesting. Nothing is assumed of the application or of the network.
- `QCanServer!FairSpec`: time goes on, timers fire, and users close a refused process and try again.
- `QCanSocket`: Qt answers an attempt to connect, delivers what has arrived, and a handler that was
  interrupted by a slot goes on. `QCanTools`: Qt delivers events and expired timers (`ToolStep`); server,
  networks and the other programs do what they like.
- `MCQCanInterfaces`: timers expire and the serial line writes what it was given.
- `QCanNetwork!FairSpec` (a handler runs on, sockets with data are read) is stated for the module; its runs
  check safety and need none of it.

## Findings

1. **Two servers at once** (`server_single`). Between `create()` and the first time stamp the memory is zero,
   which a second process takes for a crash; it clears the memory and both serve. The same follows from a
   heartbeat that is late by more than a second (finding 2 stops it for good).
2. **Self-deadlock of the server** (`network_mutex`). A WebSocket lost during the copying of a frame of
   another WebSocket makes the event loop wait for its own mutex. If the frame comes from a local socket or
   the interface, the WebSocket directly behind the lost one misses the frame (`NobodyLeftOut` says that nobody
   else does).
3. **A data frame becomes a remote frame** (`peak_remote`). `readFrame()` of the PEAK plug-in never clears the
   remote bit of the object it is given, and the network reads all frames into one object.
4. **A connected socket that says it is not** (`socket_reconnect`). A slot that reconnects a local socket in
   `disconnected()` runs inside of `abort()`; the error handler then clears the flag of the new connection.

### Further divergences

Each of these configurations makes TLC show a behaviour that a comment or document of the repository excludes;
they are kept beside the runs.

| Configuration | Statement | What the code does |
|---|---|---|
| `QCanSocketCpFD_release.cfg` (`ReleasedIsSilent`) | a released buffer is reset (`canpie-fd/cp_core.h:262`) | direction flag and mask stay, so that it still receives |
| `QCanSocketCpFD_errframe.cfg` (`ErrorFramesAreNoMessages`) | error frames are a type of their own (`qcan/qcan_frame.hpp:141`) | they reach message buffers as frames with identifier 0 |
| `QCanNetwork_disabled.cfg` (`DisabledIsSilent`) | a disabled network stops dispatching (`qcan/qcan_network.hpp:365`) | attached sockets go on |
| `QCanInterfaces_pending.cfg` (`UsartPendingMeansUnderWay`) | the flag says that a transmission is under way (`qcan_interface_usart.hpp:70`) | it survives a new connection, after which nothing is sent |
| `QCanNetworkSettings_current.cfg` (`SettingsAreCurrent`) | the object holds the current settings (`qcan/qcan_network_settings.hpp:111`) | it is sent when a socket attaches, never after a change |
| `QCanNetworkSettings_classic.cfg` (`ClassicHasNoDataRate`) | no data bit rate without CAN FD (`qcan/qcan_network.hpp:174`) | an order of setters leaves one |
| `QCanNetworkSettings_refused.cfg` (`RatesShown`) | the network returns the bit rate of the CAN network (`qcan/qcan_network.hpp:148`) | the answer of the interface is ignored: refused bit rates are shown, and the interface has others or none |
| `QCanValues_stamps.cfg` (`TimeIsExact`, unchecked use) | an invalid result is recognised (`qcan/qcan_timestamp.hpp:152`) | a further sum makes a valid stamp of it |
| `QCanValues_filters.cfg` (`FilterDecides`, unchecked filter) | a rejected range filters (`can-dump/qcan_dump.cpp:577`) | a range that could not be configured is an off filter, which rejects everything |
| `QCanValues_remote.cfg` (`RemoteKept`) | conversions keep the frame (`qcan/qcan_frame.cpp:565`) | the remote bit is lost in one direction |
| `QCanTools_error.cfg` (`ErrorEnds`) | can-error ends after its frames (option `-n`) | over a WebSocket that is refused it waits for ever: the slot is connected to a signal `error()` that `QCanSocket` does not have (`can-error/qcan_error.cpp:145`) |

Met while reading, without a model: `CpCoreBufferSend` on a receive buffer transmits (`cp_core.h:278`);
`CpCoreBufferConfig` keeps the DLC of the previous use (`cp_core.h:205`); mode `eCP_MODE_INIT` neither stops
transmission nor reception (`canpie.h:752`); more sockets than `QCAN_LOCAL_SOCKET_MAX` may connect (it is the
limit of pending ones); option `-i` of can-error is never read, its limit of the passive state is 127 where the
frame class has 128, and with `-H` it does not ask for the number of networks, so that network 257 is network 1;
can-dump prints more than `-n` frames when more arrive at once; can-send with `-n 0` sends one frame, and an
identifier above the limit becomes 0; a time stamp that is invalid becomes the largest valid one in
`fromByteArray()` (`qcan_frame.cpp:519`). `fromMicroSeconds()` and `fromMilliSeconds()` take 64 bits and cut the
seconds to 32 (`qcan_timestamp.cpp:78`, `:101`): a count of 2^32 seconds or more, 136 years, is not recognised
as out of range but gives the time that is left of it. No caller in the repository has such a count. Listen-only
is lost at a restart, because the server sets it before the network has its interface
(`qcan_server_dialog.cpp:212`, `:217`), and without one there is no support for it; `SettingsSurvive` leaves it
out. When the library cannot open the socket of a VCI 4 device, `socketInit()` calls `Release()` through a null
pointer (`qcan_interface_vci4.cpp:782`, `:855`), which ends the server; the module has only the failures after
that.

## Proofs

All theorems hold for every value of the constants that the assumptions of the modules (`...Assumption`)
allow. Each proof has an inductive invariant, one lemma per operator on a record of members that says what
the operator sets and what it leaves alone, one step per action, and a temporal step at the end.

**FIFO.** `CpFifoProofs` proves, for every size, counter width and set of frames and under `Discipline`:
`Invariance` (`FifoInv`), `CountIsExact`, `Separation` and `Refinement` (`ImplementsFrameFifo`). `FifoInv`
says what each side may rely on between its accesses, with the indices as the counter still sees them
(`CountedIn`, `CountedOut`), one step behind the moved ones. It is inductive: `CountMatchesIndices` alone is
not, because the step that counts a frame needs that there was room (`WriterInv`), which needs that the other
side only ever makes more; content needs both. The proof has one lemma per side and one step per action;
arithmetic of the ring is in lemmas about `Wrap`.

**Driver.** `QCanSocketCpFDProofs` proves, for every number of buffers, frames, settings and depth of nesting:
`TypeCorrect`, `NoFrameBehind` (`NothingLeftBehind`), `FiltersStable` (`AcceptanceStable`) and `CountIsExact`
(`RcvCountExact`). `NothingLeftBehind` is inductive together with `LinkInv`: an outer call that is suspended
in a callback has a turn left, so that when the inner one returns with an empty queue the outer bound is still
large enough; that no frame arrives unannounced while a call runs needs that a released driver is not connected
either. `AcceptanceStable` is inductive with the types alone, because an accepted frame agrees with what it
replaces in the format and under the mask. `RcvCountExact` is inductive by `PlusMoves`: it makes no difference
modulo the width of the counter whether a frame is counted before or after those of suspended callbacks.

**Server.** `QCanServerProofs` proves, for every number of processes, period and limit, `TypeCorrect`, and under
`Discipline` (starts do not overlap; period plus lag within the limit) `SingleServer` (`AtMostOneServer`) and
`ServerIsSeen` (`Visible`). `AtMostOneServer` is not inductive: a process that is about to clear the memory must
know that nobody runs. `Visible` says so, and that the age of the stamp is at most the time since the last
timer event of the server, which turns the bound on lateness into one on the age.

**Socket.** `QCanSocketProofs` proves, for every number of Qt sockets and frames and under its `Discipline`
(`Patient`, and only WebSockets reconnected in the slot), `SocketTypeCorrect` (`TypeOK`), `FlagIsRight`
(`IsConnected`), `OneAtATime` (`OnlyOnce`) and `FramesInOrder` (`ReadInOrder`). The inductive invariant
`SocketInv` keeps the shape of the members (`Shape`: each pointer is null or points to a socket of its kind)
and a status that relates flag, pointer, Qt socket and view. The handlers are compositions of operators on the
record `c`; each operator has a lemma, and the point of the argument is what holds in the middle of an error
handler, when the slot of the application runs: no socket is in use any more (`Quiet`), so that a connection
made there is the only one, and the rest of a WebSocket's handler leaves it alone. For the order of the frames
`OrderInv` adds that only the socket in use holds frames, and that these come after everything received before;
all other actions only lose frames (`Falls`).

**Network.** `QCanNetworkProofs` proves, for every number of sockets and frames, `NetworkInvariance`
(`NetworkInv`), `NetworkIsABus` (`OrderedOnce`), `NoneLeftOut` (`NobodyLeftOut`) and `CountersExact`
(`CountsExact`). None of the three is inductive while `handleCanFrame()` runs. `SenderInv`: the loops know the
sender by its position in a list; that position stays right because a list names nobody twice and only the list
of WebSockets changes meanwhile, at a time when no WebSocket is the source. `OrderInv`: a member that is still
to come (`ToCome`) has no frame as late as the one being copied, so that it gets it once, behind all others.
`ReachInv`: every member that is not to come has the frame, or is the WebSocket that a loss moved to the place
the loop was done with, and is in `skipped` with that frame. `CountInv`: the counters are one frame behind while
a frame is copied.

**Setup.** `QCanNetworkSetupProofs` proves, for every number of networks and every set of interfaces and
features, `SetupInvariance` (`SetupInv` and `ClientInv`), `SetupTypes` (`SetupTypeOK`), `RatesReachTheInterface`
(`RatesGiven`, for rates the interface does not refuse), `NoInterfaceLeftRunning` (`InService`) and
`SettingsAreRestored` (`SettingsSurvive`). `Sound` relates networks, widgets and interfaces; it needs the
widgets, since a change of the interface detaches what the widget shows, and it needs that an interface of no
network is down, since the next network that takes it starts it. `Saved` says that the file has what the server
left when it ended. The start loads the networks one after the other (`LoadAll`): a network that was loaded is
not touched again, and one that is not loaded yet has no interface.

**Plug-ins.** `QCanInterfacesProofs` proves, for every set of messages, bit rates and channels and every bound,
`PluginsInvariance` (`PluginsInv`, which has a part for each plug-in), `UsartKeepsOrder` (`UsartInOrder`),
`UsartReadsNothingOld` (`UsartNothingOld`), `UsartSendsOneByOne` (`UsartOneUnderWay`), `UsartGoesOn`
(`UsartNotStuck`), `VciUsesItsLine` (`VciLineIsUsed`) and `ConnectedIsPolled` (`InterfacesPolled`). In `UsartInv`,
what has left, what is under way and what waits `Follow` each other in the order of a history; a frame that is
refused or cleared only shortens one of them. `Fresh` gives each frame that waits to be read the number of its
connection. `OneUnderWay` needs that of all buffers only number 1 transmits (`ReceiveOnly`), and
`UsartNotStuck` that the buffer of channel 1 still answers for the frame written last (`Ready`): that is what
`disturbed` gives up when an interface of another channel is used or a connection is made meanwhile.
`Connections` says that at most one USART interface is connected, has the driver and is polled; the polling of
PEAK and VCI is an invariant by itself.
`PluginsTypes` (`TypesOK`) and `PluginsReadExactly` (`ReadExactly`) follow the frames of PEAK and VCI 4 through
library, stored frame, both loops and readers: `PeakData` says that what was delivered is what was handed out,
`VciData` the same of each reader of VCI 4 together with what still waits in it. A reader of an earlier channel
keeps its frames when another one is in use, so that the invariant speaks of each reader by itself, as the
subsequence (`Only`) of all frames that are its own.
The lemmas about `Only` say what it makes of a sequence with one more or one less element and of two sequences
that are joined; they are proved from its definition as a recursive function.

**Tools.** `QCanSocketProofs` also proves `ToolsDoAsAsked` (`AsAsked`), for all networks, options, counts and
widths that `ToolsAssumption` allows, whatever order the answers come in and whatever becomes of the server.
`AsAsked` compares a run with its options only at its end; the inductive invariant says how far it has come.
`Course` is what the four tools have in common: the settings of the server come before those of the network and
those before the socket, a connection that was lost stays lost, a run that nothing disturbed ends by `quit()`
only, and the network that is reached is the one the call means (`Named`): the three tools that ask for the
number of networks get no further with one that the cast would change. On top of it `Sends` (can-send,
can-error: what is on the bus is the beginning of what was asked for, and counter, identifier and DLC are those
of the next frame, wrapped as often as they were sent), `Dumps` (can-dump: what is printed, followed by what
passes of what waits, is what passes of what came) and `Configures` (can-config: the position in the list of
networks is that of the next to show).

**Values.** `QCanValuesProofs` proves `FiltersDecide` (`FilterDecides`, for every list a program can build that
appends only filters it could configure) and `StampsAreExact` (`TimeIsExact`, for every width, limit, unit and
count and a program that tests its results; of a count of 2^32 seconds or more the stamp shows what is left).
The filters need that each filter in the list is the one rule in force when it was appended (`Matches`). The
time stamps need that seconds and nano-seconds are ordered like their sum (`OrderedByValue`), that sum and
difference fit their 32-bit fields, and, for a count of any size, that what the product loses is a multiple of
2^32 and is cut off again (`CutOff`). `ConversionsAreFaithful` (`ConversionsKeep`) holds for all byte positions
(0 to 3 among them), values of a byte, DLCs asked for and bases; what it compares through the other class is
`FrameSeen` and `MsgSeen`, without remote bit, error state bit and type. It needs that no frame, and no message
but a remote procedure call, ever has a DLC its format does not allow (`Allowed`), which each setter keeps by a
rule of its own, since a conversion leaves out a DLC that is not allowed; then `FromMessage` and `ToMessage` say
what each direction carries. `WireThrough` is the byte array, for every frame and every valid time, not only
those of the run: each member is found at its place whether or not the network has replaced the stamp, and four
bytes make up the 32-bit field they were cut from (`FieldThrough`), as dividing by a product is dividing twice.

Inductions over numbers (the networks that are loaded, the positions of a sequence) are done with the least
member of a set of numbers, as the prover cannot instantiate the induction theorems of the library; the
existence of the recursive function `LoadAll` is proved the same way.

Only model-checked: liveness (`ReceptionEnds`, `ServiceReturns`, `Answered`, `ToolEnds`, `UsartAnswered`,
`PeakEmptied`, `VciNoticed`), which is out of the prover's reach; `RingImplements`, which puts both situations
of the FIFO into one run (`Refinement` proves it for the constants of either); and the divergences above, which
are counterexamples. Every invariant that a run checks is stated by a theorem.

## Not modelled

- *Driver*: payload (`CpCoreBufferGetData`, `SetData`) and queries, which change nothing a property tells
  apart; bit rate, HDI, error counters, the optional network layer. Transmit callbacks come last in the
  functions that call them, so that what they do is a sequence of later API calls.
- *Network*: the statistic timer (bus load and messages per second, display values), the list of settings
  sockets that have gone (they are never taken from it, `qcan_network.cpp:1095`), plain queries.
- *Server*: the host address and the list of its settings sockets.
- *Plug-ins*: `write()` of PEAK and VCI, which hands a frame to the vendor library and keeps nothing; numbers of
  bit rates; icons and loading. The VCI 3 plug-in is written for an earlier plug-in API (frames in a byte
  array) that the repository no longer has. The vendored headers of the libraries (`vcinpl.h`, `vcinpl2.h`,
  `stdtype.h`, `PCANBasic.h`) hold declarations only.
- *Frames*: the text and the stream form, marker and user field.
- *Tools*: parsing of options and printing.
- *User interface and logger* (`qcan_server_dialog.cpp` beyond its operations on networks, `qcan_socket_dialog.cpp`,
  `qcan_server_logger*.cpp`): presentation.
- *Driver template* (`device_canfd.c`): functions without hardware access, to be completed by users.

The modules of the server, of the network and of the sockets are not composed into one specification of a
whole system: what they share is the promise of a connection (ordered, lost as a whole), which each models as
its environment; their product is beyond TLC and adds no shared variable.
