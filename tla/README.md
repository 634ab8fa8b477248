# serial-tcp in TLA+

A verification project for `serial-tcp`, a program that makes serial ports
reachable over TCP: plainly, as RFC 2217 (Telnet COM-PORT-OPTION), or from a
dashboard that runs many ports, shows their traffic in a browser and remembers
its configuration. The modules here are translated from the Rust code under
`src/src`; TLC checks them on small instances and TLAPS proves every invariant
they promise, and what else it can, for every value of the constants.

## The system

| Part | Source | State | Operations | Hard behaviour |
| --- | --- | --- | --- | --- |
| bridge, endpoints | `bridge.rs`, `endpoint.rs` | two pump threads, a shutdown flag, a channel, the session's counts | start both pumps, first end, grace, detach | who ends first; a pump held in a write; failing writes; a thread that outlives its session |
| server | `server.rs` | listener, one device | `serve_on`, `session`, `rfc2217_session` | one client after the other on one device; errors that end the server |
| client | `client.rs` | one session | `rfc2217_halves`, `run` | the first offers; settings asked for once |
| Telnet codec | `rfc2217/codec.rs`, `rfc2217/mod.rs` | decoder state, subnegotiation buffer, option tables | `feed`, `answer`, `initiate`, escape | commands cut anywhere; negotiation that must end, with both ends agreeing |
| COM-PORT handlers | `rfc2217/comport.rs` | line settings, DTR/RTS/break, modem mask | set and query, purge, notify | refused settings; what is reported against what is |
| port supervisor | `dashboard/supervisor.rs` | stop flag, `active` slot, accept loop, idle reader | `start`, `supervise`, `Control::shutdown` | a stop at any moment; clients queueing; two readers of one device |
| registry | `dashboard/registry.rs`, `dashboard/api.rs` | the entries, each with config, `running`, `control` | add, remove, update, start, stop, send | HTTP workers interleaving; a request that fails halfway |
| config file | `dashboard/config.rs`, `dashboard/mod.rs` | live file, temp file, backup | load, save, quarantine | power cuts; two saves at once |
| tap | `dashboard/tap.rs` | subscribers, their queues and drop counts, an atomic count | publish, subscribe, unsubscribe, receive | slow browsers; a count read without the lock; two writers on one handle |
| HTTP server | `dashboard/http.rs` | four workers, at most 16 streams, failed attempts by address | one request per worker, two kinds of stream | workers blocked in a stop; streams that come and go |
| network rules | `dashboard/net.rs` | - | parse, contains, permits | widths of prefixes |
| serial, command line, list, log, page | `serial.rs`, `cli.rs`, `list.rs`, `logging.rs`, `main.rs`, `assets/app.html` | - | I/O and formatting | - |

How they interact. An HTTP worker calls the registry; the registry starts a
supervisor thread (`supervisor::start`) and stops it (`Control::shutdown`,
through a flag and the `active` socket, then a join). The supervisor hands each
client to `server::session_with`, which runs `bridge` with two pump threads over
wrapped halves: `TapReader` and `TapSink` publish what passes to the browsers'
streams. The idle reader and the send box publish too. With RFC 2217 the TCP
halves are a `TelnetReader`, whose handler sets the line, and an
`EscapingWriter`; both ends of that stream are this program's code when its own
client is at the other end. Registry operations persist the configuration.

What makes each part correct, in a line: the bridge moves both streams intact
and ends as a whole; one client at a time writes to a device; the codec is
lossless and its negotiation ends with one picture at both ends; answers to
settings report the line; stop is prompt and releases the device; supervisors
are neither lost nor confused by concurrent requests; what the page shows is
real; a restart finds one whole configuration; the monitor counts its losses
and never slows the wire.

## The modules

| Module | Models | Abstract specification | Proofs |
| --- | --- | --- | --- |
| `Supervisor` | one running port | `PortService` | `SupervisorProofs` |
| `Registry` | the set of ports under concurrent requests | | `RegistryProofs` |
| `ConfigStore` | the config file and the disk | `AtomicStore` | `ConfigStoreProofs` |
| `Tap` | the monitor of one port | | `TapProofs` |
| `Bridge` | `serve_on` and the bridge, raw clients | | `BridgeProofs` |
| `Rfc2217Session` | the threads of one RFC 2217 session and the socket they share | | `SessionProofs` |
| `Telnet` | both ends of an RFC 2217 stream | | `Rfc2217Proofs` |
| `ComPort` | control lines and modem reports over several sessions | | `Rfc2217Proofs` |
| `Http` | the pool of workers, the gates, the live streams | | `HttpProofs` |
| `Allowlist` | the network rules; `Http` extends it | `Meant`, a reference definition | |

`MC*` modules hold the model values for TLC. Definitions whose comment begins
with "Slip" are what the code would be with a plausible mistake in it; they are
not part of any next-state relation and serve to show that each property can
fail (`PROJECT.json`, `mutants`).

**Supervisor.** `pc` is the thread of `supervise`: `loop` (the test of the
flag), `accept`, `read` (inside `idle_tick`), `accepted` (between accept and the
session), `session`, `unregister`, `done`. `ctl` is the HTTP worker inside
`Control::shutdown`, one value per access to shared state. `conn` is each
connection seen from both ends; `lingering` are the clients whose pump was
detached and still owns clones of socket and device. A session is abstract
here, it delivers device bytes and ends; Bridge and Rfc2217Session have its inside.
It must end when its connection is gone or cut (`EndOnPeer`); with a client that
is only half closed it may (`EndOnHalf`), as an RFC 2217 session can be kept by its
notifier. `line`, `said`,
`got` and `clearedAt` number the device's bytes, so that a byte stolen by
another reader shows as a gap.

**PortService** is what a port promises: one permitted client at a time, each
once, at most one more taken on after the stop was asked for, stopped only with
nobody served. The mapping of `Supervisor!Port` reads the phase off `ctl` and
`stop`, the client served off `cur`.

**Registry.** Each worker has a program counter over the lock-protected steps of
its request (`wk`); `FirstStep` and `AfterStop` say where a request goes. Entry
objects are distinct from devices, because a removed entry can still be in the
hands of a worker while the device is paired again. `raced` records which
entries two requests worked on at once: `ShownIsReal` makes its claim for the
others, `ControlIsLive` and `NoLeak` for all. It starts with any ports a config
file may list, their TCP ports as they come. What is exclusive outside the
program (an open device, a bound port) is `Held` and `Bound`.

**ConfigStore.** A configuration is a number, `data` what reading a file gives
now, `synced` the files whose data is on the disk, `dirs` the directory as it is
on the disk followed by each change since. A power cut picks one of those
directories and tears any file not synced. `safe` is the last version reported
stored at the time the directory last reached the disk. `Empty`, `Torn` and
`Bad` are contents that are no configuration; `Bad` is one this program did not
write. A file that cannot be read for another reason ends the program and leaves
everything as it was, which is no step here. The worker that saves is one in the
passing run and two in the violation.

**AtomicStore** is a register: a save adds a version a restart may find, the
operating system settles on the latest, a power cut leaves one of them.

**Tap.** One publisher per thread that publishes, with the steps of `publish`
as program-counter values; locks are explicit (`holder`, `out`). A frame is its
turn under the lock. `base`, `took`, `at`, `shown` record what a browser
received and the drop count it was sent with it; `owed` who was subscribed
before a publish began and has not been offered its frame.

**Bridge.** Sessions come one after the other; each has the two pumps of
`spawn_pump` (`up` device to client, `down` client to device), its flag and its
channel. Writing goes byte by byte, so that a pump may be held or fail in the
middle of a chunk. Bytes are numbered by stream, `from` is where a client's
stream begins. Time is left out: the reads wake up every 50 ms and the grace is
500 ms, so the grace can end only on a pump held in a write: to a full socket,
or to a device that takes a chunk of 4096 bytes more slowly. The clear before a
session may fail, and the client then gets what was left in the line.

**Rfc2217Session.** `main` is the thread of `rfc2217_session`: the notifier is
spawned, the second clone of the port may fail, `bridge` starts its pumps, waits
for the first report, then for the second or the end of the grace; the notifier
is stopped and joined. `at` is where the three threads are. Each writes to the
client through `write_raw`, with the `SharedWriter` lock (`lock`) over both
halves of a message. What the client sends are numbered items, data or
settings: the decoder (`feed`) sets data aside (`pend`) and applies a setting
at once, which is why a setting may overtake data of its own chunk; after a
chunk of settings alone `TelnetReader::read` reads again (`again`) and does not
look at the flag. `dev` records what the device was given, in order. A client
may close for sending or be gone, and reads when it likes. The bytes of commands
and the option negotiation are in Telnet.

**Telnet.** Each end has a byte channel, a `Decoder` and option tables; `Feed`
takes one byte, which covers every way of cutting the stream into reads.
`write_raw` holds the lock for a whole message, so a message is one append.
The client's settings are a second message, after its answer (`Ask`).
`heard`, `asked`, `told` and `fed`/`out` record what the properties compare. Either
end may be a foreign one, which sends messages of its own and does not answer: a
client, or a server that never agrees to COM-PORT, or agrees, goes back on it and
agrees again. The line is found in any state of `Found`; `record` is what
`ServerHandler` remembers of DTR, RTS and break, which begins as off, and `driven`
are the outputs this session has changed.

**ComPort.** `hw` is what the device's outputs (DTR, RTS, break) are at, `book`
what `ServerHandler` remembers of them, `answered` what the client was last
told; `set` are the outputs this session has changed. A port is found with
its lines in any state. The notifier reads the inputs one by one (`Sample`),
compares them with its last sample and writes a report unless the mask keeps it
back; `kept` and `missed` record, since the last report, which lines stayed in
the mask and which changed behind it. Modem state and line state have one bit
per line; the mask's delta bits are left out. A virtual port
(a pseudo-terminal) has no lines and refuses nothing.

**Http.** A request is made by a browser, waits in `queue`, is taken by a worker
and goes through the gates of `handle` in their order: the allowlist, the
token (a failed one is answered after a delay), the origin of a change, the
route. A change or an answer to read waits (`waiting`) for the body, the client of
a port it stops, the device it sends to or the browser that reads, for as long as
those like. A stream is counted (`Claim`), then refused
and given back, or begun on a thread of its own; the guard gives its slot back
when the thread cannot be started or ends. What a change does is in Registry, what
a stream carries in Tap.

**Allowlist** translates `Cidr`, its masks and `Allowlist::permits` over addresses
of `W4` and `W6` bits, with the arithmetic of the masks in place of bit operations.
`Meant` says bit by bit whom a list of rules lets in; `AsMeant` (in `Http`)
compares the two over every address and every rule.

## The runs

| Run | Instance | Shows |
| --- | --- | --- |
| `MCSupervisor` | 3 clients, one not permitted, 2 device bytes | `Inv`, `NothingStolen`, `ImplementsPort`, `StopPromptIfCuttable`, `StopOnceClientsLeave` |
| `MCRegistry` | 2 workers with 2 requests each, 2 devices, any of them configured, 3 entries, 2 TCP ports, 2 starts; symmetric | `ControlIsLive`, `NoLeak`, `OneEntryPerDevice`, `ShownIsReal` |
| `MCConfigStore` | 1 worker, 3 changes, 2 power cuts, 5 files | `Inv`, `AckedSurvives`, `ImplementsStore` |
| `MCTap` | 2 watchers, a reader, 2 writers, channels of 1, 3 frames | `Inv`, `NoSilentLoss`, `NobodyOverlooked`, `WholeFrames`, `NeverSlowsTheWire` |
| `MCBridge` | 2 sessions, 2 bytes in all, sockets of 1 byte, fair threads | `Inv`, `Intact`, `OneChunkLate`, `EndingEndsSession`, `NoThreadLeft` |
| `MCSession` | a socket of 1 half message, 1 device chunk, 2 items, 1 change of the lines | `Inv`, `InOrder`, `SilentAfterwards`, `EndingEnds`, `NobodyLeft` |
| `MCTelnet` | 1 write per end, 2 odd messages of a foreign end, 2 settings, 5 options, a line found in 2 states | `Inv`, `Lossless`, `Settled`, `SettingsOnce`, `ReportsTheLine`, `QuietsDown` |
| `MCComPort` | 2 inputs (one the ring indicator), 1 output, 2 sessions, 2 changes, 2 requests each | `CPInv`, `FlagsMatchReports`, `Informed` |
| `MCHttp` | 2 workers, 2 streams, 3 requests of 8 kinds, addresses of 3 and 5 bits | `Inv`, `AsMeant`, `SlotsComeBack`, `EveryoneAnswered` |
| `MCStopPrompt`, `MCOrphan`, `MCTornConfig` | smaller | violations, below |

Why the bounds are enough to meet the interesting cases. Two permitted clients
let one wait while the other is served, be taken on late, and be the one a
leftover slot would hit; the third is turned away. Two workers are the least
that interleave, and a third entry object lets a device be removed and paired
again while a worker holds the old one. Two power cuts let a restart save over
what the first left, three changes let an older version be found again. With
channels of one frame the second frame already finds one full, and with two
watchers the lock is held over one while the other comes and goes. A socket of
one byte blocks the pump in the second of two device bytes, two clients that send
one each show a late write, and one of half a
message leaves a thread inside `write_raw`, with the lock, and the two others
behind it. Two items are a setting before data, data before a setting, and two
of a kind, in one chunk or in two. Of the inputs, the ring indicator is the one
whose flag is not symmetric; two changes are there and back, between two samples
or across the mask, and two sessions show what the second inherits. Two streams
and three requests meet the limit with both slots taken and with one just given
back, and two workers are both held by changes. Addresses of 3 bits have every
prefix from none to full; with 5 bits a prefix can be longer than the IPv4
address it is given with, and one tag of two bits maps. The text and the
settings for Telnet hold the bytes that matter (`FF`, `F0`, a payload ending in
`FF`), the odd messages are whole, empty, cut, malformed and of other options; two
of a server are an agreement and a second one with a refusal before it. The two
lines found have their outputs all off and all on.
Symmetry is used in Registry only, whose runs check invariants only. Deadlock is
not checked: every instance ends when its bounds are used up, or, in the
Supervisor, when the port has stopped and the clients are gone.

Fairness, and why the code justifies it. Threads run: the supervisor's loop,
the worker in `shutdown`, a publisher, a pump, the thread in `bridge`, and a
decoder with bytes to read are weakly fair; so are the three threads and the
main one of `Rfc2217Session`, ComPort's notifier, an HTTP worker (apart from its
wait on others) and a stream whose browser has gone, which finds out with its
next ping. A write to a connection that is gone
fails in the end (`PumpFails`). A publisher that waits for the subscribers lock
gets it in the end although others take it again and again (strong fairness of
`Lock`): the holders never block inside. Nothing is asked of clients, half-closed ones included, of browsers or
the device, nor that a thread can be started. In Supervisor, Bridge and
Rfc2217Session the idle device therefore says nothing for ever, and a client may
neither read nor close.
`NeverSlowsTheWire` and `EndingEndsSession` need nothing more. `StopOnceClientsLeave`
has as its hypothesis that the clients are gone or cut in the end, not only closed
for sending (an RFC 2217 session may be kept by one that is, see below); `NoThreadLeft` and `NobodyLeft`
suppose that the client is gone, `SlotsComeBack` that the browsers are, and it and
`EveryoneAnswered` that no worker waits for ever on a body, a stop, a send or a
browser that does not read.

Conditions on what is shown.
- In `Rfc2217Session` write_all and flush to the device are one step on which the
  grace does not run out (a chunk is 4096 bytes and the grace 500 ms: true of fast
  lines and pseudo-terminals, not of 9600 baud). `Bridge` has no such condition: a
  slow device is in it, so that two clients may write at once (a finding), and
  `OneChunkLate` says how much of the earlier one's can be late.
- `ReportsTheLine` and `CPInv` are about line settings and the outputs this session
  has changed: of the others the code does not know (a finding). `Settled` and `ReportsTheLine` are of
  ends of this program, `SettingsOnce` of its client with any server.
- In Registry a config file names a device once, as `add` writes it; a port's id
  is its device.
- `SilentAfterwards` is about a device that does not fail (`~broken`), and
  `EndingEnds` excepts a notifier held behind a client that never reads
  (`NotifierHeld`): both exceptions are findings. `NobodyLeft` is about sessions whose setup succeeds, another.
- `Informed` is of a client the notifier can still write to, and leaves out lines
  that changed while the mask kept them back, another finding.
- `Honest` counts a stream from its claim on: a claim about to be refused is in
  the count, so that a second one may be refused although a slot is free.
- `MCConfigStore` has one request saving at a time; `MCTornConfig` has two.
- `StopPromptIfCuttable` leaves out the states `Uncuttable`; `MCStopPrompt` shows
  why. `ShownIsReal` leaves out entries that two requests changed at once: neither
  the mixture a start may make of an update (`registry.rs:212`) nor what overlapping
  starts and stops show is covered.

## What is proved

The proof modules state their results for all values of the constants, under
the named assumptions of the module they extend, which TLC evaluates.

`SupervisorProofs`. `Inv` splits into what ties the loop to the slot and the
stop (`ThreadInv`) and what ties the backlog to the connections (`QueueInv`);
`StreamInv` adds that what the client got followed by what is in the driver's
buffer is an unbroken run of numbers up to the last one said. The split is needed
because `NothingStolen` alone says nothing of the bytes still in the buffer, and
`Inv` alone nothing of bytes. `SlotIsOurs` (`Inv`), `NothingIsStolen` and
`PortImplemented` (`Spec => Port!Spec`: initial states, and each step is a step
of `PortService` or leaves its variables alone) follow.

`TapProofs`. `IInv` is the conjunction of `TypeOK`, `LockInv`, `OwedInv` (the
atomic count is the number of subscribers in every state, and a
publisher that has not had its turn owes the frame only to watchers that it will
offer it to), `WireInv` (half a frame on the wire means its writer has the write
lock), the accounts of every watcher and `NoSilentLoss`. The accounts are what
makes the loss bound inductive: a frame is shown with a drop count read later
than the frame was queued, so the bound has to hold for the frames that still
wait. `TapInvariant`, `LossIsShown`, `NobodyIsOverlooked` and `FramesAreWhole`
follow; `FramesAreWhole` is an action property of the same invariant.

`SessionProofs`. `WireInv` ties each thread's place to the lock (`LockInv`: who is
in a message has the lock, and the reading pump has a setting to answer while it
answers) and the lock to the wire (`HalfInv`: the last half on the wire is the
first of the message whose writer is in its second). Neither is enough alone:
that the halves alternate does not say whose rest comes next. `MessagesAreWhole`
follows. `PumpInv` follows how pumps end: the flag is up exactly when one has
reported; the pump of the device ends, if the device does not fail, because the
client is gone or the other pump has ended. Hence the pump that outlasts
the grace is the one of the device, it has a chunk to write and stops before it
reads again, and `NothingTouchesAfterwards` follows, an action property.
`ItemsStayInOrder` counts the items the pump has taken (`Taken`). `QueueInv`: what
the client sent and the pump has not taken are the next numbers, and the setting it
is answering is the head of its chunk. `DeviceInv`: what was taken is on the device
or waits as data, and data that waits comes after all data the device has.
`AnswerInv`: a setting is answered before the next item is taken, or never. The
order of the answers needs both: that a setting applied has the number after
`Taken`, and that no earlier one is still unanswered.

`Rfc2217Proofs`, the stream. That a decoder and a table agree with what the other
end did is true only of what has arrived; the invariant has to speak of the bytes
under way. `Eaten(e, s, q)` is the reader that `s`, an end with its histories,
becomes by reading `q`, and `Ahead(e)` what the end will be once it has read its
whole channel. `IInv` says that `Ahead` is where the other end has got to: its
text is all that was fed (`StreamInv`), the last verbs it has heard are the
other's table (`VerbInv`), the settings it has got are none or all (`AskInv`: all
from the step `Ask` on, which an agreement of the server has to come before), the
answers it was told are what the server would answer now (`TellInv`), and that is
the line's own state, of an output once the session has changed it (`LineInv`). A step that reads does not
change `Ahead`, as `Eat` is the action without what it writes; a step that writes
moves the other end's `Ahead` by one message. What a message does to a reader at
a boundary is a lemma each: `TextRead` and `PayloadRead` (escaping, for any
bytes), `VerbRead`, `SubnegotiationRead`, `SettingsRead`, `OffersRead`. `FirmInv`
is about COM-PORT between two ends of this program: neither ever refuses it, so
that the agreement that makes the client ask is under way until it has asked.
`StreamsEndOnABoundary` (`Inv`), `NothingIsLost` (`Lossless`), `PicturesAgree`
(`Settled`), `SettingsArriveOnce` (`SettingsOnce`) and `AnswersMatchTheLine`
(`ReportsTheLine`) follow. Induction over a stream is again well-foundedness
(`SequenceInduction`, for a set of sequences instead of a predicate), and what
`FlattenSeq` and the folds of the decoder compute is shown from their tables
(`TablesExist`, `TablesAgree`). They are proved from `TelnetAssumption`,
`FoundAssumption` (the codes a line can be found with; its outputs may be on or
off) and `ForeignAssumption`: a foreign end's message beside text is whole, has no
data, and leaves a decoder where it was. Without the latter it could end inside
a command, and its text would be read as part of it.

`Rfc2217Proofs`, the control lines. These theorems are about `ComPort`, whose
names the module uses beside those of `Telnet`, and need `ComPortAssumption`
alone. `Books` (the handler's record of an output it has set is the device's)
gives `AnswersAreTheDevices`. `FlagsAreRight` needs `Seen`: a line that stayed in
the mask was last sampled as it was last reported, and a report that is about to
be written is the last sample; the property itself speaks of written reports only.

`HttpProofs`. `HandInv` says that a request is handed out once: jobs and queue
hold each at most once, and neither one whose stream has begun. Without it a
stream begun twice would be counted twice. `OutsidersStayOut` needs besides that
the rules permit no outsider, and that is the second result,
`RulesMeanWhatTheySay`: two numbers of any width have the same quotient by a
power of two exactly if they have the same bits from there on (`HighBitsAgree`,
`HighBitsSuffice`), so a mask compares the bits of its prefix (`MaskComparesPrefix`),
the prefix 0 included; and `to_canonical` finds the host an address belongs to
(`CanonicalIsHost`). The induction over bits is an instance of well-foundedness
(`Induction`: a set of numbers with 0 and the successor of each is all of them).

`RegistryProofs`. `OwnInv` says what a worker has at each step of its request
(`WorkInv`: a Control exactly between taking and joining it, or between spawning
and storing it), that a Control is in one place (`HandInv`) and that a device is
open once, in a supervisor or in a start that has not bound its port yet
(`DeviceInv`). The last is what makes the first three results inductive: a start
stores its Control without looking whether the slot is free, and it is free
because no other supervisor can have the device. `ControlsAreLive`, `NothingLeaks`
and `DevicesAreListedOnce` follow. `PageIsReal` needs `PortInv` as well: where the
one request stands that works on a port not in `raced`, as the flag and the slot
disagree between its steps. Workers, devices and entries are any sets, not
necessarily finite.

`BridgeProofs`. `BridgeInv` follows the reports (`MailInv`: a pump reports once,
when it is done, what it transferred; the counts of a session are those of the
reports taken) and both streams: `UpInv` and `DownInv` say that what the other end
has, what is on its way in a socket, what the pump holds of its chunk and what
waits at the source are consecutive runs of numbers that meet. `Intact` looks at
the ends only, and says nothing of a chunk that is half written when a write
fails, and `LineInv` that what a failed clear leaves in the line is the end of what
the device has said. `Detached` needs the reports as well: which of the two pumps
the grace ran out on is the one whose report has not come. The three results hold
for any device, however slow. `OneChunkIsLate` follows from `WriterInv`, with the
sessions on the wire none after the current one: a pump writes a byte after a later
client's only when its session has returned, and from then on (`LastChunkStep`) it
never reads again, so the byte is of the chunk it held.

`ConfigStoreProofs`. The three results have the hypothesis `OneSaver`, one worker
that saves; `MCTornConfig` shows that two break them. `StoreInv` adds to `Inv` what a thread in
the middle of a save has in its temp file (`SaveInv`: nothing, then the version
it saves, on the disk before the rename), that the three names of a directory
are three files and that the two that are written are never a live file of this or
an earlier directory (`FileInv`), and how the versions compare (`VersionInv`: what
was reported and reached the disk is at most any version a restart may find).
`StoreImplemented` is the refinement: a rename is `Save`, the directory reaching
the disk is `Settle`, a power cut is `PowerCut`, and every other step, a failing
one too, leaves what a restart may find as it is (`QuietSteps`).

Model-checked only: liveness under fairness
(`StopPromptIfCuttable`, `StopOnceClientsLeave`, `NeverSlowsTheWire`,
`EndingEndsSession`, `NoThreadLeft`, `EndingEnds`, `NobodyLeft`, `Informed`,
`SlotsComeBack`, `EveryoneAnswered`, `QuietsDown`), which is out of the prover's
reach.

## What the checks found

Three claims of the code's own comments and tests are violated, each by a run:
- stop waits for the client when it falls between accept and the assignment to
  `active` (`supervisor.rs:222`, `MCStopPrompt`);
- a start that overlaps a remove leaves a supervisor nobody can stop
  (`registry.rs:146`, `MCOrphan`);
- two requests saving at once share a temp file, and the live file may end up
  torn (`config.rs:173`, `MCTornConfig`).

The others are listed in `PROJECT.json` under `findings` without a run; the
properties of the passing runs except exactly these cases:
- stop returns while a detached pump holds the device (`bridge.rs:71`);
- with a slow device two clients write to it (`server.rs:90`);
- an RFC 2217 session does not end while its notifier is held by a client that
  does not read: the join has no grace (`server.rs:182`); a stop of such a port
  waits as well, which `StopOnceClientsLeave` and `EndOnHalf` allow for;
- a failed clone of the port leaves the notifier running with another one
  (`server.rs:166`);
- after a fault on the device's reading side a detached pump goes on with its
  chunk (`codec.rs:302`);
- a change behind the mask is never reported (`comport.rs:346`), and what a new
  session is told of DTR, RTS and break is not what the device has until it
  sets them (`comport.rs:69`);
- an update and a pairing, or two updates, at once give two ports one TCP port
  (`registry.rs:181`);
- smaller disagreements between text and code on the token, settings sent by two
  requests, buffers and counters.

## What is not modelled

Parsing, JSON, HTML, cookies, logging and the opening of devices: formatting and
I/O. `stdio_halves`, whose reader never wakes up. `autostart_all` and
`Registry::shutdown`, which call start and stop for every entry. Byte counters of
the tap and the order in which the monitor shows two writers. The driver's output
buffer, which a purge and the start of a session clear. The table of failed
attempts: it sets how long a refusal takes, at most five seconds. Streams of one
browser that holds its connection open and the page itself. A second dashboard
on the same config file.

## Plan

1. `Bridge` shown to implement the session `Supervisor` assumes, and
   `Rfc2217Session` a bridge whose messages are bytes.
2. A second dashboard on the same config file: it saves before it finds at the
   bind that the first one runs (`dashboard/mod.rs:46`).
3. The driver's output buffer in `Tap` and `Supervisor`: what `clear(All)` takes
   from the send box (`supervisor.rs:218`).
