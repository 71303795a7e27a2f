# A verification of pico_rfu

pico_rfu is the firmware of a remote focus unit: a Raspberry Pi Pico W that
drives a DMX512 line (stage lighting) and is operated from a web page with a
keypad. It runs FreeRTOS; DMX is sent by a DMA channel and a PIO state machine;
the unit is a WiFi access point with a DHCP and a DNS server of its own, or a
station in somebody else's network; its configuration is kept in flash.

This directory has TLA+ models of the firmware's own logic, the TLC runs that
check them on small instances, and TLAPS proofs for every value of the
constants. `PROJECT.json` lists the runs, the theorems, for every definition
the lines it models, and for every property a mutant of the code it detects.

    tlc -config LoopOneCore.cfg MCDmxPipeline      model-check one run
    tlapm DmxPipelineProofs.tla                    check one module's proofs

Contents: [1 Inventory](#1-inventory) · [2 Models](#2-models) ·
[3 Runs](#3-runs) · [4 Fairness and deadlock](#4-fairness-and-deadlock) ·
[5 Proofs](#5-proofs) · [6 Findings](#6-findings) ·
[7 Limits](#7-what-the-models-leave-out) · [8 Plan](#8-plan)

## 1 Inventory

Paths are below `src/`. "Main" is `ProjectFiles/main.cpp`.

| Component | State | Operations |
|---|---|---|
| DMX transmitter: `DMX/external/Pico-DMX` `DmxOutput`, a DMA channel, a PIO program | DMA position, TX FIFO, output shift register | `begin`, `write_dmx`, `busy`, `end`; one byte by DMA; pull and shift of a slot |
| DMX buffer: class `DMX`, `DMX/src/piodmx.cpp` | `dmxData[513]`, `data_update` | `busy`, `forceBusy`, `sendDMX`, `unsafeWriteBuffer`, `getshadowbuff`; without callers `setChannel`, `unasfeSetChannel`, `writeBuffer` |
| DMX tasks: `dmx_task` (priority 2), `dmx_loop` (3), `dmxQueue` (Main 90-119) | the queue of frames, the frame in hand, where each task is | receive, wait for an idle line, mark, copy, unmark, send; every 16 ms: ask `busy`, send |
| Key commands: `processKeys` (Main 125-185) | the frame under construction, `channels`, two flags, `captured` | one branch per kind of token, then `xQueueSend` |
| Configuration: `rfu_config_t`, `loadConfig`, `calcCheckSum`, `write_config_task` (Main) | `rfu_config` | load with checksum, spoil, write back |
| EEPROM emulation: `EEPROM/src/EEPROM.cpp` | one flash sector, its copy in RAM, `_dirty` | `begin`, `put`, `get`, `commit` |
| Start-up: `main`, `wifi_init_task` (Main) | polls, link | load, start WiFi, poll the link, give up, create the tasks |
| DHCP server: `ProjectFiles/dhcpserver` | its address, eight leases: MAC and a 16-bit expiry | start, DISCOVER, REQUEST, the walk over a message's options |
| DNS server: `ProjectFiles/dnsserver` | its address | start, the walk over a question, the answer (every name is the unit) |
| Web server: `mongoose_task`, handlers of `ProjectFiles/include/net.h` | `s_settings` | authentication and routing, login, logout, get and set of settings; stateless: debug level, statistics, events, files |
| Dashboard: JavaScript packed into `net.h` | user, page, form of settings, state of the Save button; the browser's cookie | login, logout, edit, save, refresh |
| Keypad page: `fs/keypad.js` | `keyBuffer`, `prevBuffer`, `soloMode`, `channelData` | keys, Enter, Clear, Release, Solo, +, - ; one request per command |

**How they interact.** A key command travels

    web task:  processKeys: dmxData --getshadowbuff--> dmxFrame --> dmxQueue
    dmx_task:  dmxQueue --> data --unsafeWriteBuffer--> dmxData
    hardware:  dmxData --DMA--> TX FIFO --PIO--> line

so `dmxData` is shared by three parties without a lock: `dmx_task` writes it,
the web task reads it to start a new frame, and the DMA reads it *in place*
while a frame is sent, started by `dmx_loop` or by `dmx_task` according to
`rfu_config.dmx_loop`. What stands between them is `busy()`: `data_update`
(a flag around the copy) or a transmitter that is not idle. Start-up, the
configuration and flash interact by calls and restarts; the DHCP and the DNS
server only with clients, through messages that get lost and that come while
`wifi_init_task` is still starting the servers. The dashboard and the web server
share the settings, which every tab copies into a form and sends back as a
whole. The keypad page and `processKeys` share nothing: the page computes what
it shows from the keys alone.

**What is wired at this commit.** `fn`, the request handler of `net.h`, has no route
for `/api/keys`, `/api/auth` or `/api/conf`, and the packed file system has the
dashboard and not the pages of `fs/`. So `processKeys` has no caller and nothing
serves the keypad page; both are modelled as they are written for each other,
with the requests in between. `login.js` and `settings.js` call routes that do
not exist and are left out.

**What is hard.** (The full list, line by line, is "hazards" in `PROJECT.json`.)

* *Check-then-act.* `busy()` and the action it guards are two steps in each of
  the two tasks, and one task preempts the other. Correctness asks that every
  frame on the line is one frame and not a mixture of two.
* *Stale reads.* `processKeys` starts from the transmitted buffer, not from the
  newest frame. Correctness asks that the levels end up as the commands said.
* *Order and loss* between `xQueueSend` and the buffer: whole, once, in order.
* *Starvation.* `dmx_loop` outranks `dmx_task`, and a transmission (26.9 ms)
  outlasts its period (16 ms). Correctness asks that `dmx_task` always gets in
  and that the line is refreshed.
* *A parser with memory*: flags and a vector that outlive a token.
* *Power failures* between and within the erase and the programming of the only
  sector, with an additive checksum; a fall-back that *relies* on the checksum
  being wrong.
* *A 16-bit expiry* of a 32-bit clock compared by signed difference; a server
  that forgets its leases when it restarts; lost acknowledgements.
* *Limits in messages*: a name of 255 bytes, a label that leads beyond the message,
  an answer in the buffer of the question, options within options, a byte that
  wraps around.
* *Whole forms*: `handle_settings_set` zeroes what a request does not name, so a
  save must carry everything and change only what was edited; answers come late,
  out of order or never; a button that is disabled until they do.
* *Two parsers*, the page's and the unit's, for the same strings.

## 2 Models

| Module | Models |
|---|---|
| `DmxOutput` | the transmitter: `write_dmx`, `busy`, one byte by DMA, pull, shift |
| `DmxPipeline` (extends `DmxOutput`) | class `DMX`, `dmx_task`, `dmx_loop`, `dmxQueue`, the reading and queueing of `processKeys`, scheduling |
| `FrameFifo` | abstract: frames are shown whole, once and in order, and finitely many wait. `DmxPipeline` refines it |
| `DmxTiming` | the two DMX tasks in ticks of 1 ms |
| `KeyCommand` | the token loop of `processKeys`, from the buffer it reads to the copy of its frame, and what a key string means |
| `Eeprom` | flash sector, RAM copy, dirty flag |
| `Boot` (extends `Eeprom`) | `main`, `wifi_init_task`, `write_config_task`, power failures |
| `DhcpServer` | the lease table, its clients, time |
| `DnsServer` | `dns_server_init`, `dns_server_process` on one message |
| `ApServers` (extends `DnsServer`) | `wifi_init_task` starting both servers while clients send; `opt_find` and the checks of a REQUEST |
| `WebServer` | `authenticate`, the settings and their handlers |
| `Dashboard` (extends `WebServer`) | tabs of the dashboard, their requests, the cookie, restarts |
| `Keypad` (extends `KeyCommand`) | the keypad page, its requests, `processKeys` behind them |
| `MC*` | the values TLC uses |
| `*Proofs` | theorems |

### DmxOutput, DmxPipeline

The transmitter's state is the channel the DMA reads next (`dma`), the TX FIFO,
the shift register (`osr`) and the slots that are completely on the line since
the last break (`wire`). `write_dmx` restarts the DMA and the state machine and
does *not* drain the FIFO, as `pio_sm_restart` does not; `txBusy` does not ask
for the shift register, as `DmxOutput::busy` does not.

`taskPc` names the points of `dmx_task` between which another task can run:
`wait` (before `busy()` in its loop), `sleep` (`vTaskDelay(1)`), `gap` (out of
the loop, before `forceBusy(true)`), `write` (in `unsafeWriteBuffer`, one channel
per step), `clear`, `send`. `loopPc` splits `dmx_loop` in the same way at
`check` and `send`, `webPc` splits `processKeys` at `read` (`getshadowbuff`,
one channel per step) and `enqueue`. A full `dmxQueue` disables `KeysEnqueue`
(`portMAX_DELAY`), but `TaskSendZero` drops its frame (no delay).

On one core (`SMP` FALSE) a step of priority 2 requires that `dmx_loop` is not
ready, and a step of `wifi_init_task` (`StartWeb`) that nobody else is; a wake-up
(`LoopWake`) can come between any two steps. The project's build defines one
core; `SMP` (`FREE_RTOS_KERNEL_SMP` in `FreeRTOSConfig.h`) is a constant because
the configuration provides for both. No run has it TRUE; the theorem
`TornFromUpdate` covers it.

The frames of `processKeys`, of `dmxQueue` and of `dmx_task` are 512 bytes,
indices 0 to 511, for channels 1 to 512: they have no room for the last channel.
The model keeps this: `Carried` leaves out channel `NumChannels`, whose byte in
`dmxData` is what lies behind the array, an arbitrary value. Slot 0 (the start
code, always 0) is left out here.

History variables: `txStart` and `txStartPc` (the buffer, and where `dmx_task`
was, when the transmission began), `wanted` (the levels the commands asked for),
`stale` (a command since the last "release" started from a buffer that an
earlier frame had not reached yet).

### DmxTiming

The same two tasks with a clock, for what untimed fairness cannot decide. A
transmission lasts 27 ticks (26.9 ms), `dmx_loop` wakes up every 16, `dmx_task`
polls every tick after `dmx_loop`, and an update may stretch over `CopyTicks`
ticks because the web task shares the CPU. In the last tick of a transmission
a poll between two ticks may find the line idle or not.

### KeyCommand

One action per branch of the token loop; any token may come next, so the runs
go through every string up to the bound. A token is a word or a number:
`strncmp` compares with the length of the word, so any token that begins with
it is that word, and `atoi` of the rest is a number. `Truncated` is the
`uint8_t` a level is stored in. `RangeEndEmpty` is the undefined behaviour of
`channels.back()` on an empty vector: either some channel number (the memory a
cleared vector still owns) or a fault. The reference `Meaning` does not follow
the parser: it reads a well-formed string as clauses ("some channels and
ranges, then a level") and says which level each channel is given last. A string is
well formed (`WellFormed`) if every token fits what stands before it (`Fits`): a level
follows channels, AND and THRU stand between two, ranges ascend.

A command begins (`Start`) with what `getshadowbuff` reads from the buffer (`dmxData`),
and ends with a frame in the queue. `queued` has the frames sent and not yet copied:
up to `QueueLength` in `dmxQueue` and the one `dmx_task` holds; `Send` waits when there
is no room, and `unsafeWriteBuffer` copies the first of them at any time. So a command
may start from a buffer that frames of earlier commands have not reached. As
`dmx_task` may copy while the web task reads, each channel is read from the buffer or
from any frame on its way; the web task sends all frames but the first, so none
is added meanwhile. This is more than can happen (two channels may be read in an order no copying
has), and the properties hold of it all the same. That frames are copied whole, once and in
order is what `FrameFifo` promises and `DmxPipeline` is proved to keep. `Init` has
the frame of zeros that `dmx_task` queues before the web task exists, and the buffer as
`DMX::DMX()` leaves it (`PowerOn`). History: `shadow` (the frame the command started
from), `overtaker` (the last command since a "release" that began while the frame of
an earlier one was on its way).

`processKeys`, `captured` and `tcpQueue` have no caller at this commit: `net.h`
routes no request to them although the keypad page sends one. They are modelled
as called by the one web task, which is what they are written for.

### Keypad

A string is typed in one step (`Type`, which stands for `appendKey`), since nothing but
the page sees it grow. A number of a string is a value and whether it is written
with three digits (`Written`), because `parseBuffer` stores its entries under three
digits (`padStart`) and deletes them under the number as typed. `Shown`, `Exact`
and `LevelToken` are its loops: only the first AT and the first THRU count.
`soloChange` sends two requests in one step (JavaScript is not interrupted). Requests
in `flight` arrive in any order (a browser uses several connections) or fail, and one that
arrives is begun (`Arrives`) whether or not the frames of those before it are in the buffer.
Enter with nothing typed sends an empty string, which changes no level on either side (`Alike`).
`Parses` lets `KeyCommand` take the next token of the string it was sent; in the
behaviours with another client the strings are arbitrary (`OtherClient`), which is
`KeyCommand` itself. The path is at rest (`AtRest`) when no request and no frame is on its way.
History: `disordered` (a request failed, overtook another, or began before the frame of
an earlier one was in the buffer), `intricate`
(a string the page reads in another way than the unit), `soloed` (the last solo
step). Strings have an AT: without one `parseBuffer` takes the first token of a
range for its level. What stands beside a THRU may be no number: `parseInt` then gives
NaN and the page shows nothing (`Shown`). Steps of solo mode stay within the channels.

### DnsServer, ApServers

`dns_server_process` is the walk over one question, a label per step; the length
byte of each is drawn when it is read, so a run goes through all names over the
given lengths. `msg` is what the checks read: bytes received (at most 300), query or
not, number of questions. `dnsStart` and `dhcpStart` are the steps of the two
`..._init` functions in the order of `wifi_init_task`; `dns_server_init` binds its socket
before it copies its address, `dhcp_server_init` copies first. Each message is
handled from a clean record (`Over`), as neither handler remembers anything that these
properties are about; the leases are `DhcpServer`'s. Here a REQUEST that passes
the checks may be acknowledged or not.

`opt_find` is a recursive function over the bytes of a list of options, and
`FirstOption` the reference it is compared with. Lists end with `DHCP_OPT_END`
and have no padding: `opt_find` takes the byte after a PAD for a length, and
without an END it reads whatever is in the message buffer. They fit into the 308 bytes
`dhcp_msg` has for them (`Listening`): of a longer message the rest is cut off, and an
option that is cut in two is read to its end in whatever the message buffer is followed
by. An address of fewer than four bytes is read on into the next option; `AckIsAsked`
speaks of addresses in full (`InFull`).

### WebServer, Dashboard

The server's state is `s_settings`; `handle_settings_get` gives numbers modulo 256
(`%hhu`), `handle_settings_set` sets a field that is missing or null to 0. The type
`Int` stands for a field's values. `authenticate` prefers an Authorization header to
the cookie.

A tab has `loading` and `user` (component App), `path` (kept in the address), the form
`settings` and the Save button's `spin`. `net` has its requests, answered or not,
with what they carry. When the Settings page is left, its promise chains have no
effect any more, but a "set" already sent is still carried out ("left"). `Outdated` and
`stale` record, for forms and requests, that somebody else changed the settings since
they were read. `OtherSets` is any other client; `Restart` brings back `web_init`. The
cookie lives for a day (`CookieExpires`): a page that still shows its user then has its
requests refused, and "Not Authorised" is no JSON (`ServeRefused`, `NotJson`).

### Eeprom, Boot

A configuration is `Size` bytes: others, `ap_mode`, checksum. `Boot` has the
start-up as one sequence of steps (`wifi_init_task` hands over to
`write_config_task`, of the highest priority, and deletes itself). `PowerFails`
can come between any two steps and within an erase or a program, of which any
subset of the bytes is then done. The sector may hold any
image at first. `flashed` remembers it, `cut` that a flash operation was cut
short, `forced` that a spoiled configuration was written.

### DhcpServer

Time is counted in units of 2^16 ms, the resolution of `lease[].expiry`. A lease
of 24 h ends 1318 units later, or 1319 from some point of a unit on (`carry`). The server handles a message in one callback, hence in one step
with the client's: `Acked`, `AckLost` (the server keeps the lease, the client
does not know), `Unanswered`. A client asks for what it was offered, or renews its
lease. `Discover` keeps the code's order of search: to
the client's own lease, past the first available one, whose MAC is wiped
on the way if it had ended. `Remember` lets clients ask for an address they had
before (a REQUEST after reboot). A renewal names its address in the option
REQUESTED_IP; one that only has it in `ciaddr`, as RFC 2131 asks of a client that
renews, is ignored by the server ("Should be NACK") and changes nothing. `Restart` is
a restart of the firmware: the table is cleared and the clock starts again, the
clients know nothing of it.

## 3 Runs

All runs take between a second and about two and a half minutes with two workers.

| Run | Shows |
|---|---|
| `loop_one_core` | With `dmx_loop`, one core: a torn frame can only have started in the gap before `forceBusy(true)` (`TornOnlyFromGap`); none starts during a copy; every transmission starts on an empty FIFO; `DmxPipeline` implements `FrameFifo`; levels settle unless a command was stale |
| `on_demand` | Without `dmx_loop`: no torn frame at all (`WholeFrames`); every accepted frame is shown, a full queue does not block the web task for ever, the line carries the buffer again and again. (That frames are shown whole, once and in order, and that levels settle unless a command was stale, is proved for this mode too: `ImplementsFifo`, `LevelsSettleUnlessStale`.) |
| `timing` | `dmx_task` waits for at most one transmission (`BoundedWait`), is never starved (`FrameApplied`), and `dmx_loop` sends at the first wake-up that finds the line idle and no copy going on (`Refreshed`) |
| `keypad` | Two strings of another client, of up to five and two tokens, the second begun before or after the first one's frame is in the buffer: a well-formed one does what it says and leaves the channels it does not name as it found them in the buffer (`ObeysCommand`); "release" clears everything; what is lit is captured, unless a command began while a frame was on its way (`LitIsCaptured`). Three requests of the page, overlapping: at rest it shows the levels in the buffer as long as the strings are plain and no request was lost, overtook another or began before the frame of an earlier one was in the buffer (`ShowsPlainLevels`); of a solo step at least one of the two changes takes effect, in whichever order its requests come, and both if the second did not begin too early (`SoloMoves`; that one is lost otherwise is the finding of `lost_levels`) |
| `boot` | Any first content of the flash, power failures anywhere, within flash operations too: the unit runs on the default configuration or the stored one unless a flash operation was cut short (`KnownConfig`); a spoiled configuration that was written forces the default one; there is no endless sequence of restarts (`ComesUp`) |
| `dhcp` | Two clients, three leases, a wrap of the clock, a restart: no address is in two leases of one run of the server (`UniqueAddress`); nobody is refused while a lease has ended less than half a turn ago (`RefusesWhenFull`); a client that takes what it is offered holds one lease (`OneLeaseEach`); both get an address again and again although messages are lost (`GetsAddress`) |
| `packets` | Names at all limits of RFC 1035: a valid question is answered right behind itself and an invalid one is not (`AnswersValid`), within the buffer (`AnswerFits`); both servers give their own address (`OwnAddress`); an option is found whatever the others contain (`FindsOptions`); an acknowledged address is the one asked for, from the pool (`AckIsAsked`) |
| `web` | A tab and another client: one save at a time (`OneSaveAtATime`); a save of a form that nobody outdated changes edited fields only (`SavesOnlyEdits`); a login that is refused late ends no session (`OnlyLogoutLogsOut`); the Save button always comes back (`NoDeadButton`) |
| `torn_frame`, `lost_levels`, `last_channel`, `keypad_display` | violations, see [6](#6-findings) |

**Bounds, and why they are enough.**

* DMX runs: 3 channels (a first, a middle and the one that is not carried), 2
  levels, a FIFO of 1 (a FIFO of any depth is a delay; depth 1 separates DMA and
  line most), a queue of 2, so that order in the queue matters and it gets full.
  Three commands out of three: set channel 1, set channel 2, release. With the
  frame of zeros and a queue of 2 they give a frame in `dmx_task`, a full queue
  and a blocked web task. The violations need a queue of 1. The proofs lift all
  of these bounds.
* `timing`: the code's 16 and 27; an update of up to 2 ticks; three frames (state
  repeats after one).
* `keypad`: three channels, three levels, the numbers 0 to 3 (3 is no level and the
  channel that is not carried), a queue of 1, so that with the frame `dmx_task` has two
  frames can be on their way and `Send` can be held up. The other client: a string of five
  tokens, so that "1 THRU 3 AT 2" is one clause and "1 AT 1 2 FULL" two, and one of two
  ("1 FULL", "release"), which may meet the frame of the first on its way or in the buffer. The page:
  five strings (`MCStrings`): a 0 with fewer digits than an entry and one with as many, a list, a
  range, two clauses, levels 0, 1 and full and one that is none; three requests, enough for a string and a solo step; channel 1 has fewer
  digits than an entry, 2 and 3 have as many (`Short`). When all requests are used up
  nothing is typed any more. The proofs are for any strings.
* `boot`: three bytes of two bits, so that all 64 first images and all cuts
  are covered; three polls; three failures, so that one can hit each of
  erase, program and the wait for the restart.
* `dhcp`: a clock of 6 units with leases of 1 or 2, so that half a turn is
  longer than a lease as in the code; five units of time, so that ends of leases
  wrap and a lease gets older than half a turn; two clients, of which one asks for
  addresses it had before (`Remember`) and may come to hold several of the three
  leases; a restart.
* `packets`: the code's own sizes. Labels of 1, 20, 61, 62, 63 and 64 bytes, up to five of
  them: names of exactly 255 bytes and of 256, a label that is too long, names that end
  beyond the buffer. Messages of 11 and 12 bytes (the header), of 77 and 272 (cut off
  in a label or whole), of 301. Three options out of nine: both kinds of message,
  addresses just below, in and above the pool and of another net, and two
  options with the bytes of others and of END in them.
* `web`: one tab with two requests under way (a save and what the page does next),
  one number with two values and one other field, one user; what further tabs could do
  to the settings `OtherSets` does, and what their logout would do to the cookie
  `CookieExpires` does. The proofs are for any number of tabs.

**Mutants.** Each property of a passing run is accompanied by a mutant of one
definition, the form a plausible mistake would give it (the FIFO forgotten in
`busy`, the mark not set, an unsigned comparison of clocks, ...), under which the
run's own configuration violates the property.

## 4 Fairness and deadlock

* `DmxPipeline`: weak fairness of the hardware, of `dmx_task`, of the timer that ends
  its sleep, of start-up and of the steps of `processKeys`: tasks of equal
  priority share the CPU tick by tick and `xQueueSend` wakes its waiter when there
  is room. Nothing is assumed about when commands are issued. It is used without
  `dmx_loop` only: there, nobody of higher priority runs. With `dmx_loop` weak
  fairness would have to promise that the poll meets an idle line, which is a
  matter of time; `DmxTiming` decides it and assumes only that ticks go on and
  that a started update goes on.
* `Boot`: weak fairness of the CPU's steps. Nothing is assumed of the network:
  `ComesUp` therefore ends at the wait for an address, which has no limit.
  Power failures are finitely many.
* `DhcpServer`: clients try again (weak fairness), and not every exchange is lost
  (strong fairness of `Acked`).
* `Dashboard`: weak fairness of what ends a request (its handling, its answer, its
  loss): `mongoose_task` polls for ever, and a browser gives up a dead connection.
  Nothing is assumed of the user, of restarts or of which end a request has.
* `ApServers` and `Keypad` have no liveness properties and assume none: a message
  may be ignored and a request may fail.

Deadlock is checked in the runs with `dmx_loop` and in `timing`: these systems
never stop. The other cfgs say `CHECK_DEADLOCK FALSE` because commands, time,
failures, tokens or requests are bounded, or memory for a server was not found, and the rest then has nothing left to do (without
`dmx_loop`, an idle line with an empty queue; start-up that is over).

## 5 Proofs

| Module | Theorems (see "theorems" in `PROJECT.json`) |
|---|---|
| `DmxPipelineProofs` | `TypeCorrect`, `StartsClean`, `NoStartDuringUpdateOneCore`, `TornFromUpdate`, `TornFromGap`, `WholeOnDemand`, `ImplementsFifo`, `LevelsSettleUnlessStale`, `WaitsOnlyForLine`, `WorkGetsDone`, `LineShowsWhatWasAsked` |
| `DmxTimingProofs` | `TimingTypeOK`, `WaitIsBounded`, `LineIsRefreshed` |
| `KeyCommandProofs` | `KeyTypeOK`, `CapturedCoversLit`, `ReleaseClearsAll`, `CommandsAreObeyed` |
| `KeypadProofs` | `PadTypesKept`, `PlainLevelsShown`, `SoloStepMoves` |
| `BootProofs` | `BootTypeOK`, `DefaultIsForced`, `ConfigIsKnown`, `StartUpEnds` |
| `DhcpProofs` | `DhcpTypeOK`, `AddressesAreUnique`, `RefusedOnlyWhenFull`, `OneLeaseForEach`, `EveryoneIsServed` |
| `DashboardProofs` | `WebTypeOK`, `SavesInTurn`, `OnlyEditsAreSaved`, `SessionsEndWithLogout`, `ButtonWaitsForRequest` |
| `ApServersProofs` | `ApTypeOK`, `AnswersFit`, `AnswersWithOwnAddress`, `QuestionsAnswered`, `OptionsFound`, `AcksAreAsked` |

They hold for every value of the constants that the named assumptions allow: any
number of channels (from two), levels, depth and length of the queues, commands,
periods, sizes of a configuration and of a byte, key strings, labels and options of
messages. Every type invariant, safety invariant and action property of the passing runs
is stated by one of them, and so is the refinement of `FrameFifo`.

**The DMX argument.** `TypeOK` is inductive. Around it, three invariants:

1. `HandshakeInv`: `data_update` is set exactly while `dmx_task` copies; when
   `dmx_loop` is about to send, DMA and FIFO are empty, since only `sendDMX`
   starts them and on one core `dmx_task` cannot have entered its update in
   between; without `dmx_loop` the line stays idle from the `busy()` loop to
   `TaskSend`. It gives `CleanStart` and `NoStartDuringUpdate`.
2. `LineInv`: unless a transmission started while `dmx_task` was *exposed* (in the gap;
   on two cores also during the copy), the slots on the line, the shift
   register, the FIFO and what the DMA has yet to read are together the buffer of
   the start (`StreamInv`); and a transmission that runs while `dmx_task` updates
   started exposed. The second conjunct is what makes the first inductive:
   every write to the buffer happens in the update. It gives both `TornOnly...`
   and, with `StartInv`, `WholeFrames` without `dmx_loop`.
3. `CopyInv`: what has been copied is the frame's. It makes each step of
   `DmxPipeline` a step or a stutter of `FrameFifo`, where a frame counts as shown from
   `forceBusy(true)` on.

`SettleInv` follows a command given on a drained path from the buffer it reads to
the frame it queues and the newest frame on the way (`Latest`): it is what
`wanted` asks for as long as no command was stale. `SentInv` adds the way on to the
line: a transmission the DMA is through with has all its slots in the FIFO, the
shift register or on the line, and only `dmx_task` writes the buffer after
`sendDMX`. Together they are `LineShowsWhatWasAsked`, from the key string to the line.

**The timing argument.** `WaitInv`: while a transmission runs, what is left of it,
the phase and the wake-ups since its start add up to its length. As the
length is not a multiple of the period (`TimingAssumption`; 27 and 16), it never
ends on a wake-up, and the poll in its last tick comes before `dmx_loop`'s.

**The key command argument.** `PathInv`: with nothing queued the buffer has the frame last
sent (but for slot 0), otherwise that frame is the last one queued. So a command that begins with
nothing on the way starts from the frame of the one before, whose lit channels are
captured; a level is only written at channels that are captured in the same step, and
"release" clears both and ends the loop. That is `LitIsCaptured`, with the exception it
needs: of what a command finds in a buffer that is behind, nothing is known about
`captured` (a "release" may have emptied it with its frame still queued), and the channel
may stay lit and not captured until the next "release". For what a string *means*,
`MeaningInv` relates the parser to the prefix it has read: `channels` has the channels
of the clause it is in, the flags are those of the last token, and every channel
has the level of the last clause before that names it, or what it had at first.
As `Fits` only looks back, a prefix of a well-formed string is well formed, which is what
makes this inductive. At the end of the string it is `ObeysCommand`.

**The keypad argument.** Every step of the page and its requests is a
stutter of `KeyCommand`, and every step of the unit one of its actions (the lemma
`PadIsKeyCommand`), early starts included, so that the invariants above, `PathInv` among
them, hold behind the page too. `PadInv` says what strings are in
flight and that a parse under way follows the string that was sent (`WalkInv`).

* `ShowsPlainLevels`: until a string is intricate or a request out of order, the levels
  of the unit, changed by what is in flight one string after the other, are what the page
  shows. `ChainInv` has a sequence of levels, one for each string in flight (`ChainFrom`),
  of which each is what the string before it makes of the one before (`Does`), and the last is what
  the page shows. A string leaves the chain at its front when its parse ends
  (`EndsDoes`, from `MeaningInv`; the parse began with the frame before it in the buffer,
  as it would be out of order otherwise, and `StartDrained` says that this is what it
  starts from), and enters at its end with `parseBuffer` (`ParseDoes`,
  where `Plain` and `Removes` are needed).
* `SoloMoves`: `SoloInv` remembers of the last solo step which of its two requests are
  still to come (`Waiting`), and that they name different channels. The first to be parsed
  leaves its effect in its frame; so does the second, and it keeps the first one's effect if
  it started from a buffer that had it. Otherwise `overtaker` is the second, and only
  its own effect is certain.

**The other arguments.** `Boot`: a configuration that
is given up was valid, its spoiled copy differs and is invalid (`SpoiledChecksum`),
so `put` makes the copy dirty, `commit` writes it, and `loadConfig` rejects it;
and neither an erased nor a spoiled sector is valid, so that the only valid image is
the first one as long as no operation was cut short.

**The DHCP argument.** `LeaseInv`: a lease in use has its true end (`granted`) in the
table modulo the clock, less than half a turn ahead, and whoever holds an
address from this run of the server is in the table with an end no earlier than
it believes. Two lemmas about the modulus do the rest: a lease that ends less
than half a turn ahead is not expired, one that ended at most half a turn ago
is (`RunningNotExpired`, `EndedIsExpired`). So `Discover` never wipes a lease that
somebody holds, and `MayUse` never gives it to another client. `DhcpAssumption`
has a lease shorter than half a turn of the clock (1319 of 32768 in the code).
`OneLeaseEach`: `OneInv` has at most one entry of the table for a client that only asks
for what it was offered, and what the client was offered or holds is that entry if there is one;
it is kept because `Discover` finds the client's own lease before any other.

**The dashboard argument.** `LiveInv`: the requests of a Settings page go on only while
the page is there, one at a time, and with the button disabled if there is a form;
it gives `OneSaveAtATime`. `FreshInv`: what a form, a save on its way and an answer
have of fields nobody edited is what the unit has, unless they are marked stale;
it needs that a byte taken modulo its size twice is the same (`Remainder`) and
that a save has a whole form as its body (`HasBody`), which are the two places where a
field could get lost. It gives `SavesOnlyEdits`.

**The argument for the servers' answers.** `ApServersProofs`: an answer ends at most 4
bytes and 16 behind a name of 255 (`AnswerEnds`, from the only check before it), and
`DnsAssumption` says that this is less than the buffer (12 + 255 + 4 + 16 of 300 in the
code). `Started`: a message that is being handled came after `dns_server_init`, or is
marked `early`.

`AnswersValid`: `NameInv` has the walk at the header plus `NameSize`, the sum over the
labels read, none of them too long. `FindsOptions`: the bytes of each option lie in
the message behind those of the options before it (`LaidOut`), the walk of `opt_find`
goes from one option to the next (`Walked`) until it meets the code, and what it
meets first is the first option of that code (`FindsFirst`). `AckIsAsked`: `AckInv` keeps
that the address given is the one read behind the option found; the difference
of bytes is below 8 only for the pool (`LeaseFacts`).

These proofs are about sums, joined sequences and a recursive function over data of any length. The
induction they need is one over numbers: `AllNumbers` derives it from the least
element of a set (`WFMin`), so that no theorem with an operator parameter is used, and
`SumsTotal`, `FlattensIs` and `FindWalks` show of each recursive definition that
a function as it describes exists, before anything is said about its values.

**Assumptions beyond ranges.** `TimingAssumption`: above. `ErasedAssumption`: an erased
sector has no valid checksum; true of the code, whose sum over the configuration's
255s is 58 and whose checksum byte is 255. `KeyAssumption`: channel numbers up to
512. `TornFromGap` and `NoStartDuringUpdateOneCore` assume one core, `WholeOnDemand`,
`WorkGetsDone` and `LineShowsWhatWasAsked` no `dmx_loop`. `EveryoneIsServed` assumes `Enough`: `Remember`
empty and at most `MaxIp` clients; TLC finds a refusal if either is dropped.

**Progress.** The prover has no rules for fairness and ENABLED, so liveness stays with
TLC. What a liveness property needs of the *code* is safety, and is proved: there
is work in hand, a natural number; no step of the system adds to it; and each step
the fair run is promised takes from it. What is left to fairness is that the steps
are taken.

| Liveness, checked by TLC | What is proved of it |
|---|---|
| `FramesGetShown`, `WebReturns` | `WaitsOnlyForLine`: `dmx_task` never waits for its own `forceBusy` or for a transmitter that cannot go on. `WorkGetsDone`: without `dmx_loop`, `Effort` (of the transmitter, `dmx_task`, the queue, `processKeys` and the commands still to come) falls with every step but the polls of `busy()` |
| `LineFollowsBuffer` | `WorkGetsDone`, and `LineShowsWhatWasAsked`: at its end the line has carried the buffer |
| `FrameApplied` | `WaitIsBounded` |
| `ComesUp` | `StartUpEnds`: `StepsLeft` falls with every step of `main`, `wifi_init_task` and `write_config_task`, the way back after a restart or a failure paid for in advance, so there is no restart loop |
| `GetsAddress` | `EveryoneIsServed`: with as many leases as clients, and clients that take what they are offered, `Discover` always finds one (by `OneInv`, if somebody has none the other clients are too few for all leases) |
| `NoDeadButton` | `ButtonWaitsForRequest`: behind a disabled button there is a request under way (`BusyInv`), and every step it is promised brings it further (`Stage`) |

**Only model-checked.** That these steps are taken: the liveness properties of the table
under the fairness of section 4.

## 6 Findings

| Run | What happens |
|---|---|
| `torn_frame` | `dmx_loop` preempts `dmx_task` between the end of its `busy()` loop (Main 109) and `forceBusy(true)` (Main 112) and starts a transmission of the buffer that is then overwritten: one frame on the line is a mixture of two. `TornFromGap` proves that this is the only way on one core |
| `lost_levels` | `processKeys` starts from the transmitted buffer (Main 134). Solo mode turns one channel off and the next on in two commands; the second, started before the first reached the buffer, turns the first channel on again. `LevelsSettleUnlessStale` proves that this is the only way; `SoloMoves`, `ShowsPlainLevels` and `LitIsCaptured` except exactly this |
| `last_channel` | 512-byte frames end at channel 511; channel 512 gets the byte that follows `dmx_task`'s array |
| `keypad_display` | After "1 AT 50" and "1 AT 0" the page goes on showing channel 1 at 50: entries are stored under "001" and deleted under "1" (`keypad.js` 90, 93) |

Smaller observations, which the models have as preconditions or guards and no run
of their own:

* `busy()` is FALSE while the last slot is still being shifted out (`txBusy` does
  not ask for `osr`). Without `dmx_loop`, a frame that is ready in these 44 us
  cuts it off. No property catches the cut: `WholeFrames` takes a frame without its last slot
  for whole. `LineFollowsBuffer` shows that the line catches up.
* An erase or a program that the power cuts short can leave an image whose additive
  checksum is right by chance: `KnownConfig` needs `~cut`.
* "THRU 005" with no channel before it reads `channels.back()` of an empty vector, and the
  string may end without a frame (`RangeEndEmpty`).
* The comment at Main 234 says 10 seconds; the loop waits for 30 (`MaxPolls`). When
  the link comes up during the last poll, the configuration is discarded although
  the unit is connected (`GiveUp` asks for the polls only).
* The lease table is empty after a restart, so an address that a client still
  uses can be given to another one: `UniqueAddress` speaks of the leases of one
  run of the server (`known`) and does not
  catch a second use across a restart.
* About 24.9 days after its end a lease nobody renewed looks valid again, for another
  24.9 days: `RefusesWhenFull` has to except leases that ended more than half
  a turn of the clock ago.

* A DNS question that comes between `udp_bind` and `ip_addr_copy` is answered with
  0.0.0.0 ("use our address"): `OwnAddress` excepts it (`early`), so that no property forbids it.
* The page and the unit also read a range in a list ("2 AND 1 THRU 3": the page shows
  the range only), a range that descends (the page shows nothing, the unit sets the
  channel it begins with), a string with several levels (the page knows the first one) and
  levels above 255 (kept in one byte by the unit) differently; `intricate` marks them. A
  request that is lost or overtaken, or begins before the frame of the one before it, leaves the display wrong until "release" (`disordered`).
* The page's Full key puts no blank before FULL, so that "1" and Full make one token,
  a channel without a level.
* The settings are not saved anywhere ("Save to the device flash", `net.h` 205) and are
  those of `web_init` after a restart (`Restart`); each save leaks the old device name.
* A brightness of 300 is shown as 44, and the next save stores 44, although nobody edited it. `SavesOnlyEdits`
  speaks of what `handle_settings_get` gives and does not catch this.
* The last save wins over changes made by others since the form was read (`stale`), and
  edits made while a save is under way are overwritten by the refresh after it.
* A first login request that is lost leaves the page blank (`loading`) until it is
  opened anew; a login answered after a logout logs in again; the logout cookie
  is `Secure`, which browsers may ignore over HTTP; tabs share the cookie, so
  the user a tab shows need not be the one its requests are made for; and
  `setLoading(false) && setUser(null)` never gets to `setUser`.

## 7 What the models leave out

* Errors of `DmxOutput::begin` and `end`: the firmware ignores the former and calls the
  latter only when the static `DMX` object is destroyed, which never happens.
* The instructions of the PIO program and the bits of a slot: a slot is pulled
  and shifted in two steps.
* In loop mode the last slot is not cut off because `dmx_loop` never asks twice
  within 44 us; this rests on time and is not shown by `DmxPipeline`.
* `DmxTiming` counts wake-ups that a copy held up (`held`) but does not bound them:
  how often commands come is the web client's choice.
* Key strings with channel numbers above 512: `processKeys` then writes past its
  frame on the stack, undefined behaviour without a bounded set of outcomes.
* Of the configuration's fields, all but `ap_mode`, the checksum and (as the constant
  `LoopMode`) `dmx_loop`. `EEPROMClass` beyond the operations used; `commit`
  leaves `_dirty` set, which has no consequence as the unit restarts.
* Of DHCP messages the length check and the constant options of the answer; of DNS
  messages the contents of labels (DEBUG output) and sending.
* `handle_debug`, statistics and events of the web server: their data are constants
  and no page depends on an earlier request. SNTP: `s_boot_timestamp` is never read.
  Serving files from the packed file system: a table look-up.
* `mongoose`, lwIP, the SDK and FreeRTOS are external; what the code uses of them
  (queues, delays, priorities, the DMA's pacing, flash operations, one callback
  at a time) is modelled from its use.
* By lines, most of the repository is not code that runs: `mbedtls_config.h`,
  `FreeRTOSConfig.h` and the `lwipopts` headers are switches, `fsdata_custom.c` is a
  generated file system nothing links to the modelled routes, and of the 7247
  lines of `net.h` some 250 are C; the rest are bytes of packed files, of which the
  dashboard's own components are modelled and fonts, icons, styles and the bundled
  rendering library are not. So the lines that can be mapped to a definition are a small
  share of the lines there are, while `main.cpp`, `piodmx.cpp`, `EEPROM.cpp`,
  `dhcpserver.c`, `dnsserver.c` and `keypad.js` are modelled nearly line by line.
* `DmxInput` (unused), the mock server `server.py`, generated file systems, build
  files and schematics.

## 8 Plan

Done, in this order, because the path from key to line is what the unit is for:
`DmxOutput`, `FrameFifo`, `DmxPipeline` and its proofs; `DmxTiming`; `KeyCommand`;
`Eeprom` and `Boot`; `DhcpServer`; `WebServer`, `Dashboard` and their proofs;
`DnsServer` and `ApServers`; `Keypad`.

Left, models:

1. `DmxDirect`: the class's own interface (`setChannel`, `unasfeSetChannel`, `writeBuffer`)
   as a client would call it. Hazard: `setChannel` returns with `data_update`
   still set for a channel out of range, after which `busy()` is TRUE for ever.
   It has no caller at this commit.
2. `PioTransmit`: the PIO program, instruction by instruction, refining
   `PioPull` and `PioShift` of `DmxOutput`.
3. `DmxTiming` as an abstraction of `DmxPipeline` with a clock: `LoopWake` every 16
   ticks, so that the last slot's 44 us can be shown.

Left, proofs: theorems about the modules above, once they are written. Of the modules
there are, every safety property a run checks is proved, and the safety part of every
liveness property (section 5).
