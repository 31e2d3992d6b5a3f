# Verification of the diyBMS v4 Nano controller

This directory holds TLA+ models of the controller firmware of this repository
(`src/FIRMWARE`), their TLC configurations, and TLAPS proofs about them. Paths
below are relative to `src/FIRMWARE/`.

## 1. The system

An Arduino Nano stands between a Modbus RTU master and a daisy chain of up to 16
cell modules on a serial line. `loop()` (`src/main.cpp`) runs three tasks in turn
and never blocks: it serves the Modbus master (`RTU_TaskRun`), exchanges packets
with the modules (`BMS_TaskRun`) and judges the readings (`RULES_TaskRun`), which
drive four relays. There are no threads and no interrupts of the program's own:
what interleaves is *calls*: Modbus callbacks, replies and the two once-a-second
steps come in any order, each running to its end.

| Component | State it keeps | Operations | Interacts through |
|---|---|---|---|
| Request scheduler, `src/bms/bms.cpp` | `requestQueue` (6 packets), `bmsState`, `_cpt`, `_dummyVar`, `sequence` | one step a second; `BMS_SendIdentify`, `BMS_SendGlobalConfig` | `settings` (number of modules), `cmi[].inBypass`, `sCtrl.isStarted` |
| Packet request generator, `src/bms/PacketRequestGenerator.cpp` | counter `packetsGenerated`; clears `cmi[].settingsCached` | one operation per command, all ending in a push | `requestQueue` |
| Reply processing, `src/bms/PacketReceiveProcessor.cpp`, `onPacketReceived` | `replyQueue` (2 packets), `cmi[]`, error counters, last sequence number, round trip time | `ProcessReply`, one reply a loop | `cmi[]`, read by rules and Modbus |
| Protection rules and relays, `src/rules/rules.cpp` | extremes and bank voltages, `rule_outcome`, `previousRelayState`, pins | one run a second | `cmi[]`, `settings` |
| Settings store, `src/settings/settings.cpp` | `settings` and its EEPROM copy | eight setters, `SETTINGS_Load` | everything reads it |
| Modbus register map, `src/rtu/rtu.cpp` | none | read and write callbacks | settings, scheduler, `cmi[]`, `sCtrl` |
| Modbus slave, `lib/ModbusSlave` | request and response buffers, timestamps | `poll` | callbacks of the register map |
| CRC16, `lib/crc16` | none | `CalculateArray` | packets |
| FIFO, `lib/FIFO` | ring buffer | push, pop | nothing: the firmware does not link it |
| Board, serial line, `src/Low-Level` | pins, UART | initialisation, GPIO, reads and writes | rules, scheduler |
| External: cppQueue, SerialEncoder, EEPROM library, the modules | | | |

Hard behaviour, and where it bites (`PROJECT.json`, "hazards", has all of it with
lines): a queue of 6 filled without a look at the result; a 30 s restart that cuts
into whatever is going on; Modbus calls that empty the queue and change the number
of modules between any two steps; readings that are stale, absent or zero at
start; latching rules of mixed direction that fight for four relays; pins written
on a change only; power loss between any two steps, and between two bytes of a
setting; replies lost or late; Modbus frames told apart by silence alone, on a clock
that wraps.

What makes each component correct:

* scheduler: nothing is dropped; each sweep completes, on time; polls do not pile
  up; requests match the configuration; sweeps and polls both go on for ever;
* rules: whatever exceeds a limit trips its rule; constant readings do not make a
  relay chatter; rules let go when all is well; relays obey the first tripped rule,
  pins show what the controller believes;
* replies: a reading in `cmi[]` was reported by its module; losses are counted;
  cached settings are current;
* settings: what a restart loads is what was last written; a power failure tears at
  most the item being written;
* Modbus: a request is carried out only if all of it arrived, once, in order, and
  before the master goes on to the next;
* together: what the modules measure is what the rules judge, not too late.

## 2. The modules

### BmsTask: the request scheduler

`BmsTask.tla` models `BMS_TaskRun`, `BMS_SendIdentify` and `BMS_SendGlobalConfig`
together with the packet generator.

| Model | Code |
|---|---|
| `requestQueue`, `bmsState`, `dummyVar` | the variables of the same names |
| `cpt` | `_cpt % 30`: the code reads `_cpt` only modulo 30 and modulo 3. `_cpt` wraps at 2^32, which is divisible by neither; the one irregular period in 136 years is left out |
| `numberOfModules` | `totalNumberOfBanks * totalNumberOfSeriesModules` |
| `inBypass` | the modules whose `cmi[].inBypass` is set |
| `sent` | what the last step transmitted |
| `refused`, `swept` | auxiliary: history the properties speak of, read by no action |
| `Tick` | one pass of `BMS_TaskRun` when a second is over: `Wait` (a stage that finds the queue filled), one action per state of the switch, and in each the transmission at the end, `QueueAndTransmit` |
| `SendIdentify`, `SendGlobalConfig` | the two entry points called by `CbWriteRegisters`; the latter with the settings the callback stores first |
| `VoltageReply` | `ProcessReplyVoltage`, as far as it sets bypass flags |

A packet is its command and its two addresses. Not modelled here: sequence number,
timestamps, CRC, the payload of `WriteSettings`. The scan of `cmi[]` in
`READ_VOLTAGE_AND_STATUS` reads past the array when 17 or more modules are
configured: `BypassSeen` then leaves the answer open. `Restart` is a loss of power at
any moment: all of the scheduler's memory is reset, and the number of modules, which
is in the EEPROM, stays.

### RulesTask: the rules and relays

`RulesTask.tla` models `RULES_TaskRun` with the extremes, the eight rules and the
relays, and as `InputChange` everything that alters its inputs between two runs:
voltage and temperature replies, for the modules that were configured when they were
asked (`LastAsked`), the start flag, and the Modbus writes of layout,
rules, relay settings and defaults. `Restart` is a loss of power at any moment:
readings, outcomes and relays are reset; layout and rules come back from EEPROM; the
relay defaults do not, since `SETTINGS_Load` does not read them.

| Model | Code |
|---|---|
| `cell` | `cmi[]`: `valid`, `voltagemV`, `internalTemp`, `externalTemp` |
| `layout` | banks and modules per bank |
| `rules`, `relayDefault` | `rulevalue`, `rulehysteresis`, `rulerelaystate`, `rulerelaydefault` |
| `ruleOutcome`, `previousRelayState`, `isStarted` | `sCtrl` |
| `pin` | levels of the relay outputs |
| `settled` | auxiliary: the last step of note was a run, so outcomes and readings belong together |
| `Measured`, `Trips`, `Resets`, `OutcomeAfter` | `_ClearValues`, `_ProcessCell`, `_ProcessBank`, `_RunRules` |
| `Relays`, `DriveRelays` | the two relay loops of `RULES_TaskRun` |

Temperatures are cast to `uint8_t` as in the code, so -1 is 255. The extremes are
sets' maxima and minima; the lowest internal temperature, whose value depends on
the order of the cells, is a recursive function over them. The addresses of the
extreme cells and the number of balancing modules, which nothing reads, are left
out.

Operators whose name ends in a fault (`RestartKeepsRelays`) are not part of the
model: each is a plausible mistake, used to show that a property would notice it.

### ReplyPath: requests and replies on the wire

`ReplyPath.tla` models what happens to a request after it has left the scheduler:
the end of `BMS_TaskRun`, the chain of modules, `onPacketReceived` and
`PacketReceiveProcessor::ProcessReply`. The scheduler itself is abstract here: any
request of `Requests` at any time. `SendIdentify` and `SendGlobalConfig` are the two
Modbus requests, with what they leave in the queue.

| Model | Code |
|---|---|
| `requestQueue` | what a Modbus request has left to transmit |
| `transmitted` | requests sent so far; `sequence`, a 16-bit number on this board, is its residue |
| `chain`, `line` | external: packets on their way out and back, first in, first out |
| `moduleLimit` | external: each module's own bypass threshold, which stands for all its settings |
| `replyQueue` | the queue of two packets that `onPacketReceived` fills |
| `packetLastReceivedSequence`, `total...Errors` | members of `PacketReceiveProcessor` |
| `settingsCached`, `cachedLimit`, `valid` | `cmi[]` |
| `lost`, `damaged`, `lastNumber`, `written`, `cachedFrom` | auxiliary |
| `Answer`, `LoseRequest`, `LoseReply`, `DamageReply` | external: the modules and the line |
| `OnPacketReceived`, `ProcessReply` | the functions of the same names |

A packet that reads as Timing is the only one whose damage can pass the CRC, since
`onPacketReceived` computes that packet's CRC anew; a damaged packet of any other
kind is rejected. CRC collisions are left out. A module executes every
`WriteSettings` that reaches it. There is no restart here: what the error counters say
holds from one start of the controller to the next. A reply to a request sent before
a loss of power may arrive after it, and is then counted as out of sequence although
nothing was lost or damaged.

### ModbusSlave: frames, requests and answers

`ModbusSlave.tla` models `Modbus::poll` of `lib/ModbusSlave` and the register map of
`src/rtu/rtu.cpp` behind it, byte by byte and with time.

| Model | Code |
|---|---|
| `script`, `frame`, `position`, `countdown` | external: the master, its requests and the byte it is sending |
| `rx` | what waits in the receive buffer of the serial line, `MaxRx` bytes at most |
| `clock` | `micros()`, which wraps at `Wrap` |
| `lastReceiveLen`, `lastReceiveTime` | `last_receive_len`, `last_receive_time` |
| `answer` | what the last poll sent back |
| `sincePoll` | time since the last pass of `loop()`, at most `MaxLag` |
| `served`, `delivered`, `spoiled`, `silence`, `nearWrap` | auxiliary |
| `faults`, `missing` | auxiliary: bytes lost or damaged so far, and how many were lost in a row just now |
| `leftovers` | auxiliary: a request longer than `bufIn` was sent, and since then no request has begun on an empty buffer |
| `PollEmpty`, `PollNewBytes`, `PollWait`, `PollFrame` | the four ways through `poll`, by its early returns |
| `LengthIn` | what `readBytes(bufIn, MAX_BUFFER_IN)` takes; the rest stays in `rx` |
| `Outcome`, `CrcRightFor` | the checks of a frame in the code's order |
| `Callback`, `CbReadRegisters`, `CbWriteRegisters` | dispatch, and which registers there are |
| `Byte`, `ByteArrives`, `ByteLost` | external: the line, which may lose or damage any bytes of a frame; a byte is lost also when the receive buffer is full |
| `NoByte`, `StartFrame` | external: time without a byte, and the master |

A byte is its frame, its position there and whether it is intact. The first six bytes
of a buffer read as the header of their frame if they are those of one intact frame,
and as any of `Garbled` otherwise; the CRC is right exactly for the bytes of one whole
frame. What a write does to the controller is an action of the other modules; the
values a read returns are left out, since reads change nothing.

`RequestService.tla` is what a slave promises: requests are carried out only when they
have arrived whole, each at most once, never after a later one. `RequestsInOrderOnce`
says that ModbusSlave implements it, with `delivered` and `served` as they stand.

### SettingsStore: memory, EEPROM and power failures

`SettingsStore.tla` models the setters and `SETTINGS_Load` of
`src/settings/settings.cpp`, and the Modbus callbacks that call several setters in a
row.

| Model | Code |
|---|---|
| `settings` | `settings`, each item as its bytes, lowest first |
| `eeprom` | the 128 bytes the code uses |
| `changes`, `written` | where the running callback is: the items still to be written, and the bytes of the first that are |
| `before`, `torn` | auxiliary |
| `Configure`, `SetLimits`, `SetRelayState`, `SetRelayDefaultState` | the four branches of `CbWriteRegisters` that write settings, with the cut of a register to a `uint8_t` |
| `WriteByte` | one `EEPROM.write` of a setter, and with an item's first byte its value in memory |
| `PowerFails` | power lost anywhere, in the middle of a byte too, and `setup()` after it |
| `Base`, `Width` | the addresses in the setters and in `SETTINGS_Load`; the types in `typedefs.h` |
| `Loaded` | what `SETTINGS_Load` makes of an item's bytes |

`DurableStore.tla` is the abstract store: items change as a whole, one after the other,
and a failure drops the changes to come and leaves at most the item being changed
undefined. `StoreIsDurable` maps the EEPROM to it: an item stored is its bytes, except
that the item being written still counts as what it was.

### Controller: the parts together

`Controller.tla` composes BmsTask and RulesTask over the variables they share in the
code (`layout`, `isStarted`, the bypass flags, which follow from the voltages), adds
the Modbus writes that act on both, and the modules with their actual voltages.
`setup()` and `loop()` of `src/main.cpp` are its `Restart` and `Next`.

| Model | Code |
|---|---|
| `B!Tick`, `R!RulesRun`, ... | the actions of the two modules, on the shared variables |
| `polled` | the poll of voltages on its way, its answer and its age |
| `actual` | external: what the modules measure |
| `Reply` | `ProcessReply` for voltages: readings for the rules, bypass flags for the scheduler |
| `Configure`, `Identify`, `ConfigureRules` | the branches of `CbWriteRegisters` |
| `Answer`, `Lose`, `Measure` | external: modules and line |
| `quiet` | auxiliary: seconds since a measurement, a loss, a restart or a Modbus request for the modules |

The other requests and their replies, and so the temperatures, are left out here:
ReplyPath and RulesTask have them.

## 3. The runs

| Run | Question | Result |
|---|---|---|
| `schedule` | is the scheduler safe, and does it go on: `TypeOK`, `NoRequestRefused`, `SweepUninterrupted`, `PollsDoNotOverlap`, `QueueMatchesConfig`, `ScheduleInv`, `TimingOnTime`, `SweepComplete`, `StartsWhenQuiet`, `SweepsAndPollsWhenQuiet` | holds, 565 251 states |
| `last_module_settings` | does a sweep ask every module for its settings | no: never the last one |
| `lost_global_config` | does a configuration reach the modules | no: an Identify in the same second discards it |
| `rules` | are the rules safe, and do they let go: `TypeOK`, `PinsFollowRelays`, `FirstRuleDecides`, `EveryExcessTrips`, `NoChatter`, `CalmReleases` | holds, 22 232 states |
| `trips_at_power_up` | is nothing tripped before the first reply | no: rules 2, 7 and others trip on initial values |
| `cold_cell` | does a cold cell trip rule 3 | no: the external probe is compared |
| `replies` | do the counters tell the truth and is what is stored right: `TypeOK`, `ErrorsHaveCauses`, `GapsAreCounted`, `OnlyPresentModulesKnown`, `RereadSettingsAreCurrent` | holds, 3 887 278 states |
| `damaged_timing` | does a right CRC tell an undamaged packet | no: reception renews the CRC of a Timing packet before it is checked |
| `modbus` | what becomes of requests on a bad line: `TypeOK`, `RequestsInOrderOnce`, `AnswersTheLastRequest`, `FramesEndInSilence`, `RequestsServedInTime`, `FramesKeptApart`, `BytesAreRead` | holds, 2 181 462 states |
| `settings` | what do power failures do to the settings: `TypeOK`, `MemoryAgrees`, `StoreIsDurable`, `RestartKeepsSettings` | holds, 91 584 states |
| `defaults_lost` | do the relay defaults survive a restart | no: they are written and never read |
| `controller` | how old may readings be, and how late protection: `TypeOK`, `ReadingsCatchUp`, `ProtectsInTime`, `SchedulerAsSpecified` | holds, 1 922 375 states |

The properties that fail, two of the scheduler, two of the rules, one of the reply
path and one of the settings, state what comments of the code say; `PROJECT.json`,
"findings", quotes them.

Bounds. The scheduler is checked at its real sizes: 16 modules, a queue of 6, a
period of 30. Configurations of 1, 6, 16, 17 and 18 modules (`MCSizes`) are the
corner cases of the settings stage: none to ask but one, one burst, several bursts,
all of `cmi[]`, the last that ends, the first that does not. Two modules may be in
bypass, near and far in the scan.
The rules are checked for two modules, in one bank or two, so that
an extreme may come from either module or either bank; readings lie beyond each
limit, between limit and reset value, and on the safe side; two relays suffice for
every pair of opinions. Both layouts have two modules, so every reply
covers what is configured; replies that cover more or less are left to the `controller`
run and to the theorems. The rules' constants are of the firmware's own kind: limits
in mV and degrees. Every bound is a constant with a named assumption:
`SizesAssumption` (1 to 255 modules: 0 makes the scan endless, more wraps
addresses), `LayoutsAssumption` (at most 4 banks and 16 modules, what the arrays
hold), `RepliesAssumption` (13-bit voltages, `int8_t` temperatures),
`SettingsAssumption`.

The reply path is checked with two modules configured and one on the chain, so that
requests reach a module that is not there; four requests with a sequence number
that wraps at 3 (`Modulus`), so that it passes 0 and a gap spans the wrap; two
packets under way at once (`MaxInFlight`) and a reply queue of its real length 2,
which two unprocessed replies fill, so that a third is refused; one packet lost or damaged
(`MaxFaults`), at any place. Replies lost to a full queue are not bounded.

The Modbus slave is checked with buffers scaled down, `MaxIn` to 9 and `MaxRx` to 20, a
byte as the unit of time and `T35` of three (a gap in a request counts as silence when
three bytes in a row are missing, as with the 3.5 bytes of the code), and a poll at the
latest after one byte (`MaxLag`). So a configuration, 17 bytes, is longer than `bufIn`, an Identify
request just fits, and what a long request leaves behind fills the serial buffer together
with the next. Six scripts send long requests to this slave and to another before short
and long ones, two Identify requests that look alike, one to another slave before one
refused for its length, a coil and a read. Up to four bytes (`MaxFaults`) of one frame or
of several are lost or damaged (`Faulty`): in the header (position 2; all six positions
there are read alike), at the end of Identify (9) and in a row in the middle (9 to 11).
With the second byte damaged and three lost behind it the slave answers
`ILLEGAL_FUNCTION` while the master is still sending, and that state is reached, as are
answers given to leftovers, a full serial buffer, and accepted requests that leftovers
keep from being served in time. `RequestsInOrderOnce` holds through all of it.

`Wrap` is 40, so that `micros()` passes its end at any point of an exchange. The
conditions of the properties are named. The master pauses long enough for the slave to
notice the end of its request (`Pause`, `PauseAssumption`). `nearWrap` exempts what
happens while the clock is within T35 of its end with bytes waiting, which the code's
comparison gets wrong for one exchange in 71 minutes: a wait may end at once, or be
missed until the clock comes round (`AtTheWrap`). `leftovers` exempts what follows a
request longer than `bufIn`, until a request begins on an empty buffer: `poll` reads 32
bytes of it and takes the rest for a frame of its own one wait later, when the master
may be sending again. This slave's own registers are written four at a time, with 17
bytes; longer requests are those to other slaves, or mistaken. And
`AnswersTheLastRequest` allows an answer into a request of which three bytes were lost in
a row, since that is silence like the one at the end. `RequestsInOrderOnce` has no
exemption.

The settings are checked with two rules, values that differ in every byte from the
erased ones, a setting of 0, one of more than a byte, and one torn write (`MaxTorn`);
power failures between callbacks are not bounded. The master writes a few values
only; the theorems cover all.

The controller is checked with two modules in two banks, or one module, a reply that
takes up to a second, one Identify address and an over voltage limit between the
voltages; the other rules cannot trip, and the rule writes repeat what is there.
`Latency` is stated for any number of modules: a poll may be swallowed by a Modbus
request, then a sweep of `SweepSeconds` follows, then the next multiple of three, then
the reply. It is tight: TLC refutes both properties for a `Latency` of a second less.

Simplifications to know about: an EEPROM write is whole in RulesTask and Controller,
and torn only in SettingsStore; replies in Controller are those to voltage polls.

Fairness. `FairSpec` of the scheduler has weak fairness of `Tick` only, and
`FairSpec` of the rules of `RulesRun` only: `loop()` never blocks and `millis()`
advances, so the next second always comes. Nothing is assumed of the Modbus master
or the modules; liveness of the scheduler is conditional on the master falling
quiet (`Quiet`), since a master that sends Identify every second does starve it.
`FairSpec` of the Modbus slave has weak fairness of `Tick` and `Poll`, time and
`loop()`, and none of the master. Controller states its promptness as safety, by
counting seconds, and needs no fairness.

Deadlock is checked in every run.

## 4. The proofs

| Module | Theorems |
|---|---|
| `BmsTaskProofs` | `TypeCorrect`, `ScheduleKept`, `NothingRefused`, `SweepsFinish`, `PollsApart`, `QueueFollowsConfig`, `TimingNotDelayed`, `SweepsAreComplete` |
| `RulesTaskProofs` | `TypeCorrect`, `PinsRight`, `PriorityKept` |
| `RulesMeasuresProofs` | `NoExcessUnnoticed`, `Steady` |
| `ReplyPathProofs` | `TypeCorrect`, `OnlyPresent`, `RereadCurrent` |
| `ReplyCountersProofs` | `CountsEveryGap`, `ErrorsExplained` |
| `ModbusSlaveProofs` | `TypeCorrect`, `ServesInOrderOnce`, `EndsInSilence`, `AnswersTheMaster`, `ServedBeforeTheNext`, `KeptApart` |
| `SettingsStoreProofs` | `TypeCorrect`, `MemoryAgreesWithStore`, `RestartKeepsWhatItLoads`, `SettingsAreDurable` |
| `ControllerProofs` | `SchedulerIsAsSpecified`, `RulesAreAsSpecified`, `TypeCorrect`, `CatchUpInTime`, `ProtectInTime` |

With them every invariant, every action property and every refinement that a passing
run checks is proved. All theorems hold for every value of the constants that meets the
assumptions: any number of modules up to 25 (the settings of 25 modules still fit in
30 s), any queue of 4 or more, any rules, readings, relays and writes; any chain, any
source of requests, any number of packets in flight, lost and damaged, any wrap of the
sequence number; any requests of the master, whatever their length, any number of bytes
lost or damaged in each, any serial buffer, any wrap of `micros()`.

Scheduler. That no request is refused is not inductive: one must know how much each
state leaves in the queue (`QueueShape`), which depends on how much time each stage
has had to drain it (`SweepClock`): one packet leaves each second, a burst has at
most four packets, a stage starts on an empty queue only, and so the whole sweep
keeps to `cpt + Len(requestQueue) <= dummyVar + 1`. `ScheduleInv`, the conjunction,
is inductive with `TypeOK` and `QueueMatchesConfig`; TLC checks it, `ScheduleKept`
proves it, and `NothingRefused`, `SweepsFinish`, `PollsApart` and
`TimingNotDelayed` follow from it. `SweepsAreComplete` adds `SweepProgress`: at each
stage, what the earlier ones asked for was transmitted or is still queued. No Timing
packet, which would begin the record anew, is ever queued behind it.

Rules. `PinsRight` needs only `DriveKeepsPins`: a pin written on change only stays
right. `PriorityKept` unrolls the reverse loop over the eight rules (`FirstOverwrites`,
`DefaultRemains`). `TypeCorrect` shows that a relay is always on or off, never the
third value.

What the rules measure. `NoExcessUnnoticed` says of the loops over the cells that they
find what they look for: that an extreme is in the set it is chosen from and no value
lies beyond it (`HighestIs`, `LowestIs`), that the banks' voltages are finitely many
sums, and that the recursive search for the lowest temperature ends in a number. The
library's induction theorems take an operator as parameter, which the provers cannot
instantiate. Their place is taken by induction over a *set* of numbers (`Induction`),
which follows from the least element of its complement (`Least`) and so from the
library's `WFMin`. That reaches what this function is (an integer, for every number of
modules), and no more is needed of it. `Steady` rests on `Rested`: after a run the
relays follow the rules, and a rule with a sane reset value would not change if tested
again.

Reply path. `RereadSettingsAreCurrent` speaks of `cmi[]` only and is not inductive: a
reply in flight might bring old settings. `FreshInv` adds that a reply with settings
is right unless a later `WriteSettings` was executed (`RepliesRight`), and that
whatever has left the chain is older than whatever is still on it (`InOrder`). So
when a module executes a `WriteSettings`, all replies under way and all cached
settings are older than it, and younger ones were read after it (`AnswerFresh`).
`TransmitInOrder` and `LeaveInOrder` show that the chain stays ordered;
`OnlyPresent` and `RereadCurrent` follow from `FreshInv`, which rests on the chain
being first in, first out and on the modules answering only what is addressed to
them, but on no bound.

Error counters. `CountsEveryGap` is arithmetic on residues: the sequence number a reply
carries is the residue of its request's (`RepliesSound`), as is the one the processor
remembers (`LastRight`), and the code's comparison of the two tells whether the numbers
in between are a multiple of `Modulus` (`GapShows`). `ErrorsExplained` is a bound on a
total, and nothing ties an error to its cause one by one, since a lost reply shows only
in the number of a later one. The invariant is an account (`Account`): errors counted,
plus one for each number that is missing after the reply processed last, plus two for
each damaged reply under way, plus one that is owed if the last was damaged, never
exceed what was lost and twice what was damaged. Every action moves a number from one
entry to another (`LoseRequestBalanced`, `DamageBalanced`, ...); a reply processed pays
its error out of the numbers that it shows to be missing.

Modbus. `ServesInOrderOnce` is a refinement: a poll that carries out a request maps to
the abstract step that serves it. What is carried out is judged from the buffer alone,
so the invariant, `BytesInv`, says what may be in there: bytes in the order they were
sent (`Ordered`), of frames after the one carried out last (`Recent`), and of every
frame that has not arrived whole a byte that is not there and will not come (`Torn`).
Whatever a late poll, a fault or the wrap makes of the buffer, a right CRC then means
one whole frame that arrived and was not carried out before. `EndsInSilence` adds
`SilenceInv`: as long as the clock is not near its wrap, the line has been silent for
as long as the slave believes.

`AnswersTheMaster`, `ServedBeforeTheNext` and `KeptApart` need the clocks of master and
slave together (`Exchange`). As long as neither the wrap nor leftovers disturb (`OnTime`),
the buffer holds bytes of the last frame only (`OneFrame`), all of them if none was lost
or damaged (`Complete`). While a frame is sent the line has been idle for no longer than
the bytes lost in a row account for (`ShortGaps`), so T35 without a byte means that three
of them are missing: that is where the property has its exception, and no bound on
faults is needed. After its end the slave, who looks at least every `MaxLag`, has noticed
and waited before the pause is over (`ReadSoon`); if the request fits in `bufIn`, that
reads all of it (`BeginsOnEmpty`), and so the next begins on an empty buffer, which is
`KeptApart`. A request that arrived intact and fits is read in one piece
(`FrameReadOnTime`), with a right CRC (`CrcOfFirst`), and so served. A longer one sets
`leftovers` when the next begins, if anything of it is left by then, and the first request
that begins on an empty buffer clears it.

Settings. `SettingsAreDurable` is a refinement: every step maps to a step of
DurableStore or to a stutter, all bytes of an item but the last being stutters. It rests
on three facts that are inductive together with the types: no two items share an
address (`PlacesApart`), the bytes of the item being written are new up to `written`
and as they were beyond (`Progress`), and no item is written twice by one callback
(`Distinct`). `MemoryAgreesWithStore` joins them, and `RestartKeepsWhatItLoads` follows
from it, as loading what was loaded changes nothing. They hold for any number of rules
up to 8, any words written, and any number of failures.

Controller. `SchedulerIsAsSpecified` and `RulesAreAsSpecified` show that the
composition implements each part's own specification, for every layout, voltage and
write. The argument needs one invariant, `AskedOfLayouts`: whatever is queued, sent or
polled was asked for a number of modules that some layout has, so that replies are
those `RulesTask` allows. TLC checks the first of the two (`SchedulerAsSpecified`); the
second multiplies the time of the run and is left to the proof.

So the parts' theorems hold of the controller, and are used there: `ControllerProofs`
instantiates `BmsTaskProofs` and `RulesMeasuresProofs` and shows that the board meets
their assumptions (`SchedulerFits`, `RulesFit`; Controller's `SettingsAssumption`,
that settings and their writes are of the rules there are, is what the second needs).
`CatchUpInTime` counts down. Left alone, the scheduler sends its next poll after
`UntilPoll` seconds, which a tick makes one less, or the poll has just left
(`TickCountsDown`, in `BmsTaskProofs`, with `SweepPace` for how far a sweep may be at
which second); a poll is answered before the next is asked (`PollTyped`). The
invariant `CatchingUp` has three cases: the readings agree with the modules and a poll
under way will not change that; a poll of the present state is under way and was asked
in time; or `quiet + UntilPoll` is within the latency. A disturbance sets `quiet` to 0
and so leads to the third, from where the countdown leads through the second to the
first. `ProtectInTime` then follows from the rules' own theorems: readings that agree
with the modules are valid (`ReadIsValid`) and trip the rule (`EveryExcessTrips`), and
if all are below the reset value the rule resets and, once run, is released
(`BelowResets`, `ResetReleases`, `Rested`). The run checks this for two modules, the
theorem for up to 16, for which a sweep, and with it `Latency`, grows.

Only model-checked: liveness, since fairness and ENABLED are out of the prover's reach
(`StartsWhenQuiet`, `SweepsAndPollsWhenQuiet`, `CalmReleases`, `BytesAreRead`); and what
the code computes as the lowest internal temperature, beyond its being a number: the
rule tested on it is the one that `EveryExcessTrips` leaves out. The runs
that end in a violation are counterexamples and have nothing to prove.

## 5. Plan

In this order, most important behaviour first:

1. (done) `BmsTask`: scheduler; safety, liveness, all safety proved.
2. (done) `RulesTask`: protection rules and relays; safety, liveness, all safety proved.
3. (done) `ReplyPath`: sequence numbers, CRC errors, lost, damaged and refused
   replies, `settingsCached` against replies in flight; all proved.
4. (done) `SettingsStore` and `DurableStore`: layout, torn writes, reload; the
   refinement checked and proved.
5. (done) `ModbusSlave` and `RequestService`: frame reception and dispatch, the wrap
   of `micros()`; the refinement; answers in time; all safety proved.
6. (done) `Controller`: scheduler and rules with modules and Modbus writes; from a
   change of a voltage to the rule that trips; both refinements and the latency proved.
7. Left: a proof that BmsTask sends only requests ReplyPath allows, so that Controller
   could carry ReplyPath's queue instead of single replies.

## 6. Not modelled

* PCB files, the Modbus examples, GPIO and UART registers, the LED, debug output.
* `lib/FIFO`, which the firmware does not link.
* `lib/crc16` and `calcCRC` as computations: a CRC is right exactly for undamaged bytes.
* The values a Modbus read returns, and the counters only it reads.
* Restarts in the reply path and the Modbus slave (section 2, ReplyPath, says what one
  does to the error counters).
* `sendSaveSetting`, `sendBadPacketCounterReset`, `sendResetBalanceCurrentCounter` and
  `HasCommsTimedOut`, which nothing calls, and with the last the round trip time.
* Configurations beyond the arrays: more than 4 banks or (but for the scheduler) 16
  modules, rules from 8 on, and reads of no register or of more than the answer holds.
  The assumptions named above draw these lines.

Three observations that no run states, since no line of the code says otherwise: a
module is valid from its first voltage on, so its temperatures count as 0 until its
first temperature reply; one module that reads 0 V suspends the module rules of all
others also after the start; a settings reply in flight when a configuration is queued
marks the old settings as known (`RereadSettingsAreCurrent` says when they are right).
