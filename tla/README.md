# A TLA+ verification of M5Unit-RS485

M5Unit-RS485 drives RS-485 units (UnitSIT3088 with a direction pin, UnitSP485
without one) from M5Stack boards. It gives a unit an Arduino-style Serial API on
top of either an Arduino `HardwareSerial` or the ESP-IDF UART driver. This
directory models that library in TLA+, checks the models with TLC on small
instances, and proves the properties that matter most with TLAPS for every value
of the constants. All paths below are relative to the repository.

`PROJECT.json` has the same content in a form that tools read: the components,
the runs, the source lines of every definition (`map`), the hazards, the
findings and the theorems.

## 1. The system

### 1.1 Components

| Component | State it keeps | Operations that change state | Modelled in |
|---|---|---|---|
| `ticks_from_ms` (`src/unit/rs485_tick_math.hpp`) | none; three integer widths | - | `TickMath`, `Timeouts` |
| `IDFSerial` (`src/unit/rs485_idf_serial.hpp`) | `_peeked`, `_tx_ring_seen`; below it the driver's RX ring, TX ring and FIFO | `peek`, `read`, `read(buf, n)`, `readBytes`, `availableForWrite`, `write`, `flush` | `IdfSerial` on `UartTx` |
| `HSSerial` (`src/unit/rs485_hs_serial.hpp`) | the timeout of the `HardwareSerial`, which it borrows | `readBytes(buf, n, ms)`, the other reads, `flush`, `write` | `ArduinoSerial`, `DirectedWrites` |
| `NullSerial` | none: the shared fallback, in static storage, never deleted | - | `RS485Component`, `ArduinoSerial`, `UnitSIT3088` |
| `RS485Component` (`src/unit/rs485_component.{hpp,cpp}`) | `_serial`, a `unique_ptr` whose `SerialDeleter` says if the pointer is owned | `begin` (and its `flushRX` drain), both moves, the destructor, `install_serial`, `rebind_serial`, `write_waiting` | `RS485Component`, `IdfSerial`, `DirectedWrites` |
| `readValue` / `writeValue` | none; what is left on the line after a short read | both templates | `ValueLink` |
| `UnitSIT3088` and its decorators (`src/unit/unit_SIT3088.{hpp,cpp}`) | `_dir_pin`, `_configured_dir_pin`, the level of DIR, the decorator's `_owner` | `config`, `begin`, `write`, both moves | `UnitSIT3088`, `RS485Component`, both in `DirectedWrites` |
| `UnitSP485` and its aliases | nothing of its own | - | `RS485Component` |
| `UnitSP485Stream` (`src/unit/unit_SP485_stream.hpp`) | a reference to a unit, and a timeout of its own | its own methods and the reads of `Stream` | `ArduinoSerial` |
| `Tab5BuiltinRS485` | `dir_pin`, set by its constructor | - | `BoardSetup` |
| wiring helpers (`src/wiring/m5_unit_unified_rs485_wiring.hpp`) | none; they set `dir_pin`, open a port, register a unit | `addTab5BuiltinRS485UART`, `addAtomicBaseUART` and their ESP-IDF twins | `BoardSetup` |
| Transceiver example | the buffers and clocks of `write_chunked`, `read_chunked`, `loop`, and its `step` | `setup`, `loop` | `Transceiver` |
| StreamAdapter example | where `setup()` and `loop()` are | `setup`, `loop` | `StreamAdapter` |
| tests, `LogView` of the Transceiver example | - | - | not modelled |
| UART driver, Arduino core, UnitUnified | rings, FIFO, `HardwareSerial`, the list of units | outside the repository | modelled from how `src/` uses them |

### 1.2 How they interact

A unit's `begin()` asks its own `make_serial()` for a backend and gives it to
`install_serial()`, which frees the one there was. Every call of the Serial API
goes through `_serial`. The backend of a `UnitSIT3088` is a decorator that calls
back into the unit (`_owner->set_transmit()`) around each write, so ownership runs
one way and the callback the other; a move of the unit must therefore tell the
backend where its unit has gone (`rebind_serial`). Under `IDFSerial` the UART
interrupt fills the RX ring and empties the TX ring between any two steps of the
calling task. On Arduino the `HardwareSerial` is shared by every unit that was
begun with it and by the application.

### 1.3 What is hard about it

There is one calling task per unit, so nothing in the code takes a lock. The hard
behaviours are elsewhere:

- *Hardware against the task.* Bytes arrive and leave while a call is between two
  steps: a read that was complete when it was counted, a ring that fills after its
  room was asked for, a DIR pin that drops before the last stop bit.
- *A byte in two places.* `peek()` takes a byte out of the driver and keeps it.
  Every read, the count, the flush and `begin()` have to know about it.
- *Ownership that moves.* Begins, failed begins, move constructions, move
  assignments and destructions in any order, with a pointer back at the owner and a
  fallback that must never be freed.
- *Half-failed setups.* `begin()` of `UnitSIT3088` and the wiring helpers do
  several things, each of which may fail with the earlier ones done; the
  application may try again.
- *Time.* A millisecond timeout becomes ticks with three integer widths and one
  magic value (`portMAX_DELAY`, for ever); `begin()` drains for 100 ms of wall
  clock whether or not the task gets to run; a borrowed timeout has to be given back.
- *Two timeouts.* On Arduino the `HardwareSerial` and the adapter each have one, a read with an
  explicit timeout borrows the first, and `readStringUntil()` goes by the second.
- *Framing.* Nothing on the line marks where a value begins, so one short
  `readValue()` shifts all later ones.

`PROJECT.json` lists these under `hazards`, each at its line, with the properties
aimed at it.

### 1.4 What makes each component correct

- Tick math: no timeout becomes endless, none is dropped, the wait is right to
  within a tick, longer timeouts wait longer.
- Serial backends: each arrived byte is handed out once, in order, or discarded by
  a call that may (the abstract `ByteStream`); a waited write is out; an offer of
  room is good; calls return; a borrowed timeout never shows.
- Ownership: one holder per backend, freed once, never leaked or dangling (the
  abstract `BackendLifecycle`); the back pointer names the holder; the pin travels.
- DIR: high before the first byte, until the last stop bit, and at no other time; on the pin that
  belongs to the backend, wherever the unit has been moved.
- Values: in step with the writer as long as no byte was lost; after a loss the reader only
  slips forward and ends short of a value.
- Setup: a successful one has the right pin; from the moment a `begin()` has taken a pin, the node
  holds the bus through it only while it sends, also when that `begin()` or a later one fails.

## 2. The modules

```
TickMath ---- Timeouts
   |
   +--------+
UartTx -----+-- IdfSerial ----> ByteStream      (StreamContract)
   |               +---- Transceiver
   +-- UnitSIT3088 ---- BoardSetup
   +-----------------+
RS485Component ------+-- DirectedWrites
   +----> BackendLifecycle                      (BackendPromise)
ArduinoSerial ---- StreamAdapter
   +----> ByteStream                            (StreamContract)
ByteStream ---- ValueLink
```

A plain line is EXTENDS, an arrow is a refinement (INSTANCE ... WITH). Each module
`M` with runs has a module `MCM` that gives its constants values (`MCArduinoSerial` instantiates
`StreamAdapter`, and with it `ArduinoSerial`). A definition whose
name says what went wrong (`StartReadKeepsHeld`, `TakeOverForgetsPin`) is a mutant: it
is never used by `Next`, and put in place of the definition below it, it makes a
property fail.

### TickMath, Timeouts

`TicksFromMs(ms, hz)` is `ticks_from_ms` with its widths: both arguments below
`Word` (2^32), the product modulo `Word * Word` (`uint64_t`), the floor of one tick
for a non-zero timeout, the cut at `portMAX_DELAY - 1`. `Timeouts` is a caller that
passes one timeout after another on a build whose tick rate is chosen once; a pure
function is stated as a machine so that "a longer timeout waits longer" is a
property of two consecutive calls.

### UartTx

The transmit half of `driver/uart.h`, external: a TX ring (or none), a FIFO, the
interrupt that moves a byte from one to the other, the shifter. Shared by the three
models that send.

### IdfSerial

| Variable | Code |
|---|---|
| `up` | `uart_is_driver_installed()` |
| `arrived`, `rx` | bytes that came in; the driver's RX ring |
| `tx` | ring and FIFO of `UartTx` |
| `peeked`, `ringSeen` | `_peeked`, `_tx_ring_seen` |
| `pc`, `op`, `want`, `ticks`, `buf`, `pending`, `elapsed` | the call in progress: its arguments and locals |
| `reply` | the latest answer to the caller |
| `mark` | history: how many bytes had come in at the last draining `begin()` |

Calls that do not wait are one action (`Available`, `AvailableForWrite`, `Peek`,
`ReadOne`, `ReadNothing`, `WriteNothing`). A read that waits is `StartRead`, any
number of `Collect` (the driver copies bytes as they come) and `Tick`, then
`ReadReturn`. A write is `StartWrite`, `Push`, `WriteReturn`, and with
`write_waiting()` a drain. `Begin(flushRX)` installs a new backend, which has no
held byte; with `flushRX` the drain is a loop of `FlushRound` until `elapsed` reaches
`Window`. A round may take any time up to `MaxStall`, the time the task may be kept
off the CPU. `DriverDelete` and `DriverInstall` are the application's own use of the
driver between calls.

### ByteStream

What the read side promises, without rings or held bytes: `input` is the bytes not
yet handed out. `IdfSerial` implements it with `input <- buf \o Held \o rx`: what an
unfinished read has copied, the byte `peek()` holds, the ring. `ArduinoSerial`
implements it with `input <- Unread`: the same without a held byte, except that a call through an
adapter whose unit has fallen back has nothing of its own. A byte such a call took would be missing
from the input. `ValueLink` builds on it, so what is shown
there holds over any backend that keeps the contract.

### RS485Component, BackendLifecycle

An object is a place in memory. `serial[c]` is the `unique_ptr` with its deleter
flag, `owner[b]` the decorator's back pointer, `dirPin` and `captured` the two pin
members. Actions: `Construct`, `Destroy`, `Config`, `BeginOk`, `BeginRefused` (an
unset pin), `BeginFails` (no usable adapter; takes back the capture), `MoveConstruct`,
`MoveAssign`. Releasing a pointer (`Release`) counts deletions, so that a double free is
a count of 2 and a leak a count of 0 with no holder. The abstract module only has
`Install`, `Hand` and `Drop` of a holder; the mapping sends a backend with two
holders, or freed and held, to "broken", which no abstract step reaches.

### UnitSIT3088

A write of the decorator is six steps: `Raise`, `Push`, `Pushed`, `Drained`, `Lower`,
and `Flushed` for a waited write, with the transmitter's `Load` and `Shift` between any
two. `HoldsBus(p)` is what the comment in `begin()` (`unit_SIT3088.cpp:135-138`) and
`test/config_test.cpp:219-221` say of DIR: active high and pulled up, so the transceiver drives the
bus unless its pin is held low, and also while the pin floats. `Shift` while it does not counts a
`lost` byte. `Config`, `BeginOk`, `BeginFails`,
`BeginRefused` and the driver's coming and going happen between writes, in any order.

### DirectedWrites

The writes of units that live as `RS485Component` says: the two modules share one state, so that
the backend a write goes through, the unit it calls back and the pin that unit has captured are
those that begins, moves and `config()` left behind. `Lives` is any action of `RS485Component`
between two writes, with what it does to the GPIOs (`Receives`: `begin()` makes the pin an output
and low, also when it then fails). `StartWrite` looks up the unit once, as the local variable
`unit` of the decorator does, and raises its pin; `Push`, `Load`, `Shift`; `WriteReturns` lowers the
pin of the same unit. The Arduino and the ESP-IDF decorator have the same steps here: `TxDone` is
`HardwareSerial::flush()` or `uart_wait_tx_done()`. All units have the same port and one
transceiver, wired to `Wired`; `lost` counts the bytes that leave while that pin is low.

### BoardSetup

The helpers on top of `UnitSIT3088`: `AddUnsupported`, `AddWithoutPort`, `AddRefused`,
`AddOk`, then `UnitsBegin`; any of them may fail and be tried again. The application may
configure the pin before, between and after them; `via` is `"own"` where it has replaced what a
helper chose before the unit was begun. `begun` is history: the pins with which a `begin()` has got
past its guard. The board is chosen once.

### ArduinoSerial

Units, the adapter that refers to one of them, and the `HardwareSerial` with its
timeout. A read that waits is `ReadBytes`, `ReadBytesFor`, `StreamReadBytes` or `StreamReadLine`
(`readStringUntil('\n')`, which has no length and ends at a byte of `Newlines`), then `Collect`,
`Tick`, `Return`. `Move` takes the backend away from under the adapter (`Severed`). `setting` and
the `asked` of a call record what the caller is entitled to.

### StreamAdapter

The example of that name, as an application of `ArduinoSerial`: `Wires` or `FailStop`,
`SetsLineTimeout`, then `Reports`, `Looks`, `ReadsLine`, `GotLine` round and round, with bytes
arriving between any two of them (`Beneath`). `app` is chosen once: `"other"` is any other
application, which may call whatever `ArduinoSerial` has, so that one run checks the read
side under both.

### ValueLink

Two peers, each with a host byte order and a `LittleEndian` argument, exchange the
values of `Script`. A byte is `<<value, significance>>`, so that what a byte means does
not depend on where it lies. `accepted` is what `readValue()` gave where it succeeded, `Awaited` the
type the next one is called for. `ReadValueShort` may end any read early; `Overrun` loses a byte;
both set `torn`, unless the read had taken nothing.

### Transceiver

The loops of the example as an application whose every call is a whole call of
`IdfSerial`, from the one to `begin()` in `setup()` on. A `setup()` whose wiring or `Units.begin()`
fails (`SetupFails`) ends in `failStop()`, which does not return (`Stopped`). Each click sends the next of the messages with `write_chunked()` or, in the last two
steps, the members of `Sample0` with two waited writes. `Deadline` is the 200 ms of
`write_chunked()` running out, wherever it is.

## 3. The runs

States are distinct states; every run finishes within a minute on two workers.

| Run | Specification | States | Shows |
|---|---|---|---|
| `timeouts` | `Timeouts` | 207 | `NeverForever`, `WithinATick`, `WaitsWhenAsked`, `Monotone` at tick rates 100, 250 and 1000 |
| `idf_serial` | `IdfSerial`, fair | 188,132 | `StreamContract`, `AvailableIsReadable`, `NothingStale`, `RingOfferIsWritable`, `WaitedIsOnTheWire`, `CallsReturn` |
| `component` | `RS485Component` | 77,046 | `NeverDangling`, `DeletedOnce`, `OwnerFollows`, `PinTravels`, `BackendPromise` |
| `direction` | `UnitSIT3088`, fair | 13,025 | `DrivesOnlyInWrite`, `SendsWithDirHigh`, `ClaimedWriteIsHeard`, `BusReleased` |
| `directed_writes` | `DirectedWrites` | 1,703,536 | `DrivesItsPin`, `MovedWriteIsHeard` |
| `transceiver` | `Transceiver` | 56,812 | `SentIsOut`, `ShortOnlyWhenLate`, `BatchIsWhole` |
| `value_link` | `ValueLink` | 166,656 | `InStep`, `SlipsForward` |
| `board_setup` | `BoardSetup` | 16,744 | `SetUpIsHeard`, `ReleasedOnceBegun` |
| `arduino_read` | `StreamAdapter`, fair | 140,884 | `WaitsAsAsked`, `StreamContract`, `LinesAreWhole`, `ReadsReturn` |
| `idf_offer` | `IdfSerial` | - | violates `OfferIsWritable` (finding 3) |
| `refused_begin` | `RS485Component` | - | violates `RefusedIsSilent` (finding 2) |
| `lost_write` | `UnitSIT3088` | - | violates `WaitedWriteIsHeard` (finding 1) |

Each passing run but `directed_writes` also checks its module's type invariant; the types of
`DirectedWrites` are part of its `WriteInv` (section 5). Only `value_link` runs without the
deadlock check: its script and its reads come to an end.

### Bounds, and why they are enough

- `timeouts`: `Word` is 1024 and `portMAX_DELAY` 90. A 32-bit product would wrap
  inside the range, and at each rate the timeouts around the floor, the divisions and
  the saturation are all asked for. The theorems cover 2^32.
- `idf_serial`: a TX ring of 2 over a FIFO of 1, writes of 1 and 4 (within and beyond
  ring and FIFO together), reads of 1 and 3 with three received bytes (a held byte, part
  of the ring, all of it), timeouts that do not wait, wait one tick and saturate, a drain
  window of 3 with stalls of up to 2 (one or more rounds).
- `component`: two places for a UnitSIT3088 and one for a UnitSP485, three backends,
  two pins. A chain of moves that returns, a move onto a unit that holds a backend, and
  a re-begin all fit. The two places of one type, the backends and the pins are symmetric, and so is every property.
- `direction`, `board_setup`: two pins, so that `config()` can name the wrong one; a
  ring and a FIFO smaller than the longest write, so that the task waits for the transmitter.
- `directed_writes`: three places for a UnitSIT3088, so that a backend can be moved on from where it
  was moved to, two backends, two pins of which one is wired, and writes of 3 that overfill a ring of
  2 over a FIFO of 1.
- `transceiver`: one message, longer than the ring, and both steps of values; four received bytes.
- `value_link`: a scalar, an aggregate and a scalar again, of two, two and three bytes,
  and one read more than there are values: a reader out of step finds enough bytes to
  be wrong with. All 16 pairs of peers.
- `arduino_read`: the wrapped unit and another one, three timeouts (none, the default and
  `LineTimeout`), three bytes of which the second ends a line: one whole line and one that is cut.

`MaxRx`, `Backends`, `MaxReads` and `Script` bound what the code does not; the theorems
about `IdfSerial` and `RS485Component` hold for every value of theirs.

### Fairness

`CallsReturn` and `BusReleased` assume weak fairness of `Progress` (the scheduler runs the
task whenever it can take a step), of `Tick` (the tick interrupt comes), and of `Load` and
`Shift` (the transmitter sends whatever is waiting; nothing in the code turns on flow
control). No fairness is assumed of arriving bytes, of the driver's installation or of the
caller: a read has to come back without the peer's help. `Push` is in `Progress` because a
driver with room takes bytes; with no room it waits for `Shift`.

`ReadsReturn` assumes weak fairness of the steps inside a read and of `Tick`, and has the premise
that the peer falls silent: each byte starts the adapter's timeout anew, so a peer that goes on
sending and never ends a line keeps `readStringUntil()`, and with it `loop()`, for ever. Nothing in
the code bounds that. In the run the peer has `MaxRx` bytes and is silent after them.

## 4. Findings

1. **A waited write that nobody hears** (`lost_write`, `src/src/unit/unit_SIT3088.cpp:139`).
   After a `begin()` that succeeded, a second one that fails takes back
   `_configured_dir_pin` but leaves the decorator of the first in place. Writes still reach
   the driver, no pin is raised, and `writeValue()` reports success although
   `rs485_component.hpp:428-429` promises the value "is always fully on the wire when it
   reports success".
2. **After a `begin()` that failed** (`refused_begin`, `rs485_component.cpp:160`) `MIGRATION.md:84-85`
   says `iserial()` is the shared no-op backend. It is the one of an earlier `begin()` that
   succeeded. Finding 1 is what that leads to with a DIR pin.
3. **An offer that blocks** (`idf_offer`, `rs485_idf_serial.hpp:67`). Until a TX ring has been
   seen, a zero from the driver is answered with the FIFO's length, also when a ring is full or
   a ring-less port's FIFO is. `rs485_component.hpp:153` says that many bytes "can be written
   without blocking". `RingOfferIsWritable` is the part of that sentence that holds.

A property the runs hold for the same reason is worth stating next to finding 1:
`ClaimedWriteIsHeard` needs `captured = Wired`, and `SetUpIsHeard` shows that a setup by the
helper of the Tab5 provides it.

Not a finding, but worth knowing: until the first `begin()` gets past its guard nothing in the
library touches DIR. It floats, and by the same reading of a floating DIR as in the comment at
`unit_SIT3088.cpp:135-138` the node holds the bus: from power-up, through a setup whose port does not
open or whose unit is refused, and for ever if the setup is given up there. No document says
otherwise. `ReleasedOnceBegun` states exactly when this ends, and that what comes later never brings
it back. `DrivesOnlyInWrite` is about pins that are held high, and makes no claim of a floating one.

## 5. What is proved

TLAPS checks every theorem below from the definitions; nothing is assumed beyond the named
assumptions on constants, which TLC evaluates in the runs.

| Module | Theorems | For every |
|---|---|---|
| `TimeoutsProofs` | `TimeoutsTypeCorrect`, `NeverForeverHolds`, `WithinATickHolds`, `WaitsWhenAskedHolds`, `MonotoneHolds` | word size, tick rate, `portMAX_DELAY >= 2`, timeout |
| `IdfSerialProofs` | `TypeCorrect`, `NothingStaleHolds`, `RingOfferHolds`, `WaitedHolds`, `StreamContractHolds` (`IdfSerial` implements `ByteStream`), `AvailableHolds` | ring, FIFO, tick rate, lengths, timeouts, number of bytes |
| `TransceiverProofs` | `AppTypeCorrect`, `SentIsOutHolds`, `ShortOnlyWhenLateHolds`, `BatchIsWholeHolds`, `BackendUnderApp`, `StreamUnderApp` (refinement of `ByteStream`) | the same, and number and length of the messages |
| `RS485ComponentProofs` | `ComponentTypeCorrect`, `NeverDanglingHolds`, `DeletedOnceHolds`, `OwnerFollowsHolds`, `PinTravelsHolds`, `BackendPromiseHolds` (refinement of `BackendLifecycle`); of `DirectedWrites`: `WritesKeepComponents`, `DrivesItsPinHolds`, `MovedWriteIsHeardHolds` | number of units, backends and pins, ring, FIFO, write lengths |
| `UnitSIT3088Proofs` | `UnitTypeCorrect`, `DrivesOnlyInWriteHolds`, `SendsWithDirHighHolds`, `ClaimedWriteIsHeardHolds`; of `BoardSetup`: `BoardTypeCorrect`, `DirectionOnBoard`, `SetUpIsHeardHolds`, `ReleasedOnceBegunHolds` | ring, FIFO, pins, write lengths |
| `ArduinoSerialProofs` | `WaitsAsAskedHolds`, `ArduinoStreamContractHolds` (refinement of `ByteStream`), `AdapterKeepsSpec`, `AdapterTypeCorrect`, `LinesAreWholeHolds` | units, timeouts, lengths, line ends, number of bytes |
| `ValueLinkProofs` | `RoundTrip`, `LinkTypeCorrect`, `InStepHolds`, `SlipsForwardHolds` | sequence of sizes and types, pair of hosts and arguments, number of bytes and reads |
| `SequenceLemmas` | lemmas the proofs about byte streams share | - |

### The inductive invariants

- *Timeouts.* `Computed`: the wait is `TicksFromMs` of the timeout. The properties of the
  states then follow from lemmas about the function: `ProductIsExact` (64 bits are
  enough for the product of two 32-bit values), `TicksCases`, `TicksMonotone`.
- *IdfSerial.* `IInv` is `CallInv` (what the task knows in each call: outside a read the buffer
  is empty, in the drain no byte is held), `DownInv` (without a driver nothing is received or
  sent), `OfferInv`, `FreshInv` and `WaitedIsOnTheWire`. `NothingStale` is not inductive: in
  the drain the old bytes are still there. `FreshInv` adds that the ring is fresh once the
  window is over. That needs a round to have run by then, which is where the assumption
  `MaxStall < Window` comes in (`IdfAssumption`): a task kept off the CPU for the whole 100 ms
  between reading the clock and the first test would not drain at all. An offer stays good
  because only the task itself takes room away; `OfferInv` carries it from the answer
  through the write.
- *IdfSerial, its read side.* `StreamContract` needs `ReadInv` (an unfinished read holds nothing
  back and has not copied more than it was asked for) with `CallInv` and `DownInv`; then one lemma
  for each action says which step of `ByteStream` it is. The lemmas of `SequenceLemmas` it rests on
  (`CutJoined`, `JoinCut`, `JoinHead`, `JoinAppend`) say that cutting and joining undo each other;
  `ArduinoSerialProofs` uses them in the same way. `AvailInv` carries what `available()` has
  answered through the read that follows: it is in the ring, held back, or in the buffer by then.
- *Transceiver.* The example passes lengths that are not among the constants of `IdfSerial`, so the
  steps of the backend are proved for `AnyNext`, the same actions with any length; every step of
  the example is one of these or leaves the backend alone (`AppIsAny`), and `IInv` and what follows
  from it hold under the example (`BackendUnderApp`), as does the Stream contract for callers that
  may ask for any length (`AnyStream`, `StreamUnderApp`). `AppInv` is `PlaceInv` (which call of the
  backend each place in the example can be in), `SendInv` (what the driver was given is what the
  example counts, in its own terms at each place; what is counted and not flushed is still in a
  send), `RunInv` and `BatchInv`. `BatchIsWhole` says that the shown bytes are consecutive, which
  no step can be shown to keep without knowing where the next ones come from: `RunInv` says that
  shown, read and still in the ring follow each other up to the latest byte that came in
  (`EndsAt`), and `BatchInv` that what the batch is short of is in the ring or on its way, so that
  no read of the batch comes up short.
- *RS485Component.* `OwnInv` is `PointerInv` (which pointers each object may have), `UniqueInv`
  (no two living components hold one backend) and `DeleteInv` (deleted once exactly when
  nobody holds it). `NeverDangling` and `DeletedOnce` are not inductive without uniqueness: a
  second holder would free the backend again.
- *DirectedWrites.* `WritesKeepComponents` (a write changes nothing of `RS485Component`) lets every
  theorem about the components be used here. `PinFresh` adds to `PinTravels` that the unit that
  holds a backend has captured that backend's pin exactly, unless its latest `begin()` failed;
  `WriteInv` says what is true while a write runs: the unit asked to raise DIR still holds the
  backend, only its pin is high, nothing has been lost if that pin is the wired one.
- *ArduinoSerial.* `ArduinoInv` is `TimeInv` (the adapter's timeout is what was last set, that of
  the `HardwareSerial` too unless a read has borrowed it, and then it is kept in the call; waited and
  left add up to what was asked) and `ReadInv` (a read has not taken more than it was asked for, and
  nothing when the unit has been moved away). For the contract this means that `Unread` is `buf \o rx`
in every reachable state (`UnreadIsInput`); each step is then one of `ByteStream` over that
(`StreamStepOfHeld`). `WaitsAsAsked` follows because a read that ends
  incomplete has nothing left. `AppInv` adds where the example is.
- *UnitSIT3088.* `SITInv` is `QuietInv` (outside a write the driver is empty), `DirInv` (in
  it the captured pin is high, outside every pin is not) and `LostInv` (nothing is lost as long as the
  captured pin is the wired one). `ClaimedWriteIsHeard` has that as a hypothesis; the run
  `lost_write` is what happens without it.
- *BoardSetup.* A step of the application is one of the unit's or sets the pin and opens the port
  and nothing else (`HelperSets`), which keeps `SITInv`. `BoardInv` is `IdleInv` (nothing runs before a
  setup succeeds), `UnknownInv`, `Tab5Inv`, `ViaInv` and `BegunInv` (a pin floats exactly until a `begin()`
  has taken it, and the captured pin is one of these). With `DirInv`, which says when a pin is high, it
  gives `ReleasedOnceBegun`. `SetUpIsHeard` is about a setup that
  succeeded; `Tab5Inv` is why failed ones before it do not matter: once the helper of the Tab5 has
  registered the unit, the pin it configured is there for every later `begin()`.
- *ValueLink.* `InStep` compares values, and nothing on the line says where one begins. `Flow` is
  what has arrived and is not taken, followed by what is on its way. `FlowInv` says that there are
  offsets at which the values not yet accepted lie in `Flow`, each beginning where the one before it
  ends; with nothing lost they fill `Flow`, with bytes lost `Flow` is no longer than they are (which
  is still why no more can be accepted than was written). The offsets are a function that
  exists, extended by each write and moved down by each accepted value, so that no sum
  over the script has to be computed. `Ahead` is what a loss leaves of that: behind the place where a
  value should begin there are only bytes of this value and later ones, and `Flow` is shorter than the
  values that should fill it. `SlipsForward` follows: bytes go missing and are never added, so a read
  may reach into later values and not into earlier ones. `RoundTrip` is the other half: what both ends make of the
  byte order.

### Only model-checked

Every safety property, every action property and every refinement that a passing run checks is
also proved. What is left to TLC alone is liveness: `CallsReturn`, `BusReleased` and `ReadsReturn`
need fairness and ENABLED, which are out of the prover's reach. The three runs that find a
violation are counterexamples and have nothing to prove.

## 6. What is not modelled

- Overload resolution and conversions of the inline Serial API (`uint8_t` against `char`
  pointers, `print`): decided by the compiler, no state.
- `baudRate()` and, on Arduino, `availableForWrite()`, which change no state; pin numbers, buffer sizes, GPIO configuration beyond input/output and level.
- Drawing and logging of the examples (`LogView`), and the short sleep of `app_main()` that lets the
  idle task run on a single core: no state of the program depends on them.
- A write and a read of one unit at once: one task calls a unit, and a call comes back before the
  next.
- `setTimeout()` by another task during a call, and two tasks calling one unit: the code takes
  no lock and makes no promise.
- A port that is installed again without a TX ring below a backend that has seen one (`DriverInstall`
  brings back the ring of the build): `availableForWrite()` then answers 0 until the next `begin()`
  makes a new backend.
- The tests, which were read for what is expected.

## 7. Plan

Done, in this order: tick math and `IdfSerial`, whose read side everything else stands on;
ownership; the direction pin; then the compositions (`Transceiver`, `BoardSetup`) and the
remaining read side (`ArduinoSerial`, `ValueLink`); the writes of moved units (`DirectedWrites`)
and the second example (`StreamAdapter`), with the proofs about both; then the proofs of
`Transceiver`, `BoardSetup`, `ValueLink` and of `AvailableIsReadable`.

Next, to extend the model: two units on one line, to state that the bus has at most one driver as
long as the application takes turns.
