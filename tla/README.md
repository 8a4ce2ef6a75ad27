# Verification of the MAX7301 driver

The `max7301` crate drives a Maxim MAX7301, an expander with 28 general purpose
I/O ports (4 to 31) behind an SPI bus. This directory holds TLA+ models of the
driver, the TLC configurations that check them on small instances, and proofs,
checked by TLAPS, that their safety properties hold for every instance.

Paths are relative to the repository; `transactional.rs` and the other files of
the adapters are in `src/expander/`.

## The system

| Component | State | Operations | Talks to |
|---|---|---|---|
| `TransactionalIO` (`transactional.rs`) | four `AtomicUsize` words: `issued`, `cache`, `dirty`, `fresh` | `port_pin`, `refresh`, `write_back`; `write_port` and `read_port` for its pins | `Expander` through an `IOMutex`, one port register per lock |
| `ImmediateIO` (`immediate.rs`) | none of its own | `port_pin`, `write_port`, `read_port` | `Expander` through an `IOMutex` |
| `PortPin` (`pin.rs`) | a reference to its adapter and a port | `set_high`, `set_low`, `is_high`, `is_low` | its adapter |
| `Expander` (`expander/mod.rs`) | the interface and `config`, a shadow of the configuration register | raw port reads and writes, `configure`, the writes `commit` needs | an `ExpanderInterface` |
| `Configurator` (`config.rs`) | seven bank configurations, a dirty flag, the borrowed `Expander` | `port`, `ports`, `shutdown`, `detect_transitions`, `commit` | `Expander` |
| `SpiInterface` (`interface.rs`) | the SPI master and the chip select pin | `write_register`, `read_register` | the HAL, and through it the chip |
| `Register`, `RegisterAddress` (`registers.rs`) | none | conversion to addresses, `valid_port`, `valid_bank` | |
| `IOMutex` (`mutex.rs`) | the lock of the platform | `lock` | |
| test spies (`interface.rs`) | registers, and what a test looks at | an `ExpanderInterface` for the tests | |

A `PortPin` borrows its adapter shared, and adapters may be shared between
threads or with interrupt handlers, so pins, `refresh` and `write_back` may run
at the same time; only the bus is under the mutex, the four words are not.
`configure` borrows the `Expander` mutably and the adapters consume it, so
configuration is sequential and is over before the first pin is made.

### What is hard

* **Concurrency.** A set is three separate atomic updates, a read two loads,
  `refresh` and `write_back` are long sequences of loads, bus transactions and
  stores, and most of the accesses are `Relaxed`.
* **Staleness.** `StompClean` writes cached values of ports nobody set, so the
  cache must not drift from the device, in any sequence of calls.
* **Failure.** Every bus transaction may fail, in the middle of a loop over the
  ports, of a read-modify-write, or of a frame of two bytes.
* **Boundaries.** Windows of eight ports run past port 31, and past the end of
  the word where a `usize` has 32 bits.
* **Restarts.** The chip keeps its registers when the program restarts, and loses
  them while the program runs on.

What makes each component correct:

* *Transactional adapter*: sets reach the device unless a refresh discards them,
  nothing else changes there except as the strategy allows, reads answer what the
  pin carries, and the port numbers it computes are valid.
* *Configurator*: a commit that returns `Ok` has applied all that was asked; it
  never touches the mode of another port; the shadow does not leak.
* *SPI interface*: `Ok` means the register was written, or that the value is one
  the register had during the call; a failure does not spoil the next call.
* *Immediate adapter*: each pin operation is one register access that no other
  one splits.

## Modules

| Module | Models | Proofs | Run modules |
|---|---|---|---|
| `TransactionalIO` | the transactional adapter, its pins, the device's port registers | `TransactionalIOProofs`, `TransactionalIORefinement` | `MCTransactionalIO` |
| `TransactionalMutex` | the same with the mutex of the bus, which its transactions wait for | `TransactionalMutexProofs` | `MCTransactionalMutex` |
| `PortTransactions` | abstract: what the transactional adapter promises to bracketed callers | | |
| `WordLoops` | the loops of `refresh` and `write_back` on machine words, down to register addresses | `WordLoopsProofs` | itself |
| `SemanticSpy` | `SemanticTestSpyInterface`, the device of `WordLoops` | | |
| `RegisterMap` | the registers and their addresses | `RegisterMapProofs` | |
| `Configurator` | configuration: builder, shadow, `commit`, the chip's configuration registers | `ConfiguratorProofs` | itself |
| `SpiInterface` | register accesses as HAL calls and frames, with every fault | `SpiInterfaceProofs` | itself |
| `ImmediateIO` | the immediate adapter, its pins and its mutex, on the bus, with every fault | `ImmediateIOProofs` | itself |
| `AtomicMemory` | abstract: a memory of cells, implemented by `SpiInterface` (registers) and by `ImmediateIO` (ports) | | |
| `ShiftRegister` | the chip's serial interface and the frames, used by `SpiInterface` and `ImmediateIO` | | |

Definitions called a *variant* in their comment belong to no behaviour: each is
the operator below it with a plausible mistake, and putting it in the operator's
place must break a property. They measure the properties.

### TransactionalIO

A word is the set of its one bits at absolute positions. Where the code shifts
`ports_to_write`, `ok_to_write` or `ports_to_read` right and advances
`start_port`, the model keeps positions and compares: `Lowest` is where
`trailing_zeros` takes the scan, `PortRange(p)` is `0xFF << p`. `Bits` bounds a
word, so bits shifted past its end are lost as in the code.

`call[c]` is the call a context is in with its locals: `remaining` is
`ports_to_read` or `ports_to_write`, `mask` is `fresh_buffer` or `ok_to_write`,
`buffer` is `load_buffer` or the loaded cache, and `todo` holds the words the
call has yet to access. Every atomic access is one action: `WritePortCache`,
`WritePortDirty`, `WritePortFresh` for a set; `ReadPortFresh`, `ReadPortCache`
for a read; `refresh` (which clears `dirty`), `RefreshIssued`, `RefreshRead` once
per window, `RefreshCache`, `RefreshFresh`; `write_back` (which loads `dirty`),
`WriteBackFresh`, `WriteBackCache`, `WriteBackWrite` once per turn of the loop,
`WriteBackDone`. A bus transaction is one step because it runs inside `lock`; the
wait for the lock is in `TransactionalMutex`.
`RefreshReadFails` and `WriteBackWriteFails` are the `?` on a transaction; a write
that fails may have reached the device.

With `Reorder`, the accesses of one call to different words become visible in any
order where the code's orderings allow it: the updates of a set after its
`Release` of `cache` are `Relaxed`, so are both loads of a read and the two
stores that end a refresh. The loads of `write_back` are `Acquire` and stay in
order. Reordering is limited to the accesses of one call, and leaves out one pair
that the orderings permit as well: the `Release` store that clears `dirty` at the start
of a refresh (line 95) and the `Relaxed` stores that end it.

`Bracketed` is the use the crate documents (`lib.rs`, lines 166-170: procedures
"bracketed by `refresh` and `write_back`"): while a refresh or a write_back runs,
no other call does. Pins still race with each other and with `port_pin`. Without
it, everything may run at any time.

The device is external: `latch` holds the output registers, `level` the signals
on the input pins. Modes are fixed (`Outputs`), as configuration is over when the
adapter is made. An output reads back its register.

### TransactionalMutex

`TransactionalIO` with the lock of its expander. `NeedsBus(c)` says that the call of `c`
stands at a call of `lock`: a refresh with ports left to read, a write_back with
ports left to write. `Lock(c)` gets the mutex, and cannot be taken while `holder` is
somebody else; `Run(c)` is any step of `TransactionalIO`, a bus transaction under the mutex,
which it gives back with an error or without, or a step that needs no bus. Nothing is
said of who gets a free mutex. A poisoned mutex is a matter of `ImmediateIO`: the
closures are the same.

### PortTransactions

What a bracketed caller of `TransactionalIO` may rely on, without words, windows and
masks: `view` is what refresh loads, sets change and reads answer from; `pending`
the ports set since the last transfer; `pin` the outputs. A set is pending from
its start and in the view some time before it returns (`BeginSet`, `Assign`,
`Publish`, `EndSet`); a read takes the view at some moment of its call; a refresh
forgets what was pending and ends with the view as the pins are; a write_back
moves pins to the view, of pending ports only but for `StompAny`, and when it
returns `Ok` all pending ones carry the view. One thing the abstract specification
had to allow: a read that races the very first set of a port may find it fresh
and answer what the cache held before, as its two loads are `Relaxed`. The
refinement mapping of `TransactionalIO` (`Made`, `Pins`, `View`, `Known`, `Pending`,
`Ops`) hides the three steps of a set: a port is pending in the abstract as soon as
some call is about to make it dirty. It hides the cache while a refresh runs, and
the calls on input ports, of which nothing is promised here.

### WordLoops, SemanticSpy and RegisterMap

`TransactionalIO` describes the scans by positions; `WordLoops` computes them as the
code does, on words whose bits are numbered from the low end and renumbered by
every shift (`Shl`, `Shr`), with `trailing_zeros`, shifts that lose bits at the end of a
word, `& !0xFF` and `as u8`, one caller and an interface that does not fail, and sends
the register addresses of `RegisterMap` to `SemanticSpy`, a model of the
crate's `SemanticTestSpyInterface` with its per-port status (`TestPort`).
`TurnsAreSetTurns` says that each turn of a loop is the turn `TransactionalIO` takes,
through a mapping that adds `start_port` back to what is left of a shifted word
(`Positions`, `Remaining`), so what is checked and proved there is about these loops.
`LoopInv` says what the scans keep true of the words they shift, of the ports left
behind and of the device. `StompsAreHarmless` is the assertion of the
crate's property tests, for any sequence of calls instead of one transaction.
`RegisterMap` holds the registers with the ranges `valid_port` and `valid_bank`
accept.

### Configurator

A bank register maps offsets to two-bit fields, a field being the set of its one
bits, so that `set_port` (mask, then or), `keep_mask` and `merge` are set
operations on fields; the configuration register is the set of its one bits
(`ConfigByte`). `configure`, `ports`, `SetControl` (`shutdown` and
`detect_transitions`, which write the shadow at once) and `drop` are the
builder; `commit` walks the banks with `SkipBank`, `ReadBank` and `WriteBank`, and
`Finish` writes the configuration register if its dirty flag is set. `FailRead`,
`FailWriteBank` and `FailWriteConfig` are its error returns. `Restart` may come
between any two transactions: the program has a new `Expander` with the default
shadow, the chip keeps its registers.

Two observers: `asked` holds the bits the Configurator in use was told to set,
`stray` those that the shadow may hold without the chip having them, because a
Configurator was dropped or its commit failed, or because the program has just
started on a chip it did not power up. `ShadowInSync` says the shadow is wrong in no
other bit, and that a commit which sets a bit and returns `Ok` ends the
discrepancy; `OnlyAskedOrStrayBitsChange` that nothing else leaks to the chip.

### SpiInterface

One action per HAL call: `SetLow`, `Write`, `Deselect` (`set_high` and the result
of the write), and for a read a second `SetLow`, `Transfer` and `Finish`. The chip
is external and modelled as the comments of the code use it (lines 117-129 of
`interface.rs`): a two-byte shift register, clocked while selected, executed when
the chip select rises. A HAL call that fails may have taken effect or not; an SPI
call that fails has clocked none, one or both bytes (`SpiErrorsAt`). `ChipReset` may
come at any step. `trouble` and `seen` observe what went wrong and which values
the register had since the call began.

### ImmediateIO

A set or a read of a pin is a call: it waits for the mutex (`Lock`), makes one
register access in the same HAL steps as `SpiInterface`, and leaves. Each context
has its own place in the access, the bus and the chip are shared, and nothing but
the mutex orders the steps: `SpiInterface` is sequential, this module shows that it
may be.

A HAL call that fails or panics may have done its work or part of it
(`CutShort`): the chip select moved or not, none, one or both bytes of the frame
clocked. `SetLowFails`, `WriteFails`, `TransferFails` and `SetHighFails` are the errors;
those of the SPI wait until the chip select is high again, and the chip then
executes what is in its shift register, bytes of another context perhaps. `Panic`
is a panic of the HAL inside `lock`, which drops the guard and poisons the std
mutex; `LockPoisoned` is the `unwrap` on it. The Cortex-M mutex, a critical section,
is the special case in which no other context moves meanwhile.

The chip starts as an earlier run of the program may have left it: selected or not,
with any bytes in the shift register and any levels in the registers of outputs, which
hold one bit each (`LowBit`).
`Inputs` are ports whose level the world outside changes at any time (`DriveInput`);
a read of one gives the level and never its register, which is therefore not kept.
`OnlyOwnRegisterChanges` and the refinement say together what a fault may do: the call
that the SPI failed may spoil one register, no other call may.

### AtomicMemory

What register accesses promise: a memory where an access that succeeds takes
effect at one moment between its start and its return. A failed access had its
effect or none; where `MayGarble` it may also have spoiled one cell, as an SPI
error can cut a frame short. A reset of the memory (`Reset`) may come at any time
where `MayReset`; `Driven` cells follow the world outside.

Both refinement mappings (`Memory`) take a write when the chip select rises and
a read when that of its first frame does; its value is then in the shift register
and later in the caller's buffer. In `SpiInterface` a read that was taken may be lost
to a reset and then fails on its address; the mapping takes it back (`ReadLost`).
In `ImmediateIO` the memory is that of the ports, an input being driven; a read that
was taken is lost when its second frame fails. Both need `MayGarble`: with the chip
select high after a frame that was cut short, the chip executes what happens to be in
its shift register. `ImmediateIO` does not reset the chip, so `MayReset` is false there.

## Runs

| Run | Question | Bounds |
|---|---|---|
| `transactional_word32` | Do the properties of the adapter hold at the end of a word that ends at the last port, and do callers see one view of the ports? | one context, four ports, windows of three, `WordBits = LastPort + 1`, one input port |
| `transactional_bracketed` | Does the cache stay coherent, do pending sets keep their values, and is it still one view, when two contexts use pins between transfers? | two contexts, two ports, windows of two, a word longer than the ports, reordering, write errors |
| `transactional_interleaved` | What holds whatever races and fails, and does every step bring a call nearer its end? | two contexts, two ports, every error and reordering |
| `transactional_waiting` | Is the mutex always given back, what waits for it, and does every call return if it starves nobody? | two contexts, two outputs that are always low, an input, windows of one, every error and reordering, weak fairness |
| `transactional_failed_refresh` | Are pending sets discarded by a refresh that fails? (violated) | one context, three ports |
| `transactional_lost_set` | Does a set that races with write_back stay pending or reach the device? (violated) | two contexts, two ports |
| `wordloops_turns` | Do the loops on shifted words do what the loops on sets do, and stomp nothing? | three ports, windows of two, words of five bits, every reset value |
| `wordloops_costs` | Is `Exact` the least efficient strategy? (violated) | five ports, windows of three, words of eight bits |
| `configurator_commit` | Is a commit complete, does it leave the other ports alone, and what does the shadow leak? | two banks of two ports, two modes, drops, errors, restarts |
| `configurator_dropped` | Is a dropped change not applied? (violated) | the same, drops only |
| `immediate_memory` | Are accesses kept apart on the bus, do pins of several contexts behave as one memory, and is the mutex always given back, whatever fails? | two contexts, an output and an input, errors and panics of every HAL call, before, in and after its work, weak fairness; no resets |
| `spi_faults` | What do `Ok` and an error promise, and are the registers one memory? | two registers, address bytes of three bits, every fault and resets |

Why these bounds are enough to meet the interesting cases: four ports with windows
of three give a window inside the ports, one that starts at the last port and one
that runs past it, two windows in one scan, single-port writes between ranges, and
a port that is in a window but has no pin. A word that ends at the last port is
the 32-bit `usize`, a longer one the 64-bit `usize`; 16 bits do not compile (the
mask of `StompAny` is a 32-bit literal). `FirstPort = 2` is enough to tell
absolute from relative positions and gives the mask of `StompAny` its two bits
below the first port. In `transactional_waiting` a scan makes two turns, each of
which may lose the mutex to the other context; no branch of the code tests the
level of a pin, so one level stands for both (`LowOnly`), and windows of one
suffice there, as the ways a window can fall are the subject of `CallsShorten`. In
`wordloops_turns` a window that starts at the last port is cut by the end of the
word, and one before it is not. Two contexts give every race of two calls; the
proofs cover any number. Two banks of two ports give a bank that is untouched,
partly set and fully set, and a neighbour on either side. In `spi_faults`
three-bit addresses with the read bit on top and byte values that coincide with
addresses let garbage in the shift register look like a command; in
`immediate_memory` the read bit is 3, bytes are 0 to 5, and values coincide with
addresses too. Nothing is counted, so no state is cut off: every passing run
explores its whole state space.

No run has deadlocks to excuse: a context can always start another call.

### Fairness

`FairSpec` of `ImmediateIO` assumes weak fairness of the steps of a context that is
inside a call: the platform keeps running it. That is what a scheduler of threads
gives, and what an interrupt handler gets by itself. `MutexReleased` needs no more.

In `TransactionalMutex` the fairness has three parts. `RunFairness` is, for every context,
weak fairness of `Run`, which is disabled while the context waits for the mutex; and
weak fairness of `\E c : Lock(c)`, which says that a free mutex that is wanted goes to
somebody. `std::sync::Mutex` gives both. `LockFairness`, strong fairness of `Lock(c)` for
every context, is an assumption of its own: whoever finds the mutex free again and
again gets it in the end. `IOMutex` does not ask for it and `std::sync::Mutex` does not
promise it; a critical section of a Cortex-M gives it, as nobody finds that mutex
taken. `CallsReturn` has this assumption as its hypothesis. What the crate gives with
any mutex is checked in the same run: sets and reads of pins never wait
(`PinCallsReturn`), and a transfer that never returns is passed by others for ever
(`StarvedOnlyByOthers`).

Nothing is assumed about callers starting calls, about who gets the mutex of
`ImmediateIO`, nor about bus errors: with errors calls return sooner.

## What the code does not keep

Four runs end in a counterexample to something a doc of the crate says.

* `transactional_failed_refresh`: the doc of `refresh` says that all pending
  operations are discarded. `dirty` is cleared first; if a read then fails, the
  values of the discarded sets remain in `cache` and `fresh`. Setting a neighbour
  and calling `write_back(StompClean)` writes a range that carries the discarded
  value.
* `transactional_lost_set`: `write_back` loads `dirty` at its start and stores 0
  at its end. The set of another context whose `dirty` update falls in between is
  forgotten, though the adapter's words are atomics so that contexts may share it.
  The bracketed use excludes it.
* `configurator_dropped`: `shutdown` and `detect_transitions` write the shadow in
  `Expander` at once, so the change of a Configurator that is dropped is applied
  by the next commit that sets the other bit, although "changes are not applied
  unless committed". A commit that fails, or a restart, has the same effect;
  `configurator_commit` shows that nothing worse happens.
* `wordloops_costs`: the docs call `Exact` the least efficient strategy and `StompAny`
  the most efficient. The scan is greedy and the mask of `StompAny` ends at bit 31:
  with ports 22 and 24 to 31 pending, `StompAny` takes 22 to 29 as a range and has
  to write 30 and 31 one by one, three transactions; `Exact` needs two. Only the
  number of transactions is affected.

Not runs, but met on the way. `refresh` stores the whole cache at its end (109):
the value that another context has set since line 95 is replaced by the one that
was read, while the set stays pending, so reads do not answer "the last set value"
(`pin.rs:22`) and `write_back` writes the other one. `PendingValueKept` says that
the bracketed use excludes it; without `Bracketed` TLC finds it violated. And the
doc of `Register::BankConfig` gives its banks as 0-7 (`registers.rs:33`),
`valid_bank` accepts 0 to 6 (56), the seven that exist.

## What is proved

Each theorem holds for every value of the constants that the module's
assumptions allow. `GeometryAssumption` (ports inside the word, at least two bits
below the first port, a window of at least one port), `WordAssumption` (the same for
`WordLoops`), `ChipAssumption`,
`BusAssumption` (read bit, addresses below it) and `MapAssumption` (the blocks of
registers in order) say no more than the chip's register map does.

**TransactionalIO.** `IssuedInv` is inductive on its own: `dirty` and what the
loops scan are ports that were issued. From it follow `AddressSafety` and
`UnissuedUntouched`, with no assumption on how calls race or fail. So does
`CallsGetShorter`: a turn takes at least the port it stands on (`RangeHoldsStart`), and
every other step ends the call, a phase of it or the access to one of its words. A
call that keeps being scheduled therefore returns, which is as near as the prover
comes to `CallsReturn`.

`CoherenceInv` is inductive when `Bracketed` and reads do not fail
(`Coherence`). `CacheCoherent` alone is not inductive: a `write_back` in progress
has changed the device from a snapshot, so `WriteBackInv` says that the snapshot is
still the cache and that every pending port it went past holds the cached value;
a refresh in progress replaces `cache` and `fresh` one after the other, so
`RefreshInv` says that nothing is pending and that what it read is on the pins;
a set in progress may have changed `cache` and not yet `dirty`, so `PinInv` says
what each call has achieved; and `Exclusive` says what bracketing gives. From it
follow `CacheCoherence`, `ReadsCorrect`, `PendingPortsChange`, `PendingWritten` and
`PendingValueSafe`. The two assumptions are needed: the runs with counterexamples drop
one each.

**TransactionalMutex.** `MutexRefines`: with the mutex, waited for or not, the adapter still
does what `TransactionalIO` does, so all of the above carries over. `MutexHeld`: the mutex
is held only for a transaction that is still to be made (`OthersKept`: no step touches
the call of the holder but its own, and that one gives the mutex back).

`Implementation` (in `TransactionalIORefinement`) is the refinement of `PortTransactions`
under the same two assumptions, for any number of contexts, with and without
`Reorder`. Under `TypeOK` and `CoherenceInv` each step is one step of the abstract
specification or none: the update of the cache is `Assign`, that of `fresh` is
`Publish`, and the one that comes last also ends the set (`SetRuns`, `SetDone`); the
load of the cache is `Take`, that of `fresh` an `Answer`, a `PortNotRefreshed` or
nothing yet (`ReadRuns`); a window read by a refresh is `Widen`, as it may cover ports
that have no pin; of its two stores the first changes nothing a caller can see and
the second publishes view and known ports together (`RefineRefreshStore`); a turn of
a write_back carries ports as `Carries` allows (`WriteCarries`). `Alone` and `AloneAfter`
are what `Exclusive` gives the mapping: when a call transfers, no set is under way
and `Pending` is `dirty`. `PinInv` has to say that a set or a read past its `fresh` step
has a fresh port: the abstract set may end, and the read may answer, only when the
port is known.

**WordLoops.** `LoopInv` is inductive. It says that `ok_to_write` has been shifted as far
as `start_port` says, that what is left of the other word, put back in place, is
within the dirty ports (or, in a refresh, the chip's), that the dirty ports a
write_back left behind carry their cached values, that a refresh calls fresh only
what it read and loads nothing else, and that otherwise the spy has the cached value
of every port that is fresh and not dirty. That nothing else is loaded is there for
the clause after it: the bits of a window are or-ed into `load_buffer`, which is right
only if no stale bit is in it. Lemmas about single words carry the rest:
`TrailingZeros` (on `LowestExists`, a set of naturals has a least element), `SkipKeeps`
(shifting to the lowest bit loses nothing), `ClearRangeTakes` and `ClearPortTakes` (the
two masks), `RangeOkMeans` (the test on the low bits of the mask), `ReadCarries`,
`RangeWriteCarries` and `SingleWriteCarries` (a byte sent to or got from a register
address reaches the right ports). With them `TurnsRefine` proves `TurnsAreSetTurns`, and
`StompsHarmless` proves `StompsAreHarmless`, for every window, word length and chip, the
real one included.

**Configurator.** `CommitInv` with `TypeOK` is inductive: a read-modify-write holds
the chip's value, the banks already passed have what was asked. `OverwriteIsComplete`
and `MergeEffect` state what `status`, `keep_mask` and `merge` compute; from them
follow `RequestedOnly` and `CommitComplete`, under errors, drops and restarts.
`ShadowSound` (inductive with it, by `ConfigByteMeaning`, which inverts the encoding of
the register) and `AskedOrStrayBitsOnly` hold under all of these too; `AskedBitsOnly`
assumes no drop, no error and no restart, as then nothing is stray.

**SpiInterface.** `BusInv` is inductive: the chip select is low while a frame is
clocked, a whole first frame is in the shift register until a reset clears it, and
what sits behind the address of a read is a value the register had. From it
follow `WriteOkLands`, `ReadOkIsCurrent`, `SoundCallsReturnOk` and `AddressedOnly`.
`Implementation` is the refinement of `AtomicMemory`: each step is, under `BusInv`, one
step of the memory or none (`BeginCalls`, `DeselectMoves`, `TransferMoves`,
`FinishMoves`, `ResetMoves`, and `FailureFails` for every error return, on the lemma
`RaiseLeaves` about what a rising chip select may execute).

**ImmediateIO.** `BusInv` is inductive with `TypeOK`: the context inside `lock`, and no
other, holds the mutex (`MutexInv`), the chip select is low while its frame is
clocked, and the shift register holds the frame it sent without an error, or the
answer to it (`FramesInv`). The first part is what makes the second one inductive: a
step of another context inside `lock` would replace the frame. `Implementation` is the
refinement of `AtomicMemory` for any number of contexts, under every error and panic,
those in the middle of a frame included: a set is `WriteOk` when the chip select rises,
a read is `ReadTaken` at the rise that ends its first frame and `ReadLost` when its second
one fails, and every error or panic is `Fails` (`LeaveFails`). `RaisePins` says what a
rising chip select does after a whole frame, `RaiseLeaves` and `CutShortLeaves` that after
any other, and after a HAL call that stopped half way, one port at most is spoiled; `OpKept`
that a step of one context leaves the accesses of the others alone.
`OnlyOwnRegisters` follows from `BusInv`: a frame that was sent without an error writes
the register of its port (`RaiseAllowed`).

**RegisterMap.** `AddressesDiffer`: each kind of register has a block of addresses of
its own (`AddressInBlock`) and the blocks are disjoint. `AddressesAccessible`: the test
spy forbids none of them.

Only model-checked: `CallsReturn`, `PinCallsReturn`, `StarvedOnlyByOthers` and
`MutexReleased`, since the prover does not reach liveness. The properties of the four
runs that end in a counterexample do not hold as they are run there (one of them,
`PendingReachesDevice`, is a theorem for bracketed callers), and `Transactions`, the
count that another compares, is a recursion over words that could only be proved
about by induction.

## Not modelled, and the plan

Every safety property that a passing run checks is also a theorem, and so are the
three refinements (`AtomicMemory` twice, `PortTransactions`). To prove next: for
`ImmediateIO`, that each step inside `lock` leaves its holder less to do, as
`CallsGetShorter` says of the transactional adapter; and, of `WordLoops`, that every
register address a loop sends is one of `Accessible`, from `AddressesAccessible` and
`LoopInv`.

What is left in the code that could be modelled is small. Left out for good: the
no-op interface, which has no state; of `TestSpyInterface`, the record of reads and
writes it keeps for assertions; `lib.rs`, which is documentation and re-exports; offset 4
of `BankConfig::set_port`, which no caller passes (offsets are `port % 4`); the
panics of `valid_port` and `valid_bank` on numbers a caller made up, which end the
call before it changes anything; the electrical effect of the shutdown mode; and
memory orderings weaker than the reordering within one call that is described above.
A transfer of the transactional adapter that fails has its effect or none:
what a frame cut short may spoil on top of that is checked below it, in `SpiInterface` and
in `ImmediateIO`, and not carried up into `TransactionalIO`. Nor is the poisoning of the mutex
by a panic of the HAL, which `ImmediateIO` has.
