---------------------------- MODULE ImmediateIO ----------------------------
(***************************************************************************)
(* The immediate adapter: every set and every read of a pin locks the      *)
(* mutex and makes one register access, a frame or two of the SPI, with    *)
(* every HAL call a step.  Nothing but the mutex keeps the frames of one   *)
(* context apart from those of another.  A HAL call may fail or panic, and *)
(* may have done its work, or part of it, before it does.                  *)
(*                                                                         *)
(* A read of an output answers what its register holds, one of an input    *)
(* the level on its pin.                                                   *)
(***************************************************************************)
EXTENDS ShiftRegister

CONSTANTS
  Contexts,        \* callers that hold pins
  Ports,           \* ports that have a pin
  Inputs,          \* those configured as inputs
  SinglePortBase,  \* 0x20
  HalMayFail,      \* a HAL call may return an error
  HalMayPanic,     \* a HAL call may panic
  NoOne            \* the holder of a free mutex

RegisterOf(p) == SinglePortBase + p
InputRegisters == {RegisterOf(p) : p \in Inputs}

ASSUME BusAssumption ==
  /\ ReadBit \in Nat \ {0, 1}
  /\ Registers \subseteq 1..(ReadBit - 1)
  /\ SinglePortBase \in Nat
  /\ Inputs \subseteq Ports
  /\ Ports \subseteq Nat /\ Ports # {} /\ \A p \in Ports : RegisterOf(p) \in Registers
  /\ {HalMayFail, HalMayPanic} \subseteq BOOLEAN
  /\ NoOne \notin Contexts

VARIABLES
  holder,    \* context that holds the mutex
  poisoned,  \* a panic left the mutex poisoned
  call,      \* the call each context is in, or its last one, with its locals
  selected,  \* level of the chip select pin: driven low
  shift,     \* chip: the shift register
  registers, \* chip: the registers of the outputs; those of inputs never show
  level      \* inputs whose pin is driven high from outside

mutex == <<holder, poisoned>>
chip == <<selected, shift, registers, level>>
vars == <<mutex, call, chip>>

\* bit is the value to write, or the answer; got is return_data.
Calls ==
  [pc : {"idle", "lock", "select", "write", "deselect", "reselect", "transfer", "finish"},
   kind : {"read", "write"}, port : Ports, bit : BOOLEAN, halOk : BOOLEAN,
   got : Words, result : {"none", "ok", "error", "panic"}]

\* Mutex, calls and chip have their types; a call that is over has a result.
TypeOK ==
  /\ holder \in Contexts \cup {NoOne}
  /\ poisoned \in BOOLEAN
  /\ call \in [Contexts -> Calls]
  /\ \A c \in Contexts : call[c].pc = "idle" <=> call[c].result # "none"
  /\ selected \in BOOLEAN
  /\ shift \in Words
  /\ registers \in [Registers -> {0, 1}]
  /\ level \in SUBSET Inputs

\* Before its first call a context is as after a successful set.  The chip is as an
\* earlier run left it, in the middle of a frame perhaps.
Init ==
  /\ holder = NoOne /\ poisoned = FALSE
  /\ call = [c \in Contexts |->
               [pc |-> "idle", kind |-> "write", port |-> CHOOSE p \in Ports : TRUE,
                bit |-> FALSE, halOk |-> TRUE, got |-> <<0, 0>>, result |-> "ok"]]
  /\ selected \in BOOLEAN
  /\ shift \in Words
  /\ registers \in [Registers -> {0, 1}] /\ \A a \in InputRegisters : registers[a] = 0
  /\ level = {}

-----------------------------------------------------------------------------
At(c, pc) == call[c].pc = pc

\* The call of c goes on with locals r.
Becomes(c, r) == call' = [call EXCEPT ![c] = r]

Goes(c, pc) == Becomes(c, [call[c] EXCEPT !.pc = pc])

\* Variant: lock does not wait.
FreeAlways == TRUE

Free == holder = NoOne

\* Variant: an error returns with the mutex locked.
ReleasedOnOk(c, result) == IF result = "ok" THEN NoOne ELSE holder

\* The guard is dropped on every way out of lock.
Released(c, result) == NoOne

\* Expander::read_port on the value of a single-port register.
Level(v) == v = 1

\* The closure of lock returns, with b as its answer if it has one.
Leave(c, result, b) ==
  /\ holder' = Released(c, result)
  /\ Becomes(c, [call[c] EXCEPT !.pc = "idle", !.bit = b, !.halOk = TRUE,
                                !.got = <<0, 0>>, !.result = result])

Error(c) == Leave(c, "error", FALSE) /\ UNCHANGED poisoned

\* Variant: the address is shifted up by a bit, into the read bit.
FrameShifted(c) ==
  LET a == 2 * RegisterOf(call[c].port) IN
  IF call[c].kind = "write" THEN WriteFrame(a, IF call[c].bit THEN 1 ELSE 0)
                            ELSE ReadFrame(a)

\* The frame of a single-port register.
Frame(c) ==
  LET a == RegisterOf(call[c].port) IN
  IF call[c].kind = "write" THEN WriteFrame(a, IF call[c].bit THEN 1 ELSE 0)
                            ELSE ReadFrame(a)

\* n bytes of the frame f are clocked in, if the chip is selected.
Clocked(f, n) == IF selected THEN ClockedIn(shift, f, n) ELSE shift

NoopFrame == <<Noop, 0>>

\* What a read of a register gives.
Sensed ==
  [a \in Registers |-> IF a \in InputRegisters
                         THEN IF a - SinglePortBase \in level THEN 1 ELSE 0
                         ELSE registers[a]]

\* Of the byte that a frame writes, the register of a port keeps the lowest bit.
LowBit(w) == <<w[1], w[2] % 2>>

\* The chip select rises.
Raise ==
  /\ selected' = FALSE
  /\ shift' = IF selected THEN Latched(shift, Sensed) ELSE shift
  /\ registers' = IF selected /\ Address(shift[1]) \notin InputRegisters
                    THEN Stored(LowBit(shift), registers) ELSE registers
  /\ UNCHANGED level

\* The world outside drives an input pin.
DriveInput(p) ==
  /\ level' = (level \ {p}) \cup ({p} \ level)
  /\ UNCHANGED <<mutex, call, selected, shift, registers>>

-----------------------------------------------------------------------------
(* Pins and the mutex. *)

Begin(c, kind, p, b) ==
  /\ At(c, "idle")
  /\ Becomes(c, [call[c] EXCEPT !.pc = "lock", !.kind = kind, !.port = p, !.bit = b,
                                !.result = "none"])
  /\ UNCHANGED <<mutex, chip>>

write_port(c, p, b) == Begin(c, "write", p, b)
read_port(c, p) == Begin(c, "read", p, FALSE)

Lock(c) ==
  /\ At(c, "lock") /\ Free /\ ~poisoned
  /\ holder' = c
  /\ Goes(c, "select")
  /\ UNCHANGED <<poisoned, chip>>

\* lock().unwrap() on a poisoned mutex.
LockPoisoned(c) ==
  /\ At(c, "lock") /\ Free /\ poisoned
  /\ Becomes(c, [call[c] EXCEPT !.pc = "idle", !.bit = FALSE, !.result = "panic"])
  /\ UNCHANGED <<mutex, chip>>

-----------------------------------------------------------------------------
(* The register access. *)

\* What a HAL call of c that fails or panics may have done to pin and chip: moved
\* the pin or not, sent none, one or both bytes of its frame.
CutShort(c) ==
  \/ /\ At(c, "select") \/ At(c, "reselect")
     /\ selected' \in {selected, TRUE}
     /\ UNCHANGED <<shift, registers, level>>
  \/ /\ At(c, "write")
     /\ \E n \in 0..2 : shift' = Clocked(Frame(c), n)
     /\ UNCHANGED <<selected, registers, level>>
  \/ /\ At(c, "transfer")
     /\ \E n \in 0..2 : shift' = Clocked(NoopFrame, n)
     /\ UNCHANGED <<selected, registers, level>>
  \/ /\ At(c, "deselect") \/ At(c, "finish")
     /\ Raise \/ UNCHANGED chip

\* A panic inside the closure unwinds: the guard is dropped and poisons; the chip
\* select stays as it is.
Panic(c) ==
  /\ HalMayPanic
  /\ CutShort(c)
  /\ poisoned' = TRUE
  /\ Leave(c, "panic", FALSE)

SetLow(c, from, to) ==
  /\ At(c, from)
  /\ selected' = TRUE
  /\ Goes(c, to)
  /\ UNCHANGED <<mutex, shift, registers, level>>

SetLowFails(c) ==
  /\ HalMayFail
  /\ At(c, "select") \/ At(c, "reselect")
  /\ CutShort(c)
  /\ Error(c)

Write(c) ==
  /\ At(c, "write")
  /\ shift' = Clocked(Frame(c), 2)
  /\ Becomes(c, [call[c] EXCEPT !.pc = "deselect", !.halOk = TRUE])
  /\ UNCHANGED <<mutex, selected, registers, level>>

\* The error of spi.write waits until the chip select is high again.
WriteFails(c) ==
  /\ HalMayFail
  /\ At(c, "write")
  /\ CutShort(c)
  /\ Becomes(c, [call[c] EXCEPT !.pc = "deselect", !.halOk = FALSE])
  /\ UNCHANGED mutex

Deselect(c) ==
  /\ At(c, "deselect")
  /\ Raise
  /\ \/ call[c].halOk /\ call[c].kind = "read" /\ Goes(c, "reselect") /\ UNCHANGED mutex
     \/ /\ call[c].halOk /\ call[c].kind = "write"
        /\ Leave(c, "ok", call[c].bit) /\ UNCHANGED poisoned
     \/ ~call[c].halOk /\ Error(c)

\* spi.transfer of a no-op: what was in the shift register comes back.
Transfer(c) ==
  /\ At(c, "transfer")
  /\ shift' = Clocked(NoopFrame, 2)
  /\ Becomes(c, [call[c] EXCEPT !.pc = "finish", !.halOk = TRUE, !.got = shift])
  /\ UNCHANGED <<mutex, selected, registers, level>>

TransferFails(c) ==
  /\ HalMayFail
  /\ At(c, "transfer")
  /\ CutShort(c)
  /\ Becomes(c, [call[c] EXCEPT !.pc = "finish", !.halOk = FALSE])
  /\ UNCHANGED mutex

\* The data if the address came back with it, or an error.
Finish(c) ==
  /\ At(c, "finish")
  /\ Raise
  /\ IF call[c].halOk /\ call[c].got[1] = Frame(c)[1]
       THEN Leave(c, "ok", Level(call[c].got[2])) /\ UNCHANGED poisoned
       ELSE Error(c)

SetHighFails(c) ==
  /\ HalMayFail
  /\ At(c, "deselect") \/ At(c, "finish")
  /\ CutShort(c)
  /\ Error(c)

Step(c) ==
  \/ Lock(c) \/ LockPoisoned(c) \/ Panic(c)
  \/ SetLow(c, "select", "write") \/ SetLow(c, "reselect", "transfer") \/ SetLowFails(c)
  \/ Write(c) \/ WriteFails(c) \/ Deselect(c)
  \/ Transfer(c) \/ TransferFails(c) \/ Finish(c) \/ SetHighFails(c)

Next ==
  \/ \E c \in Contexts :
       \/ \E p \in Ports, b \in BOOLEAN : write_port(c, p, b)
       \/ \E p \in Ports : read_port(c, p)
       \/ Step(c)
  \/ \E p \in Inputs : DriveInput(p)

Spec == Init /\ [][Next]_vars

\* A context that is in a call keeps running; the mutex is not fair.
FairSpec == Spec /\ \A c \in Contexts : WF_vars(Step(c))

-----------------------------------------------------------------------------
(* Properties. *)

\* What pin p tells with the registers in regs and the inputs in on driven high.
PinValue(p, regs, on) == IF p \in Inputs THEN p \in on ELSE Level(regs[RegisterOf(p)])

\* The bit that the call l writes or has read, with f in the shift register.
Answer(l, f) ==
  CASE l.kind = "read" /\ l.pc \in {"reselect", "transfer"} -> Level(f[2])
    [] l.kind = "read" /\ l.pc = "finish" -> Level(l.got[2])
    [] OTHER -> l.bit

\* A read is taken when its first frame ends, and lost if its second one fails; a
\* write is taken when the chip executes it.
Progress(l) ==
  CASE l.pc = "idle" -> l.result
    [] l.pc \in {"reselect", "transfer"} -> "taken"
    [] l.pc = "finish" /\ l.halOk -> "taken"
    [] OTHER -> "called"

Access(l, f) ==
  [kind |-> l.kind, cell |-> l.port, value |-> Answer(l, f), state |-> Progress(l)]

\* The memory of ports that callers see.
Memory == INSTANCE AtomicMemory WITH
  Cells <- Ports, Values <- BOOLEAN, Driven <- Inputs,
  ResetValue <- FALSE, MayReset <- FALSE, MayGarble <- TRUE,
  mem <- [p \in Ports |-> PinValue(p, registers, level)],
  op <- [c \in Contexts |-> Access(call[c], shift)]

\* Every set and read of a pin that succeeds takes effect at one moment of its
\* call, in an order all callers agree on, although a read is two frames and other
\* contexts use the same bus.  A call that failed, or panicked, had its effect or
\* none, or has spoiled one port: the chip executes a frame that was cut short, or
\* what another call left in the shift register.
ImplementsMemory == Memory!Spec

RegisterChangeAllowed ==
  \A a \in Registers :
    registers'[a] # registers[a] =>
      \E c \in Contexts :
        /\ holder = c
        /\ \/ /\ call[c].kind = "write" /\ a = RegisterOf(call[c].port)
              /\ registers'[a] = IF call[c].bit THEN 1 ELSE 0
           \/ ~call[c].halOk

\* Only the access under way changes the chip: it writes the register of its port,
\* and no other unless the SPI reported an error to that very access.  What others
\* left on the bus, by errors or panics, does not come through otherwise.
OnlyOwnRegisterChanges == [][RegisterChangeAllowed]_vars

\* A context that got the mutex gives it back, whatever the HAL does, so the
\* others are never locked out for good.
MutexReleased == \A c \in Contexts : holder = c ~> holder # c

-----------------------------------------------------------------------------
(* The inductive invariant. *)

Inside(c) == call[c].pc \notin {"idle", "lock"}

\* The context inside lock, and no other, holds the mutex.
MutexInv == \A c \in Contexts : holder = c <=> Inside(c)

\* A frame it sent without an error is whole: nobody else moved the chip select or
\* the shift register since.
FramesInv(c) ==
  LET l == call[c] IN
  /\ l.pc \in {"write", "deselect", "transfer", "finish"} => selected
  /\ l.pc = "deselect" /\ l.halOk => shift = Frame(c)
  /\ l.pc \in {"reselect", "transfer", "finish"} => l.kind = "read"
  /\ l.pc \in {"reselect", "transfer"} => shift[1] = Frame(c)[1]
  /\ l.pc = "finish" /\ l.halOk => l.got[1] = Frame(c)[1] /\ shift = NoopFrame

\* No context touches the bus while another is inside lock, so an access is never
\* split: what it finds in the shift register is its own, unless the SPI failed it.
BusInv == MutexInv /\ \A c \in Contexts : FramesInv(c)
=============================================================================
