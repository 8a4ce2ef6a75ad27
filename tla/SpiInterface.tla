---------------------------- MODULE SpiInterface ----------------------------
(***************************************************************************)
(* Register accesses over SPI: a write is one frame of two bytes between a *)
(* falling and a rising chip select, a read is two frames, the first of    *)
(* which makes the chip put the value in its shift register.  Every call   *)
(* of the HAL may fail; a call runs under a mutable borrow (or the mutex   *)
(* of an adapter), so at most one is under way.                            *)
(*                                                                         *)
(* The chip is modelled as the comments of the code use it: a two-byte     *)
(* shift register clocked while selected, and executed as a command when   *)
(* the chip select rises (ShiftRegister).                                  *)
(***************************************************************************)
EXTENDS ShiftRegister

CONSTANTS
  Values,        \* values the callers write
  ResetValue,    \* of every register
  SpiErrorsAt,   \* how many bytes may have been clocked when the SPI fails
  CsMayFail,     \* set_low and set_high may return an error
  ChipMayReset   \* the chip may lose power at any time

ASSUME BusAssumption ==
  /\ ReadBit \in Nat \ {0}
  /\ Registers \subseteq 1..(ReadBit - 1)
  /\ Values \subseteq Bytes
  /\ ResetValue \in Bytes
  /\ SpiErrorsAt \subseteq {0, 1, 2}
  /\ {CsMayFail, ChipMayReset} \subseteq BOOLEAN

VARIABLES
  call,      \* the call under way, or the last one: kind, address and value
  pc,        \* where it is
  spiOk,     \* result of the last spi.write or spi.transfer
  got,       \* return_data
  result,    \* what the last call returned
  trouble,   \* observer: what went wrong since the call began
  seen,      \* observer: values of the register since a read began
  selected,  \* level of the chip select pin: driven low
  shift,     \* chip: the shift register, high and low byte
  registers  \* chip: the registers

chip == <<selected, shift, registers>>
observers == <<trouble, seen>>
vars == <<call, pc, spiOk, got, result, observers, chip>>

Results == {"none", "Ok", "CSError", "WriteError", "TransferError", "AddressError"}

\* The call and its locals, the pin and the chip have their types.
TypeOK ==
  /\ call \in [kind : {"read", "write"}, addr : Registers, value : Values]
  /\ pc \in {"idle", "select", "write", "deselect", "reselect", "transfer", "finish"}
  /\ spiOk \in BOOLEAN
  /\ got \in Words
  /\ result \in Results
  /\ trouble \in SUBSET {"cs", "spi", "reset"}
  /\ seen \in SUBSET Bytes
  /\ selected \in BOOLEAN
  /\ shift \in Words
  /\ registers \in [Registers -> Bytes]

\* SpiInterface::new leaves the chip select as it finds it, low perhaps; the
\* shift register may hold anything.
Init ==
  /\ call \in [kind : {"write"}, addr : Registers, value : Values]
  /\ pc = "idle" /\ spiOk = TRUE /\ got = <<0, 0>> /\ result = "none"
  /\ trouble = {} /\ seen = {}
  /\ selected \in BOOLEAN
  /\ shift \in Words
  /\ registers = [a \in Registers |-> ResetValue]

-----------------------------------------------------------------------------
(* The chip. *)

\* What a rising chip select makes of the shift register and the registers.
Execute ==
  /\ shift' = Latched(shift, registers)
  /\ registers' = Stored(shift, registers)

\* n bytes of the frame f are clocked in, if the chip is selected.
Clocked(f, n) == IF selected THEN ClockedIn(shift, f, n) ELSE shift

ChipReset ==
  /\ ChipMayReset
  /\ shift' = <<0, 0>>
  /\ registers' = [a \in Registers |-> ResetValue]
  /\ trouble' = trouble \cup {"reset"} /\ seen' = seen \cup {ResetValue}
  /\ UNCHANGED <<call, pc, spiOk, got, result, selected>>

-----------------------------------------------------------------------------
(* The driver. *)

\* Variant: the address is shifted out of its byte, the read bit is the lowest.
FrameShifted ==
  IF call.kind = "write" THEN <<4 * call.addr, call.value>> ELSE <<4 * call.addr + 1, 0>>

\* write_register: address then value; read_register: read bit and address.
Frame ==
  IF call.kind = "write" THEN WriteFrame(call.addr, call.value) ELSE ReadFrame(call.addr)

\* Variant: the second frame repeats the address.
NoopFrameAddressed == <<call.addr, 0>>

NoopFrame == <<Noop, 0>>

Begin(kind, a, v) ==
  /\ pc = "idle"
  /\ call' = [kind |-> kind, addr |-> a, value |-> v]
  /\ pc' = "select" /\ result' = "none"
  /\ trouble' = {} /\ seen' = {registers[a]}
  /\ UNCHANGED <<spiOk, got, chip>>

write_register(a, v) == Begin("write", a, v)
read_register(a) == Begin("read", a, call.value)

Return(r) == pc' = "idle" /\ result' = r

\* cs.set_low()?
SetLow(from, to) ==
  /\ pc = from /\ pc' = to
  /\ selected' = TRUE
  /\ UNCHANGED <<call, spiOk, got, result, observers, shift, registers>>

SetLowFails ==
  /\ CsMayFail
  /\ pc \in {"select", "reselect"}
  /\ selected' \in {selected, TRUE}
  /\ Return("CSError")
  /\ trouble' = trouble \cup {"cs"}
  /\ UNCHANGED <<call, spiOk, got, seen, shift, registers>>

\* spi.write, whose result is looked at after the chip select is high again.
Write ==
  /\ pc = "write" /\ pc' = "deselect"
  /\ \/ shift' = Clocked(Frame, 2) /\ spiOk' = TRUE /\ UNCHANGED trouble
     \/ /\ \E n \in SpiErrorsAt : shift' = Clocked(Frame, n)
        /\ spiOk' = FALSE /\ trouble' = trouble \cup {"spi"}
  /\ UNCHANGED <<call, got, result, seen, selected, registers>>

\* spi.transfer of a no-op: what was in the shift register comes back.
Transfer ==
  /\ pc = "transfer" /\ pc' = "finish"
  /\ \/ /\ shift' = Clocked(NoopFrame, 2) /\ got' = shift
        /\ spiOk' = TRUE /\ UNCHANGED trouble
     \/ /\ \E n \in SpiErrorsAt : shift' = Clocked(NoopFrame, n)
        /\ spiOk' = FALSE /\ UNCHANGED got /\ trouble' = trouble \cup {"spi"}
  /\ UNCHANGED <<call, result, seen, selected, registers>>

\* The chip executes its shift register if the pin really rises.
Raise ==
  /\ selected' = FALSE
  /\ IF selected THEN Execute ELSE UNCHANGED <<shift, registers>>

\* Variant: the error of spi.write is dropped.
FirstFrameOkAlways == TRUE

FirstFrameOk == spiOk

\* cs.set_high()? after the first frame, then the result of spi.write.
Deselect ==
  /\ pc = "deselect"
  /\ Raise
  /\ \/ FirstFrameOk /\ call.kind = "read" /\ pc' = "reselect" /\ UNCHANGED result
     \/ FirstFrameOk /\ call.kind = "write" /\ Return("Ok")
     \/ ~FirstFrameOk /\ Return("WriteError")
  /\ UNCHANGED <<call, spiOk, got, observers>>

\* Variant: the address byte that comes back is not looked at.
AddressEchoedAlways == TRUE

\* Variant: it is compared without the read bit.
AddressEchoedBare == got[1] = call.addr

AddressEchoed == got[1] = Frame[1]

\* cs.set_high()? after the second frame, then the data.
Finish ==
  /\ pc = "finish"
  /\ Raise
  /\ \/ spiOk /\ AddressEchoed /\ Return("Ok")
     \/ spiOk /\ ~AddressEchoed /\ Return("AddressError")
     \/ ~spiOk /\ Return("TransferError")
  /\ UNCHANGED <<call, spiOk, got, observers>>

SetHighFails ==
  /\ CsMayFail
  /\ pc \in {"deselect", "finish"}
  /\ Raise \/ UNCHANGED chip
  /\ Return("CSError")
  /\ trouble' = trouble \cup {"cs"}
  /\ UNCHANGED <<call, spiOk, got, seen>>

Next ==
  \/ \E a \in Registers, v \in Values : write_register(a, v)
  \/ \E a \in Registers : read_register(a)
  \/ SetLow("select", "write") \/ SetLow("reselect", "transfer") \/ SetLowFails
  \/ Write \/ Transfer \/ Deselect \/ Finish \/ SetHighFails
  \/ ChipReset

Spec == Init /\ [][Next]_vars

-----------------------------------------------------------------------------
(* Properties. *)

Returned(r) == pc = "idle" /\ result = r

\* A write that returned Ok is in the register, whatever earlier failed calls
\* left on the chip select and in the shift register.
WritesLand ==
  Returned("Ok") /\ call.kind = "write" /\ "reset" \notin trouble =>
    registers[call.addr] = call.value

\* A read that returned Ok returned a value the register had during the call,
\* even if the chip lost power between its two frames (AddressError).
ReadsAreCurrent ==
  Returned("Ok") /\ call.kind = "read" => got[2] \in seen

\* A call during which nothing goes wrong succeeds: an earlier failure, even one
\* that left the chip selected in the middle of a frame, does not outlive it.
SoundCallsSucceed ==
  pc = "idle" /\ result # "none" /\ trouble = {} => result = "Ok"

\* The call as an access to a memory: a write is taken when the chip executes its
\* frame, or when a reset wipes it out; a read when the chip latches the value.
Progress ==
  CASE pc = "idle" -> IF result \in {"none", "Ok"} THEN "ok" ELSE "error"
    [] pc = "deselect" /\ call.kind = "write" /\ spiOk /\ shift # Frame -> "taken"
    [] pc \in {"reselect", "transfer"} /\ shift[1] = Frame[1] -> "taken"
    [] pc = "finish" /\ spiOk /\ AddressEchoed -> "taken"
    [] OTHER -> "called"

Answer ==
  CASE call.kind = "write" -> call.value
    [] call.kind = "read" /\ pc \in {"reselect", "transfer"} -> shift[2]
    [] call.kind = "read" /\ pc \notin {"reselect", "transfer"} -> got[2]

Access == [kind |-> call.kind, cell |-> call.addr, value |-> Answer, state |-> Progress]

Memory == INSTANCE AtomicMemory WITH
  Contexts <- {"caller"}, Cells <- Registers, Values <- Bytes, Driven <- {},
  MayReset <- ChipMayReset, MayGarble <- TRUE,
  mem <- registers, op <- [c \in {"caller"} |-> Access]

\* Calls that end in any error leave the bus usable: whatever the HAL does, and
\* wherever the chip loses power, a call that returns Ok was one access to one
\* memory of registers, at one moment between its start and its return.
ImplementsMemory == Memory!Spec

RegisterChangeAllowed ==
  \A a \in Registers :
    registers'[a] # registers[a] =>
      \/ call.kind = "write" /\ a = call.addr /\ registers'[a] = call.value
      \/ "spi" \in trouble
      \/ ChipReset

\* A call changes no register but the one it writes, unless the SPI itself
\* reported an error in it; a read changes none.
OnlyAddressedRegisterChanges == [][RegisterChangeAllowed]_vars

-----------------------------------------------------------------------------
(* The inductive invariant. *)

\* The chip select is low while a frame is clocked.
SelectedInv == pc \in {"write", "deselect", "transfer", "finish"} => selected

\* A whole first frame is in the shift register, unless a reset cleared it.
FrameInv ==
  pc = "deselect" /\ spiOk =>
    shift = Frame \/ ("reset" \in trouble /\ shift = <<0, 0>>)

\* A read: what sits, or came back, behind the address is a value seen; without
\* a reset it is there.
ReadInv ==
  /\ call.kind = "read" /\ pc # "idle" => registers[call.addr] \in seen
  /\ pc \in {"reselect", "transfer"} =>
       /\ shift[1] = Frame[1] => shift[2] \in seen
       /\ "reset" \notin trouble => shift[1] = Frame[1]
  /\ pc = "finish" /\ spiOk =>
       /\ got[1] = Frame[1] => got[2] \in seen
       /\ "reset" \notin trouble => got[1] = Frame[1]

\* The second frame leaves a no-op behind.
NoopInv == pc = "finish" /\ spiOk => shift = NoopFrame

\* Only a read has a second frame; spiOk and trouble agree.
ProgressInv ==
  /\ pc \in {"reselect", "transfer", "finish"} => call.kind = "read"
  /\ pc \in {"deselect", "finish"} => (spiOk <=> "spi" \notin trouble)
  /\ pc \in {"select", "write", "reselect", "transfer"} => "spi" \notin trouble

BusInv ==
  /\ SelectedInv /\ FrameInv /\ ReadInv /\ NoopInv /\ ProgressInv
  /\ WritesLand /\ ReadsAreCurrent /\ SoundCallsSucceed
=============================================================================
