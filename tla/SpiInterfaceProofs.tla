------------------------- MODULE SpiInterfaceProofs -------------------------
(* Theorems about SpiInterface, for every value of its constants. *)
EXTENDS SpiInterface, TLAPS

LEMMA WordPairs ==
  ASSUME NEW x \in Bytes, NEW y \in Bytes
  PROVE  <<x, y>> \in Words
  BY DEF Words

LEMMA ZeroIsByte == 0 \in Bytes
  BY BusAssumption DEF Bytes

LEMMA FrameType ==
  ASSUME TypeOK
  PROVE  /\ Frame \in Words
         /\ Frame[1] # 0
         /\ call.kind = "write" => Frame = <<call.addr, call.value>>
         /\ call.kind = "read" => Frame[1] = ReadBit + call.addr
  <1>1. call.addr \in 1..(ReadBit - 1) /\ call.value \in Bytes
    BY BusAssumption DEF TypeOK
  <1>2. call.addr \in Bytes /\ ReadBit + call.addr \in Bytes
    BY <1>1, BusAssumption DEF Bytes
  <1>3. QED BY <1>1, <1>2, ZeroIsByte, BusAssumption DEF Frame, WriteFrame, ReadFrame, Words

\* A rising chip select executes a whole frame as the driver meant it, and
\* does nothing with a no-op.
LEMMA ExecuteFrame ==
  ASSUME TypeOK, Execute
  PROVE  /\ shift = Frame /\ call.kind = "write" =>
              /\ registers' = [registers EXCEPT ![call.addr] = call.value]
              /\ shift' = shift
         /\ shift = Frame /\ call.kind = "read" =>
              /\ registers' = registers
              /\ shift' = <<Frame[1], registers[call.addr]>>
         /\ shift = <<0, 0>> => registers' = registers /\ shift' = shift
  <1>1. call.addr \in Registers /\ call.addr \in 1..(ReadBit - 1)
    BY BusAssumption DEF TypeOK
  <1>2. 0 \notin Registers
    BY BusAssumption
  <1>3. CASE shift = Frame /\ call.kind = "write"
    <2>1. ~IsRead(shift[1]) /\ Address(shift[1]) = call.addr /\ shift[2] = call.value
      BY <1>1, <1>3, FrameType, BusAssumption DEF IsRead, Address
    <2>2. QED BY <1>1, <1>3, <2>1, FrameType DEF Execute, Latched, Stored
  <1>4. CASE shift = Frame /\ call.kind = "read"
    <2>1. IsRead(shift[1]) /\ Address(shift[1]) = call.addr
      BY <1>1, <1>4, FrameType, BusAssumption DEF IsRead, Address
    <2>2. QED BY <1>1, <1>4, <2>1, FrameType DEF Execute, Latched, Stored
  <1>5. CASE shift = <<0, 0>>
    <2>1. Address(shift[1]) = 0
      BY <1>5, BusAssumption DEF IsRead, Address
    <2>2. QED BY <1>2, <1>5, <2>1, FrameType DEF Execute, Latched, Stored
  <1>6. QED BY <1>3, <1>4, <1>5, FrameType

LEMMA ExecuteType ==
  ASSUME TypeOK, Execute
  PROVE  shift' \in Words /\ registers' \in [Registers -> Bytes]
  <1>1. shift[1] \in Bytes /\ shift[2] \in Bytes /\ shift = <<shift[1], shift[2]>>
    BY DEF TypeOK, Words
  <1>2. QED BY <1>1, WordPairs DEF TypeOK, Execute, Latched, Stored

LEMMA ClockedType ==
  ASSUME TypeOK, NEW f \in Words, NEW n \in {0, 1, 2}
  PROVE  Clocked(f, n) \in Words
  <1>1. shift[2] \in Bytes /\ f[1] \in Bytes /\ shift \in Words
    BY DEF TypeOK, Words
  <1>2. QED BY <1>1, WordPairs DEF TypeOK, Clocked, ClockedIn

LEMMA RaiseType ==
  ASSUME TypeOK, Raise
  PROVE  selected' = FALSE /\ shift' \in Words /\ registers' \in [Registers -> Bytes]
  BY ExecuteType DEF Raise, TypeOK

LEMMA TypeStep == ASSUME TypeOK, [Next]_vars PROVE TypeOK'
  <1> USE DEF TypeOK, chip, observers
  <1>1. ASSUME NEW kind \in {"read", "write"}, NEW a \in Registers, NEW v \in Values,
               Begin(kind, a, v)
        PROVE  TypeOK'
    BY <1>1 DEF Begin, Results
  <1>2. CASE SetLow("select", "write") \/ SetLow("reselect", "transfer") \/ SetLowFails
    BY <1>2 DEF SetLow, SetLowFails, Return, Results
  <1>3. CASE Write
    <2>1. shift' \in Words
      BY <1>3, FrameType, ClockedType, BusAssumption DEF Write
    <2>2. QED BY <2>1, <1>3 DEF Write
  <1>4. CASE Transfer
    <2>1. NoopFrame \in Words
      BY ZeroIsByte, WordPairs DEF NoopFrame, Noop
    <2>2. shift' \in Words
      BY <1>4, <2>1, ClockedType, BusAssumption DEF Transfer
    <2>3. QED BY <2>2, <1>4 DEF Transfer
  <1>5. CASE Deselect
    BY <1>5, RaiseType DEF Deselect, Return, Results
  <1>6. CASE Finish
    BY <1>6, RaiseType DEF Finish, Return, Results
  <1>7. CASE SetHighFails
    BY <1>7, RaiseType DEF SetHighFails, Return, Results
  <1>8. CASE ChipReset
    BY <1>8, ZeroIsByte, WordPairs, BusAssumption DEF ChipReset
  <1>9. CASE UNCHANGED vars
    BY <1>9 DEF vars
  <1>10. QED BY <1>1, <1>2, <1>3, <1>4, <1>5, <1>6, <1>7, <1>8, <1>9
         DEF Next, write_register, read_register

\* The call, its locals, the chip select and the chip keep their types under
\* every fault of the bus.
THEOREM TypeCorrect == Spec => []TypeOK
  <1>1. Init => TypeOK
    BY BusAssumption, ZeroIsByte, WordPairs DEF Init, TypeOK, Results
  <1>2. QED BY <1>1, TypeStep, PTL DEF Spec

-----------------------------------------------------------------------------
(* The invariant of the bus. *)

LEMMA BeginInv ==
  ASSUME TypeOK, BusInv, NEW kind \in {"read", "write"}, NEW a \in Registers,
         NEW v \in Values, Begin(kind, a, v)
  PROVE  BusInv'
  BY DEF TypeOK, BusInv, Begin, chip, SelectedInv, FrameInv, ReadInv, NoopInv, ProgressInv,
         WritesLand, ReadsAreCurrent, SoundCallsSucceed, Returned

LEMMA SelectInv ==
  ASSUME TypeOK, BusInv,
         SetLow("select", "write") \/ SetLow("reselect", "transfer") \/ SetLowFails
  PROVE  BusInv'
  BY DEF TypeOK, BusInv, SetLow, SetLowFails, Return, observers, SelectedInv, FrameInv,
         ReadInv, NoopInv, ProgressInv, WritesLand, ReadsAreCurrent, SoundCallsSucceed,
         Returned, Frame

LEMMA WriteInv ==
  ASSUME TypeOK, BusInv, Write
  PROVE  BusInv'
  <1>1. pc = "write" /\ pc' = "deselect" /\ selected /\ "spi" \notin trouble
    BY DEF Write, BusInv, SelectedInv, ProgressInv
  <1>2. UNCHANGED <<call, got, result, seen, selected, registers>>
    BY DEF Write
  <1>3. Frame' = Frame
    BY <1>2 DEF Frame
  <1>4. \/ shift' = Frame /\ spiOk' = TRUE /\ trouble' = trouble
        \/ spiOk' = FALSE /\ trouble' = trouble \cup {"spi"}
    BY <1>1 DEF Write, Clocked, ClockedIn
  <1>5. QED BY <1>1, <1>2, <1>3, <1>4
        DEF BusInv, SelectedInv, FrameInv, ReadInv, NoopInv, ProgressInv, WritesLand,
            ReadsAreCurrent, SoundCallsSucceed, Returned

LEMMA TransferInv ==
  ASSUME TypeOK, BusInv, Transfer
  PROVE  BusInv'
  <1>1. /\ pc = "transfer" /\ pc' = "finish" /\ selected
        /\ "spi" \notin trouble /\ call.kind = "read"
    BY DEF Transfer, BusInv, SelectedInv, ProgressInv
  <1>2. UNCHANGED <<call, result, seen, selected, registers>>
    BY DEF Transfer
  <1>3. Frame' = Frame
    BY <1>2 DEF Frame
  <1>4. \/ /\ shift' = NoopFrame /\ got' = shift
           /\ spiOk' = TRUE /\ trouble' = trouble
        \/ spiOk' = FALSE /\ trouble' = trouble \cup {"spi"}
    BY <1>1 DEF Transfer, Clocked, ClockedIn
  <1>5. ReadInv'
    BY <1>1, <1>2, <1>3, <1>4 DEF BusInv, ReadInv
  <1>6. NoopInv'
    BY <1>4 DEF NoopInv, NoopFrame
  <1>7. QED BY <1>1, <1>2, <1>4, <1>5, <1>6
        DEF BusInv, SelectedInv, FrameInv, ProgressInv, WritesLand, ReadsAreCurrent,
            SoundCallsSucceed, Returned

LEMMA DeselectInv ==
  ASSUME TypeOK, BusInv, Deselect
  PROVE  BusInv'
  <1>1. pc = "deselect" /\ selected /\ Execute
    BY DEF Deselect, BusInv, SelectedInv, Raise
  <1>2. UNCHANGED <<call, spiOk, got, trouble, seen>>
    BY DEF Deselect, observers
  <1>3. Frame' = Frame
    BY <1>2 DEF Frame
  <1>4. spiOk => shift = Frame \/ ("reset" \in trouble /\ shift = <<0, 0>>)
    BY <1>1 DEF BusInv, FrameInv
  <1>5. CASE spiOk /\ call.kind = "read" /\ pc' = "reselect" /\ result' = result
    <2>1. /\ registers' = registers
          /\ shift' = <<Frame[1], registers[call.addr]>>
             \/ ("reset" \in trouble /\ shift' = <<0, 0>>)
      BY <1>1, <1>4, <1>5, ExecuteFrame
    <2>2. registers[call.addr] \in seen
      BY <1>1, <1>5 DEF BusInv, ReadInv
    <2>3. ReadInv'
      BY <1>2, <1>3, <1>5, <2>1, <2>2, FrameType DEF ReadInv
    <2>4. ProgressInv'
      BY <1>1, <1>2, <1>5 DEF BusInv, ProgressInv
    <2>5. QED BY <1>5, <2>3, <2>4
          DEF BusInv, SelectedInv, FrameInv, NoopInv, WritesLand, ReadsAreCurrent,
              SoundCallsSucceed, Returned
  <1>6. CASE spiOk /\ call.kind = "write" /\ Return("Ok")
    <2>1. "reset" \notin trouble => registers'[call.addr] = call.value
      BY <1>1, <1>4, <1>6, ExecuteFrame DEF TypeOK
    <2>2. QED BY <1>2, <1>6, <2>1
          DEF BusInv, Return, SelectedInv, FrameInv, ReadInv, NoopInv, ProgressInv,
              WritesLand, ReadsAreCurrent, SoundCallsSucceed, Returned
  <1>7. CASE ~spiOk /\ Return("WriteError")
    BY <1>1, <1>2, <1>7
    DEF BusInv, Return, SelectedInv, FrameInv, ReadInv, NoopInv, ProgressInv,
        WritesLand, ReadsAreCurrent, SoundCallsSucceed, Returned
  <1>8. QED BY <1>5, <1>6, <1>7 DEF Deselect, FirstFrameOk

LEMMA FinishInv ==
  ASSUME TypeOK, BusInv, Finish
  PROVE  BusInv'
  <1>1. pc = "finish" /\ pc' = "idle" /\ call.kind = "read"
    BY DEF Finish, Return, BusInv, ProgressInv
  <1>2. UNCHANGED <<call, spiOk, got, trouble, seen>>
    BY DEF Finish, observers
  <1>3. result' = "Ok" => got[2] \in seen
    BY <1>1 DEF Finish, Return, AddressEchoed, BusInv, ReadInv
  <1>4. trouble = {} => result' = "Ok"
    BY <1>1 DEF Finish, Return, AddressEchoed, BusInv, ReadInv, ProgressInv
  <1>5. QED BY <1>1, <1>2, <1>3, <1>4
        DEF BusInv, SelectedInv, FrameInv, ReadInv, NoopInv, ProgressInv, WritesLand,
            ReadsAreCurrent, SoundCallsSucceed, Returned

LEMMA FailInv ==
  ASSUME TypeOK, BusInv, SetHighFails
  PROVE  BusInv'
  BY DEF BusInv, SetHighFails, Return, SelectedInv, FrameInv, ReadInv, NoopInv, ProgressInv,
         WritesLand, ReadsAreCurrent, SoundCallsSucceed, Returned

LEMMA ResetInv ==
  ASSUME TypeOK, BusInv, ChipReset
  PROVE  BusInv'
  <1>1. /\ UNCHANGED <<call, pc, spiOk, got, result, selected>>
        /\ shift' = <<0, 0>> /\ registers'[call.addr] = ResetValue
        /\ trouble' = trouble \cup {"reset"} /\ seen' = seen \cup {ResetValue}
    BY DEF ChipReset, TypeOK
  <1>2. Frame' = Frame
    BY <1>1 DEF Frame
  <1>3. ReadInv'
    BY <1>1, <1>2, FrameType DEF BusInv, ReadInv
  <1>4. QED BY <1>1, <1>2, <1>3
        DEF BusInv, SelectedInv, FrameInv, NoopInv, NoopFrame, Noop, ProgressInv, WritesLand,
            ReadsAreCurrent, SoundCallsSucceed, Returned

\* Frames stay whole or are known to be broken, whatever fails.
THEOREM BusInvariant == Spec => []BusInv
  <1>1. Init => BusInv
    BY DEF Init, BusInv, SelectedInv, FrameInv, ReadInv, NoopInv, ProgressInv, WritesLand,
           ReadsAreCurrent, SoundCallsSucceed, Returned
  <1>2. TypeOK /\ BusInv /\ [Next]_vars => BusInv'
    <2> SUFFICES ASSUME TypeOK, BusInv, [Next]_vars PROVE BusInv'
      OBVIOUS
    <2>1. CASE UNCHANGED vars
      BY <2>1 DEF vars, chip, observers, BusInv, SelectedInv, FrameInv, ReadInv, NoopInv,
         ProgressInv, WritesLand, ReadsAreCurrent, SoundCallsSucceed, Returned, Frame
    <2>2. call.value \in Values
      BY DEF TypeOK
    <2>3. ASSUME NEW a \in Registers, read_register(a) PROVE BusInv'
      BY <2>2, <2>3, BeginInv DEF read_register
    <2>4. QED BY <2>1, <2>3, BeginInv, SelectInv, WriteInv, TransferInv, DeselectInv, FinishInv,
               FailInv, ResetInv DEF Next, write_register
  <1>3. QED BY <1>1, <1>2, TypeCorrect, PTL DEF Spec

\* A write that returned Ok is in the register, unless the chip was reset.
THEOREM WriteOkLands == Spec => []WritesLand
  <1>1. BusInv => WritesLand
    BY DEF BusInv
  <1>2. QED BY <1>1, BusInvariant, PTL

\* A read that returned Ok returned a value the register had during the call.
THEOREM ReadOkIsCurrent == Spec => []ReadsAreCurrent
  <1>1. BusInv => ReadsAreCurrent
    BY DEF BusInv
  <1>2. QED BY <1>1, BusInvariant, PTL

\* A call in which nothing goes wrong returns Ok, whatever happened before it.
THEOREM SoundCallsReturnOk == Spec => []SoundCallsSucceed
  <1>1. BusInv => SoundCallsSucceed
    BY DEF BusInv
  <1>2. QED BY <1>1, BusInvariant, PTL

\* No register changes but the one written, unless the SPI reported an error.
THEOREM AddressedOnly == Spec => OnlyAddressedRegisterChanges
  <1>1. TypeOK /\ BusInv /\ [Next]_vars => [RegisterChangeAllowed]_vars
    <2> SUFFICES ASSUME TypeOK, BusInv, Next, "spi" \notin trouble, ~ChipReset,
                        NEW a \in Registers, registers'[a] # registers[a]
                 PROVE  call.kind = "write" /\ a = call.addr /\ registers'[a] = call.value
      BY DEF RegisterChangeAllowed, vars, chip
    <2>1. pc \in {"deselect", "finish"} /\ Execute
      BY DEF Next, write_register, read_register, Begin, SetLow, SetLowFails, Write, Transfer,
         Deselect, Finish, SetHighFails, Raise, chip
    <2>2. spiOk
      BY <2>1 DEF BusInv, ProgressInv
    <2>3. shift = Frame \/ shift = <<0, 0>>
      BY <2>1, <2>2 DEF BusInv, FrameInv, NoopInv, NoopFrame, Noop
    <2>4. call.kind \in {"read", "write"}
      BY DEF TypeOK
    <2>5. QED BY <2>1, <2>3, <2>4, ExecuteFrame DEF TypeOK
  <1>2. QED BY <1>1, TypeCorrect, BusInvariant, PTL DEF Spec, OnlyAddressedRegisterChanges

-----------------------------------------------------------------------------
(* The refinement of AtomicMemory: one lemma per step that it can see.       *)

LEMMA AccessType == TypeOK => Memory!TypeOK
  <1> SUFFICES ASSUME TypeOK PROVE Memory!TypeOK
    OBVIOUS
  <1>1. got[2] \in Bytes /\ shift[2] \in Bytes /\ call.value \in Bytes
    BY BusAssumption DEF TypeOK, Words
  <1>2. call.kind \in {"read", "write"}
    BY DEF TypeOK
  <1>3. Answer \in Bytes
    BY <1>1, <1>2 DEF Answer
  <1>4. Progress \in {"called", "taken", "ok", "error", "panic"}
    BY DEF Progress
  <1>5. Access \in Memory!Ops
    BY <1>2, <1>3, <1>4 DEF Access, Memory!Ops, TypeOK
  <1>6. QED BY <1>5 DEF Memory!TypeOK, TypeOK

\* A step of the one caller's access.
LEMMA AccessGoes ==
  ASSUME NEW v, NEW s, UNCHANGED call, Answer' = v, Progress' = s
  PROVE  Memory!Goes("caller", v, s)
  BY DEF Memory!Goes, Access

LEMMA RaiseLeaves ==
  ASSUME TypeOK, Raise \/ UNCHANGED chip
  PROVE  Memory!Leavings("caller")
  <1>1. CASE registers' = registers
    BY <1>1 DEF Memory!Leavings
  <1>2. CASE registers' # registers
    <2>1. /\ Address(shift[1]) \in Registers
          /\ registers' = [registers EXCEPT ![Address(shift[1])] = shift[2]]
      BY <1>2 DEF Raise, Execute, Stored, chip
    <2>2. shift[2] \in Bytes
      BY DEF TypeOK, Words
    <2>3. QED BY <2>1, <2>2 DEF Memory!Leavings
  <1>3. QED BY <1>1, <1>2

LEMMA FailureFails ==
  ASSUME TypeOK, pc # "idle", pc' = "idle", result' \in Results \ {"none", "Ok"},
         UNCHANGED call, Raise \/ UNCHANGED chip \/ UNCHANGED registers
  PROVE  Memory!Fails("caller")
  <1>1. Progress \in {"called", "taken"} /\ Progress' = "error"
    BY DEF Progress
  <1>2. Memory!Goes("caller", Answer', Progress')
    BY AccessGoes
  <1>3. Memory!Leavings("caller")
    BY RaiseLeaves DEF Memory!Leavings
  <1>4. Access.state = Progress /\ Access'.state = Progress' /\ Access'.value = Answer'
    BY DEF Access
  <1>5. QED BY <1>1, <1>2, <1>3, <1>4 DEF Memory!Fails, Memory!Over

LEMMA BeginCalls ==
  ASSUME TypeOK, TypeOK', pc = "idle", pc' = "select", UNCHANGED registers
  PROVE  Memory!Call("caller")
  <1>1. Access.state \in {"ok", "error"} /\ Access'.state = "called"
    BY DEF Access, Progress
  <1>2. Memory!TypeOK'
    BY AccessType, PTL
  <1>3. Access' \in Memory!Ops
    BY <1>2 DEF Memory!TypeOK, Memory!Ops
  <1>4. QED BY <1>1, <1>3 DEF Memory!Call, Memory!Over

LEMMA DeselectMoves ==
  ASSUME TypeOK, BusInv, Deselect
  PROVE  Memory!Next
  <1>1. /\ selected /\ Execute /\ Frame' = Frame
        /\ shift = Frame \/ shift = <<0, 0>> \/ ~spiOk
        /\ call.kind \in {"read", "write"}
        /\ Frame[1] # 0
    BY FrameType DEF BusInv, SelectedInv, FrameInv, Deselect, Raise, Frame, TypeOK
  <1>2. CASE spiOk /\ call.kind = "read" /\ shift = Frame
    <2>1. registers' = registers /\ shift' = <<Frame[1], registers[call.addr]>>
      BY <1>1, <1>2, ExecuteFrame
    <2>2. Memory!Goes("caller", registers[call.addr], "taken")
      <3>1. Answer' = registers[call.addr] /\ Progress' = "taken" /\ UNCHANGED call
        BY <1>1, <1>2, <2>1 DEF Deselect, FirstFrameOk, Answer, Progress
      <3>2. QED BY <3>1, AccessGoes
    <2>3. Access.kind = "read" /\ Access.state = "called" /\ Access.cell = call.addr
      BY <1>2 DEF Access, Progress, Deselect
    <2>4. Memory!ReadTaken("caller")
      BY <2>1, <2>2, <2>3 DEF Memory!ReadTaken
    <2>5. QED BY <2>4 DEF Memory!Next
  <1>3. CASE spiOk /\ call.kind = "read" /\ shift = <<0, 0>>
    <2>1. registers' = registers /\ shift' = <<0, 0>>
      BY <1>1, <1>3, ExecuteFrame
    <2>2. Memory!Goes("caller", Access'.value, "called")
      <3>1. Progress' = "called" /\ UNCHANGED call
        BY <1>1, <1>3, <2>1 DEF Deselect, FirstFrameOk, Progress
      <3>2. Access'.value = Answer'
        BY DEF Access
      <3>3. QED BY <3>1, <3>2, AccessGoes
    <2>3. Access.kind = "read" /\ Access.state = "called"
      BY <1>3 DEF Access, Progress, Deselect
    <2>4. Memory!ReadLost("caller")
      BY <2>1, <2>2, <2>3 DEF Memory!ReadLost, Memory!Over
    <2>5. QED BY <2>4 DEF Memory!Next
  <1>4. CASE spiOk /\ call.kind = "write" /\ shift = Frame
    <2>1. registers' = [registers EXCEPT ![call.addr] = call.value]
      BY <1>1, <1>4, ExecuteFrame
    <2>2. Memory!Goes("caller", Access.value, "ok")
      <3>1. Answer' = Access.value /\ Progress' = "ok" /\ UNCHANGED call
        BY <1>1, <1>4 DEF Deselect, FirstFrameOk, Return, Access, Answer, Progress
      <3>2. QED BY <3>1, AccessGoes
    <2>3. /\ Access.kind = "write" /\ Access.state = "called"
          /\ Access.cell = call.addr /\ Access.value = call.value
      BY <1>4 DEF Access, Answer, Progress, Deselect
    <2>4. Memory!WriteOk("caller")
      BY <2>1, <2>2, <2>3 DEF Memory!WriteOk, Memory!Applied
    <2>5. QED BY <2>4 DEF Memory!Next
  <1>5. CASE spiOk /\ call.kind = "write" /\ shift = <<0, 0>>
    <2>1. registers' = registers /\ shift # Frame
      BY <1>1, <1>5, ExecuteFrame
    <2>2. Memory!Goes("caller", Access.value, "ok") /\ Access.state = "taken"
      <3>1. /\ Answer' = Access.value /\ Progress' = "ok" /\ UNCHANGED call
            /\ Access.state = "taken"
        BY <1>1, <1>5, <2>1 DEF Deselect, FirstFrameOk, Return, Access, Answer, Progress
      <3>2. QED BY <3>1, AccessGoes
    <2>3. Memory!TakenOk("caller")
      BY <2>1, <2>2 DEF Memory!TakenOk
    <2>4. QED BY <2>3 DEF Memory!Next
  <1>6. CASE ~spiOk
    <2>1. Memory!Fails("caller")
      BY <1>6, FailureFails DEF Deselect, FirstFrameOk, Return, Results
    <2>2. QED BY <2>1 DEF Memory!Next
  <1>7. QED BY <1>1, <1>2, <1>3, <1>4, <1>5, <1>6

LEMMA FinishMoves ==
  ASSUME TypeOK, BusInv, Finish
  PROVE  Memory!Next
  <1>1. call.kind = "read" /\ Frame' = Frame
    BY DEF BusInv, ProgressInv, Finish, Frame
  <1>2. CASE spiOk /\ AddressEchoed
    <2>1. registers' = registers
      BY <1>2, ExecuteFrame DEF BusInv, NoopInv, NoopFrame, Noop, Finish, Raise
    <2>2. Memory!Goes("caller", Access.value, "ok") /\ Access.state = "taken"
      <3>1. /\ Answer' = Access.value /\ Progress' = "ok" /\ UNCHANGED call
            /\ Access.state = "taken"
        BY <1>1, <1>2 DEF Finish, Return, Access, Answer, Progress
      <3>2. QED BY <3>1, AccessGoes
    <2>3. Memory!TakenOk("caller")
      BY <2>1, <2>2 DEF Memory!TakenOk
    <2>4. QED BY <2>3 DEF Memory!Next
  <1>3. CASE ~(spiOk /\ AddressEchoed)
    <2>1. Memory!Fails("caller")
      BY <1>3, FailureFails DEF Finish, Return, Results
    <2>2. QED BY <2>1 DEF Memory!Next
  <1>4. QED BY <1>2, <1>3

LEMMA TransferMoves ==
  ASSUME TypeOK, BusInv, Transfer
  PROVE  UNCHANGED Memory!vars \/ Memory!Next
  <1>1. call.kind = "read" /\ Frame' = Frame /\ registers' = registers /\ call' = call
    BY DEF BusInv, ProgressInv, Transfer, Frame
  <1>2. CASE spiOk'
    <2>1. got' = shift
      BY <1>2 DEF Transfer
    <2>2. Access' = Access
      BY <1>1, <1>2, <2>1 DEF Transfer, Access, Answer, Progress, AddressEchoed
    <2>3. QED BY <1>1, <2>2 DEF Memory!vars
  <1>3. CASE ~spiOk'
    <2>1. /\ Memory!Goes("caller", Access'.value, "called")
          /\ Access.kind = "read" /\ Access.state \in {"called", "taken"}
      <3>1. Progress' = "called" /\ Progress \in {"called", "taken"}
        BY <1>1, <1>3 DEF Transfer, Progress
      <3>2. /\ Access'.value = Answer' /\ Access.kind = call.kind
            /\ Access.state = Progress
        BY DEF Access
      <3>3. QED BY <1>1, <3>1, <3>2, AccessGoes
    <2>2. Memory!ReadLost("caller")
      BY <1>1, <2>1 DEF Memory!ReadLost, Memory!Over
    <2>3. QED BY <2>2 DEF Memory!Next
  <1>4. QED BY <1>2, <1>3

LEMMA ResetMoves ==
  ASSUME TypeOK, BusInv, ChipReset
  PROVE  Memory!Reset
  <1>1. /\ Frame' = Frame /\ Frame[1] # 0 /\ shift' = <<0, 0>>
        /\ call.kind \in {"read", "write"}
    BY FrameType DEF ChipReset, Frame, TypeOK
  <1>2. /\ registers' = [a \in Registers |-> ResetValue] /\ ChipMayReset
        /\ UNCHANGED <<call, pc, spiOk, got, result>>
    BY DEF ChipReset
  <1>3. CASE pc \in {"reselect", "transfer"}
    <2>1. /\ Memory!Goes("caller", Access'.value, "called")
          /\ Access.kind = "read" /\ Access.state \in {"called", "taken"}
      <3>1. /\ Progress' = "called" /\ Progress \in {"called", "taken"}
            /\ call.kind = "read"
        BY <1>1, <1>2, <1>3 DEF Progress, BusInv, ProgressInv
      <3>2. /\ Access'.value = Answer' /\ Access.kind = call.kind
            /\ Access.state = Progress
        BY DEF Access
      <3>3. QED BY <1>2, <3>1, <3>2, AccessGoes
    <2>2. QED BY <1>2, <2>1 DEF Memory!Reset, Memory!Over
  <1>4. CASE pc = "deselect" /\ call.kind = "write" /\ spiOk /\ shift = Frame
    <2>1. /\ Memory!Goes("caller", Access.value, "taken")
          /\ Access.kind = "write" /\ Access.state = "called"
      <3>1. Answer' = Answer /\ Progress = "called" /\ Progress' = "taken"
        BY <1>1, <1>2, <1>4 DEF Answer, Progress
      <3>2. Access.value = Answer /\ Access.kind = call.kind /\ Access.state = Progress
        BY DEF Access
      <3>3. QED BY <1>2, <1>4, <3>1, <3>2, AccessGoes
    <2>2. QED BY <1>2, <2>1 DEF Memory!Reset
  <1>5. CASE pc \notin {"reselect", "transfer"}
             /\ ~(pc = "deselect" /\ call.kind = "write" /\ spiOk /\ shift = Frame)
    <2>1. Answer' = Answer
      BY <1>1, <1>2, <1>5 DEF Answer
    <2>2. shift' # Frame
      BY <1>1
    <2>3. Progress' = Progress
      BY <1>1, <1>2, <1>5, <2>2 DEF Progress, AddressEchoed
    <2>4. QED BY <1>2, <2>1, <2>3 DEF Access, Memory!Reset
  <1>6. QED BY <1>3, <1>4, <1>5

\* The interface implements a memory of registers, whatever the HAL and the power
\* supply do: a failed access may spoil one register, no successful one goes wrong.
THEOREM Implementation == Spec => ImplementsMemory
  <1>1. Init => Memory!Init
    <2> SUFFICES ASSUME Init PROVE Memory!Init
      OBVIOUS
    <2>1. TypeOK
      BY WordPairs, ZeroIsByte, BusAssumption DEF Init, TypeOK, Results
    <2>2. Memory!TypeOK /\ Access.state = "ok"
      BY <2>1, AccessType DEF Init, Access, Progress
    <2>3. QED BY <2>2 DEF Memory!Init, Memory!TypeOK
  <1>2. TypeOK /\ TypeOK' /\ BusInv /\ [Next]_vars =>
          [Memory!Next /\ Memory!TypeOK']_Memory!vars
    <2> SUFFICES ASSUME TypeOK, TypeOK', BusInv, [Next]_vars
                 PROVE  Memory!Next \/ UNCHANGED Memory!vars
      <3>1. TypeOK' => Memory!TypeOK'
        BY AccessType, PTL
      <3>2. QED BY <3>1
    <2>1. CASE UNCHANGED vars
      BY <2>1 DEF vars, chip, Memory!vars, Access, Answer, Progress, AddressEchoed, Frame
    <2>2. ASSUME NEW kind, NEW a, NEW v, Begin(kind, a, v) PROVE Memory!Next
      BY <2>2, BeginCalls DEF Begin, chip, Memory!Next
    <2>3. ASSUME NEW from, NEW to, SetLow(from, to),
                 <<from, to>> \in {<<"select", "write">>, <<"reselect", "transfer">>}
          PROVE  UNCHANGED Memory!vars
      BY <2>3 DEF SetLow, Memory!vars, Access, Answer, Progress, Frame
    <2>4. CASE SetLowFails \/ SetHighFails
      <3>1. Memory!Fails("caller")
        BY <2>4, FailureFails DEF SetLowFails, SetHighFails, Return, Results
      <3>2. QED BY <3>1 DEF Memory!Next
    <2>5. CASE Write
      <3>1. selected
        BY <2>5 DEF BusInv, SelectedInv, Write
      <3>2. spiOk' => shift' = Frame'
        BY <2>5, <3>1 DEF Write, Clocked, ClockedIn, Frame
      <3>3. QED BY <2>5, <3>2 DEF Write, Memory!vars, Access, Answer, Progress
    <2>6. CASE ChipReset
      BY <2>6, ResetMoves DEF Memory!Next
    <2>7. QED BY <2>1, <2>2, <2>3, <2>4, <2>5, <2>6, TransferMoves, DeselectMoves, FinishMoves
              DEF Next, write_register, read_register
  <1>3. QED BY <1>1, <1>2, TypeCorrect, BusInvariant, PTL DEF Spec, ImplementsMemory, Memory!Spec
=============================================================================
