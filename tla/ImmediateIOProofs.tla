-------------------------- MODULE ImmediateIOProofs --------------------------
(* Theorems about ImmediateIO, for any contexts, ports and inputs. *)
EXTENDS ImmediateIO, TLAPS

LEMMA WordPairs ==
  ASSUME NEW x \in Bytes, NEW y \in Bytes
  PROVE  <<x, y>> \in Words
  BY DEF Words

LEMMA BitIsByte == 0 \in Bytes /\ 1 \in Bytes
  BY BusAssumption DEF Bytes

LEMMA LowBitPair ==
  ASSUME NEW w \in Words
  PROVE  /\ LowBit(w)[1] = w[1] /\ LowBit(w)[2] \in {0, 1}
         /\ w[2] \in {0, 1} => LowBit(w)[2] = w[2]
  <1>1. w[2] \in Int /\ LowBit(w)[1] = w[1] /\ LowBit(w)[2] = w[2] % 2
    BY DEF Words, Bytes, LowBit
  <1>2. QED BY <1>1

LEMMA PortRegister ==
  ASSUME NEW p \in Ports
  PROVE  /\ RegisterOf(p) \in Registers /\ RegisterOf(p) - SinglePortBase = p
         /\ RegisterOf(p) \in InputRegisters <=> p \in Inputs
         /\ \A q \in Ports : RegisterOf(q) = RegisterOf(p) => q = p
  BY BusAssumption DEF RegisterOf, InputRegisters

LEMMA FrameType ==
  ASSUME TypeOK, NEW c \in Contexts
  PROVE  /\ RegisterOf(call[c].port) \in Registers
         /\ RegisterOf(call[c].port) \in 1..(ReadBit - 1)
         /\ Frame(c) \in Words
         /\ call[c].kind = "write" =>
              Frame(c) = <<RegisterOf(call[c].port), IF call[c].bit THEN 1 ELSE 0>>
         /\ call[c].kind = "read" => Frame(c) = <<ReadBit + RegisterOf(call[c].port), 0>>
  <1>1. call[c] \in Calls
    BY DEF TypeOK
  <1>2. call[c].port \in Ports /\ call[c].kind \in {"read", "write"}
    BY <1>1 DEF Calls
  <1>3. /\ RegisterOf(call[c].port) \in Registers
        /\ RegisterOf(call[c].port) \in 1..(ReadBit - 1)
    BY <1>2, BusAssumption
  <1>4. /\ RegisterOf(call[c].port) \in Bytes
        /\ ReadBit + RegisterOf(call[c].port) \in Bytes
    BY <1>3, BusAssumption DEF Bytes
  <1>5. CASE call[c].kind = "write"
    <2>1. Frame(c) = <<RegisterOf(call[c].port), IF call[c].bit THEN 1 ELSE 0>>
      BY <1>5 DEF Frame, WriteFrame
    <2>2. (IF call[c].bit THEN 1 ELSE 0) \in Bytes
      BY BitIsByte
    <2>3. QED BY <1>3, <1>4, <1>5, <2>1, <2>2, WordPairs
  <1>6. CASE call[c].kind = "read"
    <2>1. Frame(c) = <<ReadBit + RegisterOf(call[c].port), 0>>
      BY <1>6 DEF Frame, ReadFrame
    <2>2. QED BY <1>3, <1>4, <1>6, <2>1, BitIsByte, WordPairs
  <1>7. QED BY <1>2, <1>5, <1>6

LEMMA SensedType ==
  ASSUME TypeOK
  PROVE  Sensed \in [Registers -> Bytes]
  BY BitIsByte DEF Sensed, TypeOK

LEMMA RaiseType ==
  ASSUME TypeOK, Raise
  PROVE  /\ selected' = FALSE /\ level' = level
         /\ shift' \in Words /\ registers' \in [Registers -> {0, 1}]
  <1>1. shift[1] \in Bytes /\ shift[2] \in Bytes /\ shift = <<shift[1], shift[2]>>
    BY DEF TypeOK, Words
  <1>2. LowBit(shift)[2] \in {0, 1}
    BY LowBitPair DEF TypeOK
  <1>3. QED BY <1>1, <1>2, WordPairs, SensedType DEF TypeOK, Raise, Latched, Stored

LEMMA ClockedType ==
  ASSUME TypeOK, NEW f \in Words, NEW n \in 0..2
  PROVE  /\ Clocked(f, n) \in Words
         /\ selected => Clocked(f, 2) = f
  <1>1. f[1] \in Bytes /\ shift[2] \in Bytes /\ shift \in Words
    BY DEF TypeOK, Words
  <1>2. <<shift[2], f[1]>> \in Words
    BY <1>1, WordPairs
  <1>3. QED BY <1>1, <1>2 DEF Clocked, ClockedIn

LEMMA NoopType == NoopFrame \in Words
  BY BitIsByte, WordPairs DEF NoopFrame, Noop

\* A HAL call that fails or panics leaves pin and chip with their types.
LEMMA CutShortType ==
  ASSUME TypeOK, NEW c \in Contexts, CutShort(c)
  PROVE  /\ selected' \in BOOLEAN /\ level' = level
         /\ shift' \in Words /\ registers' \in [Registers -> {0, 1}]
  <1>1. CASE At(c, "write") \/ At(c, "transfer")
    <2>1. PICK f \in Words, n \in 0..2 : shift' = Clocked(f, n)
      BY <1>1, FrameType, NoopType DEF CutShort, At
    <2>2. QED BY <1>1, <2>1, ClockedType DEF CutShort, At, TypeOK
  <1>2. CASE ~(At(c, "write") \/ At(c, "transfer"))
    BY <1>2, RaiseType DEF CutShort, At, chip, TypeOK
  <1>3. QED BY <1>1, <1>2

\* A call of c that has locals r next.
LEMMA BecomesEffect ==
  ASSUME TypeOK, NEW c \in Contexts, NEW r \in Calls, Becomes(c, r),
         r.pc = "idle" <=> r.result # "none"
  PROVE  /\ call' \in [Contexts -> Calls]
         /\ \A d \in Contexts : call'[d].pc = "idle" <=> call'[d].result # "none"
         /\ call'[c] = r
         /\ \A d \in Contexts : d # c => call'[d] = call[d]
  BY DEF TypeOK, Becomes

LEMMA GoesEffect ==
  ASSUME TypeOK, NEW c \in Contexts, call[c].pc # "idle",
         NEW pc \in {"select", "write", "reselect", "transfer"}, Goes(c, pc)
  PROVE  /\ call' \in [Contexts -> Calls]
         /\ \A d \in Contexts : call'[d].pc = "idle" <=> call'[d].result # "none"
         /\ call'[c] = [call[c] EXCEPT !.pc = pc]
         /\ \A d \in Contexts : d # c => call'[d] = call[d]
  <1> DEFINE r == [call[c] EXCEPT !.pc = pc]
  <1>1. r \in Calls /\ r.pc # "idle" /\ r.result = "none"
    BY DEF TypeOK, Calls
  <1>2. Becomes(c, r)
    BY DEF Goes
  <1> HIDE DEF r
  <1>3. /\ call' \in [Contexts -> Calls] /\ call'[c] = r
        /\ \A d \in Contexts : call'[d].pc = "idle" <=> call'[d].result # "none"
        /\ \A d \in Contexts : d # c => call'[d] = call[d]
    BY <1>1, <1>2, BecomesEffect
  <1>4. QED BY <1>3 DEF r

LEMMA LeaveEffect ==
  ASSUME TypeOK, NEW c \in Contexts, NEW result \in {"ok", "error", "panic"},
         NEW b \in BOOLEAN, Leave(c, result, b)
  PROVE  /\ holder' = NoOne
         /\ call' \in [Contexts -> Calls]
         /\ \A d \in Contexts : call'[d].pc = "idle" <=> call'[d].result # "none"
         /\ call'[c].pc = "idle" /\ call'[c].result = result /\ call'[c].bit = b
         /\ call'[c].kind = call[c].kind /\ call'[c].port = call[c].port
         /\ \A d \in Contexts : d # c => call'[d] = call[d]
  <1> DEFINE r == [call[c] EXCEPT !.pc = "idle", !.bit = b, !.halOk = TRUE,
                                  !.got = <<0, 0>>, !.result = result]
  <1>1. <<0, 0>> \in Words
    BY BitIsByte, WordPairs
  <1>2. r \in Calls /\ (r.pc = "idle" <=> r.result # "none")
    BY <1>1 DEF TypeOK, Calls
  <1>3. Becomes(c, r) /\ holder' = NoOne
    BY DEF Leave, Released
  <1>4. /\ r.pc = "idle" /\ r.result = result /\ r.bit = b
        /\ r.kind = call[c].kind /\ r.port = call[c].port
    BY DEF TypeOK, Calls
  <1> HIDE DEF r
  <1>5. /\ call' \in [Contexts -> Calls] /\ call'[c] = r
        /\ \A d \in Contexts : call'[d].pc = "idle" <=> call'[d].result # "none"
        /\ \A d \in Contexts : d # c => call'[d] = call[d]
    BY <1>2, <1>3, BecomesEffect
  <1>6. QED BY <1>3, <1>4, <1>5

LEMMA BeginEffect ==
  ASSUME TypeOK, NEW c \in Contexts, NEW kind \in {"read", "write"}, NEW p \in Ports,
         NEW b \in BOOLEAN, Begin(c, kind, p, b)
  PROVE  /\ call' \in [Contexts -> Calls]
         /\ \A d \in Contexts : call'[d].pc = "idle" <=> call'[d].result # "none"
         /\ call'[c].pc = "lock" /\ call'[c].result = "none"
         /\ \A d \in Contexts : d # c => call'[d] = call[d]
  <1> DEFINE r == [call[c] EXCEPT !.pc = "lock", !.kind = kind, !.port = p, !.bit = b,
                                  !.result = "none"]
  <1>1. r \in Calls /\ (r.pc = "idle" <=> r.result # "none")
    BY DEF TypeOK, Calls
  <1>2. Becomes(c, r)
    BY DEF Begin
  <1> HIDE DEF r
  <1>3. /\ call' \in [Contexts -> Calls] /\ call'[c] = r
        /\ \A d \in Contexts : call'[d].pc = "idle" <=> call'[d].result # "none"
        /\ \A d \in Contexts : d # c => call'[d] = call[d]
    BY <1>1, <1>2, BecomesEffect
  <1>4. r.pc = "lock" /\ r.result = "none"
    BY DEF r, TypeOK, Calls
  <1>5. QED BY <1>3, <1>4

LEMMA LockPoisonedEffect ==
  ASSUME TypeOK, NEW c \in Contexts, LockPoisoned(c)
  PROVE  /\ call' \in [Contexts -> Calls]
         /\ \A d \in Contexts : call'[d].pc = "idle" <=> call'[d].result # "none"
         /\ call'[c] = [call[c] EXCEPT !.pc = "idle", !.bit = FALSE, !.result = "panic"]
         /\ \A d \in Contexts : d # c => call'[d] = call[d]
  <1> DEFINE r == [call[c] EXCEPT !.pc = "idle", !.bit = FALSE, !.result = "panic"]
  <1>1. r \in Calls /\ r.pc = "idle" /\ r.result # "none"
    BY DEF TypeOK, Calls
  <1>2. Becomes(c, r)
    BY DEF LockPoisoned
  <1> HIDE DEF r
  <1>3. /\ call' \in [Contexts -> Calls] /\ call'[c] = r
        /\ \A d \in Contexts : call'[d].pc = "idle" <=> call'[d].result # "none"
        /\ \A d \in Contexts : d # c => call'[d] = call[d]
    BY <1>1, <1>2, BecomesEffect
  <1>4. QED BY <1>3 DEF r

LEMMA WriteEffect ==
  ASSUME TypeOK, NEW c \in Contexts, Write(c) \/ WriteFails(c)
  PROVE  /\ call' \in [Contexts -> Calls]
         /\ \A d \in Contexts : call'[d].pc = "idle" <=> call'[d].result # "none"
         /\ call'[c].pc = "deselect" /\ call'[c].kind = call[c].kind
         /\ call'[c].port = call[c].port /\ call'[c].bit = call[c].bit
         /\ call'[c].halOk => Write(c)
         /\ \A d \in Contexts : d # c => call'[d] = call[d]
  <1> DEFINE r(ok) == [call[c] EXCEPT !.pc = "deselect", !.halOk = ok]
  <1>1. PICK ok \in BOOLEAN : Becomes(c, r(ok)) /\ (ok => Write(c))
    BY DEF Write, WriteFails
  <1>2. /\ r(ok) \in Calls /\ r(ok).pc = "deselect" /\ r(ok).result = "none"
        /\ r(ok).kind = call[c].kind /\ r(ok).port = call[c].port
        /\ r(ok).bit = call[c].bit /\ (r(ok).halOk => ok)
    BY DEF TypeOK, Calls, Write, WriteFails, At
  <1>3. /\ call' \in [Contexts -> Calls] /\ call'[c] = r(ok)
        /\ \A d \in Contexts : call'[d].pc = "idle" <=> call'[d].result # "none"
        /\ \A d \in Contexts : d # c => call'[d] = call[d]
    <2> HIDE DEF r
    <2>1. QED BY <1>1, <1>2, BecomesEffect
  <1> HIDE DEF r
  <1>4. QED BY <1>1, <1>2, <1>3

LEMMA TransferEffect ==
  ASSUME TypeOK, NEW c \in Contexts, Transfer(c) \/ TransferFails(c)
  PROVE  /\ call' \in [Contexts -> Calls]
         /\ \A d \in Contexts : call'[d].pc = "idle" <=> call'[d].result # "none"
         /\ call'[c].pc = "finish" /\ call'[c].kind = call[c].kind
         /\ call'[c].port = call[c].port /\ call'[c].bit = call[c].bit
         /\ call'[c].halOk => Transfer(c) /\ call'[c].got = shift
         /\ Transfer(c) => call'[c].halOk
         /\ \A d \in Contexts : d # c => call'[d] = call[d]
  <1> DEFINE r(ok, g) == [call[c] EXCEPT !.pc = "finish", !.halOk = ok, !.got = g]
  <1>1. PICK ok \in BOOLEAN, g \in Words :
          Becomes(c, r(ok, g)) /\ (ok => Transfer(c) /\ g = shift) /\ (Transfer(c) => ok)
    <2>1. CASE Transfer(c)
      BY <2>1 DEF Transfer, TypeOK
    <2>2. CASE TransferFails(c) /\ ~Transfer(c)
      <3>1. /\ [call[c] EXCEPT !.pc = "finish", !.halOk = FALSE] = r(FALSE, call[c].got)
            /\ call[c].got \in Words
        BY DEF TypeOK, Calls
      <3>2. QED BY <2>2, <3>1 DEF TransferFails
    <2>3. QED BY <2>1, <2>2
  <1>2. /\ r(ok, g) \in Calls /\ r(ok, g).pc = "finish" /\ r(ok, g).result = "none"
        /\ r(ok, g).kind = call[c].kind /\ r(ok, g).port = call[c].port
        /\ r(ok, g).bit = call[c].bit /\ (r(ok, g).halOk <=> ok) /\ r(ok, g).got = g
    BY DEF TypeOK, Calls, Transfer, TransferFails, At
  <1>3. /\ call' \in [Contexts -> Calls] /\ call'[c] = r(ok, g)
        /\ \A d \in Contexts : call'[d].pc = "idle" <=> call'[d].result # "none"
        /\ \A d \in Contexts : d # c => call'[d] = call[d]
    <2> HIDE DEF r
    <2>1. QED BY <1>1, <1>2, BecomesEffect
  <1> HIDE DEF r
  <1>4. QED BY <1>1, <1>2, <1>3

\* The ways out of lock: an answer, an error or a panic.
LEMMA LeavesSomehow ==
  ASSUME TypeOK, NEW c \in Contexts,
         Panic(c) \/ Error(c) \/ (Finish(c) /\ ~Error(c))
  PROVE  \E result \in {"ok", "error", "panic"}, b \in BOOLEAN : Leave(c, result, b)
  <1>1. call[c].bit \in BOOLEAN
    BY DEF TypeOK, Calls
  <1>2. Level(call[c].got[2]) \in BOOLEAN
    BY DEF Level
  <1>3. CASE Panic(c)
    <2>1. Leave(c, "panic", FALSE)
      BY <1>3, Zenon DEF Panic
    <2>2. QED BY <1>1, <2>1, Zenon
  <1>4. CASE Error(c)
    <2>1. Leave(c, "error", FALSE)
      BY <1>4, Zenon DEF Error
    <2>2. QED BY <1>1, <2>1, Zenon
  <1>5. CASE Finish(c) /\ ~Error(c)
    <2>1. Leave(c, "ok", Level(call[c].got[2]))
      BY <1>5, Zenon DEF Finish
    <2>2. QED BY <1>2, <2>1, Zenon
  <1>6. QED BY <1>3, <1>4, <1>5

-----------------------------------------------------------------------------
(* Types. *)

LEMMA TypeStep == ASSUME TypeOK, [Next]_vars PROVE TypeOK'
  <1> DEFINE CallsOK == /\ call \in [Contexts -> Calls]
                        /\ \A d \in Contexts : call[d].pc = "idle" <=> call[d].result # "none"
  <1> SUFFICES CallsOK' /\ holder' \in Contexts \cup {NoOne} /\ poisoned' \in BOOLEAN
               /\ selected' \in BOOLEAN /\ shift' \in Words
               /\ registers' \in [Registers -> {0, 1}] /\ level' \in SUBSET Inputs
    BY DEF TypeOK
  <1> USE DEF mutex, chip
  <1>1. ASSUME NEW c \in Contexts, NEW kind \in {"read", "write"}, NEW p \in Ports,
               NEW b \in BOOLEAN, Begin(c, kind, p, b)
        PROVE  TypeOK'
    <2>1. CallsOK'
      BY <1>1, BeginEffect
    <2>2. UNCHANGED <<mutex, chip>>
      BY <1>1 DEF Begin
    <2>3. QED BY <2>1, <2>2 DEF TypeOK
  <1>2. ASSUME NEW c \in Contexts, Step(c) PROVE TypeOK'
    <2>1. ASSUME NEW result \in {"ok", "error", "panic"}, NEW b \in BOOLEAN,
                 Leave(c, result, b)
          PROVE  CallsOK' /\ holder' \in Contexts \cup {NoOne}
      BY <2>1, LeaveEffect
    <2>2. CASE Lock(c)
      <3>1. CallsOK'
        BY <2>2, GoesEffect DEF Lock, At
      <3>2. QED BY <2>2, <3>1 DEF Lock, TypeOK
    <2>3. CASE LockPoisoned(c)
      <3>1. CallsOK'
        BY <2>3, LockPoisonedEffect
      <3>2. QED BY <2>3, <3>1 DEF LockPoisoned, TypeOK
    <2>4. CASE Panic(c)
      <3>1. CallsOK' /\ holder' \in Contexts \cup {NoOne}
        BY <2>1, <2>4, LeavesSomehow
      <3>2. QED BY <2>4, <3>1, CutShortType DEF Panic, TypeOK
    <2>5. ASSUME NEW from, NEW to \in {"write", "transfer"}, SetLow(c, from, to), from # "idle"
          PROVE  TypeOK'
      <3>1. CallsOK'
        BY <2>5, GoesEffect DEF SetLow, At
      <3>2. QED BY <2>5, <3>1 DEF SetLow, TypeOK
    <2>6. CASE SetLowFails(c)
      <3>1. CallsOK' /\ holder' \in Contexts \cup {NoOne}
        BY <2>1, <2>6, LeavesSomehow DEF SetLowFails
      <3>2. QED BY <2>6, <3>1, CutShortType DEF SetLowFails, Error, TypeOK
    <2>7. CASE Write(c) \/ WriteFails(c)
      <3>1. CallsOK'
        BY <2>7, WriteEffect
      <3>2. Clocked(Frame(c), 2) \in Words
        BY FrameType, ClockedType
      <3>3. QED BY <2>7, <3>1, <3>2, CutShortType DEF Write, WriteFails, TypeOK
    <2>8. CASE Deselect(c)
      <3>1. CASE Error(c)
        <4>1. CallsOK' /\ holder' \in Contexts \cup {NoOne}
          BY <2>1, <3>1, LeavesSomehow
        <4>2. QED BY <2>8, <3>1, <4>1, RaiseType DEF Deselect, Error, TypeOK
      <3>2. CASE Goes(c, "reselect") /\ UNCHANGED mutex
        <4>1. CallsOK'
          BY <2>8, <3>2, GoesEffect DEF Deselect, At
        <4>2. QED BY <2>8, <3>2, <4>1, RaiseType DEF Deselect, TypeOK
      <3>3. CASE Leave(c, "ok", call[c].bit) /\ UNCHANGED poisoned
        <4>1. call[c].bit \in BOOLEAN
          BY DEF TypeOK, Calls
        <4>2. CallsOK' /\ holder' \in Contexts \cup {NoOne}
          BY <2>1, <3>3, <4>1
        <4>3. QED BY <2>8, <3>3, <4>2, RaiseType DEF Deselect, TypeOK
      <3>4. QED BY <2>8, <3>1, <3>2, <3>3 DEF Deselect
    <2>9. CASE Transfer(c) \/ TransferFails(c)
      <3>1. CallsOK'
        BY <2>9, TransferEffect
      <3>2. Clocked(NoopFrame, 2) \in Words
        BY NoopType, ClockedType
      <3>3. QED BY <2>9, <3>1, <3>2, CutShortType DEF Transfer, TransferFails, TypeOK
    <2>10. CASE Finish(c)
      <3>1. CallsOK' /\ holder' \in Contexts \cup {NoOne}
        BY <2>1, <2>10, LeavesSomehow
      <3>2. UNCHANGED poisoned
        BY <2>10 DEF Finish, Error
      <3>3. QED BY <2>10, <3>1, <3>2, RaiseType DEF Finish, TypeOK
    <2>11. CASE SetHighFails(c)
      <3>1. CallsOK' /\ holder' \in Contexts \cup {NoOne}
        BY <2>1, <2>11, LeavesSomehow DEF SetHighFails
      <3>2. QED BY <2>11, <3>1, CutShortType DEF SetHighFails, Error, TypeOK
    <2>12. QED BY <1>2, <2>2, <2>3, <2>4, <2>5, <2>6, <2>7, <2>8, <2>9, <2>10, <2>11 DEF Step
  <1>3. ASSUME NEW p \in Inputs, DriveInput(p) PROVE TypeOK'
    BY <1>3 DEF DriveInput, TypeOK
  <1>4. ASSUME UNCHANGED vars PROVE TypeOK'
    BY <1>4 DEF vars, TypeOK
  <1>5. ASSUME NEW c \in Contexts, NEW p \in Ports, read_port(c, p) PROVE TypeOK'
    BY <1>1, <1>5 DEF read_port
  <1>6. ASSUME NEW c \in Contexts, NEW p \in Ports, NEW b \in BOOLEAN, write_port(c, p, b)
        PROVE  TypeOK'
    BY <1>1, <1>6 DEF write_port
  <1>7. TypeOK'
    BY <1>2, <1>3, <1>4, <1>5, <1>6 DEF Next
  <1>8. QED BY <1>7 DEF TypeOK

\* Mutex, calls, bus and chip keep their types whatever the HAL and the world
\* outside do.
THEOREM TypeCorrect == Spec => []TypeOK
  <1>1. Init => TypeOK
    <2> SUFFICES ASSUME Init PROVE TypeOK
      OBVIOUS
    <2> DEFINE p == CHOOSE p \in Ports : TRUE
    <2>1. p \in Ports
      BY BusAssumption
    <2> DEFINE r == [pc |-> "idle", kind |-> "write", port |-> p, bit |-> FALSE,
                     halOk |-> TRUE, got |-> <<0, 0>>, result |-> "ok"]
    <2>2. r \in Calls /\ r.pc = "idle" /\ r.result # "none"
      <3> HIDE DEF p
      <3>1. <<0, 0>> \in Words
        BY BitIsByte, WordPairs
      <3>2. QED BY <2>1, <3>1 DEF Calls
    <2>3. call = [c \in Contexts |-> r]
      BY DEF Init
    <2>4. shift \in Words
      BY DEF Init
    <2>5. registers \in [Registers -> {0, 1}]
      BY DEF Init
    <2> HIDE DEF r
    <2>6. /\ call \in [Contexts -> Calls]
          /\ \A c \in Contexts : call[c].pc = "idle" <=> call[c].result # "none"
      BY <2>2, <2>3
    <2>7. holder = NoOne /\ poisoned = FALSE /\ selected \in BOOLEAN
      <3>1. holder = NoOne
        BY DEF Init
      <3>2. poisoned = FALSE
        BY DEF Init
      <3>3. selected \in BOOLEAN
        BY DEF Init
      <3>4. QED BY <3>1, <3>2, <3>3
    <2>8. level \in SUBSET Inputs
      BY Zenon DEF Init
    <2>9. QED BY <2>4, <2>5, <2>6, <2>7, <2>8 DEF TypeOK
  <1>2. QED BY <1>1, TypeStep, PTL DEF Spec

-----------------------------------------------------------------------------
(* Mutual exclusion on the bus.                                              *)

LEMMA OthersOutside ==
  ASSUME BusInv, NEW c \in Contexts, Inside(c)
  PROVE  \A d \in Contexts : d # c => ~Inside(d)
  BY DEF BusInv, MutexInv

\* A step of the one context inside, or that of one coming in.
LEMMA InsideStep ==
  ASSUME TypeOK, TypeOK', BusInv, NEW c \in Contexts,
         \A d \in Contexts : d # c => call'[d] = call[d] /\ ~Inside(d),
         IF Inside(c)' THEN holder' = c ELSE holder' = NoOne,
         FramesInv(c)'
  PROVE  BusInv'
  <1>1. ASSUME NEW d \in Contexts, d # c PROVE (holder = d <=> Inside(d))' /\ FramesInv(d)'
    BY <1>1, BusAssumption DEF Inside, FramesInv
  <1>2. (holder = c <=> Inside(c))'
    BY BusAssumption
  <1>3. QED BY <1>1, <1>2 DEF BusInv, MutexInv

\* A context that leaves has no frame under way.
LEMMA LeaveStep ==
  ASSUME TypeOK, TypeOK', BusInv, NEW c \in Contexts, Inside(c),
         NEW result \in {"ok", "error", "panic"}, NEW b \in BOOLEAN, Leave(c, result, b)
  PROVE  BusInv'
  <1>1. /\ holder' = NoOne /\ call'[c].pc = "idle"
        /\ \A d \in Contexts : d # c => call'[d] = call[d]
    BY LeaveEffect
  <1>2. ~Inside(c)' /\ FramesInv(c)'
    BY <1>1 DEF Inside, FramesInv
  <1>3. QED BY <1>1, <1>2, OthersOutside, InsideStep

\* A step outside lock.
LEMMA OutsideStep ==
  ASSUME TypeOK, TypeOK', BusInv, NEW c \in Contexts, ~Inside(c), ~Inside(c)',
         \A d \in Contexts : d # c => call'[d] = call[d],
         UNCHANGED <<holder, selected, shift>>
  PROVE  BusInv'
  <1>1. FramesInv(c)' /\ (holder = c <=> Inside(c))'
    BY DEF BusInv, MutexInv, FramesInv, Inside
  <1>2. ASSUME NEW d \in Contexts, d # c PROVE (holder = d <=> Inside(d))' /\ FramesInv(d)'
    BY <1>2 DEF BusInv, MutexInv, FramesInv, Inside, Frame
  <1>3. QED BY <1>1, <1>2 DEF BusInv, MutexInv

\* What a rising chip select makes of a whole frame, and of a no-op.
LEMMA RaiseFrame ==
  ASSUME TypeOK, Raise, selected, NEW c \in Contexts
  PROVE  /\ shift = Frame(c) /\ call[c].kind = "write" =>
              registers' = IF call[c].port \in Inputs THEN registers
                           ELSE [registers EXCEPT ![RegisterOf(call[c].port)] =
                                                    IF call[c].bit THEN 1 ELSE 0]
         /\ shift = Frame(c) /\ call[c].kind = "read" =>
              /\ registers' = registers
              /\ shift' = <<Frame(c)[1], Sensed[RegisterOf(call[c].port)]>>
         /\ shift = NoopFrame => registers' = registers
  <1>1. /\ registers' = IF Address(shift[1]) \notin InputRegisters
                           THEN Stored(LowBit(shift), registers) ELSE registers
        /\ LowBit(shift)[1] = shift[1]
        /\ shift[2] \in {0, 1} => LowBit(shift)[2] = shift[2]
        /\ shift' = Latched(shift, Sensed)
        /\ RegisterOf(call[c].port) \in Registers
        /\ RegisterOf(call[c].port) \in 1..(ReadBit - 1)
    BY FrameType, LowBitPair DEF Raise, TypeOK
  <1>2. ASSUME shift = Frame(c), call[c].kind = "write"
        PROVE  registers' = IF call[c].port \in Inputs THEN registers
                            ELSE [registers EXCEPT ![RegisterOf(call[c].port)] =
                                                     IF call[c].bit THEN 1 ELSE 0]
    <2> DEFINE v == IF call[c].bit THEN 1 ELSE 0
    <2>1. shift = <<RegisterOf(call[c].port), v>>
      BY <1>2, FrameType
    <2>2. ~IsRead(shift[1]) /\ Address(shift[1]) = RegisterOf(call[c].port)
          /\ LowBit(shift)[1] = shift[1] /\ LowBit(shift)[2] = v
      <3>0. v \in {0, 1}
        OBVIOUS
      <3> HIDE DEF v
      <3>1. shift[1] = RegisterOf(call[c].port) /\ shift[2] = v
        BY <2>1
      <3>2. QED BY <1>1, <3>0, <3>1, BusAssumption DEF IsRead, Address
    <2> HIDE DEF v
    <2>3. RegisterOf(call[c].port) \in InputRegisters <=> call[c].port \in Inputs
      BY PortRegister DEF TypeOK, Calls
    <2>4. registers' = IF call[c].port \in Inputs THEN registers
                       ELSE [registers EXCEPT ![RegisterOf(call[c].port)] = v]
      BY <1>1, <2>2, <2>3 DEF Stored
    <2>5. QED BY <2>4 DEF v
  <1>3. ASSUME shift = Frame(c), call[c].kind = "read"
        PROVE  /\ registers' = registers
               /\ shift' = <<Frame(c)[1], Sensed[RegisterOf(call[c].port)]>>
    <2>1. IsRead(shift[1]) /\ Address(shift[1]) = RegisterOf(call[c].port)
      BY <1>1, <1>3, FrameType, BusAssumption DEF IsRead, Address
    <2>2. QED BY <1>1, <1>3, <2>1 DEF Latched, Stored
  <1>4. ASSUME shift = NoopFrame PROVE registers' = registers
    <2>1. Address(shift[1]) \notin Registers
      BY <1>4, BusAssumption DEF IsRead, Address, NoopFrame, Noop
    <2>2. QED BY <1>1, <2>1 DEF Stored
  <1>5. QED BY <1>2, <1>3, <1>4

\* A call that goes on keeps its register and its frame.
LEMMA FrameKept ==
  ASSUME NEW c \in Contexts, call'[c].kind = call[c].kind, call'[c].port = call[c].port,
         call'[c].bit = call[c].bit
  PROVE  Frame(c)' = Frame(c)
  BY DEF Frame

LEMMA GoesFields ==
  ASSUME TypeOK, NEW c \in Contexts, call[c].pc # "idle",
         NEW pc \in {"select", "write", "reselect", "transfer"}, Goes(c, pc)
  PROVE  /\ call'[c].pc = pc /\ call'[c].kind = call[c].kind
         /\ \A d \in Contexts : d # c => call'[d] = call[d]
         /\ Frame(c)' = Frame(c)
  <1>1. /\ call'[c] = [call[c] EXCEPT !.pc = pc]
        /\ \A d \in Contexts : d # c => call'[d] = call[d]
    BY GoesEffect
  <1>2. /\ call'[c].pc = pc /\ call'[c].kind = call[c].kind
        /\ call'[c].port = call[c].port /\ call'[c].bit = call[c].bit
    BY <1>1 DEF TypeOK, Calls
  <1>3. QED BY <1>1, <1>2, FrameKept

LEMMA StepInside ==
  ASSUME TypeOK, TypeOK', BusInv, NEW c \in Contexts, Inside(c), Step(c)
  PROVE  BusInv'
  <1> USE DEF At, mutex, chip
  <1>1. holder = c /\ \A d \in Contexts : d # c => ~Inside(d)
    BY OthersOutside DEF BusInv, MutexInv
  <1>2. FramesInv(c)
    BY DEF BusInv
  <1>3. ASSUME Panic(c) \/ Error(c) \/ (Finish(c) /\ ~Error(c)) PROVE BusInv'
    BY <1>3, LeavesSomehow, LeaveStep
  <1>4. ASSUME NEW from, NEW to \in {"write", "transfer"}, SetLow(c, from, to),
               <<from, to>> \in {<<"select", "write">>, <<"reselect", "transfer">>}
        PROVE  BusInv'
    <2>1. /\ call'[c].pc = to /\ call'[c].kind = call[c].kind
          /\ \A d \in Contexts : d # c => call'[d] = call[d]
          /\ Frame(c)' = Frame(c)
      BY <1>4, GoesFields DEF SetLow
    <2>2. FramesInv(c)' /\ Inside(c)' /\ holder' = c
      BY <1>1, <1>2, <1>4, <2>1 DEF SetLow, FramesInv, Inside
    <2>3. QED BY <1>1, <2>1, <2>2, InsideStep
  <1>5. CASE Write(c) \/ WriteFails(c)
    <2>1. /\ call'[c].pc = "deselect" /\ call'[c].kind = call[c].kind
          /\ call'[c].port = call[c].port /\ call'[c].bit = call[c].bit
          /\ call'[c].halOk => Write(c)
          /\ \A d \in Contexts : d # c => call'[d] = call[d]
      BY <1>5, WriteEffect
    <2>2. selected' /\ (Write(c) => shift' = Frame(c))
      <3>1. selected /\ Clocked(Frame(c), 2) = Frame(c)
        BY <1>2, <1>5, FrameType, ClockedType DEF Write, WriteFails, FramesInv
      <3>2. QED BY <1>5, <3>1 DEF Write, WriteFails, CutShort
    <2>3. UNCHANGED holder
      BY <1>5 DEF Write, WriteFails
    <2>4. FramesInv(c)' /\ Inside(c)' /\ holder' = c
      BY <1>1, <2>1, <2>2, <2>3, FrameKept DEF FramesInv, Inside
    <2>5. QED BY <1>1, <2>1, <2>4, InsideStep
  <1>6. CASE Deselect(c)
    <2>1. CASE Error(c)
      BY <1>3, <2>1
    <2>2. CASE Leave(c, "ok", call[c].bit)
      BY <2>2, LeaveStep DEF TypeOK, Calls
    <2>3. CASE call[c].halOk /\ call[c].kind = "read" /\ Goes(c, "reselect")
               /\ UNCHANGED mutex
      <3>1. /\ call'[c].pc = "reselect" /\ call'[c].kind = call[c].kind
            /\ \A d \in Contexts : d # c => call'[d] = call[d]
            /\ Frame(c)' = Frame(c)
        BY <1>6, <2>3, GoesFields DEF Deselect
      <3>2. shift' = <<Frame(c)[1], Sensed[RegisterOf(call[c].port)]>>
        BY <1>2, <1>6, <2>3, RaiseFrame DEF Deselect, FramesInv
      <3>3. FramesInv(c)' /\ Inside(c)' /\ holder' = c
        BY <1>1, <2>3, <3>1, <3>2 DEF FramesInv, Inside
      <3>4. QED BY <1>1, <3>1, <3>3, InsideStep
    <2>4. QED BY <1>6, <2>1, <2>2, <2>3, Zenon DEF Deselect
  <1>7. CASE Transfer(c) \/ TransferFails(c)
    <2>1. /\ call'[c].pc = "finish" /\ call'[c].kind = call[c].kind
          /\ call'[c].port = call[c].port /\ call'[c].bit = call[c].bit
          /\ call'[c].halOk => Transfer(c) /\ call'[c].got = shift
          /\ \A d \in Contexts : d # c => call'[d] = call[d]
      BY <1>7, TransferEffect
    <2>2. /\ selected' /\ (Transfer(c) => shift' = NoopFrame)
          /\ shift[1] = Frame(c)[1] /\ call[c].kind = "read"
      <3>1. /\ selected /\ Clocked(NoopFrame, 2) = NoopFrame
            /\ shift[1] = Frame(c)[1] /\ call[c].kind = "read"
        BY <1>2, <1>7, NoopType, ClockedType DEF Transfer, TransferFails, FramesInv
      <3>2. QED BY <1>7, <3>1 DEF Transfer, TransferFails, CutShort
    <2>3. UNCHANGED holder
      BY <1>7 DEF Transfer, TransferFails
    <2>4. FramesInv(c)' /\ Inside(c)' /\ holder' = c
      <3>1. Frame(c)' = Frame(c) /\ Inside(c)' /\ holder' = c
        BY <1>1, <2>1, <2>3, FrameKept DEF Inside
      <3>2. shift' = NoopFrame <=> (shift = NoopFrame)'
        BY DEF NoopFrame, Noop
      <3>3. QED BY <2>1, <2>2, <3>1, <3>2 DEF FramesInv
    <2>5. QED BY <1>1, <2>1, <2>4, InsideStep
  <1>8. ~Lock(c) /\ ~LockPoisoned(c)
    BY DEF Lock, LockPoisoned, Inside
  <1>9. SetLowFails(c) \/ SetHighFails(c) => Error(c)
    BY Zenon DEF SetLowFails, SetHighFails
  <1>10. QED BY <1>3, <1>4, <1>5, <1>6, <1>7, <1>8, <1>9 DEF Step

LEMMA BusStep == ASSUME TypeOK, TypeOK', BusInv, [Next]_vars PROVE BusInv'
  <1> USE DEF At, mutex, chip
  <1>1. ASSUME NEW c \in Contexts, NEW kind \in {"read", "write"}, NEW p \in Ports,
               NEW b \in BOOLEAN, Begin(c, kind, p, b)
        PROVE  BusInv'
    <2>1. /\ call'[c].pc = "lock" /\ call[c].pc = "idle"
          /\ \A d \in Contexts : d # c => call'[d] = call[d]
      BY <1>1, BeginEffect DEF Begin
    <2>2. QED BY <1>1, <2>1, OutsideStep DEF Begin, Inside
  <1>2. ASSUME NEW c \in Contexts, Lock(c) PROVE BusInv'
    <2>1. /\ call'[c].pc = "select"
          /\ \A d \in Contexts : d # c => call'[d] = call[d]
      BY <1>2, GoesFields DEF Lock
    <2>2. \A d \in Contexts : ~Inside(d)
      BY <1>2, BusAssumption DEF Lock, Free, BusInv, MutexInv
    <2>3. FramesInv(c)' /\ Inside(c)' /\ holder' = c
      BY <1>2, <2>1 DEF Lock, FramesInv, Inside
    <2>4. QED BY <2>1, <2>2, <2>3, InsideStep
  <1>3. ASSUME NEW c \in Contexts, LockPoisoned(c) PROVE BusInv'
    <2>1. call'[c] = [call[c] EXCEPT !.pc = "idle", !.bit = FALSE, !.result = "panic"]
      BY <1>3, LockPoisonedEffect
    <2>2. \A d \in Contexts : d # c => call'[d] = call[d]
      BY <1>3, LockPoisonedEffect
    <2>3. call'[c].pc = "idle" /\ call[c].pc = "lock"
      BY <1>3, <2>1 DEF LockPoisoned, TypeOK, Calls
    <2>4. QED BY <1>3, <2>2, <2>3, OutsideStep DEF LockPoisoned, Inside
  <1>4. ASSUME NEW c \in Contexts, Step(c), ~Inside(c) PROVE Lock(c) \/ LockPoisoned(c)
    BY <1>4 DEF Step, Panic, CutShort, SetLow, SetLowFails, Write, WriteFails, Deselect,
       Transfer, TransferFails, Finish, SetHighFails, Inside
  <1>5. ASSUME NEW c \in Contexts, Step(c) PROVE BusInv'
    BY <1>2, <1>3, <1>4, <1>5, StepInside
  <1>6. ASSUME UNCHANGED <<holder, call, selected, shift>> PROVE BusInv'
    BY <1>6 DEF BusInv, MutexInv, Inside, FramesInv, Frame
  <1>7. ASSUME NEW p \in Inputs, DriveInput(p) PROVE BusInv'
    BY <1>6, <1>7 DEF DriveInput
  <1>8. ASSUME UNCHANGED vars PROVE BusInv'
    BY <1>6, <1>8 DEF vars
  <1>9. ASSUME NEW c \in Contexts, NEW p \in Ports, read_port(c, p) PROVE BusInv'
    BY <1>1, <1>9 DEF read_port
  <1>10. ASSUME NEW c \in Contexts, NEW p \in Ports, NEW b \in BOOLEAN, write_port(c, p, b)
         PROVE  BusInv'
    BY <1>1, <1>10 DEF write_port
  <1>11. QED BY <1>5, <1>7, <1>8, <1>9, <1>10 DEF Next

\* Only the context inside lock holds the mutex, and while it does every frame on
\* the bus is its own, whole: no access is split by another context.
THEOREM BusInvariant == Spec => []BusInv
  <1>1. Init => BusInv
    <2> SUFFICES ASSUME Init PROVE BusInv
      OBVIOUS
    <2>1. holder = NoOne /\ \A c \in Contexts : call[c].pc = "idle"
      BY DEF Init
    <2>2. QED BY <2>1, BusAssumption DEF BusInv, MutexInv, Inside, FramesInv
  <1>2. QED BY <1>1, BusStep, TypeCorrect, PTL DEF Spec
-----------------------------------------------------------------------------
(* The refinement of AtomicMemory: one lemma per step that it can see.       *)

\* An input pin tells the level outside.
LEMMA InputPin ==
  ASSUME NEW p \in Inputs, NEW regs, NEW on
  PROVE  /\ p \in on => PinValue(p, regs, on) = TRUE
         /\ p \notin on => PinValue(p, regs, on) = FALSE
  <1>1. ASSUME p \in on PROVE PinValue(p, regs, on) = TRUE
    BY <1>1, Zenon DEF PinValue
  <1>2. ASSUME p \notin on PROVE PinValue(p, regs, on) = FALSE
    BY <1>2, SMT DEF PinValue
  <1>3. QED BY <1>1, <1>2

LEMMA PinType ==
  /\ \A p \in Ports : PinValue(p, registers, level) \in BOOLEAN
  /\ \A v : Level(v) \in BOOLEAN
  <1>1. \A v : Level(v) \in BOOLEAN
    BY Zenon DEF Level
  <1>2. ASSUME NEW p \in Ports PROVE PinValue(p, registers, level) \in BOOLEAN
    <2>1. CASE p \in Inputs
      BY <2>1, InputPin
    <2>2. CASE p \notin Inputs
      BY <1>1, <2>2, Zenon DEF PinValue
    <2>3. QED BY <2>1, <2>2
  <1>3. QED BY <1>1, <1>2

\* A register tells the bit that was written to it.
LEMMA LevelOfBit ==
  ASSUME NEW b \in BOOLEAN
  PROVE  Level(IF b THEN 1 ELSE 0) = b
  <1>1. CASE b = TRUE
    <2>1. (IF b THEN 1 ELSE 0) = 1
      BY <1>1
    <2>2. QED BY <1>1, <2>1, Zenon DEF Level
  <1>2. CASE b = FALSE
    <2>1. (IF b THEN 1 ELSE 0) # 1
      BY <1>2
    <2>2. QED BY <1>2, <2>1, Zenon DEF Level
  <1>3. QED BY <1>1, <1>2

\* A read of a port's register tells its pin.
LEMMA SensedPin ==
  ASSUME NEW p \in Ports
  PROVE  Level(Sensed[RegisterOf(p)]) = PinValue(p, registers, level)
  <1>1. RegisterOf(p) \in Registers /\ RegisterOf(p) - SinglePortBase = p
    BY PortRegister
  <1>2. CASE p \notin Inputs
    <2>1. Sensed[RegisterOf(p)] = registers[RegisterOf(p)]
      BY <1>1, <1>2, PortRegister DEF Sensed
    <2>2. PinValue(p, registers, level) = Level(registers[RegisterOf(p)])
      BY <1>2, Zenon DEF PinValue
    <2>3. QED BY <2>1, <2>2
  <1>3. CASE p \in Inputs
    <2>1. Sensed[RegisterOf(p)] = IF p \in level THEN 1 ELSE 0
      BY <1>1, <1>3, PortRegister DEF Sensed
    <2>2. \A v : v = 1 => Level(v) = TRUE
      BY Zenon DEF Level
    <2>3. \A v : v # 1 => Level(v) = FALSE
      BY Zenon DEF Level
    <2>4. CASE p \in level
      <3>1. Level(Sensed[RegisterOf(p)]) = TRUE
        BY <2>1, <2>2, <2>4
      <3>2. QED BY <1>3, <2>4, <3>1, InputPin
    <2>5. CASE p \notin level
      <3>1. Level(Sensed[RegisterOf(p)]) = FALSE
        BY <2>1, <2>3, <2>5
      <3>2. QED BY <1>3, <2>5, <3>1, InputPin
    <2>6. QED BY <2>4, <2>5
  <1>4. QED BY <1>2, <1>3

LEMMA OpType == TypeOK => Memory!TypeOK
  <1> SUFFICES ASSUME TypeOK PROVE Memory!TypeOK
    OBVIOUS
  <1>1. ASSUME NEW c \in Contexts PROVE Access(call[c], shift) \in Memory!Ops
    <2>1. call[c] \in Calls /\ (call[c].pc = "idle" <=> call[c].result # "none")
      BY DEF TypeOK
    <2>2. Answer(call[c], shift) \in BOOLEAN
      BY <2>1, PinType DEF Answer, Calls
    <2>3. Progress(call[c]) \in {"called", "taken", "ok", "error", "panic"}
      BY <2>1 DEF Progress, Calls
    <2>4. QED BY <2>1, <2>2, <2>3 DEF Access, Memory!Ops, Calls
  <1>2. [p \in Ports |-> PinValue(p, registers, level)] \in [Ports -> BOOLEAN]
    BY PinType
  <1>3. QED BY <1>1, <1>2 DEF Memory!TypeOK

\* What a step of another context leaves as it was.
LEMMA OpKept ==
  ASSUME NEW d \in Contexts, call'[d] = call[d], ~Inside(d) \/ shift' = shift
  PROVE  Access(call'[d], shift') = Access(call[d], shift)
  <1>1. Answer(call'[d], shift') = Answer(call[d], shift)
    BY DEF Answer, Inside
  <1>2. Progress(call'[d]) = Progress(call[d])
    BY DEF Progress
  <1>3. QED BY <1>1, <1>2 DEF Access

LEMMA PinsKept ==
  ASSUME UNCHANGED <<registers, level>>
  PROVE  \A p \in Ports : PinValue(p, registers', level') = PinValue(p, registers, level)
  BY Zenon DEF PinValue

\* A step that only c takes.
LEMMA OpGoes ==
  ASSUME NEW c \in Contexts,
         \A d \in Contexts : d # c => Access(call'[d], shift') = Access(call[d], shift),
         call'[c].kind = call[c].kind, call'[c].port = call[c].port
  PROVE  Memory!Goes(c, Answer(call'[c], shift'), Progress(call'[c]))
  <1>1. Access(call'[c], shift') =
          [kind |-> Access(call[c], shift).kind, cell |-> Access(call[c], shift).cell,
           value |-> Answer(call'[c], shift'), state |-> Progress(call'[c])]
    BY DEF Access
  <1>2. QED BY <1>1 DEF Memory!Goes

LEMMA Stutters ==
  ASSUME \A c \in Contexts : Access(call'[c], shift') = Access(call[c], shift),
         \A p \in Ports : PinValue(p, registers', level') = PinValue(p, registers, level)
  PROVE  UNCHANGED Memory!vars
  BY DEF Memory!vars

LEMMA CallFails ==
  ASSUME NEW c \in Contexts, call[c].pc # "idle", call'[c].pc = "idle",
         call'[c].result \in {"error", "panic"},
         call'[c].kind = call[c].kind, call'[c].port = call[c].port,
         \A d \in Contexts : d # c => Access(call'[d], shift') = Access(call[d], shift),
         Memory!Leavings(c)
  PROVE  Memory!Next
  <1>1. Progress(call[c]) \in {"called", "taken"} /\ Progress(call'[c]) \in {"error", "panic"}
    BY DEF Progress
  <1>2. Memory!Goes(c, Answer(call'[c], shift'), Progress(call'[c]))
    BY OpGoes
  <1>3. /\ Access(call[c], shift).state = Progress(call[c])
        /\ Access(call'[c], shift').state = Progress(call'[c])
        /\ Access(call'[c], shift').value = Answer(call'[c], shift')
    BY DEF Access
  <1>4. Memory!Fails(c)
    BY <1>1, <1>2, <1>3 DEF Memory!Fails, Memory!Over
  <1>5. QED BY <1>4 DEF Memory!Next

\* What a rising chip select after a whole frame does to the pins: a write sets the
\* pin it is for, unless that is an input, and nothing else does.
LEMMA RaisePins ==
  ASSUME TypeOK, BusInv, Raise, NEW c \in Contexts, call[c].pc \in {"deselect", "finish"},
         call[c].halOk
  PROVE  /\ call[c].pc = "deselect" /\ call[c].kind = "write" =>
              \A p \in Ports : PinValue(p, registers', level') = IF p = call[c].port /\ p \notin Inputs
                                                THEN call[c].bit ELSE PinValue(p, registers, level)
         /\ ~(call[c].pc = "deselect" /\ call[c].kind = "write") =>
              registers' = registers
  <1>1. /\ selected /\ level' = level
        /\ call[c].pc = "deselect" => shift = Frame(c)
        /\ call[c].pc = "finish" => shift = NoopFrame
    BY DEF BusInv, FramesInv, Raise
  <1>2. /\ call[c].kind \in {"read", "write"} /\ call[c].port \in Ports
        /\ call[c].bit \in BOOLEAN
    BY DEF TypeOK, Calls
  <1>3. ASSUME call[c].pc = "deselect", call[c].kind = "write", NEW p \in Ports
        PROVE  PinValue(p, registers', level') = IF p = call[c].port /\ p \notin Inputs
                                THEN call[c].bit ELSE PinValue(p, registers, level)
    <2> DEFINE v == IF call[c].bit THEN 1 ELSE 0
    <2>1. registers' = IF call[c].port \in Inputs THEN registers
                       ELSE [registers EXCEPT ![RegisterOf(call[c].port)] = v]
      BY <1>1, <1>3, RaiseFrame
    <2>2. Level(v) = call[c].bit
      BY <1>2, LevelOfBit, Zenon
    <2> HIDE DEF v
    <2>3. CASE p \in Inputs
      BY <1>1, <2>3, Zenon DEF PinValue
    <2>4. CASE p \notin Inputs
      <3>1. registers'[RegisterOf(p)] = IF p = call[c].port THEN v ELSE registers[RegisterOf(p)]
        BY <1>2, <2>1, <2>4, PortRegister DEF TypeOK
      <3>2. /\ PinValue(p, registers, level) = Level(registers[RegisterOf(p)])
            /\ PinValue(p, registers', level') = Level(registers'[RegisterOf(p)])
        BY <2>4, Zenon DEF PinValue, Level
      <3>3. QED BY <2>2, <2>4, <3>1, <3>2
    <2>5. QED BY <2>3, <2>4
  <1>4. ASSUME ~(call[c].pc = "deselect" /\ call[c].kind = "write")
        PROVE  registers' = registers
    BY <1>1, <1>2, <1>4, RaiseFrame
  <1>5. QED BY <1>3, <1>4

-----------------------------------------------------------------------------
(* Which registers a step may change. *)

\* The chip select rises after the frame of c, whole or not.
LEMMA RaiseAllowed ==
  ASSUME TypeOK, BusInv, NEW c \in Contexts, call[c].pc \in {"deselect", "finish"}, Raise
  PROVE  RegisterChangeAllowed
  <1>1. holder = c
    BY DEF BusInv, MutexInv, Inside
  <1>2. CASE ~call[c].halOk
    BY <1>1, <1>2 DEF RegisterChangeAllowed
  <1>3. CASE call[c].halOk /\ ~(call[c].pc = "deselect" /\ call[c].kind = "write")
    BY <1>3, RaisePins DEF RegisterChangeAllowed
  <1>4. CASE call[c].halOk /\ call[c].pc = "deselect" /\ call[c].kind = "write"
    <2> DEFINE v == IF call[c].bit THEN 1 ELSE 0
    <2>1. selected /\ shift = Frame(c)
      BY <1>4 DEF BusInv, FramesInv
    <2>2. registers' = IF call[c].port \in Inputs THEN registers
                       ELSE [registers EXCEPT ![RegisterOf(call[c].port)] = v]
      BY <1>4, <2>1, RaiseFrame
    <2> HIDE DEF v
    <2>3. ASSUME NEW a \in Registers, registers'[a] # registers[a]
          PROVE  a = RegisterOf(call[c].port) /\ registers'[a] = v
      BY <2>2, <2>3 DEF TypeOK
    <2>4. QED BY <1>1, <1>4, <2>3 DEF RegisterChangeAllowed, v
  <1>5. QED BY <1>2, <1>3, <1>4

LEMMA StepAllowed ==
  ASSUME TypeOK, BusInv, NEW c \in Contexts, Step(c)
  PROVE  RegisterChangeAllowed
  <1> USE DEF At, mutex, chip
  <1>1. CASE UNCHANGED registers
    BY <1>1 DEF RegisterChangeAllowed
  <1>2. ASSUME CutShort(c) PROVE RegisterChangeAllowed
    BY <1>1, <1>2, RaiseAllowed DEF CutShort
  <1>3. CASE Deselect(c) \/ Finish(c)
    BY <1>3, RaiseAllowed DEF Deselect, Finish
  <1>4. CASE Panic(c) \/ SetLowFails(c) \/ WriteFails(c) \/ TransferFails(c) \/ SetHighFails(c)
    BY <1>2, <1>4 DEF Panic, SetLowFails, WriteFails, TransferFails, SetHighFails
  <1>5. QED BY <1>1, <1>3, <1>4 DEF Step, Lock, LockPoisoned, SetLow, Write, Transfer

\* Whatever fails or panics, a call changes the register of its own port or, if the
\* SPI failed it, one that the cut frame spoils. No other frame comes through.
THEOREM OnlyOwnRegisters == Spec => OnlyOwnRegisterChanges
  <1>1. TypeOK /\ BusInv /\ [Next]_vars => [RegisterChangeAllowed]_vars
    <2> SUFFICES ASSUME TypeOK, BusInv, Next PROVE RegisterChangeAllowed
      OBVIOUS
    <2>1. UNCHANGED registers => RegisterChangeAllowed
      BY DEF RegisterChangeAllowed
    <2>2. QED BY <2>1, StepAllowed DEF Next, write_port, read_port, Begin, DriveInput, chip
  <1>2. QED BY <1>1, TypeCorrect, BusInvariant, PTL DEF Spec, OnlyOwnRegisterChanges

-----------------------------------------------------------------------------
\* Whatever is in the shift register, a rising chip select changes one pin at most.
LEMMA RaiseLeaves ==
  ASSUME TypeOK, NEW c \in Contexts, Raise
  PROVE  Memory!Leavings(c)
  <1>1. level' = level
    BY DEF Raise
  <1>2. CASE registers' = registers
    BY <1>1, <1>2, PinsKept DEF Memory!Leavings
  <1>3. CASE registers' # registers
    <2> DEFINE a == Address(shift[1])
    <2>1. a \in Registers /\ a \notin InputRegisters /\ registers' = [registers EXCEPT ![a] = LowBit(shift)[2]]
      BY <1>3, LowBitPair DEF Raise, Stored, TypeOK
    <2> HIDE DEF a
    <2>2. ASSUME NEW p \in Ports, RegisterOf(p) # a
          PROVE  PinValue(p, registers', level') = PinValue(p, registers, level)
      <3>1. registers'[RegisterOf(p)] = registers[RegisterOf(p)]
        BY <2>1, <2>2, PortRegister DEF TypeOK
      <3>2. QED BY <1>1, <3>1, Zenon DEF PinValue
    <2>3. CASE \A p \in Ports : RegisterOf(p) # a
      BY <2>2, <2>3 DEF Memory!Leavings
    <2>4. CASE \E p \in Ports : RegisterOf(p) = a
      <3>1. PICK p \in Ports : RegisterOf(p) = a
        BY <2>4
      <3> DEFINE v == PinValue(p, registers', level')
      <3>2. v \in BOOLEAN
        BY <2>1, <3>1, PortRegister, Zenon DEF PinValue, Level
      <3>3. \A q \in Ports : q # p => RegisterOf(q) # a
        BY <3>1, PortRegister
      <3>4. \A q \in Ports : PinValue(q, registers', level') =
                             IF q = p THEN v ELSE PinValue(q, registers, level)
        BY <2>2, <3>3
      <3> HIDE DEF v
      <3>5. [q \in Ports |-> PinValue(q, registers', level')] =
              [[q \in Ports |-> PinValue(q, registers, level)] EXCEPT ![p] = v]
        BY <3>4
      <3>6. QED BY <3>2, <3>5 DEF Memory!Leavings
    <2>5. QED BY <2>3, <2>4
  <1>4. QED BY <1>2, <1>3

\* What a HAL call that fails or panics leaves on the pins.
LEMMA CutShortLeaves ==
  ASSUME TypeOK, NEW c \in Contexts, CutShort(c)
  PROVE  Memory!Leavings(c)
  <1>1. CASE Raise
    BY <1>1, RaiseLeaves
  <1>2. CASE ~Raise
    <2>1. UNCHANGED <<registers, level>>
      BY <1>2 DEF CutShort, chip
    <2>2. QED BY <2>1, PinsKept DEF Memory!Leavings
  <1>3. QED BY <1>1, <1>2

\* A context that leaves lock with an error or a panic.
LEMMA LeaveFails ==
  ASSUME TypeOK, BusInv, NEW c \in Contexts, Inside(c),
         NEW result \in {"error", "panic"}, Leave(c, result, FALSE),
         Memory!Leavings(c)
  PROVE  Memory!Next
  <1>1. /\ call'[c].pc = "idle" /\ call'[c].result = result
        /\ call'[c].kind = call[c].kind /\ call'[c].port = call[c].port
        /\ \A d \in Contexts : d # c => call'[d] = call[d]
    BY LeaveEffect
  <1>2. \A d \in Contexts : d # c => Access(call'[d], shift') = Access(call[d], shift)
    BY <1>1, OthersOutside, OpKept
  <1>3. QED BY <1>1, <1>2, CallFails DEF Inside

\* A context that leaves lock with an answer.
LEMMA LeaveOk ==
  ASSUME TypeOK, BusInv, NEW c \in Contexts, Inside(c), NEW b \in BOOLEAN,
         Leave(c, "ok", b)
  PROVE  Memory!Goes(c, b, "ok")
  <1>1. /\ call'[c].pc = "idle" /\ call'[c].result = "ok" /\ call'[c].bit = b
        /\ call'[c].kind = call[c].kind /\ call'[c].port = call[c].port
        /\ \A d \in Contexts : d # c => call'[d] = call[d]
    BY LeaveEffect
  <1>2. \A d \in Contexts : d # c => Access(call'[d], shift') = Access(call[d], shift)
    BY <1>1, OthersOutside, OpKept
  <1>3. Answer(call'[c], shift') = b /\ Progress(call'[c]) = "ok"
    BY <1>1 DEF Answer, Progress
  <1>4. QED BY <1>1, <1>2, <1>3, OpGoes

\* A step that goes on inside lock and changes neither answer nor progress.
LEMMA GoesOn ==
  ASSUME TypeOK, BusInv, NEW c \in Contexts,
         \A d \in Contexts : d # c => call'[d] = call[d] /\ (~Inside(d) \/ shift' = shift),
         call'[c].kind = call[c].kind, call'[c].port = call[c].port,
         Answer(call'[c], shift') = Answer(call[c], shift), Progress(call'[c]) = Progress(call[c]),
         UNCHANGED <<registers, level>>
  PROVE  UNCHANGED Memory!vars
  <1>1. Access(call'[c], shift') = Access(call[c], shift)
    BY DEF Access
  <1>2. \A d \in Contexts : Access(call'[d], shift') = Access(call[d], shift)
    BY <1>1, OpKept
  <1>3. QED BY <1>2, PinsKept, Stutters

LEMMA BeginCalls ==
  ASSUME TypeOK, TypeOK', NEW c \in Contexts, NEW kind \in {"read", "write"},
         NEW p \in Ports, NEW b \in BOOLEAN, Begin(c, kind, p, b)
  PROVE  Memory!Next
  <1>1. /\ call[c].pc = "idle" /\ call'[c].pc = "lock"
        /\ \A d \in Contexts : d # c => call'[d] = call[d]
        /\ UNCHANGED chip
    BY BeginEffect DEF Begin, At
  <1>2. \A d \in Contexts : d # c => Access(call'[d], shift') = Access(call[d], shift)
    BY <1>1, OpKept DEF chip
  <1>3. \A q \in Ports : PinValue(q, registers', level') = PinValue(q, registers, level)
    BY <1>1, PinsKept DEF chip
  <1>4. /\ Access(call[c], shift).state \in {"ok", "error", "panic"}
        /\ Access(call'[c], shift').state = "called"
    BY <1>1 DEF Access, Progress, TypeOK, Calls
  <1>5. Memory!Call(c)
    BY <1>2, <1>3, <1>4 DEF Memory!Call, Memory!Over
  <1>6. QED BY <1>5 DEF Memory!Next

LEMMA DeselectMoves ==
  ASSUME TypeOK, BusInv, NEW c \in Contexts, Deselect(c)
  PROVE  Memory!Next
  <1>1. /\ Inside(c) /\ call[c].pc = "deselect" /\ Raise
        /\ selected /\ (call[c].halOk => shift = Frame(c))
        /\ call[c].port \in Ports /\ call[c].bit \in BOOLEAN
    BY DEF Deselect, At, Inside, BusInv, FramesInv, TypeOK, Calls
  <1>2. /\ Access(call[c], shift).kind = call[c].kind /\ Access(call[c], shift).cell = call[c].port
        /\ Access(call[c], shift).value = call[c].bit /\ Access(call[c], shift).state = "called"
    BY <1>1 DEF Access, Answer, Progress
  <1>3. CASE call[c].halOk /\ call[c].kind = "read" /\ Goes(c, "reselect")
    <2>1. /\ call'[c].pc = "reselect" /\ call'[c].kind = "read"
          /\ \A d \in Contexts : d # c => call'[d] = call[d]
      BY <1>1, <1>3, GoesFields
    <2>2. call'[c].port = call[c].port
      <3>1. call'[c] = [call[c] EXCEPT !.pc = "reselect"]
        BY <1>1, <1>3, GoesEffect
      <3>2. QED BY <3>1 DEF TypeOK, Calls
    <2>3. shift' = <<Frame(c)[1], Sensed[RegisterOf(call[c].port)]>>
      BY <1>1, <1>3, RaiseFrame
    <2>4. /\ Answer(call'[c], shift') = PinValue(call[c].port, registers, level)
          /\ Progress(call'[c]) = "taken"
      <3>1. Answer(call'[c], shift') = Level(shift'[2]) /\ Progress(call'[c]) = "taken"
        BY <2>1 DEF Answer, Progress, Level
      <3>2. QED BY <1>1, <2>3, <3>1, SensedPin
    <2>5. \A d \in Contexts : d # c => Access(call'[d], shift') = Access(call[d], shift)
      BY <1>1, <2>1, OthersOutside, OpKept
    <2>6. Memory!Goes(c, PinValue(call[c].port, registers, level), "taken")
      BY <1>3, <2>1, <2>2, <2>4, <2>5, OpGoes
    <2>7. \A p \in Ports : PinValue(p, registers', level') = PinValue(p, registers, level)
      BY <1>1, <1>3, RaisePins, PinsKept DEF Raise
    <2>8. Memory!ReadTaken(c)
      BY <1>1, <1>2, <1>3, <2>6, <2>7 DEF Memory!ReadTaken
    <2>9. QED BY <2>8 DEF Memory!Next
  <1>4. CASE call[c].halOk /\ call[c].kind = "write" /\ Leave(c, "ok", call[c].bit)
    <2>1. Memory!Goes(c, Access(call[c], shift).value, "ok")
      BY <1>1, <1>2, <1>4, LeaveOk
    <2>2. \A p \in Ports : PinValue(p, registers', level') = IF p = call[c].port /\ p \notin Inputs
                                            THEN call[c].bit ELSE PinValue(p, registers, level)
      BY <1>1, <1>4, RaisePins
    <2>3. Memory!WriteOk(c)
      BY <1>1, <1>2, <1>4, <2>1, <2>2 DEF Memory!WriteOk, Memory!Applied
    <2>4. QED BY <2>3 DEF Memory!Next
  <1>5. CASE Error(c)
    <2>1. Memory!Leavings(c)
      BY <1>1, RaiseLeaves
    <2>2. QED BY <1>1, <1>5, <2>1, LeaveFails DEF Error
  <1>6. QED BY <1>3, <1>4, <1>5 DEF Deselect

LEMMA FinishMoves ==
  ASSUME TypeOK, BusInv, NEW c \in Contexts, Finish(c)
  PROVE  Memory!Next
  <1>1. Inside(c) /\ call[c].pc = "finish" /\ Raise /\ call[c].kind = "read"
    BY DEF Finish, At, Inside, BusInv, FramesInv
  <1>2. CASE call[c].halOk /\ Leave(c, "ok", Level(call[c].got[2]))
    <2>1. /\ Access(call[c], shift).value = Level(call[c].got[2])
          /\ Access(call[c], shift).state = "taken"
      BY <1>1, <1>2 DEF Access, Answer, Progress
    <2>2. Memory!Goes(c, Access(call[c], shift).value, "ok")
      BY <1>1, <1>2, <2>1, PinType, LeaveOk
    <2>3. \A p \in Ports : PinValue(p, registers', level') = PinValue(p, registers, level)
      BY <1>1, <1>2, RaisePins, PinsKept DEF Raise
    <2>4. Memory!TakenOk(c)
      BY <2>1, <2>2, <2>3 DEF Memory!TakenOk
    <2>5. QED BY <2>4 DEF Memory!Next
  <1>3. CASE Error(c)
    <2>1. Memory!Leavings(c)
      BY <1>1, RaiseLeaves
    <2>2. QED BY <1>1, <1>3, <2>1, LeaveFails DEF Error
  <1>4. QED BY <1>2, <1>3 DEF Finish

LEMMA StepMoves ==
  ASSUME TypeOK, TypeOK', BusInv, NEW c \in Contexts, Step(c)
  PROVE  Memory!Next \/ UNCHANGED Memory!vars
  <1> USE DEF At, mutex, chip
  <1>1. call[c] \in Calls
    BY DEF TypeOK
  <1>2. CASE Lock(c)
    <2>1. call'[c] = [call[c] EXCEPT !.pc = "select"]
      BY <1>2, GoesEffect DEF Lock
    <2>2. \A d \in Contexts : d # c => call'[d] = call[d]
      BY <1>2, GoesEffect DEF Lock
    <2>3. /\ call[c].pc = "lock" /\ call'[c].pc = "select"
          /\ call'[c].kind = call[c].kind /\ call'[c].port = call[c].port
          /\ call'[c].bit = call[c].bit
      BY <1>1, <1>2, <2>1 DEF Lock, Calls
    <2>4. /\ Answer(call'[c], shift') = Answer(call[c], shift)
          /\ Progress(call'[c]) = Progress(call[c])
      BY <2>3 DEF Answer, Progress
    <2>5. QED BY <1>2, <2>2, <2>3, <2>4, GoesOn DEF Lock
  <1>3. CASE LockPoisoned(c)
    <2>1. call'[c] = [call[c] EXCEPT !.pc = "idle", !.bit = FALSE, !.result = "panic"]
      BY <1>3, LockPoisonedEffect
    <2>2. \A d \in Contexts : d # c => call'[d] = call[d]
      BY <1>3, LockPoisonedEffect
    <2>3. /\ call[c].pc = "lock" /\ call'[c].pc = "idle" /\ call'[c].result = "panic"
          /\ call'[c].kind = call[c].kind /\ call'[c].port = call[c].port
      BY <1>1, <1>3, <2>1 DEF LockPoisoned, Calls
    <2>4. \A d \in Contexts : d # c => Access(call'[d], shift') = Access(call[d], shift)
      BY <1>3, <2>2, OpKept DEF LockPoisoned
    <2>5. Memory!Leavings(c)
      BY <1>3, PinsKept DEF LockPoisoned, Memory!Leavings
    <2>6. QED BY <2>3, <2>4, <2>5, CallFails
  <1>4. CASE Panic(c)
    <2>1. Memory!Leavings(c)
      BY <1>4, CutShortLeaves DEF Panic
    <2>2. Inside(c) /\ Leave(c, "panic", FALSE)
      <3>1. CutShort(c) /\ Leave(c, "panic", FALSE)
        BY <1>4, Zenon DEF Panic
      <3>2. QED BY <3>1 DEF CutShort, Inside
    <2>3. QED BY <2>1, <2>2, LeaveFails
  <1>5. ASSUME NEW from, NEW to \in {"write", "transfer"}, SetLow(c, from, to),
               <<from, to>> \in {<<"select", "write">>, <<"reselect", "transfer">>}
        PROVE  UNCHANGED Memory!vars
    <2>1. call'[c] = [call[c] EXCEPT !.pc = to]
      BY <1>5, GoesEffect DEF SetLow
    <2>2. \A d \in Contexts : d # c => call'[d] = call[d]
      BY <1>5, GoesEffect DEF SetLow
    <2>3. /\ call[c].pc = from /\ call'[c].pc = to
          /\ call'[c].kind = call[c].kind /\ call'[c].port = call[c].port
          /\ call'[c].bit = call[c].bit
      BY <1>1, <1>5, <2>1 DEF SetLow, Calls
    <2>4. shift' = shift
      BY <1>5 DEF SetLow
    <2>5. /\ Answer(call'[c], shift') = Answer(call[c], shift)
          /\ Progress(call'[c]) = Progress(call[c])
      BY <1>5, <2>3, <2>4 DEF Answer, Progress
    <2>6. QED BY <1>5, <2>2, <2>3, <2>4, <2>5, GoesOn DEF SetLow
  <1>6. CASE SetLowFails(c)
    <2>1. Memory!Leavings(c)
      BY <1>6, CutShortLeaves DEF SetLowFails
    <2>2. Inside(c)
      BY <1>6 DEF SetLowFails, Inside
    <2>3. QED BY <1>6, <2>1, <2>2, LeaveFails DEF SetLowFails, Error
  <1>7. CASE Write(c) \/ WriteFails(c)
    <2>1. /\ call[c].pc = "write" /\ call'[c].pc = "deselect"
          /\ call'[c].kind = call[c].kind /\ call'[c].port = call[c].port
          /\ call'[c].bit = call[c].bit
      BY <1>7, WriteEffect DEF Write, WriteFails
    <2>2. \A d \in Contexts : d # c => call'[d] = call[d] /\ ~Inside(d)
      BY <1>7, <2>1, WriteEffect, OthersOutside DEF Inside
    <2>3. /\ Answer(call'[c], shift') = Answer(call[c], shift)
          /\ Progress(call'[c]) = Progress(call[c])
      BY <2>1 DEF Answer, Progress
    <2>4. UNCHANGED <<registers, level>>
      BY <1>7, <2>1 DEF Write, WriteFails, CutShort
    <2>5. QED BY <2>1, <2>2, <2>3, <2>4, GoesOn
  <1>8. CASE Transfer(c) \/ TransferFails(c)
    <2>1. /\ call[c].pc = "transfer" /\ call'[c].pc = "finish" /\ call[c].kind = "read"
          /\ call'[c].kind = call[c].kind /\ call'[c].port = call[c].port
          /\ call'[c].halOk => call'[c].got = shift
      BY <1>8, TransferEffect DEF Transfer, TransferFails, BusInv, FramesInv
    <2>2. \A d \in Contexts : d # c => call'[d] = call[d] /\ ~Inside(d)
      BY <1>8, <2>1, TransferEffect, OthersOutside DEF Inside
    <2>3. UNCHANGED <<registers, level>>
      BY <1>8, <2>1 DEF Transfer, TransferFails, CutShort
    <2>4. CASE call'[c].halOk
      <3>1. /\ Answer(call'[c], shift') = Answer(call[c], shift)
            /\ Progress(call'[c]) = Progress(call[c])
        BY <2>1, <2>4 DEF Answer, Progress
      <3>2. QED BY <2>1, <2>2, <2>3, <3>1, GoesOn
    <2>5. CASE ~call'[c].halOk
      <3>1. Memory!Goes(c, Answer(call'[c], shift'), "called")
        <4>1. Progress(call'[c]) = "called"
          BY <2>1, <2>5 DEF Progress
        <4>2. \A d \in Contexts : d # c => Access(call'[d], shift') = Access(call[d], shift)
          BY <2>2, OpKept
        <4>3. QED BY <2>1, <4>1, <4>2, OpGoes
      <3>2. /\ Access(call[c], shift).kind = "read" /\ Access(call[c], shift).state = "taken"
            /\ Access(call'[c], shift').value = Answer(call'[c], shift')
        BY <2>1 DEF Access, Progress
      <3>3. \A p \in Ports : PinValue(p, registers', level') = PinValue(p, registers, level)
        BY <2>3, PinsKept
      <3>4. Memory!ReadLost(c)
        BY <3>1, <3>2, <3>3 DEF Memory!ReadLost, Memory!Over
      <3>5. QED BY <3>4 DEF Memory!Next
    <2>6. QED BY <2>4, <2>5
  <1>9. CASE SetHighFails(c)
    <2>1. call[c].pc \in {"deselect", "finish"} /\ CutShort(c) /\ Error(c)
      BY <1>9 DEF SetHighFails
    <2>2. Memory!Leavings(c) /\ Inside(c)
      BY <2>1, CutShortLeaves DEF Inside
    <2>3. QED BY <2>1, <2>2, LeaveFails DEF Error
  <1>10. QED BY <1>2, <1>3, <1>4, <1>5, <1>6, <1>7, <1>8, <1>9, DeselectMoves, FinishMoves
             DEF Step

LEMMA DriveDrives ==
  ASSUME NEW p \in Inputs, DriveInput(p)
  PROVE  Memory!Next
  <1>1. /\ \A q \in Inputs : q # p => (q \in level' <=> q \in level)
        /\ UNCHANGED <<call, shift, registers>>
    BY DEF DriveInput
  <1>2. ASSUME NEW q \in Ports, q # p
        PROVE  PinValue(q, registers', level') = PinValue(q, registers, level)
    <2>1. CASE q \in Inputs
      <3>1. q \in level' <=> q \in level
        BY <1>1, <1>2, <2>1
      <3>2. QED BY <2>1, <3>1, InputPin
    <2>2. CASE q \notin Inputs
      BY <1>1, <2>2 DEF PinValue
    <2>3. QED BY <2>1, <2>2
  <1>3. \A c \in Contexts : Access(call'[c], shift') = Access(call[c], shift)
    BY <1>1, OpKept
  <1>4. p \in Ports
    BY BusAssumption
  <1>5. Memory!Drive(p)
    BY <1>2, <1>3, <1>4 DEF Memory!Drive
  <1>6. QED BY <1>4, <1>5 DEF Memory!Next

\* Every set and read of a pin takes effect at one moment of its call, whatever
\* the other contexts, the HAL and the inputs do.
THEOREM Implementation == Spec => ImplementsMemory
  <1>1. Init /\ TypeOK => Memory!Init
    <2> SUFFICES ASSUME Init, TypeOK PROVE Memory!Init
      OBVIOUS
    <2>1. Memory!TypeOK
      BY OpType
    <2>2. ASSUME NEW c \in Contexts PROVE Access(call[c], shift).state = "ok"
      <3>1. call[c].pc = "idle" /\ call[c].result = "ok"
        BY DEF Init
      <3>2. QED BY <3>1 DEF Access, Progress
    <2>3. QED BY <2>1, <2>2 DEF Memory!Init, Memory!TypeOK
  <1>2. TypeOK /\ TypeOK' /\ BusInv /\ [Next]_vars =>
          [Memory!Next /\ Memory!TypeOK']_Memory!vars
    <2> SUFFICES ASSUME TypeOK, TypeOK', BusInv, [Next]_vars
                 PROVE  Memory!Next \/ UNCHANGED Memory!vars
      <3>1. TypeOK' => Memory!TypeOK'
        BY OpType, PTL
      <3>2. QED BY <3>1
    <2>1. ASSUME UNCHANGED vars PROVE UNCHANGED Memory!vars
      <3>1. UNCHANGED <<call, shift, registers, level>>
        BY <2>1 DEF vars, chip
      <3>2. QED BY <3>1, OpKept, PinsKept, Stutters
    <2>2. ASSUME NEW c \in Contexts, NEW p \in Ports, read_port(c, p) PROVE Memory!Next
      BY <2>2, BeginCalls DEF read_port
    <2>3. ASSUME NEW c \in Contexts, NEW p \in Ports, NEW b \in BOOLEAN, write_port(c, p, b)
          PROVE  Memory!Next
      BY <2>3, BeginCalls DEF write_port
    <2>4. QED BY <2>1, <2>2, <2>3, StepMoves, DriveDrives DEF Next
  <1>3. QED BY <1>1, <1>2, TypeCorrect, BusInvariant, PTL DEF Spec, ImplementsMemory, Memory!Spec
=============================================================================
