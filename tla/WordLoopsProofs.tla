-------------------------- MODULE WordLoopsProofs --------------------------
(***************************************************************************)
(* The scanning loops on shifted words do what the loops on sets of ports  *)
(* do, for every window, word length and chip: proofs about WordLoops.     *)
(***************************************************************************)
EXTENDS WordLoops, WellFoundedInduction, TLAPS

-----------------------------------------------------------------------------
(* Words. *)

\* A set of naturals that is not empty has a lowest element.
LEMMA LowestExists ==
  ASSUME NEW w, w \subseteq Nat, w # {}
  PROVE  \E n \in w : \A m \in w : n <= m
<1> DEFINE Below == {ss \in Nat \X Nat : ss[1] < ss[2]}
<1>1. IsWellFoundedOn(Below, Nat)
  BY NatLessThanWellFounded DEF OpToRel
<1> HIDE DEF Below
<1>2. PICK n \in w : \A m \in w : <<m, n>> \notin Below
  BY <1>1, WFMin
<1>3. ASSUME NEW m \in w PROVE n <= m
  <2>1. m \in Nat /\ n \in Nat
    OBVIOUS
  <2>2. ~(<<m, n>> \in Below)
    BY <1>2
  <2>3. <<m, n>> \in Nat \X Nat
    BY <2>1
  <2>4. ~(m < n)
    BY <2>2, <2>3 DEF Below
  <2> QED BY <2>1, <2>4
<1> QED BY <1>3

\* trailing_zeros counts the bits below the lowest one bit.
LEMMA TrailingZeros ==
  ASSUME NEW w \in Word, w # {}
  PROVE  /\ trailing_zeros(w) \in w
         /\ trailing_zeros(w) \in Bits
         /\ \A m \in w : trailing_zeros(w) <= m
<1>1. w \subseteq Nat
  BY WordAssumption DEF Word, Bits
<1>2. \E n \in w : \A m \in w : n <= m
  BY <1>1, LowestExists
<1>3. trailing_zeros(w) \in w /\ \A m \in w : trailing_zeros(w) <= m
  BY <1>2 DEF trailing_zeros
<1> QED BY <1>3 DEF Word

\* Shifts and masks stay within a word.
LEMMA WordsClosed ==
  ASSUME NEW v \in Word, NEW w, NEW n
  PROVE  /\ Shl(w, n) \in Word /\ Shr(w, n) \in Word /\ Bit(n) \in Word
         /\ Complement(w) \in Word /\ ClearRange(v) \in Word
         /\ v \cap Complement(w) \in Word
  BY DEF Word, Shl, Shr, Bit, Complement, ClearRange

\* 1 << p is the one bit of port p.
LEMMA OneBit ==
  ASSUME NEW p \in Bits
  PROVE  Bit(p) = {p}
  BY WordAssumption DEF Bit, Shl, Bits

\* A port is the number of a bit.
LEMMA PortsAreBits == /\ Ports \subseteq Bits
                      /\ Ports \subseteq Nat
                      /\ Bits \subseteq Nat
                      /\ Bits \subseteq 0..WordBits
  BY MapAssumption, WordAssumption DEF Ports, Bits

\* Skipping to the lowest bit of a scan loses nothing that is left to scan.
LEMMA SkipKeeps ==
  ASSUME NEW w \in Word, NEW start \in Nat, NEW n \in w, \A m \in w : n <= m
  PROVE  Positions(Shr(w, n), start + n) = Positions(w, start)
<1>1. ASSUME NEW q \in Positions(w, start)
      PROVE  q \in Positions(Shr(w, n), start + n)
  <2>1. PICK m \in w : q = m + start
    BY DEF Positions
  <2>2. /\ m - n \in Bits
        /\ (m - n) + n = m
        /\ (m - n) + (start + n) = m + start
    BY WordAssumption DEF Word, Bits
  <2>3. m - n \in Shr(w, n)
    BY <2>2 DEF Shr
  <2> QED BY <2>1, <2>2, <2>3 DEF Positions
<1>2. ASSUME NEW q \in Positions(Shr(w, n), start + n)
      PROVE  q \in Positions(w, start)
  <2>1. PICK i \in Bits : i + n \in w /\ q = i + (start + n)
    BY DEF Positions, Shr
  <2>2. q = (i + n) + start
    BY <2>1, WordAssumption DEF Word, Bits
  <2> QED BY <2>1, <2>2 DEF Positions
<1> QED BY <1>1, <1>2

\* ports &= !0xFF takes the range at the scan out of what is left.
LEMMA ClearRangeTakes ==
  ASSUME NEW w \in Word, NEW s \in Nat
  PROVE  Positions(ClearRange(w), s) = Positions(w, s) \ (s..(s + Window - 1))
<1>1. \A m \in w : m \in Nat /\ m \in Bits
  BY WordAssumption DEF Word, Bits
<1>2. \A m \in w : m \in RangeBits <=> m + s \in s..(s + Window - 1)
  BY <1>1, WordAssumption DEF RangeBits
<1>3. ClearRange(w) = {m \in w : m \notin RangeBits}
  BY <1>1 DEF ClearRange, Complement
<1> QED BY <1>2, <1>3 DEF Positions

\* ports &= !1 takes the port at the scan out of what is left.
LEMMA ClearPortTakes ==
  ASSUME NEW w \in Word, NEW s \in Nat
  PROVE  Positions(w \cap Complement(Bit(0)), s) = Positions(w, s) \ {s}
<1>1. \A m \in w : m \in Nat /\ m \in Bits
  BY WordAssumption DEF Word, Bits
<1>2. Bit(0) = {0}
  BY OneBit, WordAssumption, MapAssumption DEF Bits
<1>3. w \cap Complement(Bit(0)) = {m \in w : m # 0}
  BY <1>1, <1>2 DEF Complement
<1>4. \A m \in w : m # 0 <=> m + s # s
  BY <1>1
<1> QED BY <1>3, <1>4 DEF Positions

-----------------------------------------------------------------------------
(* The registers of the spy. *)

\* A PortRange register covers the ports from its own up; bit 0 is its own.
LEMMA RangeCovers ==
  ASSUME NEW q \in Ports
  PROVE  LET a == RegisterAddress(PortRange(q)) IN
           /\ Start(a) = q
           /\ Covered(a) = {p \in Ports : p \in q..(q + Window - 1)}
<1> DEFINE a == RegisterAddress(PortRange(q))
<1>1. a = PortRangeBase + q
  BY DEF RegisterAddress, PortRange
<1> HIDE DEF a
<1>2. /\ a \in (PortRangeBase + FirstPort)..(PortRangeBase + LastPort)
      /\ a \notin (SinglePortBase + FirstPort)..(SinglePortBase + LastPort)
      /\ a >= PortRangeBase + FirstPort
      /\ a - PortRangeBase = q
  BY <1>1, MapAssumption DEF Ports
<1>3. Start(a) = q
  BY <1>2 DEF Start
<1>4. Covered(a) = {p \in Ports : p \in q..(q + Window - 1)}
  BY <1>2, <1>3 DEF Covered
<1> QED BY <1>3, <1>4 DEF a

\* A SinglePort register covers its own port.
LEMMA SingleCovers ==
  ASSUME NEW q \in Ports
  PROVE  LET a == RegisterAddress(SinglePort(q)) IN
           /\ Start(a) = q
           /\ Covered(a) = {q}
<1> DEFINE a == RegisterAddress(SinglePort(q))
<1>1. a = SinglePortBase + q
  BY DEF RegisterAddress, SinglePort
<1> HIDE DEF a
<1>2. /\ a \in (SinglePortBase + FirstPort)..(SinglePortBase + LastPort)
      /\ ~(a >= PortRangeBase + FirstPort)
      /\ a - SinglePortBase = q
  BY <1>1, MapAssumption DEF Ports
<1>3. Start(a) = q
  BY <1>2 DEF Start
<1>4. Covered(a) = {q}
  BY <1>2, <1>3 DEF Covered
<1> QED BY <1>3, <1>4 DEF a

\* A range read, shifted up by its first port, puts every port's value at its bit.
LEMMA ReadCarries ==
  ASSUME NEW q \in Ports
  PROVE  Shl(ReadValue(ports, RegisterAddress(PortRange(q))), q)
           = Latch \cap (q..(q + Window - 1))
<1> DEFINE a == RegisterAddress(PortRange(q))
           read == Latch \cap (q..(q + Window - 1))
<1>1. Start(a) = q /\ Covered(a) = {p \in Ports : p \in q..(q + Window - 1)}
  BY RangeCovers
<1> HIDE DEF a
<1>2. ReadValue(ports, a) = {p - q : p \in read}
  BY <1>1 DEF ReadValue, Latch
<1>3. read \subseteq Bits /\ q \in Nat
  BY PortsAreBits DEF Latch
<1>4. \A i \in Bits, p \in read : i - q = p - q <=> i = p
  BY <1>3, PortsAreBits
<1> HIDE DEF read
<1>5. Shl(ReadValue(ports, a), q) = read
  BY <1>2, <1>3, <1>4 DEF Shl
<1> QED BY <1>5 DEF a, read

\* 0xFF << q: the positions that a range read from q makes fresh.
LEMMA RangeShifted ==
  ASSUME NEW q \in Ports
  PROVE  Shl(RangeBits, q) = (q..(q + Window - 1)) \cap Bits
<1>1. \A i \in Bits : i - q \in RangeBits <=> i \in q..(q + Window - 1)
  BY PortsAreBits, WordAssumption DEF RangeBits
<1> QED BY <1>1 DEF Shl

\* A range write reaches every port of the range with the bit of that port.
LEMMA RangeWriteCarries ==
  ASSUME NEW q \in Ports, NEW buffer \in Word
  PROVE  write_register(ports, RegisterAddress(PortRange(q)), RangeValue(buffer, q))
           = [p \in Ports |-> IF p \in q..(q + Window - 1)
                                THEN PortWritten(ports[p], p \in buffer) ELSE ports[p]]
<1> DEFINE a == RegisterAddress(PortRange(q))
<1>1. Start(a) = q /\ Covered(a) = {p \in Ports : p \in q..(q + Window - 1)}
  BY RangeCovers
<1> HIDE DEF a
<1>2. ASSUME NEW p \in Ports, p \in q..(q + Window - 1)
      PROVE  BitOf(RangeValue(buffer, q), p - q) <=> p \in buffer
  <2>1. /\ p - q \in Bits
        /\ p - q \in RangeBits
        /\ (p - q) + q = p
    BY <1>2, PortsAreBits, WordAssumption DEF Bits, RangeBits
  <2> QED BY <2>1 DEF BitOf, RangeValue, Shr
<1>3. write_register(ports, a, RangeValue(buffer, q))
        = [p \in Ports |-> IF p \in q..(q + Window - 1)
                             THEN PortWritten(ports[p], p \in buffer) ELSE ports[p]]
  <2>1. ASSUME NEW p \in Ports
        PROVE  (IF p \in Covered(a)
                  THEN PortWritten(ports[p], BitOf(RangeValue(buffer, q), p - Start(a)))
                  ELSE ports[p])
                 = IF p \in q..(q + Window - 1)
                     THEN PortWritten(ports[p], p \in buffer) ELSE ports[p]
    <3>1. CASE p \in q..(q + Window - 1)
      <4>1. BitOf(RangeValue(buffer, q), p - Start(a)) = (p \in buffer)
        BY <1>1, <1>2, <3>1 DEF BitOf
      <4> QED BY <1>1, <3>1, <4>1
    <3>2. CASE p \notin q..(q + Window - 1)
      BY <1>1, <3>2
    <3> QED BY <3>1, <3>2
  <2> QED BY <2>1 DEF write_register
<1> QED BY <1>3 DEF a

\* A single write reaches its port with the bit of that port.
LEMMA SingleWriteCarries ==
  ASSUME NEW q \in Ports, NEW buffer \in Word
  PROVE  write_register(ports, RegisterAddress(SinglePort(q)), PortValue(buffer, q))
           = [p \in Ports |-> IF p = q
                                THEN PortWritten(ports[p], p \in buffer) ELSE ports[p]]
<1> DEFINE a == RegisterAddress(SinglePort(q))
<1>1. Start(a) = q /\ Covered(a) = {q}
  BY SingleCovers
<1> HIDE DEF a
<1>2. Bit(q) = {q}
  BY OneBit, PortsAreBits
<1>3. 0 \in PortValue(buffer, q) <=> q \in buffer
  BY <1>2 DEF PortValue
<1>4. q - q = 0
  BY PortsAreBits
<1>5. BitOf(PortValue(buffer, q), q - Start(a)) = (q \in buffer)
  BY <1>1, <1>3, <1>4 DEF BitOf
<1>6. write_register(ports, a, PortValue(buffer, q))
        = [p \in Ports |-> IF p = q
                             THEN PortWritten(ports[p], p \in buffer) ELSE ports[p]]
  BY <1>1, <1>5 DEF write_register
<1> QED BY <1>6 DEF a

-----------------------------------------------------------------------------
(* The turns of the two loops, in terms of positions. *)

\* The ports that a turn takes: the range at the next port, if all of it may be
\* written, or that port alone.
Range == NextPort..(NextPort + Window - 1)
Target == IF Range \subseteq call.allowed THEN Range ELSE {NextPort}

\* The scan goes on at the lowest port that is left.
LEMMA NextPortLowest ==
  ASSUME TypeOK, call.todo # {}, Remaining \subseteq Ports
  PROVE  /\ Skip \in call.todo /\ \A m \in call.todo : Skip <= m
         /\ call.start \in Nat /\ call.todo \in Word /\ Skip \in Nat
         /\ NextPort \in Remaining /\ NextPort \in Ports
         /\ NextPort \in Nat /\ NextPort \in 0..WordBits
         /\ \A q \in Remaining : NextPort <= q
<1>1. call.todo \in Word /\ call.start \in Nat
  BY WordAssumption DEF TypeOK, Calls
<1>2. /\ Skip \in call.todo /\ Skip \in Bits
      /\ \A m \in call.todo : Skip <= m
  BY <1>1, TrailingZeros DEF Skip
<1>3. Skip \in Nat /\ \A m \in call.todo : m \in Nat
  BY <1>1, <1>2, PortsAreBits DEF Word
<1>4. NextPort = Skip + call.start
  BY <1>1, <1>3 DEF NextPort
<1>5. NextPort \in Remaining
  BY <1>2, <1>4 DEF Remaining, Positions
<1>6. \A q \in Remaining : NextPort <= q
  BY <1>1, <1>2, <1>3, <1>4 DEF Remaining, Positions
<1>7. NextPort \in Ports /\ NextPort \in Nat /\ NextPort \in 0..WordBits
  BY <1>5, PortsAreBits
<1> QED BY <1>1, <1>2, <1>3, <1>5, <1>6, <1>7

\* What a turn that clears its range has left.
LEMMA RangeTaken ==
  ASSUME TypeOK, call.todo # {}, Remaining \subseteq Ports
  PROVE  Positions(ClearRange(Shr(call.todo, Skip)), NextPort) = Remaining \ Range
<1>1. /\ Skip \in call.todo /\ \A m \in call.todo : Skip <= m
      /\ call.start \in Nat /\ call.todo \in Word /\ NextPort \in Nat
  BY NextPortLowest
<1>2. Positions(Shr(call.todo, Skip), NextPort) = Remaining
  BY <1>1, SkipKeeps DEF NextPort, Remaining
<1>3. Shr(call.todo, Skip) \in Word
  BY DEF Shr, Word
<1> QED BY <1>1, <1>2, <1>3, ClearRangeTakes DEF Range

\* What a turn that clears one port has left.
LEMMA PortTaken ==
  ASSUME TypeOK, call.todo # {}, Remaining \subseteq Ports
  PROVE  Positions(Shr(call.todo, Skip) \cap Complement(Bit(0)), NextPort)
           = Remaining \ {NextPort}
<1>1. /\ Skip \in call.todo /\ \A m \in call.todo : Skip <= m
      /\ call.start \in Nat /\ call.todo \in Word /\ NextPort \in Nat
  BY NextPortLowest
<1>2. Positions(Shr(call.todo, Skip), NextPort) = Remaining
  BY <1>1, SkipKeeps DEF NextPort, Remaining
<1>3. Shr(call.todo, Skip) \in Word
  BY DEF Shr, Word
<1> QED BY <1>1, <1>2, <1>3, ClearPortTakes

\* A turn of refresh reads the range at the next port and takes it out.
LEMMA RefreshTurnTakes ==
  ASSUME TypeOK, RefreshInv, RefreshTurn
  PROVE  /\ call \in Calls /\ call.todo # {} /\ Remaining \subseteq Ports
         /\ call' = [call EXCEPT !.start = NextPort,
                                 !.todo = ClearRange(Shr(call.todo, Skip)),
                                 !.buffer = call.buffer \cup (Latch \cap Range),
                                 !.ok = call.ok \cup (Range \cap Bits)]
         /\ Remaining' = Remaining \ Range
         /\ ports' = [p \in Ports |-> IF p \in Range THEN PortRead(ports[p]) ELSE ports[p]]
<1> DEFINE a == RegisterAddress(PortRange(NextPort))
<1>1. /\ call.pc = "refresh" /\ call.todo # {} /\ call \in Calls
      /\ Remaining \subseteq Ports
  BY DEF RefreshTurn, RefreshInv, TypeOK
<1>2. NextPort \in Ports
  BY <1>1, NextPortLowest
<1>3. Covered(a) = {p \in Ports : p \in Range}
  BY <1>2, RangeCovers DEF Range
<1>4. Shl(ReadValue(ports, a), NextPort) = Latch \cap Range
  BY <1>2, ReadCarries DEF Range
<1>5. Shl(RangeBits, NextPort) = Range \cap Bits
  BY <1>2, RangeShifted DEF Range
<1>6. /\ ports' = read_register(ports, a)
      /\ call' = [call EXCEPT !.start = NextPort,
                              !.todo = ClearRange(Shr(@, Skip)),
                              !.buffer = @ \cup Shl(ReadValue(ports, a), NextPort),
                              !.ok = @ \cup Shl(RangeBits, NextPort)]
  BY DEF RefreshTurn
<1> HIDE DEF a
<1>7. ports' = [p \in Ports |-> IF p \in Range THEN PortRead(ports[p]) ELSE ports[p]]
  BY <1>3, <1>6 DEF read_register
<1>8. call' = [call EXCEPT !.start = NextPort,
                           !.todo = ClearRange(Shr(call.todo, Skip)),
                           !.buffer = call.buffer \cup (Latch \cap Range),
                           !.ok = call.ok \cup (Range \cap Bits)]
  BY <1>4, <1>5, <1>6
<1>9. Remaining' = Remaining \ Range
  <2>1. call'.start = NextPort /\ call'.todo = ClearRange(Shr(call.todo, Skip))
    BY <1>1, <1>8 DEF Calls
  <2>2. Remaining' = Positions(ClearRange(Shr(call.todo, Skip)), NextPort)
    BY <2>1 DEF Remaining, Positions
  <2> QED BY <1>1, <2>2, RangeTaken
<1> QED BY <1>1, <1>7, <1>8, <1>9

\* The shifted mask has its low bits set when the range at the next port may be
\* written.
LEMMA RangeOkMeans ==
  ASSUME NEW allowed \in Word, NEW start \in Nat, NEW n \in Nat
  PROVE  /\ OkShifted(Shr(allowed, start), n) = Shr(allowed, start + n)
         /\ RangeOk(Shr(allowed, start + n))
              <=> (start + n)..(start + n + Window - 1) \subseteq allowed
<1>1. OkShifted(Shr(allowed, start), n) = Shr(allowed, start + n)
  <2>1. ASSUME NEW i \in Bits
        PROVE  (i + n \in Bits /\ (i + n) + start \in allowed) <=> i + (start + n) \in allowed
    <3>1. i \in Nat /\ (i + n) + start = i + (start + n)
      BY PortsAreBits
    <3>2. ASSUME i + (start + n) \in allowed PROVE i + n \in Bits
      BY <3>1, <3>2, WordAssumption DEF Word, Bits
    <3> QED BY <3>1, <3>2
  <2> QED BY <2>1 DEF OkShifted, Shr
<1>2. ASSUME RangeOk(Shr(allowed, start + n)),
             NEW p \in (start + n)..(start + n + Window - 1)
      PROVE  p \in allowed
  <2>1. p - (start + n) \in RangeBits /\ (p - (start + n)) + (start + n) = p
    BY WordAssumption DEF RangeBits
  <2>2. p - (start + n) \in Shr(allowed, start + n)
    BY <1>2, <2>1 DEF RangeOk
  <2> QED BY <2>1, <2>2 DEF Shr
<1>3. ASSUME (start + n)..(start + n + Window - 1) \subseteq allowed, NEW i \in RangeBits
      PROVE  i \in Shr(allowed, start + n)
  <2>1. i \in Nat /\ i + (start + n) \in (start + n)..(start + n + Window - 1)
    BY WordAssumption DEF RangeBits
  <2>2. i + (start + n) \in allowed
    BY <1>3, <2>1
  <2>3. i \in Bits
    BY <2>1, <2>2, WordAssumption DEF Word, Bits
  <2> QED BY <2>2, <2>3 DEF Shr
<1> QED BY <1>1, <1>2, <1>3 DEF RangeOk

\* A turn of write_back writes the ports of Target with their cached values and
\* takes them out; the masks of the scan and of the strategy stay aligned.
LEMMA WriteBackTurnTakes ==
  ASSUME TypeOK, DirtyInv, WriteBackInv, WriteBackTurn
  PROVE  /\ call.pc = "write_back" /\ call \in Calls /\ call.todo # {}
         /\ Remaining \subseteq Ports
         /\ \E todo \in Word :
              call' = [call EXCEPT !.start = NextPort, !.todo = todo,
                                   !.ok = Shr(call.allowed, NextPort)]
         /\ Remaining' = Remaining \ Target
         /\ ports' = [p \in Ports |-> IF p \in Target
                                        THEN PortWritten(ports[p], p \in cache) ELSE ports[p]]
<1> DEFINE ok == OkShifted(call.ok, Skip)
           todo == Shr(call.todo, Skip)
<1>1. /\ call.pc = "write_back" /\ call.todo # {} /\ call \in Calls
      /\ Remaining \subseteq Ports /\ cache \in Word /\ call.buffer = cache
      /\ call.allowed \in Word /\ call.ok = Shr(call.allowed, call.start)
  BY DEF WriteBackTurn, WriteBackInv, DirtyInv, TypeOK, Calls
<1>2. /\ NextPort \in Ports /\ call.start \in Nat /\ Skip \in Nat
      /\ NextPort = call.start + Skip
  BY <1>1, NextPortLowest DEF NextPort
<1>3. /\ ok = Shr(call.allowed, NextPort)
      /\ RangeOk(ok) <=> Range \subseteq call.allowed
  BY <1>1, <1>2, RangeOkMeans DEF Range
<1>4. \/ /\ RangeOk(ok)
         /\ ports' = write_register(ports, RegisterAddress(PortRange(NextPort)),
                                    RangeValue(call.buffer, NextPort))
         /\ call' = [call EXCEPT !.start = NextPort, !.ok = ok, !.todo = ClearRange(todo)]
      \/ /\ ~RangeOk(ok)
         /\ ports' = write_register(ports, RegisterAddress(SinglePort(NextPort)),
                                    PortValue(call.buffer, NextPort))
         /\ call' = [call EXCEPT !.start = NextPort, !.ok = ok,
                                 !.todo = todo \cap Complement(Bit(0))]
  BY DEF WriteBackTurn
<1>5. ClearRange(todo) \in Word /\ todo \cap Complement(Bit(0)) \in Word
  BY DEF Word, Shr, ClearRange
<1>6. CASE RangeOk(ok)
  <2>1. Target = Range
    BY <1>3, <1>6 DEF Target
  <2>2. call' = [call EXCEPT !.start = NextPort, !.todo = ClearRange(todo),
                             !.ok = Shr(call.allowed, NextPort)]
    BY <1>3, <1>4, <1>6
  <2>3. ports' = [p \in Ports |-> IF p \in Range
                                    THEN PortWritten(ports[p], p \in cache) ELSE ports[p]]
    BY <1>1, <1>2, <1>4, <1>6, RangeWriteCarries DEF Range
  <2>4. call'.start = NextPort /\ call'.todo = ClearRange(todo)
    BY <1>1, <2>2 DEF Calls
  <2>5. Remaining' = Remaining \ Range
    BY <1>1, <2>4, RangeTaken DEF Remaining, Positions
  <2> QED BY <1>1, <1>5, <2>1, <2>2, <2>3, <2>5
<1>7. CASE ~RangeOk(ok)
  <2>1. Target = {NextPort}
    BY <1>3, <1>7 DEF Target
  <2>2. call' = [call EXCEPT !.start = NextPort, !.todo = todo \cap Complement(Bit(0)),
                             !.ok = Shr(call.allowed, NextPort)]
    BY <1>3, <1>4, <1>7
  <2>3. ports' = [p \in Ports |-> IF p = NextPort
                                    THEN PortWritten(ports[p], p \in cache) ELSE ports[p]]
    BY <1>1, <1>2, <1>4, <1>7, SingleWriteCarries
  <2>4. call'.start = NextPort /\ call'.todo = todo \cap Complement(Bit(0))
    BY <1>1, <2>2 DEF Calls
  <2>5. Remaining' = Remaining \ {NextPort}
    BY <1>1, <2>4, PortTaken DEF Remaining, Positions
  <2> QED BY <1>1, <1>5, <2>1, <2>2, <2>3, <2>5
<1> QED BY <1>6, <1>7

-----------------------------------------------------------------------------
(* LoopInv is inductive. *)

\* Reading a port of the spy is noticed and changes no value.
LEMMA ReadPortHolds ==
  ASSUME NEW tp \in TestPort
  PROVE  /\ PortRead(tp) \in TestPort
         /\ PortRead(tp).status # "Reset"
         /\ PortRead(tp).bit = tp.bit
  BY DEF TestPort, PortRead

\* Writing a port of the spy is noticed and sets its value.
LEMMA WrittenPortHolds ==
  ASSUME NEW tp \in TestPort, NEW b \in BOOLEAN
  PROVE  /\ PortWritten(tp, b) \in TestPort
         /\ PortWritten(tp, b).status # "Reset"
         /\ PortWritten(tp, b).bit = b
  BY DEF TestPort, PortWritten

\* The locals of a caller that is in no transfer.
LEMMA NoCallTyped == NoCall \in Calls /\ NoCall.pc = "idle"
  BY WordAssumption DEF NoCall, Calls, Strategies, Word

\* The mask of every strategy is a word.
LEMMA OkToWriteWord ==
  ASSUME TypeOK, NEW s \in Strategies
  PROVE  OkToWrite(s) \in Word
<1>1. AnyMask \in Word
  BY MapAssumption, WordAssumption DEF AnyMask, Word, Bits
<1> QED BY <1>1 DEF OkToWrite, TypeOK, Strategies

LEMMA InvInit == Init => LoopInv
<1> SUFFICES ASSUME Init PROVE LoopInv
  OBVIOUS
<1>1. TypeOK
  BY NoCallTyped, WordAssumption DEF Init, TypeOK, Word, TestPort
<1> QED BY <1>1, NoCallTyped
  DEF Init, LoopInv, DirtyInv, RefreshInv, WriteBackInv, CleanInv

LEMMA InvPortPin ==
  ASSUME LoopInv, NEW p \in Ports, port_pin(p)
  PROVE  LoopInv'
<1>1. Bit(p) = {p} /\ {p} \subseteq Bits
  BY OneBit, PortsAreBits
<1>2. /\ issued' = issued \cup {p} /\ call.pc = "idle"
      /\ UNCHANGED <<cache, dirty, fresh, call, ports>>
  BY <1>1 DEF port_pin
<1>3. TypeOK'
  BY <1>1, <1>2 DEF LoopInv, TypeOK, Word
<1>4. DirtyInv'
  BY <1>2 DEF LoopInv, DirtyInv
<1>5. RefreshInv' /\ WriteBackInv'
  BY <1>2 DEF RefreshInv, WriteBackInv
<1>6. CleanInv'
  BY <1>2 DEF LoopInv, CleanInv, Agrees
<1> QED BY <1>3, <1>4, <1>5, <1>6 DEF LoopInv

LEMMA InvWritePort ==
  ASSUME LoopInv, NEW p \in Ports, NEW b \in BOOLEAN, write_port(p, b)
  PROVE  LoopInv'
<1>1. Bit(p) = {p} /\ {p} \subseteq Bits
  BY OneBit, PortsAreBits
<1>2. /\ call.pc = "idle" /\ p \in issued
      /\ cache' = IF b THEN cache \cup {p} ELSE cache \cap (Bits \ {p})
      /\ dirty' = dirty \cup {p} /\ fresh' = fresh \cup {p}
      /\ UNCHANGED <<issued, call, ports>>
  BY <1>1 DEF write_port, Complement
<1>3. TypeOK'
  <2>1. cache' \in Word /\ dirty' \in Word /\ fresh' \in Word
    BY <1>1, <1>2 DEF LoopInv, TypeOK, Word
  <2> QED BY <1>2, <2>1 DEF LoopInv, TypeOK
<1>4. DirtyInv'
  BY <1>2 DEF LoopInv, DirtyInv
<1>5. RefreshInv' /\ WriteBackInv'
  BY <1>2 DEF RefreshInv, WriteBackInv
<1>6. CleanInv'
  <2>1. ASSUME NEW q \in (fresh' \cap Ports) \ dirty'
        PROVE  Agrees(q, cache)'
    <3>1. q \in (fresh \cap Ports) \ dirty /\ q # p
      BY <1>2, <2>1
    <3>2. Agrees(q, cache)
      BY <1>2, <3>1 DEF LoopInv, CleanInv
    <3>3. q \in cache' <=> q \in cache
      BY <1>2, <3>1, PortsAreBits
    <3> QED BY <1>2, <3>2, <3>3 DEF Agrees
  <2> QED BY <2>1 DEF CleanInv
<1> QED BY <1>3, <1>4, <1>5, <1>6 DEF LoopInv

LEMMA InvRefresh ==
  ASSUME LoopInv, refresh
  PROVE  LoopInv'
<1>1. /\ dirty' = {} /\ UNCHANGED <<issued, cache, fresh, ports>>
      /\ call' = [NoCall EXCEPT !.pc = "refresh", !.start = FirstPort,
                                !.todo = Shr(issued, FirstPort)]
  BY DEF refresh
<1>2. /\ FirstPort \in Nat /\ FirstPort \in 0..WordBits
      /\ Shr(issued, FirstPort) \in Word
  BY MapAssumption, WordAssumption DEF Shr, Word
<1>3. /\ call'.pc = "refresh" /\ call'.start = FirstPort
      /\ call'.todo = Shr(issued, FirstPort) /\ call'.ok = {} /\ call'.buffer = {}
      /\ call' \in Calls
  BY <1>1, <1>2, NoCallTyped DEF NoCall, Calls
<1>4. TypeOK'
  BY <1>1, <1>3 DEF LoopInv, TypeOK, Word
<1>5. DirtyInv'
  BY <1>1 DEF LoopInv, DirtyInv
<1>6. RefreshInv'
  <2>1. Remaining' \subseteq issued
    BY <1>3 DEF Remaining, Positions, Shr
  <2> QED BY <1>1, <1>3, <2>1 DEF LoopInv, DirtyInv, RefreshInv
<1>7. WriteBackInv' /\ CleanInv'
  BY <1>3 DEF WriteBackInv, CleanInv
<1> QED BY <1>4, <1>5, <1>6, <1>7 DEF LoopInv

LEMMA InvRefreshTurn ==
  ASSUME LoopInv, RefreshTurn
  PROVE  LoopInv'
<1>1. /\ TypeOK /\ RefreshInv /\ DirtyInv /\ call.pc = "refresh"
      /\ UNCHANGED words
  BY DEF LoopInv, RefreshTurn
<1>2. /\ call \in Calls /\ call.todo # {} /\ Remaining \subseteq Ports
      /\ call' = [call EXCEPT !.start = NextPort,
                              !.todo = ClearRange(Shr(call.todo, Skip)),
                              !.buffer = call.buffer \cup (Latch \cap Range),
                              !.ok = call.ok \cup (Range \cap Bits)]
      /\ Remaining' = Remaining \ Range
      /\ ports' = [p \in Ports |-> IF p \in Range THEN PortRead(ports[p]) ELSE ports[p]]
  BY <1>1, RefreshTurnTakes
<1>3. NextPort \in 0..WordBits
  BY <1>1, <1>2, NextPortLowest
<1>4. /\ ClearRange(Shr(call.todo, Skip)) \in Word
      /\ call.buffer \cup (Latch \cap Range) \in Word
      /\ call.ok \cup (Range \cap Bits) \in Word
  BY <1>2, PortsAreBits DEF Calls, Word, ClearRange, Shr, Latch
<1>5. /\ call' \in Calls /\ call'.pc = "refresh"
      /\ call'.buffer = call.buffer \cup (Latch \cap Range)
      /\ call'.ok = call.ok \cup (Range \cap Bits)
  BY <1>1, <1>2, <1>3, <1>4 DEF Calls
<1>6. ports' \in [Ports -> TestPort]
  BY <1>1, <1>2, ReadPortHolds DEF TypeOK
<1>7. TypeOK'
  BY <1>1, <1>5, <1>6 DEF TypeOK, words
<1>8. DirtyInv'
  BY <1>1 DEF DirtyInv, words
<1>9. RefreshInv'
  <2>1. ASSUME NEW p \in call'.ok \cap Ports
        PROVE  Agrees(p, call.buffer)'
    <3>1. ports[p] \in TestPort
      BY <1>1 DEF TypeOK
    <3>2. CASE p \in Range
      <4>1. ports'[p] = PortRead(ports[p])
        BY <1>2, <3>2
      <4>2. ports'[p].status # "Reset" /\ ports'[p].bit = ports[p].bit
        BY <3>1, <4>1, ReadPortHolds
      <4>3. p \in call'.buffer <=> p \in call.buffer \/ ports[p].bit
        BY <1>5, <3>2 DEF Latch
      <4>4. p \in call.buffer => ports[p].bit
        BY <1>1 DEF RefreshInv, Latch
      <4> QED BY <4>2, <4>3, <4>4 DEF Agrees
    <3>3. CASE p \notin Range
      <4>1. p \in call.ok /\ ports'[p] = ports[p] /\ (p \in call'.buffer <=> p \in call.buffer)
        BY <1>2, <1>5, <2>1, <3>3
      <4> QED BY <1>1, <4>1 DEF RefreshInv, Agrees
    <3> QED BY <3>2, <3>3
  <2>2. Latch' = Latch
    <3>1. ASSUME NEW p \in Ports PROVE ports'[p].bit = ports[p].bit
      BY <1>1, <1>2, ReadPortHolds DEF TypeOK
    <3> QED BY <3>1 DEF Latch
  <2>3. call'.buffer \subseteq Latch'
    BY <1>1, <1>5, <2>2 DEF RefreshInv
  <2> QED BY <1>1, <1>2, <1>5, <2>1, <2>3 DEF RefreshInv, words
<1>10. WriteBackInv' /\ CleanInv'
  BY <1>5 DEF WriteBackInv, CleanInv
<1> QED BY <1>7, <1>8, <1>9, <1>10 DEF LoopInv

LEMMA InvRefreshEnd ==
  ASSUME LoopInv, RefreshEnd
  PROVE  LoopInv'
<1>1. /\ call.pc = "refresh" /\ cache' = call.buffer /\ fresh' = call.ok
      /\ call' = NoCall /\ UNCHANGED <<issued, dirty, ports>>
  BY DEF RefreshEnd
<1>2. call'.pc = "idle" /\ call' \in Calls
  BY <1>1, NoCallTyped
<1>3. TypeOK'
  <2>1. call.buffer \in Word /\ call.ok \in Word
    BY DEF LoopInv, TypeOK, Calls
  <2> QED BY <1>1, <1>2, <2>1 DEF LoopInv, TypeOK
<1>4. DirtyInv'
  BY <1>1 DEF LoopInv, DirtyInv, RefreshInv
<1>5. RefreshInv' /\ WriteBackInv'
  BY <1>2 DEF RefreshInv, WriteBackInv
<1>6. CleanInv'
  BY <1>1 DEF LoopInv, RefreshInv, CleanInv, Agrees
<1> QED BY <1>3, <1>4, <1>5, <1>6 DEF LoopInv

LEMMA InvWriteBack ==
  ASSUME LoopInv, NEW s \in Strategies, write_back(s)
  PROVE  LoopInv'
<1>1. /\ call.pc = "idle" /\ UNCHANGED <<words, ports>>
      /\ call' = [NoCall EXCEPT !.pc = "write_back", !.strategy = s, !.todo = dirty,
                                !.ok = OkToWrite(s), !.allowed = OkToWrite(s),
                                !.buffer = cache]
  BY DEF write_back
<1>2. OkToWrite(s) \in Word /\ dirty \in Word /\ cache \in Word
  BY OkToWriteWord DEF LoopInv, TypeOK
<1>3. /\ call' \in Calls /\ call'.pc = "write_back" /\ call'.strategy = s
      /\ call'.start = 0 /\ call'.todo = dirty /\ call'.ok = OkToWrite(s)
      /\ call'.allowed = OkToWrite(s) /\ call'.buffer = cache
  BY <1>1, <1>2, NoCallTyped DEF NoCall, Calls
<1>4. TypeOK'
  BY <1>1, <1>3 DEF LoopInv, TypeOK, words
<1>5. DirtyInv'
  BY <1>1 DEF LoopInv, DirtyInv, words
<1>6. WriteBackInv'
  <2>1. \A w \in Word : Positions(w, 0) = w /\ Shr(w, 0) = w
    <3>1. ASSUME NEW w \in Word PROVE Positions(w, 0) = w
      <4>1. \A n \in w : n + 0 = n
        BY PortsAreBits DEF Word
      <4> QED BY <4>1 DEF Positions
    <3>2. ASSUME NEW w \in Word PROVE Shr(w, 0) = w
      <4>1. \A i \in Bits : i + 0 = i
        BY PortsAreBits
      <4> QED BY <4>1 DEF Word, Shr
    <3> QED BY <3>1, <3>2
  <2>2. Remaining' = dirty
    <3>1. Remaining' = Positions(dirty, 0)
      BY <1>3 DEF Remaining, Positions
    <3> QED BY <1>2, <2>1, <3>1
  <2>3. OkToWrite(s)' = OkToWrite(s)
    BY <1>1 DEF OkToWrite, words
  <2>4. call'.allowed = OkToWrite(call.strategy)'
    BY <1>1, <1>3 DEF OkToWrite, words
  <2>5. call'.ok = Shr(call.allowed, call.start)'
    <3>1. OkToWrite(s) = Shr(OkToWrite(s), 0)
      BY <1>2, <2>1
    <3> QED BY <1>3, <3>1 DEF Shr
  <2> QED BY <1>1, <1>3, <2>2, <2>4, <2>5 DEF WriteBackInv, words
<1>7. CleanInv'
  BY <1>1, <1>3 DEF LoopInv, CleanInv, Agrees, words
<1>8. RefreshInv'
  BY <1>3 DEF RefreshInv
<1> QED BY <1>4, <1>5, <1>6, <1>7, <1>8 DEF LoopInv

\* A turn of write_back leaves the spy with the cached value of every port it took,
\* and with what it had for the others.
LEMMA TargetAgrees ==
  ASSUME LoopInv, WriteBackTurn, NEW p \in Ports,
         p \in Target \/ Agrees(p, cache)
  PROVE  Agrees(p, cache)'
<1>1. /\ ports[p] \in TestPort
      /\ ports' = [q \in Ports |-> IF q \in Target
                                     THEN PortWritten(ports[q], q \in cache) ELSE ports[q]]
      /\ cache' = cache
  BY WriteBackTurnTakes DEF LoopInv, TypeOK, WriteBackTurn, words
<1>2. CASE p \in Target
  <2>1. ports'[p] = PortWritten(ports[p], p \in cache)
    BY <1>1, <1>2
  <2>2. PortWritten(ports[p], p \in cache).status # "Reset"
    BY <1>1 DEF TestPort, PortWritten
  <2>3. PortWritten(ports[p], p \in cache).bit = (p \in cache)
    BY DEF PortWritten
  <2> QED BY <1>1, <2>1, <2>2, <2>3 DEF Agrees
<1>3. CASE p \notin Target
  <2>1. ports'[p] = ports[p]
    BY <1>1, <1>3
  <2> QED BY <1>1, <1>3, <2>1 DEF Agrees
<1> QED BY <1>2, <1>3

LEMMA InvWriteBackTurn ==
  ASSUME LoopInv, WriteBackTurn
  PROVE  LoopInv'
<1>1. /\ TypeOK /\ DirtyInv /\ WriteBackInv /\ CleanInv
      /\ UNCHANGED words
  BY DEF LoopInv, WriteBackTurn
<1>2. /\ call.pc = "write_back" /\ call \in Calls /\ call.todo # {}
      /\ Remaining \subseteq Ports
      /\ \E todo \in Word :
           call' = [call EXCEPT !.start = NextPort, !.todo = todo,
                                !.ok = Shr(call.allowed, NextPort)]
      /\ Remaining' = Remaining \ Target
      /\ ports' = [p \in Ports |-> IF p \in Target
                                     THEN PortWritten(ports[p], p \in cache) ELSE ports[p]]
  BY <1>1, WriteBackTurnTakes
<1>3. NextPort \in 0..WordBits
  BY <1>1, <1>2, NextPortLowest
<1>4. Shr(call.allowed, NextPort) \in Word
  BY DEF Shr, Word
<1>5. /\ call' \in Calls /\ call'.pc = "write_back" /\ call'.start = NextPort
      /\ call'.ok = Shr(call.allowed, NextPort) /\ call'.allowed = call.allowed
      /\ call'.buffer = call.buffer /\ call'.strategy = call.strategy
  BY <1>2, <1>3, <1>4 DEF Calls
<1>6. TypeOK'
  <2>1. ports' \in [Ports -> TestPort]
    <3>1. ASSUME NEW p \in Ports
          PROVE  (IF p \in Target THEN PortWritten(ports[p], p \in cache) ELSE ports[p])
                   \in TestPort
      <4>1. ports[p] \in TestPort /\ (p \in cache) \in BOOLEAN
        BY <1>1 DEF TypeOK
      <4>2. PortWritten(ports[p], p \in cache) \in TestPort
        BY <4>1, WrittenPortHolds
      <4> QED BY <4>1, <4>2
    <3> QED BY <1>2, <3>1
  <2> QED BY <1>1, <1>5, <2>1 DEF TypeOK, words
<1>7. DirtyInv'
  BY <1>1 DEF DirtyInv, words
<1>8. WriteBackInv'
  <2>1. call'.allowed = OkToWrite(call.strategy)'
    BY <1>1, <1>2, <1>5 DEF WriteBackInv, OkToWrite, words
  <2>2. call'.ok = Shr(call.allowed, call.start)'
    BY <1>5 DEF Shr
  <2>3. call'.buffer = cache' /\ Remaining' \subseteq dirty'
    BY <1>1, <1>2, <1>5 DEF WriteBackInv, words
  <2>4. ASSUME NEW p \in dirty' \ Remaining'
        PROVE  Agrees(p, cache)'
    <3>1. p \in Ports /\ (p \in dirty \ Remaining \/ p \in Target)
      BY <1>1, <1>2, <2>4 DEF DirtyInv, words
    <3>2. p \in Target \/ Agrees(p, cache)
      BY <1>1, <1>2, <3>1 DEF WriteBackInv
    <3> QED BY <3>1, <3>2, TargetAgrees
  <2> QED BY <2>1, <2>2, <2>3, <2>4 DEF WriteBackInv
<1>9. CleanInv'
  <2>1. ASSUME NEW p \in (fresh' \cap Ports) \ dirty'
        PROVE  Agrees(p, cache)'
    <3>1. Agrees(p, cache)
      BY <1>1, <1>2, <2>1 DEF CleanInv, words
    <3> QED BY <2>1, <3>1, TargetAgrees
  <2> QED BY <2>1 DEF CleanInv
<1>10. RefreshInv'
  BY <1>5 DEF RefreshInv
<1> QED BY <1>6, <1>7, <1>8, <1>9, <1>10 DEF LoopInv

LEMMA InvWriteBackEnd ==
  ASSUME LoopInv, WriteBackEnd
  PROVE  LoopInv'
<1>1. /\ call.pc = "write_back" /\ call.todo = {} /\ dirty' = {} /\ call' = NoCall
      /\ UNCHANGED <<issued, cache, fresh, ports>>
  BY DEF WriteBackEnd
<1>2. call'.pc = "idle" /\ call' \in Calls
  BY <1>1, NoCallTyped
<1>3. TypeOK'
  BY <1>1, <1>2 DEF LoopInv, TypeOK, Word
<1>4. DirtyInv'
  BY <1>1 DEF LoopInv, DirtyInv
<1>5. RefreshInv' /\ WriteBackInv'
  BY <1>2 DEF RefreshInv, WriteBackInv
<1>6. CleanInv'
  <2>1. Remaining = {}
    BY <1>1 DEF Remaining, Positions
  <2>2. \A p \in fresh \cap Ports : Agrees(p, cache)
    BY <1>1, <2>1 DEF LoopInv, WriteBackInv, CleanInv
  <2> QED BY <1>1, <2>2 DEF CleanInv, Agrees
<1> QED BY <1>3, <1>4, <1>5, <1>6 DEF LoopInv

LEMMA InvStep == LoopInv /\ [Next]_vars => LoopInv'
<1> SUFFICES ASSUME LoopInv, [Next]_vars PROVE LoopInv'
  OBVIOUS
<1>1. ASSUME NEW p \in Ports, port_pin(p) PROVE LoopInv'
  BY <1>1, InvPortPin
<1>2. ASSUME NEW p \in Ports, NEW b \in BOOLEAN, write_port(p, b) PROVE LoopInv'
  BY <1>2, InvWritePort
<1>3. CASE refresh
  BY <1>3, InvRefresh
<1>4. CASE RefreshTurn
  BY <1>4, InvRefreshTurn
<1>5. CASE RefreshEnd
  BY <1>5, InvRefreshEnd
<1>6. ASSUME NEW s \in Strategies, write_back(s) PROVE LoopInv'
  BY <1>6, InvWriteBack
<1>7. CASE WriteBackTurn
  BY <1>7, InvWriteBackTurn
<1>8. CASE WriteBackEnd
  BY <1>8, InvWriteBackEnd
<1>9. CASE UNCHANGED vars
  <2>1. UNCHANGED <<issued, cache, dirty, fresh, call, ports>>
    BY <1>9 DEF vars, words
  <2>2. Remaining' = Remaining /\ Latch' = Latch
    BY <2>1 DEF Remaining, Positions, Latch
  <2>3. TypeOK' /\ DirtyInv'
    BY <2>1 DEF LoopInv, TypeOK, DirtyInv
  <2>4. RefreshInv'
    BY <2>1, <2>2 DEF LoopInv, RefreshInv, Agrees
  <2>5. WriteBackInv'
    BY <2>1, <2>2 DEF LoopInv, WriteBackInv, Agrees, OkToWrite, Shr
  <2>6. CleanInv'
    BY <2>1 DEF LoopInv, CleanInv, Agrees
  <2> QED BY <2>3, <2>4, <2>5, <2>6 DEF LoopInv
<1> QED BY <1>1, <1>2, <1>3, <1>4, <1>5, <1>6, <1>7, <1>8, <1>9 DEF Next

\* What the scans keep true of the words they shift holds in every state
\* (transactional.rs, refresh and write_back).
THEOREM LoopsCorrect == Spec => []LoopInv
<1> QED BY InvInit, InvStep, PTL DEF Spec

\* The words of the adapter and the locals of its loops stay within a usize.
THEOREM TypeCorrect == Spec => []TypeOK
<1>1. LoopInv => TypeOK
  BY DEF LoopInv
<1> QED BY <1>1, LoopsCorrect, PTL

-----------------------------------------------------------------------------
(* A turn on shifted words is a turn on sets of ports. *)

\* The locals of the one caller, with the fields TransactionalIO gives them.
LocalsTyped ==
  [pc : {"idle", "refresh_read", "write_back"}, port : Ports, bit : BOOLEAN,
   todo : SUBSET {"cache", "dirty", "fresh"}, remaining : SUBSET Ports, mask : Word,
   buffer : Word, strategy : Strategies]

LEMMA LocalsHaveType ==
  ASSUME TypeOK, Remaining \subseteq Ports
  PROVE  Locals \in LocalsTyped
<1>1. FirstPort \in Ports
  BY MapAssumption, WordAssumption DEF Ports
<1>2. call \in Calls
  BY DEF TypeOK
<1>3. CASE call.pc = "refresh"
  BY <1>1, <1>2, <1>3 DEF Locals, LocalsTyped, Calls
<1>4. CASE call.pc # "refresh"
  BY <1>1, <1>2, <1>4 DEF Locals, LocalsTyped, Calls
<1> QED BY <1>3, <1>4

LEMMA SameLocals ==
  ASSUME NEW a \in LocalsTyped, NEW b \in LocalsTyped,
         a.pc = b.pc, a.port = b.port, a.bit <=> b.bit, a.todo = b.todo,
         a.remaining = b.remaining, a.mask = b.mask, a.buffer = b.buffer,
         a.strategy = b.strategy
  PROVE  a = b
  BY DEF LocalsTyped

\* The caller goes on with its locals in the adapter by sets of ports.
LEMMA CallerBecomes ==
  ASSUME NEW r, Locals' = r
  PROVE  Sets!Becomes("caller", r)
<1>1. Callers' = [c \in {"caller"} |-> r]
  BY DEF Callers
<1>2. [Callers EXCEPT !["caller"] = r] = [c \in {"caller"} |-> r]
  BY DEF Callers
<1> QED BY <1>1, <1>2 DEF Sets!Becomes

\* A turn of refresh is a turn of refresh on sets of ports.
LEMMA RefreshTurnIsSetTurn ==
  ASSUME LoopInv, RefreshTurn
  PROVE  Sets!RefreshRead("caller")
<1>1. /\ TypeOK /\ RefreshInv /\ call.pc = "refresh" /\ UNCHANGED words
      /\ LoopInv'
  BY InvRefreshTurn DEF LoopInv, RefreshTurn
<1>2. /\ call \in Calls /\ call.todo # {} /\ Remaining \subseteq Ports
      /\ call' = [call EXCEPT !.start = NextPort,
                              !.todo = ClearRange(Shr(call.todo, Skip)),
                              !.buffer = call.buffer \cup (Latch \cap Range),
                              !.ok = call.ok \cup (Range \cap Bits)]
      /\ Remaining' = Remaining \ Range
      /\ ports' = [p \in Ports |-> IF p \in Range THEN PortRead(ports[p]) ELSE ports[p]]
  BY <1>1, RefreshTurnTakes
<1>3. NextPort \in Remaining /\ \A q \in Remaining : NextPort <= q
  BY <1>1, <1>2, NextPortLowest
<1>4. /\ Locals \in LocalsTyped /\ Locals' \in LocalsTyped
  <2>1. Locals \in LocalsTyped
    BY <1>1, <1>2, LocalsHaveType
  <2>2. /\ call' \in Calls /\ call'.pc = "refresh" /\ Remaining' \subseteq Ports
        /\ FirstPort \in Ports
    BY <1>1, <1>2, MapAssumption, WordAssumption DEF LoopInv, TypeOK, Calls, Ports
  <2>3. Locals' \in LocalsTyped
    BY <2>2 DEF Locals, LocalsTyped, Calls
  <2> QED BY <2>1, <2>3
<1>5. /\ call'.pc = "refresh" /\ call'.strategy = call.strategy
      /\ call'.buffer = call.buffer \cup (Latch \cap Range)
      /\ call'.ok = call.ok \cup (Range \cap Bits)
  BY <1>1, <1>2 DEF Calls
<1>6. Latch' = Latch
  <2>1. ASSUME NEW p \in Ports PROVE ports'[p].bit = ports[p].bit
    BY <1>1, <1>2, ReadPortHolds DEF TypeOK
  <2> QED BY <2>1 DEF Latch
<1>7. Callers["caller"] = Locals
  BY DEF Callers
<1>8. /\ Locals.pc = "refresh_read" /\ Locals.remaining = Remaining
      /\ Locals.buffer = call.buffer /\ Locals.mask = call.ok
  BY <1>1 DEF Locals
<1>9. Range = Sets!PortRange(NextPort)
  BY DEF Range, Sets!PortRange
<1>10. /\ Sets!Unread("caller", NextPort) = Remaining \ Range
       /\ Sets!Loaded("caller", NextPort) = call.buffer \cup (Latch \cap Range)
  BY <1>7, <1>8, <1>9 DEF Sets!Unread, Sets!Loaded, Sets!Sensed, Latch
<1>11. Locals' = [Locals EXCEPT !.remaining = Remaining \ Range,
                                !.buffer = call.buffer \cup (Latch \cap Range),
                                !.mask = call.ok \cup (Range \cap Bits)]
  <2> DEFINE r == [Locals EXCEPT !.remaining = Remaining \ Range,
                                 !.buffer = call.buffer \cup (Latch \cap Range),
                                 !.mask = call.ok \cup (Range \cap Bits)]
  <2>1. r \in LocalsTyped
    BY <1>2, <1>4, <1>5, PortsAreBits DEF LocalsTyped, Word, Calls, Latch
  <2>2. /\ r.pc = Locals.pc /\ r.port = Locals.port /\ (r.bit <=> Locals.bit)
        /\ r.todo = Locals.todo /\ r.strategy = Locals.strategy
        /\ r.remaining = Remaining \ Range
        /\ r.buffer = call.buffer \cup (Latch \cap Range)
        /\ r.mask = call.ok \cup (Range \cap Bits)
    BY <1>4 DEF LocalsTyped
  <2> HIDE DEF r
  <2>3. /\ Locals'.pc = Locals.pc /\ Locals'.port = Locals.port
        /\ (Locals'.bit <=> Locals.bit) /\ Locals'.todo = Locals.todo
        /\ Locals'.strategy = Locals.strategy
        /\ Locals'.remaining = Remaining \ Range
        /\ Locals'.buffer = call.buffer \cup (Latch \cap Range)
        /\ Locals'.mask = call.ok \cup (Range \cap Bits)
    BY <1>1, <1>2, <1>5 DEF Locals
  <2>4. Locals' = r
    BY <1>4, <2>1, <2>2, <2>3, SameLocals
  <2> QED BY <2>4 DEF r
<1>12. Sets!Becomes("caller",
         [Locals EXCEPT !.remaining = Remaining \ Range,
                        !.buffer = call.buffer \cup (Latch \cap Range),
                        !.mask = call.ok \cup (Range \cap Bits)])
  BY <1>11, CallerBecomes
<1>13. Sets!Becomes("caller",
         [Callers["caller"] EXCEPT !.remaining = Sets!Unread("caller", NextPort),
                                   !.buffer = Sets!Loaded("caller", NextPort),
                                   !.mask = @ \cup (Sets!PortRange(NextPort) \cap Sets!Bits)])
  BY <1>7, <1>8, <1>9, <1>10, <1>12 DEF Bits, Sets!Bits
<1>14. Sets!Lowest(NextPort, Callers["caller"].remaining)
  BY <1>3, <1>7, <1>8 DEF Sets!Lowest
<1>15. UNCHANGED <<Sets!words, Sets!device>>
  BY <1>1, <1>6 DEF Sets!words, Sets!device, words
<1> QED BY <1>3, <1>7, <1>8, <1>13, <1>14, <1>15 DEF Sets!RefreshRead

\* A turn of write_back is a turn of write_back on sets of ports.
LEMMA WriteBackTurnIsSetTurn ==
  ASSUME LoopInv, WriteBackTurn
  PROVE  Sets!WriteBackWrite("caller")
<1>1. /\ TypeOK /\ DirtyInv /\ WriteBackInv /\ UNCHANGED words
      /\ LoopInv' /\ call.buffer = cache
  BY InvWriteBackTurn DEF LoopInv, WriteBackTurn, WriteBackInv
<1>2. /\ call.pc = "write_back" /\ call \in Calls /\ call.todo # {}
      /\ Remaining \subseteq Ports
      /\ \E todo \in Word :
           call' = [call EXCEPT !.start = NextPort, !.todo = todo,
                                !.ok = Shr(call.allowed, NextPort)]
      /\ Remaining' = Remaining \ Target
      /\ ports' = [p \in Ports |-> IF p \in Target
                                     THEN PortWritten(ports[p], p \in cache) ELSE ports[p]]
  BY <1>1, WriteBackTurnTakes
<1>3. NextPort \in Remaining /\ \A q \in Remaining : NextPort <= q
  BY <1>1, <1>2, NextPortLowest
<1>4. /\ call' \in Calls /\ call'.pc = "write_back" /\ call'.allowed = call.allowed
      /\ call'.buffer = call.buffer /\ call'.strategy = call.strategy
  BY <1>1, <1>2 DEF LoopInv, TypeOK, Calls
<1>5. /\ Locals \in LocalsTyped /\ Locals' \in LocalsTyped
  <2>1. Locals \in LocalsTyped
    BY <1>1, <1>2, LocalsHaveType
  <2>2. Remaining' \subseteq Ports /\ FirstPort \in Ports
    BY <1>2, MapAssumption, WordAssumption DEF Ports
  <2>3. Locals' \in LocalsTyped
    BY <1>4, <2>2 DEF Locals, LocalsTyped, Calls
  <2> QED BY <2>1, <2>3
<1>6. Callers["caller"] = Locals
  BY DEF Callers
<1>7. /\ Locals.pc = "write_back" /\ Locals.todo = {} /\ Locals.remaining = Remaining
      /\ Locals.buffer = call.buffer /\ Locals.mask = call.allowed
  BY <1>2 DEF Locals
<1>8. Sets!WriteBackTarget("caller", NextPort) = Target
  BY <1>6, <1>7 DEF Sets!WriteBackTarget, Sets!RangeOk, Sets!PortRange, Target, Range
<1>9. Latch' = Sets!Written(Target, call.buffer)
  <2>1. ASSUME NEW p \in Ports
        PROVE  ports'[p].bit <=> IF p \in Target THEN p \in call.buffer ELSE ports[p].bit
    BY <1>1, <1>2 DEF PortWritten
  <2>2. Latch' = {p \in Ports : IF p \in Target THEN p \in call.buffer ELSE ports[p].bit}
    BY <2>1 DEF Latch
  <2> QED BY <2>2 DEF Latch, Sets!Written, Sets!Ports, Ports
<1>10. Sets!Unwritten("caller", NextPort) = Remaining \ Target
  BY <1>6, <1>7, <1>8 DEF Sets!Unwritten
<1>11. Locals' = [Locals EXCEPT !.remaining = Remaining \ Target]
  <2> DEFINE r == [Locals EXCEPT !.remaining = Remaining \ Target]
  <2>1. r \in LocalsTyped
    BY <1>2, <1>5 DEF LocalsTyped
  <2>2. /\ r.pc = Locals.pc /\ r.port = Locals.port /\ (r.bit <=> Locals.bit)
        /\ r.todo = Locals.todo /\ r.strategy = Locals.strategy
        /\ r.remaining = Remaining \ Target
        /\ r.buffer = Locals.buffer /\ r.mask = Locals.mask
    BY <1>5 DEF LocalsTyped
  <2> HIDE DEF r
  <2>3. /\ Locals'.pc = Locals.pc /\ Locals'.port = Locals.port
        /\ (Locals'.bit <=> Locals.bit) /\ Locals'.todo = Locals.todo
        /\ Locals'.strategy = Locals.strategy
        /\ Locals'.remaining = Remaining \ Target
        /\ Locals'.buffer = Locals.buffer /\ Locals'.mask = Locals.mask
    BY <1>2, <1>4 DEF Locals
  <2>4. Locals' = r
    BY <1>5, <2>1, <2>2, <2>3, SameLocals
  <2> QED BY <2>4 DEF r
<1>12. Sets!Becomes("caller", [Locals EXCEPT !.remaining = Remaining \ Target])
  BY <1>11, CallerBecomes
<1>13. Sets!Becomes("caller",
         [Callers["caller"] EXCEPT !.remaining = Sets!Unwritten("caller", NextPort)])
  BY <1>6, <1>10, <1>12
<1>14. Sets!Lowest(NextPort, Callers["caller"].remaining)
  BY <1>3, <1>6, <1>7 DEF Sets!Lowest
<1>15. Latch' = Sets!Written(Sets!WriteBackTarget("caller", NextPort),
                             Callers["caller"].buffer)
  BY <1>6, <1>7, <1>8, <1>9
<1>16. UNCHANGED <<Sets!words, {}>>
  BY <1>1 DEF Sets!words, words
<1> QED BY <1>3, <1>6, <1>7, <1>13, <1>14, <1>15, <1>16 DEF Sets!WriteBackWrite

LEMMA StepIsSetTurn == LoopInv /\ [Next]_vars => [TurnIsSetTurn]_vars
<1> SUFFICES ASSUME LoopInv, [Next]_vars PROVE TurnIsSetTurn
  OBVIOUS
<1>1. ASSUME RefreshTurn PROVE Sets!RefreshRead("caller")
  BY <1>1, RefreshTurnIsSetTurn
<1>2. ASSUME WriteBackTurn PROVE Sets!WriteBackWrite("caller")
  BY <1>2, WriteBackTurnIsSetTurn
<1>3. ASSUME NEW s \in Strategies, write_back(s)
      PROVE  call'.allowed = IF s = "StompClean" THEN fresh ELSE Sets!OkToWrite(s, dirty)
  <2>1. call'.allowed = OkToWrite(s)
    BY <1>3 DEF write_back, NoCall
  <2> QED BY <2>1 DEF OkToWrite, AnyMask, Sets!OkToWrite, Strategies
<1> QED BY <1>1, <1>2, <1>3 DEF TurnIsSetTurn

\* Whatever the window, the word and the chip, every turn of refresh and of
\* write_back on shifted words does what the turn on sets of ports does: it takes
\* the same ports, by the same register, with the same values (transactional.rs,
\* refresh and write_back).
THEOREM TurnsRefine == Spec => TurnsAreSetTurns
<1> QED BY LoopsCorrect, StepIsSetTurn, PTL DEF Spec, TurnsAreSetTurns

-----------------------------------------------------------------------------
(* Stomping is harmless. *)

\* What peek_all shows of a port: reads do not count.
Peek(tp) == [tp EXCEPT !.status = IF @ = "Read" THEN "Reset" ELSE @]

LEMMA Peeked ==
  ASSUME NEW p \in Ports
  PROVE  /\ peek_all(ports)[p] = Peek(ports[p])
         /\ peek_all(ports)'[p] = Peek(ports'[p])
  BY DEF peek_all, Peek

LEMMA PeekAfterRead ==
  ASSUME NEW tp \in TestPort
  PROVE  Peek(PortRead(tp)) = Peek(tp)
<1>1. /\ PortRead(tp) \in TestPort
      /\ PortRead(tp).bit = tp.bit
      /\ PortRead(tp).status = IF tp.status = "Reset" THEN "Read" ELSE tp.status
  BY DEF PortRead, TestPort
<1> DEFINE after == Peek(PortRead(tp))
           before == Peek(tp)
<1>2. /\ after \in TestPort /\ after.bit = tp.bit
      /\ after.status = IF tp.status \in {"Reset", "Read"} THEN "Reset" ELSE tp.status
  BY <1>1 DEF TestPort, Peek
<1>3. /\ before \in TestPort /\ before.bit = tp.bit
      /\ before.status = IF tp.status \in {"Reset", "Read"} THEN "Reset" ELSE tp.status
  BY DEF TestPort, Peek
<1> HIDE DEF after, before
<1>4. after = before
  BY <1>2, <1>3 DEF TestPort
<1> QED BY <1>4 DEF after, before

LEMMA StepIsHarmless == LoopInv /\ [Next]_vars => [StompIsHarmless]_vars
<1> SUFFICES ASSUME LoopInv, Next PROVE StompIsHarmless
  BY DEF vars, StompIsHarmless, peek_all
<1> USE DEF StompIsHarmless
<1>1. CASE UNCHANGED ports
  BY <1>1, Peeked
<1>2. CASE RefreshTurn
  <2>1. /\ ports' = [p \in Ports |-> IF p \in Range THEN PortRead(ports[p]) ELSE ports[p]]
        /\ ports \in [Ports -> TestPort]
    BY <1>2, RefreshTurnTakes DEF LoopInv, TypeOK
  <2>2. ASSUME NEW p \in Ports
        PROVE  peek_all(ports)'[p] = peek_all(ports)[p]
    <3>1. CASE p \in Range
      <4>1. ports'[p] = PortRead(ports[p]) /\ ports[p] \in TestPort
        BY <2>1, <3>1
      <4> QED BY <4>1, Peeked, PeekAfterRead
    <3>2. CASE p \notin Range
      BY <2>1, <3>2, Peeked
    <3> QED BY <3>1, <3>2
  <2> QED BY <2>2
<1>3. CASE WriteBackTurn
  <2>1. /\ ports' = [p \in Ports |-> IF p \in Target
                                       THEN PortWritten(ports[p], p \in cache) ELSE ports[p]]
        /\ ports \in [Ports -> TestPort]
        /\ call.pc = "write_back" /\ call \in Calls /\ call.todo # {}
        /\ Remaining \subseteq Ports /\ Remaining \subseteq dirty
        /\ call.allowed = OkToWrite(call.strategy)
    BY <1>3, WriteBackTurnTakes DEF LoopInv, TypeOK, WriteBackInv
  <2>2. NextPort \in dirty
    BY <2>1, NextPortLowest DEF LoopInv
  <2>3. ASSUME NEW p \in Ports, peek_all(ports)'[p] # peek_all(ports)[p],
               p \notin dirty, ~(call.strategy = "StompAny" /\ p \notin fresh)
        PROVE  /\ call.strategy # "Exact"
               /\ ports'[p] = [status |-> "ReadWrite", bit |-> ports[p].bit]
    <3>1. p \in Target
      BY <2>1, <2>3, Peeked
    <3>2. p \in call.allowed
      BY <2>2, <2>3, <3>1 DEF Target
    <3>3. call.strategy # "Exact"
      BY <2>1, <2>3, <3>2 DEF OkToWrite
    <3>4. p \in fresh
      BY <2>1, <2>3, <3>2, <3>3 DEF OkToWrite, Calls, Strategies
    <3>5. Agrees(p, cache)
      BY <2>1, <2>3, <3>4 DEF LoopInv, CleanInv
    <3>6. /\ ports'[p] = PortWritten(ports[p], p \in cache)
          /\ ports[p] \in TestPort
      BY <2>1, <3>1
    <3>7. ports[p].bit = (p \in cache)
      BY <3>5, <3>6 DEF Agrees, TestPort
    <3>8. ports'[p] = PortWritten(ports[p], ports[p].bit)
      BY <3>6, <3>7
    <3>9. ports[p].status # "BlindWrite"
      BY <2>3, <3>6, <3>8, Peeked DEF PortWritten, TestPort
    <3> QED BY <3>3, <3>5, <3>8, <3>9 DEF Agrees, PortWritten
  <2> QED BY <2>3
<1> QED BY <1>1, <1>2, <1>3
  DEF Next, port_pin, write_port, refresh, RefreshEnd, write_back, WriteBackEnd

\* What the property tests of write_back look for after one transaction holds of
\* every step of every run: only the stomping strategies write a port that nobody
\* set; one whose value is fresh keeps it and is not written blindly
\* (transactional.rs, write_back).
THEOREM StompsHarmless == Spec => StompsAreHarmless
<1> QED BY LoopsCorrect, StepIsHarmless, PTL DEF Spec, StompsAreHarmless
=============================================================================
