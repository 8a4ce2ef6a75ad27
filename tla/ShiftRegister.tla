--------------------------- MODULE ShiftRegister ---------------------------
(***************************************************************************)
(* The serial interface of the chip, as the comments of read_register use  *)
(* it, and the two frames the driver sends.  A word is a pair of bytes, the *)
(* first one sent (the high byte) first.                                   *)
(***************************************************************************)
EXTENDS Integers

CONSTANTS
  ReadBit,       \* most significant bit of an address byte: 0x80
  Registers      \* addresses of the registers the driver uses

Bytes == 0..(2 * ReadBit - 1)
Words == Bytes \X Bytes
Noop == 0

WriteFrame(a, v) == <<a, v>>
ReadFrame(a) == <<ReadBit + a, 0>>

IsRead(b) == b >= ReadBit
Address(b) == IF IsRead(b) THEN b - ReadBit ELSE b

\* The shift register after the chip select rose: a read command latches the
\* register into the low byte.
Latched(w, regs) ==
  IF IsRead(w[1]) /\ Address(w[1]) \in Registers
    THEN <<w[1], regs[Address(w[1])]>> ELSE w

\* The registers after the chip select rose: a write command stores the low byte.
Stored(w, regs) ==
  IF ~IsRead(w[1]) /\ Address(w[1]) \in Registers
    THEN [regs EXCEPT ![Address(w[1])] = w[2]] ELSE regs

\* The shift register w after n bytes of the frame f were clocked in.
ClockedIn(w, f, n) ==
  CASE n = 0 -> w
    [] n = 1 -> <<w[2], f[1]>>
    [] n = 2 -> f
=============================================================================
