----------------------------- MODULE WordLoops -----------------------------
(***************************************************************************)
(* The scanning loops of refresh and write_back as they are computed: on   *)
(* machine words, by counting trailing zeros, shifting and masking, down   *)
(* to the register addresses that reach the test spy.  One caller uses the *)
(* adapter, and its interface does not fail, as in the property tests.  A  *)
(* word is the set of its one bits, each numbered from the low end of the  *)
(* word it is in: a shift renumbers them and loses those past either end.  *)
(*                                                                         *)
(* TransactionalIO describes the same loops by sets of ports; a turn of a  *)
(* loop here is a turn there (TurnsAreSetTurns).                           *)
(***************************************************************************)
EXTENDS SemanticSpy

CONSTANTS
  WordBits,  \* bits of a usize
  ResetBits  \* values the spy's ports may start with

ASSUME WordAssumption ==
  /\ 2 <= FirstPort /\ FirstPort <= LastPort
  /\ WordBits \in Nat /\ LastPort < WordBits
  /\ Window \in Nat \ {0}
  /\ ResetBits \subseteq BOOLEAN

VARIABLES
  issued, cache, dirty, fresh,  \* the words of the adapter
  call,                         \* the transfer under way, with its locals
  ports                         \* the spy: what it holds for each port

words == <<issued, cache, dirty, fresh>>
vars == <<words, call, ports>>

Bits == 0..(WordBits - 1)
Word == SUBSET Bits
Strategies == {"Exact", "StompClean", "StompAny"}

\* todo is ports_to_read or ports_to_write; ok is fresh_buffer or ok_to_write;
\* buffer is load_buffer or the loaded cache.  allowed observes the ok_to_write
\* that a write_back started with.
Calls ==
  [pc : {"idle", "refresh", "write_back"}, strategy : Strategies, start : 0..WordBits,
   todo : Word, ok : Word, buffer : Word, allowed : Word]

NoCall ==
  [pc |-> "idle", strategy |-> "Exact", start |-> 0, todo |-> {}, ok |-> {}, buffer |-> {},
   allowed |-> {}]

\* Words stay within WordBits and the spy's ports have their type.
TypeOK ==
  /\ {issued, cache, dirty, fresh} \subseteq Word
  /\ call \in Calls
  /\ ports \in [Ports -> TestPort]

Init ==
  /\ issued = {} /\ cache = {} /\ dirty = {} /\ fresh = {}
  /\ call = NoCall
  /\ ports \in [Ports -> [status : {"Reset"}, bit : ResetBits]]

-----------------------------------------------------------------------------
(* Word arithmetic. *)

\* Variant: a shift to the left loses nothing.
ShlWide(w, n) == {i + n : i \in w}

Shl(w, n) == {i \in Bits : i - n \in w}
Shr(w, n) == {i \in Bits : i + n \in w}
Complement(w) == Bits \ w

trailing_zeros(w) == CHOOSE n \in w : \A m \in w : n <= m

\* 1 << n: the word of one port.
Bit(n) == Shl({0}, n)

\* 0xFF: the ports of a range.
RangeBits == 0..(Window - 1)

\* The literal 0xFFFFFFFC.
AnyMask == (FirstPort - 2)..LastPort

-----------------------------------------------------------------------------
(* The caller. *)

port_pin(p) ==
  /\ call.pc = "idle"
  /\ issued' = issued \cup Bit(p)
  /\ UNCHANGED <<cache, dirty, fresh, call, ports>>

write_port(p, b) ==
  /\ call.pc = "idle" /\ p \in issued
  /\ cache' = IF b THEN cache \cup Bit(p) ELSE cache \cap Complement(Bit(p))
  /\ dirty' = dirty \cup Bit(p)
  /\ fresh' = fresh \cup Bit(p)
  /\ UNCHANGED <<issued, call, ports>>

-----------------------------------------------------------------------------
(* refresh *)

refresh ==
  /\ call.pc = "idle"
  /\ dirty' = {}
  /\ call' = [NoCall EXCEPT !.pc = "refresh", !.start = FirstPort,
                            !.todo = Shr(issued, FirstPort)]
  /\ UNCHANGED <<issued, cache, fresh, ports>>

\* Both loops skip to the next port: this many bits, and to this port.
Skip == trailing_zeros(call.todo)
NextPort == call.start + Skip

\* Variant: the mask also clears the port after the range.
ClearRangeWide(w) == w \cap Complement(0..Window)

\* ports_to_read &= !0xFF
ClearRange(w) == w \cap Complement(RangeBits)

RefreshTurn ==
  /\ call.pc = "refresh" /\ call.todo # {}
  /\ LET a == RegisterAddress(PortRange(NextPort)) IN
       /\ ports' = read_register(ports, a)
       /\ call' = [call EXCEPT !.start = NextPort,
                               !.todo = ClearRange(Shr(@, Skip)),
                               !.buffer = @ \cup Shl(ReadValue(ports, a), NextPort),
                               !.ok = @ \cup Shl(RangeBits, NextPort)]
  /\ UNCHANGED words

RefreshEnd ==
  /\ call.pc = "refresh" /\ call.todo = {}
  /\ cache' = call.buffer /\ fresh' = call.ok
  /\ call' = NoCall
  /\ UNCHANGED <<issued, dirty, ports>>

-----------------------------------------------------------------------------
(* write_back *)

OkToWrite(s) ==
  CASE s = "Exact" -> dirty
    [] s = "StompClean" -> fresh
    [] s = "StompAny" -> AnyMask

write_back(s) ==
  /\ call.pc = "idle"
  /\ call' = [NoCall EXCEPT !.pc = "write_back", !.strategy = s, !.todo = dirty,
                            !.ok = OkToWrite(s), !.allowed = OkToWrite(s), !.buffer = cache]
  /\ UNCHANGED <<words, ports>>

\* ok_to_write & 0xFF == 0xFF
RangeOk(ok) == ok \cap RangeBits = RangeBits

\* Variant: ok_to_write is not shifted along.
OkLeftBehind(ok, n) == ok

OkShifted(ok, n) == Shr(ok, n)

\* Variant: the values of a range are not shifted down to its first port.
RangeValueUnshifted(buffer, p) == buffer \cap RangeBits

\* (cache >> start_port) as u8
RangeValue(buffer, p) == Shr(buffer, p) \cap RangeBits

\* cache & (1 << start_port) != 0, as write_port sends it
PortValue(buffer, p) == IF buffer \cap Bit(p) # {} THEN {0} ELSE {}

WriteBackTurn ==
  /\ call.pc = "write_back" /\ call.todo # {}
  /\ LET ok == OkShifted(call.ok, Skip)
         todo == Shr(call.todo, Skip)
     IN \/ /\ RangeOk(ok)
           /\ ports' = write_register(ports, RegisterAddress(PortRange(NextPort)),
                                      RangeValue(call.buffer, NextPort))
           /\ call' = [call EXCEPT !.start = NextPort, !.ok = ok, !.todo = ClearRange(todo)]
        \/ /\ ~RangeOk(ok)
           /\ ports' = write_register(ports, RegisterAddress(SinglePort(NextPort)),
                                      PortValue(call.buffer, NextPort))
           /\ call' = [call EXCEPT !.start = NextPort, !.ok = ok,
                                   !.todo = todo \cap Complement(Bit(0))]
  /\ UNCHANGED words

WriteBackEnd ==
  /\ call.pc = "write_back" /\ call.todo = {}
  /\ dirty' = {}
  /\ call' = NoCall
  /\ UNCHANGED <<issued, cache, fresh, ports>>

Next ==
  \/ \E p \in Ports : port_pin(p)
  \/ \E p \in Ports, b \in BOOLEAN : write_port(p, b)
  \/ refresh \/ RefreshTurn \/ RefreshEnd
  \/ \E s \in Strategies : write_back(s)
  \/ WriteBackTurn \/ WriteBackEnd

Spec == Init /\ [][Next]_vars

-----------------------------------------------------------------------------
(* Properties. *)

\* The positions, in the unshifted word, of what a scan at start has left.
Positions(w, start) == {n + start : n \in w}
Remaining == Positions(call.todo, call.start)

\* The device and the locals of the call as TransactionalIO has them.
Latch == {p \in Ports : ports[p].bit}
Locals ==
  [pc |-> IF call.pc = "refresh" THEN "refresh_read" ELSE call.pc,
   port |-> FirstPort, bit |-> FALSE,
   todo |-> IF call.pc = "refresh" THEN {"cache", "fresh"} ELSE {},
   remaining |-> Remaining,
   mask |-> IF call.pc = "refresh" THEN call.ok ELSE call.allowed,
   buffer |-> call.buffer, strategy |-> call.strategy]
Callers == [c \in {"caller"} |-> Locals]

\* The adapter by sets of ports, with one caller.
Sets == INSTANCE TransactionalIO WITH
  Contexts <- {"caller"}, Outputs <- Ports, Bracketed <- TRUE, Reorder <- FALSE,
  ReadsMayFail <- FALSE, WritesMayFail <- FALSE,
  level <- {}, latch <- Latch, call <- Callers

\* Every turn of a loop on shifted words does what the loop on sets of ports does:
\* it takes the same ports, by the same register, with the same values, and leaves
\* the same ones, whatever falls off either end of a word.
TurnIsSetTurn ==
  /\ RefreshTurn => Sets!RefreshRead("caller")
  /\ WriteBackTurn => Sets!WriteBackWrite("caller")
  /\ \A s \in Strategies : write_back(s) =>
       call'.allowed = IF s = "StompClean" THEN fresh ELSE Sets!OkToWrite(s, dirty)

TurnsAreSetTurns == [][TurnIsSetTurn]_vars

\* What the property tests of write_back look for after one transaction, after
\* any sequence of calls: a port that nobody set is written by the stomping
\* strategies only; one whose value is fresh keeps it and is not written blindly.
StompIsHarmless ==
  \A p \in Ports :
    peek_all(ports)'[p] # peek_all(ports)[p] =>
      \/ p \in dirty
      \/ call.strategy = "StompAny" /\ p \notin fresh
      \/ call.strategy # "Exact" /\ ports'[p] = [status |-> "ReadWrite", bit |-> ports[p].bit]

StompsAreHarmless == [][StompIsHarmless]_vars

\* The spy was read from or written to at port p, and holds what word w does.
Agrees(p, w) == ports[p].status # "Reset" /\ (ports[p].bit <=> p \in w)

\* A port is dirty only if it was issued, and then its cached value may be read.
DirtyInv ==
  /\ issued \subseteq Ports
  /\ dirty \subseteq issued \cap fresh

\* A refresh has discarded every set; what is left to read are ports of the chip;
\* what it calls fresh it read from the device, and it loads nothing else.
RefreshInv == call.pc = "refresh" =>
  /\ dirty = {}
  /\ Remaining \subseteq Ports
  /\ call.buffer \subseteq Latch
  /\ \A p \in call.ok \cap Ports : Agrees(p, call.buffer)

\* The two words of a write_back have been shifted by the same amount; the dirty
\* ports it has left behind carry their cached values.
WriteBackInv == call.pc = "write_back" =>
  /\ call.allowed = OkToWrite(call.strategy)
  /\ call.ok = Shr(call.allowed, call.start)
  /\ call.buffer = cache
  /\ Remaining \subseteq dirty
  /\ \A p \in dirty \ Remaining : Agrees(p, cache)

\* Between refreshes, the device has the cached value of every port that is fresh
\* and not dirty.
CleanInv == call.pc # "refresh" => \A p \in (fresh \cap Ports) \ dirty : Agrees(p, cache)

\* What the scans keep true of the words they shift, of what is left to scan, and
\* of the device.
LoopInv == TypeOK /\ DirtyInv /\ RefreshInv /\ WriteBackInv /\ CleanInv

\* The transactions a write_back of the words dirty and ok makes.
Transactions[todo \in Word, ok \in Word] ==
  IF todo = {} THEN 0
  ELSE LET n == trailing_zeros(todo) IN
       1 + IF RangeOk(Shr(ok, n))
             THEN Transactions[ClearRange(Shr(todo, n)), Shr(ok, n)]
             ELSE Transactions[Shr(todo, n) \cap Complement(Bit(0)), Shr(ok, n)]

\* No strategy needs more bus transactions than Exact, "the safest but least
\* efficient write back strategy" (transactional.rs).
ExactIsCostliest ==
  \A s \in Strategies : Transactions[dirty, OkToWrite(s)] <= Transactions[dirty, dirty]
=============================================================================
