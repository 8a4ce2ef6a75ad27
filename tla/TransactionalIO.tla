-------------------------- MODULE TransactionalIO --------------------------
(***************************************************************************)
(* The transactional I/O adapter: a write-back cache of the expander's     *)
(* ports held in four atomic words (issued, cache, dirty, fresh) and used  *)
(* by several contexts (threads or interrupt handlers) at once.            *)
(*                                                                         *)
(* A word of the code is the set of its one bits, at absolute positions:   *)
(* where the code shifts a word right by start_port, the model keeps the   *)
(* positions and compares from start_port on.  Every atomic access is one  *)
(* step; a bus transaction is one step because it runs under the mutex,    *)
(* which TransactionalMutex adds.                                          *)
(***************************************************************************)
EXTENDS Integers

CONSTANTS
  Contexts,       \* callers that share the adapter or hold one of its pins
  FirstPort,      \* 4 on the device
  LastPort,       \* 31 on the device
  Window,         \* consecutive ports of a PortRange register: 8
  WordBits,       \* bits of a usize: 32 or 64
  Outputs,        \* ports configured as outputs before into_transactional
  Bracketed,      \* refresh and write_back run while no other call does
  Reorder,        \* relaxed accesses of one call may be seen in any order
  ReadsMayFail,   \* the interface may return an error from a read
  WritesMayFail   \* the interface may return an error from a write

Ports == FirstPort..LastPort
Bits == 0..(WordBits - 1)

ASSUME GeometryAssumption ==
  /\ FirstPort \in Nat \ {0, 1}
  /\ LastPort \in Nat
  /\ FirstPort <= LastPort
  /\ Window \in Nat \ {0}
  /\ WordBits \in Nat
  /\ LastPort < WordBits
  /\ Outputs \subseteq Ports

ASSUME ModeAssumption ==
  {Bracketed, Reorder, ReadsMayFail, WritesMayFail} \subseteq BOOLEAN

VARIABLES
  issued,   \* ports for which a PortPin was made
  cache,    \* cached port values
  dirty,    \* ports set since the last refresh or write_back
  fresh,    \* positions whose cached value may be read
  latch,    \* device: ports whose output register holds 1
  level,    \* device: input ports whose pin is driven high from outside
  call      \* the call each context is in, with its local variables

words == <<issued, cache, dirty, fresh>>
device == <<latch, level>>
vars == <<words, device, call>>

Strategies == {"Exact", "StompClean", "StompAny"}

\* Locals of the call in progress.  todo holds the words it has yet to access;
\* remaining is ports_to_read or ports_to_write; mask is fresh_buffer or
\* ok_to_write; buffer is load_buffer or the loaded cache.
Calls ==
  [pc : {"idle", "write_port", "read_port", "refresh", "refresh_read", "write_back"},
   port : Ports, bit : BOOLEAN, todo : SUBSET {"cache", "dirty", "fresh"},
   remaining : SUBSET Bits, mask : SUBSET Bits, buffer : SUBSET Bits,
   strategy : Strategies]

NoCall ==
  [pc |-> "idle", port |-> FirstPort, bit |-> FALSE, todo |-> {}, remaining |-> {},
   mask |-> {}, buffer |-> {}, strategy |-> "Exact"]

Idle(c) == call[c].pc = "idle"
Transferring(c) == call[c].pc \in {"refresh", "refresh_read", "write_back"}

\* The four words and the locals of every call have their types (AtomicUsize
\* fields and the locals of refresh and write_back).
TypeOK ==
  /\ issued \in SUBSET Bits
  /\ cache \in SUBSET Bits
  /\ dirty \in SUBSET Bits
  /\ fresh \in SUBSET Bits
  /\ latch \in SUBSET Ports
  /\ level \in SUBSET (Ports \ Outputs)
  /\ call \in [Contexts -> Calls]

Init ==
  /\ issued = {} /\ cache = {} /\ dirty = {} /\ fresh = {}
  /\ latch \in SUBSET Ports
  /\ level \in SUBSET (Ports \ Outputs)
  /\ call = [c \in Contexts |-> NoCall]

-----------------------------------------------------------------------------
(* The device and the helpers of the two scanning loops. *)

\* What a read of the ports returns: an output port reads back its register,
\* an input port the level applied to its pin, bits past the last port zero.
Sensed == (latch \cap Outputs) \cup level

\* The ports a PortRange register covers, from its first port up.
PortRange(p) == p..(p + Window - 1)

\* p is where trailing_zeros takes the scan of S.
Lowest(p, S) == p \in S /\ \A q \in S : p <= q

\* Variant: the mask is tested at the lowest port of the range only.
RangeOkLowestOnly(s, ok) == s \in ok

\* Whether a range write from s only covers ports that may be written.
RangeOk(s, ok) == PortRange(s) \subseteq ok

\* Variant: the mask of StompAny reaches past the word.
OkToWriteTooWide(s, d) ==
  IF s = "StompAny" THEN (FirstPort - 2)..(LastPort + Window + 1) ELSE d

\* The initial ok_to_write; StompClean loads the fresh word a step later.
OkToWrite(s, d) ==
  IF s = "StompAny" THEN (FirstPort - 2)..LastPort ELSE d

\* Client discipline: pins and transfers may start at any time, or, when
\* Bracketed, a transfer excludes every other call.
MayUsePin(c) == Idle(c) /\ (Bracketed => \A d \in Contexts : ~Transferring(d))
MayTransfer(c) == Idle(c) /\ (Bracketed => \A d \in Contexts : Idle(d))

\* The call of c accesses word w now: the next one in program order (given by
\* before, the words ahead of w), or any outstanding one if they may reorder.
Access(c, w, before) ==
  /\ w \in call[c].todo
  /\ Reorder \/ call[c].todo \cap before = {}

\* The call of c goes on with locals r.
Becomes(c, r) == call' = [call EXCEPT ![c] = r]

\* The call of c is done with word w, and returns if that was the last.
Done(c, w) ==
  Becomes(c, IF call[c].todo = {w} THEN NoCall
                                   ELSE [call[c] EXCEPT !.todo = @ \ {w}])

Return(c) == Becomes(c, NoCall)

-----------------------------------------------------------------------------
(* Pins. *)

port_pin(c, p) ==
  /\ Idle(c)
  /\ issued' = issued \cup {p}
  /\ UNCHANGED <<cache, dirty, fresh, device, call>>

\* set_high and set_low of a pin: three read-modify-writes, no bus traffic.
write_port(c, p, b) ==
  /\ MayUsePin(c) /\ p \in issued
  /\ Becomes(c, [NoCall EXCEPT !.pc = "write_port", !.port = p, !.bit = b,
                               !.todo = {"cache", "dirty", "fresh"}])
  /\ UNCHANGED <<words, device>>

\* Variant: the bit is numbered from the first port.
OrBitRelative(c) == {call[c].port - FirstPort}

\* or_bit: the one bit of the port.
OrBit(c) == {call[c].port}

WritePortCache(c) ==
  /\ call[c].pc = "write_port" /\ Access(c, "cache", {})
  /\ cache' = IF call[c].bit THEN cache \cup OrBit(c) ELSE cache \ OrBit(c)
  /\ Done(c, "cache")
  /\ UNCHANGED <<issued, dirty, fresh, device>>

WritePortDirty(c) ==
  /\ call[c].pc = "write_port" /\ Access(c, "dirty", {"cache"})
  /\ dirty' = dirty \cup OrBit(c)
  /\ Done(c, "dirty")
  /\ UNCHANGED <<issued, cache, fresh, device>>

WritePortFresh(c) ==
  /\ call[c].pc = "write_port" /\ Access(c, "fresh", {"cache", "dirty"})
  /\ fresh' = fresh \cup OrBit(c)
  /\ Done(c, "fresh")
  /\ UNCHANGED <<issued, cache, dirty, device>>

\* is_high and is_low of a pin: two loads, no bus traffic.
read_port(c, p) ==
  /\ MayUsePin(c) /\ p \in issued
  /\ Becomes(c, [NoCall EXCEPT !.pc = "read_port", !.port = p,
                               !.todo = {"fresh", "cache"}])
  /\ UNCHANGED <<words, device>>

\* Variant: the test looks at the issued word.
ReadableIssued(c) == call[c].port \in issued

\* The test for PortNotRefreshed.
Readable(c) == call[c].port \in fresh

\* PortNotRefreshed is returned at once; otherwise the cached bit, in bit, is
\* the answer once todo is empty.
ReadPortFresh(c) ==
  /\ call[c].pc = "read_port" /\ Access(c, "fresh", {})
  /\ Becomes(c, IF Readable(c)
                  THEN [call[c] EXCEPT !.todo = @ \ {"fresh"}] ELSE NoCall)
  /\ UNCHANGED <<words, device>>

ReadPortCache(c) ==
  /\ call[c].pc = "read_port" /\ Access(c, "cache", {"fresh"})
  /\ Becomes(c, [call[c] EXCEPT !.bit = call[c].port \in cache,
                                !.todo = @ \ {"cache"}])
  /\ UNCHANGED <<words, device>>

ReadPortReturn(c) ==
  /\ call[c].pc = "read_port" /\ call[c].todo = {}
  /\ Return(c)
  /\ UNCHANGED <<words, device>>

-----------------------------------------------------------------------------
(* refresh: discard the pending operations, read the issued ports window by  *)
(* window, then publish what was read.                                       *)

\* Variant: refresh leaves the pending operations pending.
refreshKeepsPending(c) ==
  /\ MayTransfer(c)
  /\ Becomes(c, [NoCall EXCEPT !.pc = "refresh"])
  /\ UNCHANGED <<words, device>>

refresh(c) ==
  /\ MayTransfer(c)
  /\ dirty' = {}
  /\ Becomes(c, [NoCall EXCEPT !.pc = "refresh"])
  /\ UNCHANGED <<issued, cache, fresh, device>>

RefreshIssued(c) ==
  /\ call[c].pc = "refresh"
  /\ Becomes(c, [call[c] EXCEPT !.pc = "refresh_read", !.todo = {"cache", "fresh"},
                                !.remaining = {p \in issued : p >= FirstPort}])
  /\ UNCHANGED <<words, device>>

\* Variant: load_buffer is assigned, not accumulated.
LoadedLast(c, s) == Sensed \cap PortRange(s)

\* load_buffer after a read from s on.
Loaded(c, s) == call[c].buffer \cup (Sensed \cap PortRange(s))

\* Variant: the ports just read stay in ports_to_read.
UnreadKept(c, s) == call[c].remaining

\* ports_to_read after a read from s on.
Unread(c, s) == call[c].remaining \ PortRange(s)

RefreshRead(c) ==
  /\ call[c].pc = "refresh_read"
  /\ \E s \in call[c].remaining :
       /\ Lowest(s, call[c].remaining)
       /\ Becomes(c, [call[c] EXCEPT !.remaining = Unread(c, s),
                                     !.buffer = Loaded(c, s),
                                     !.mask = @ \cup (PortRange(s) \cap Bits)])
  /\ UNCHANGED <<words, device>>

\* The ? on read_ports: nothing is published, and the discard stands.
RefreshReadFails(c) ==
  /\ ReadsMayFail
  /\ call[c].pc = "refresh_read" /\ call[c].remaining # {}
  /\ Return(c)
  /\ UNCHANGED <<words, device>>

RefreshCache(c) ==
  /\ call[c].pc = "refresh_read" /\ call[c].remaining = {}
  /\ Access(c, "cache", {})
  /\ cache' = call[c].buffer
  /\ Done(c, "cache")
  /\ UNCHANGED <<issued, dirty, fresh, device>>

RefreshFresh(c) ==
  /\ call[c].pc = "refresh_read" /\ call[c].remaining = {}
  /\ Access(c, "fresh", {"cache"})
  /\ fresh' = call[c].mask
  /\ Done(c, "fresh")
  /\ UNCHANGED <<issued, cache, dirty, device>>

-----------------------------------------------------------------------------
(* write_back: load dirty, the mask of the strategy and the cache, in that   *)
(* order (acquire loads), write the dirty ports, then clear dirty.           *)

\* The words write_back has yet to load after dirty.
WordsToLoad(s) == IF s = "StompClean" THEN {"fresh", "cache"} ELSE {"cache"}

write_back(c, s) ==
  /\ MayTransfer(c)
  /\ Becomes(c, [NoCall EXCEPT !.pc = "write_back", !.strategy = s,
                               !.remaining = dirty, !.mask = OkToWrite(s, dirty),
                               !.todo = WordsToLoad(s)])
  /\ UNCHANGED <<words, device>>

WriteBackFresh(c) ==
  /\ call[c].pc = "write_back" /\ "fresh" \in call[c].todo
  /\ Becomes(c, [call[c] EXCEPT !.mask = fresh, !.todo = {"cache"}])
  /\ UNCHANGED <<words, device>>

WriteBackCache(c) ==
  /\ call[c].pc = "write_back" /\ call[c].todo = {"cache"}
  /\ Becomes(c, [call[c] EXCEPT !.buffer = cache, !.todo = {}])
  /\ UNCHANGED <<words, device>>

\* What the registers hold once the ports of S have been written from buf.
Written(S, buf) == (latch \ S) \cup (buf \cap S \cap Ports)

\* Variant: every turn writes a range, whatever the mask.
WriteBackTargetRange(c, s) == PortRange(s)

\* One turn of the loop: the lowest remaining port alone, or the range from it.
WriteBackTarget(c, s) ==
  IF RangeOk(s, call[c].mask) THEN PortRange(s) ELSE {s}

\* Variant: a single-port write clears the whole range from ports_to_write.
UnwrittenRange(c, s) == call[c].remaining \ PortRange(s)

\* ports_to_write after that turn.
Unwritten(c, s) == call[c].remaining \ WriteBackTarget(c, s)

WriteBackWrite(c) ==
  /\ call[c].pc = "write_back" /\ call[c].todo = {}
  /\ \E s \in call[c].remaining :
       /\ Lowest(s, call[c].remaining)
       /\ latch' = Written(WriteBackTarget(c, s), call[c].buffer)
       /\ Becomes(c, [call[c] EXCEPT !.remaining = Unwritten(c, s)])
  /\ UNCHANGED <<words, level>>

\* Variant: the failed call has taken the pending ports already.
WriteBackWriteFailsForgets(c) ==
  /\ WritesMayFail
  /\ call[c].pc = "write_back" /\ call[c].todo = {} /\ call[c].remaining # {}
  /\ dirty' = {}
  /\ Return(c)
  /\ UNCHANGED <<issued, cache, fresh, device>>

\* The ? on a write: dirty is kept.  The write may have reached the device
\* before the error (a chip select that fails to go high, say).
WriteBackWriteFails(c) ==
  /\ WritesMayFail
  /\ call[c].pc = "write_back" /\ call[c].todo = {}
  /\ \E s \in call[c].remaining :
       /\ Lowest(s, call[c].remaining)
       /\ latch' \in {latch, Written(WriteBackTarget(c, s), call[c].buffer)}
  /\ Return(c)
  /\ UNCHANGED <<words, level>>

WriteBackDone(c) ==
  /\ call[c].pc = "write_back" /\ call[c].todo = {} /\ call[c].remaining = {}
  /\ dirty' = {}
  /\ Return(c)
  /\ UNCHANGED <<issued, cache, fresh, device>>

-----------------------------------------------------------------------------
(* The world outside drives an input pin. *)
DriveInput(p) ==
  /\ level' = (level \ {p}) \cup ({p} \ level)
  /\ UNCHANGED <<words, latch, call>>

Step(c) ==
  \/ WritePortCache(c) \/ WritePortDirty(c) \/ WritePortFresh(c)
  \/ ReadPortFresh(c) \/ ReadPortCache(c) \/ ReadPortReturn(c)
  \/ RefreshIssued(c) \/ RefreshRead(c) \/ RefreshReadFails(c)
  \/ RefreshCache(c) \/ RefreshFresh(c)
  \/ WriteBackFresh(c) \/ WriteBackCache(c)
  \/ WriteBackWrite(c) \/ WriteBackWriteFails(c) \/ WriteBackDone(c)

Start(c) ==
  \/ \E p \in Ports : port_pin(c, p)
  \/ \E p \in Ports, b \in BOOLEAN : write_port(c, p, b)
  \/ \E p \in Ports : read_port(c, p)
  \/ refresh(c)
  \/ \E s \in Strategies : write_back(c, s)

Next ==
  \/ \E c \in Contexts : Start(c) \/ Step(c)
  \/ \E p \in Ports \ Outputs : DriveInput(p)

Spec == Init /\ [][Next]_vars

-----------------------------------------------------------------------------
(* Properties. *)

BeingSet(p) ==
  \E c \in Contexts :
    call[c].pc = "write_port" /\ call[c].port = p /\ "dirty" \in call[c].todo

Refreshing == \E c \in Contexts : call[c].pc \in {"refresh", "refresh_read"}

\* The dirty and issued words only ever yield port numbers valid_port accepts,
\* so the register address computed inside refresh and write_back never panics
\* (with the adapter's mutex held).
AddressesValid == \A c \in Contexts : call[c].remaining \subseteq Ports

\* An output port whose cached value may be read, with no set pending or under
\* way, has the cached value on its pin: the cache that StompClean writes from
\* and is_high answers from does not drift from the device.
CacheCoherent ==
  \A p \in Outputs \cap fresh :
    (p \in cache <=> p \in latch) \/ p \in dirty \/ BeingSet(p) \/ Refreshing

\* What is_high and is_low answer for an output is what the pin carries, unless
\* a set of that port is pending or under way ("the last set value will be
\* read", pin.rs).
ReadsMatchDevice ==
  \A c \in Contexts :
    call[c].pc = "read_port" /\ call[c].todo = {} /\ call[c].port \in Outputs =>
      \/ call[c].bit <=> call[c].port \in latch
      \/ call[c].port \in dirty \/ BeingSet(call[c].port)

OutputChangeAllowed ==
  \A p \in Outputs :
    (p \in latch) # (p \in latch') =>
      \/ p \in dirty
      \/ p \notin fresh /\ \E c \in Contexts :
           call[c].pc = "write_back" /\ call[c].strategy = "StompAny"

PendingResolved ==
  \A p \in dirty \ dirty' :
    (p \in cache <=> p \in latch) \/ \E c \in Contexts : refresh(c)

PendingChangeAllowed ==
  \A p \in dirty \cap dirty' :
    (p \in cache) # (p \in cache') =>
      \E c \in Contexts : call[c].pc = "write_port" /\ call[c].port = p

UnissuedChangeAllowed ==
  \A p \in Ports \ issued :
    (p \in latch) # (p \in latch') =>
      \E c \in Contexts :
        /\ call[c].pc = "write_back" /\ call[c].strategy # "Exact"
        /\ p \in call[c].mask

\* A write_back changes no output that has no pending set, however it batches;
\* StompAny alone may, and only a port whose value is not fresh (Strategy).
OnlyPendingPortsChange == [][OutputChangeAllowed]_vars

\* A pending set stops being pending only when a refresh discards it or when
\* the port's register holds the cached value: write_back writes them all.
PendingReachesDevice == [][PendingResolved]_vars

\* While a set is pending only another set of the port changes its value: what
\* write_back will write, and reads answer ("the last set value will be read",
\* pin.rs), is not replaced by what a refresh has read from the device.
PendingValueKept == [][PendingChangeAllowed]_vars

\* A port that has no pin is written only by the stomping strategies, and by
\* StompClean only where its mask allows, whatever runs at the same time.
UnissuedPortsUntouched == [][UnissuedChangeAllowed]_vars

\* Outside StompAny, no output changes without a pending set: a set that a
\* refresh discarded ("All pending OutputPin operations are discarded") does
\* not reach the device later.
DiscardedStaysDiscarded ==
  [][\A p \in Outputs \ dirty :
       (p \in latch) # (p \in latch') =>
         \E c \in Contexts :
           call[c].pc = "write_back" /\ call[c].strategy = "StompAny"]_vars

\* The call with locals l is a set or a read of an output: calls on input ports
\* are not the concern of PortTransactions.
OnOutput(l) == l.pc \in {"write_port", "read_port"} /\ l.port \in Outputs

\* The call with locals l as a caller sees it.
OpOf(l) ==
  [kind |-> CASE l.pc = "write_port" /\ OnOutput(l) -> "set"
              [] l.pc = "read_port" /\ OnOutput(l) -> "read"
              [] l.pc = "refresh" -> "refresh"
              [] l.pc = "refresh_read" -> "load"
              [] l.pc = "write_back" -> "write_back"
              [] OTHER -> "idle",
   port |-> IF OnOutput(l) THEN {l.port} ELSE {},
   bit |-> IF OnOutput(l) THEN l.bit ELSE FALSE,
   done |-> IF OnOutput(l) THEN "cache" \notin l.todo ELSE FALSE,
   ports |-> IF l.pc = "refresh_read" THEN (l.remaining \cup l.mask) \cap Outputs ELSE {},
   strategy |-> IF l.pc = "write_back" THEN l.strategy ELSE "Exact"]

\* The words as callers see them: a refresh hides the cache until it returns,
\* and a port is pending from the start of a set.
Made == issued \cap Outputs
Pins == latch \cap Outputs
View == IF Refreshing THEN {} ELSE cache \cap Outputs
Known == IF Refreshing THEN {} ELSE fresh \cap Outputs
Pending == {p \in Outputs : p \in dirty \/ BeingSet(p)}
Ops == [c \in Contexts |-> OpOf(call[c])]

Transactions == INSTANCE PortTransactions WITH
  made <- Made, pin <- Pins, view <- View, known <- Known, pending <- Pending, op <- Ops

\* The four words, however their accesses interleave and are reordered between
\* bracketed transfers, and whatever batches a strategy makes, look to callers
\* like one view of the pins that transfers load and carry out as a whole.
ImplementsPortTransactions == Transactions!Spec

\* The locals m have less to do than l: ports left to scan, or words to access.
Shorter(m, l) ==
  \/ m.pc = "idle"
  \/ l.pc = "refresh" /\ m.pc = "refresh_read"
  \/ /\ m.pc = l.pc
     /\ m.remaining \subseteq l.remaining /\ m.todo \subseteq l.todo
     /\ <<m.remaining, m.todo>> # <<l.remaining, l.todo>>

CallShortens == \A c \in Contexts : Step(c) => Shorter(call'[c], call[c])

\* Every step of a call leaves it less to do, whatever races with it and fails: no
\* turn of a loop, however its range and its mask fall, leaves the scan where it was.
CallsShorten == [][CallShortens]_vars
-----------------------------------------------------------------------------
(* The inductive invariant behind AddressesValid and UnissuedPortsUntouched. *)

\* Only ports that have a pin are ever pending, scanned, or written one by one
\* or by Exact: this needs no discipline of the callers.
IssuedInv ==
  /\ issued \subseteq Ports /\ dirty \subseteq issued
  /\ \A c \in Contexts :
       LET l == call[c] IN
       /\ l.remaining \subseteq issued
       /\ l.pc = "write_port" => l.port \in issued
       /\ l.pc = "write_back" =>
            /\ l.strategy = "Exact" => l.mask \subseteq issued
            /\ "fresh" \in l.todo => l.strategy = "StompClean" /\ "cache" \in l.todo

-----------------------------------------------------------------------------
(* The inductive invariant behind CacheCoherent, ReadsMatchDevice and the    *)
(* two action properties: it holds when Bracketed and reads do not fail.     *)

\* Port numbers only, in the two words the scanning loops start from.
PortWords == issued \subseteq Ports /\ dirty \subseteq Ports

\* What Bracketed gives: nothing else runs while a call transfers.
Exclusive ==
  \A c, d \in Contexts : Transferring(c) /\ d # c => Idle(d)

\* A pin call: a set past its dirty step is pending; a set or a read past its
\* fresh step has a fresh port; a bit a read loaded is the pin's, or will be
\* superseded.
PinInv(c) ==
  LET l == call[c] IN
  /\ l.pc = "write_port" /\ "dirty" \notin l.todo => l.port \in dirty
  /\ l.pc \in {"write_port", "read_port"} /\ "fresh" \notin l.todo => l.port \in fresh
  /\ l.pc = "read_port" /\ "cache" \notin l.todo /\ l.port \in Outputs =>
       \/ l.bit <=> l.port \in latch
       \/ l.port \in dirty \/ BeingSet(l.port)
       \/ l.port \notin fresh /\ "fresh" \in l.todo

\* A refresh: nothing is pending, and what it read so far is on the pins.
RefreshInv(c) ==
  LET l == call[c] IN
  /\ l.pc \in {"refresh", "refresh_read"} => dirty = {}
  /\ l.pc = "refresh" => l.mask = {} /\ l.buffer = {}
  /\ l.pc = "refresh_read" =>
       /\ l.buffer \subseteq l.mask
       /\ \A p \in Outputs \cap l.mask : p \in l.buffer <=> p \in latch
       /\ "cache" \notin l.todo => cache = l.buffer
       /\ "fresh" \notin l.todo => fresh = l.mask
       /\ l.remaining # {} => l.todo = {"cache", "fresh"}

\* A write_back: its snapshot is still current, its mask is what the strategy
\* promises, and every pending port it went past holds the cached value.
WriteBackInv(c) ==
  LET l == call[c] IN
  l.pc = "write_back" =>
    /\ l.remaining \subseteq dirty
    /\ "fresh" \in l.todo => l.strategy = "StompClean"
    /\ l.strategy = "Exact" => l.mask = dirty
    /\ l.strategy = "StompClean" /\ "fresh" \notin l.todo => l.mask = fresh
    /\ l.todo = {} => l.buffer = cache
    /\ \A p \in dirty \ l.remaining : p \in cache <=> p \in latch

\* The whole of it: between calls, and at every point of the one that transfers,
\* cache, dirty and fresh agree with the device as far as callers can tell.
CoherenceInv ==
  /\ PortWords /\ AddressesValid /\ Exclusive /\ CacheCoherent
  /\ \A c \in Contexts : PinInv(c) /\ RefreshInv(c) /\ WriteBackInv(c)
=============================================================================
