----------------------- MODULE TransactionalIOProofs -----------------------
(* Theorems about TransactionalIO, for every value of its constants. *)
EXTENDS TransactionalIO, TLAPS

LEMMA NoCallType == NoCall \in Calls
  BY GeometryAssumption DEF NoCall, Calls, Ports, Strategies

LEMMA PortsAreBits == Ports \subseteq Bits
  BY GeometryAssumption DEF Ports, Bits

\* What a change of the locals of one context does, and leaves alone.
LEMMA BecomesEffect ==
  ASSUME call \in [Contexts -> Calls], NEW c \in Contexts, NEW r \in Calls,
         Becomes(c, r)
  PROVE  /\ call' \in [Contexts -> Calls]
         /\ call'[c] = r
         /\ \A d \in Contexts : d # c => call'[d] = call[d]
  BY DEF Becomes

LEMMA DoneEffect ==
  ASSUME call \in [Contexts -> Calls], NEW c \in Contexts, NEW w, Done(c, w)
  PROVE  /\ call' \in [Contexts -> Calls]
         /\ call'[c] = IF call[c].todo = {w} THEN NoCall
                       ELSE [call[c] EXCEPT !.todo = @ \ {w}]
         /\ \A d \in Contexts : d # c => call'[d] = call[d]
  <1> DEFINE r == IF call[c].todo = {w} THEN NoCall
                  ELSE [call[c] EXCEPT !.todo = @ \ {w}]
  <1>1. r \in Calls
    BY NoCallType DEF Calls
  <1>2. Becomes(c, r)
    BY DEF Done
  <1>3. /\ call' \in [Contexts -> Calls]
        /\ call'[c] = r
        /\ \A d \in Contexts : d # c => call'[d] = call[d]
    <2> HIDE DEF r
    <2>1. QED BY <1>1, <1>2, BecomesEffect
  <1>4. QED BY <1>3

LEMMA TypeInit == Init => TypeOK
  BY NoCallType, GeometryAssumption DEF Init, TypeOK, Bits, Ports

\* The calls a context may start are well typed.
LEMMA StartType ==
  ASSUME TypeOK, NEW c \in Contexts, Start(c)
  PROVE  TypeOK'
  <1> USE PortsAreBits DEF TypeOK, words, device
  <1>1. CASE \E p \in Ports : port_pin(c, p)
    BY <1>1 DEF port_pin
  <1>2. ASSUME NEW p \in Ports, NEW b \in BOOLEAN, write_port(c, p, b)
        PROVE  TypeOK'
    <2> DEFINE new == [NoCall EXCEPT !.pc = "write_port", !.port = p, !.bit = b,
                                     !.todo = {"cache", "dirty", "fresh"}]
    <2>1. new \in Calls
      BY NoCallType DEF Calls
    <2>2. QED BY <2>1, <1>2, BecomesEffect DEF write_port
  <1>3. ASSUME NEW p \in Ports, read_port(c, p) PROVE TypeOK'
    <2> DEFINE new == [NoCall EXCEPT !.pc = "read_port", !.port = p,
                                     !.todo = {"fresh", "cache"}]
    <2>1. new \in Calls
      BY NoCallType DEF Calls
    <2>2. QED BY <2>1, <1>3, BecomesEffect DEF read_port
  <1>4. CASE refresh(c)
    <2>1. [NoCall EXCEPT !.pc = "refresh"] \in Calls
      BY NoCallType DEF Calls
    <2>2. QED BY <2>1, <1>4, BecomesEffect DEF refresh
  <1>5. ASSUME NEW s \in Strategies, write_back(c, s) PROVE TypeOK'
    <2> DEFINE new == [NoCall EXCEPT !.pc = "write_back", !.strategy = s,
                         !.remaining = dirty, !.mask = OkToWrite(s, dirty),
                         !.todo = WordsToLoad(s)]
    <2>1. OkToWrite(s, dirty) \subseteq Bits
      BY GeometryAssumption DEF OkToWrite, Bits
    <2>2. WordsToLoad(s) \subseteq {"cache", "dirty", "fresh"}
      BY DEF WordsToLoad
    <2>3. new \in Calls
      BY <2>1, <2>2, NoCallType DEF Calls
    <2>4. QED BY <2>3, <1>5, BecomesEffect DEF write_back
  <1> QED BY <1>1, <1>2, <1>3, <1>4, <1>5 DEF Start

LEMMA StepType ==
  ASSUME TypeOK, NEW c \in Contexts, Step(c)
  PROVE  TypeOK'
  <1> USE PortsAreBits, NoCallType DEF TypeOK, words, device
  <1>0. call[c].port \in Bits /\ call[c].buffer \subseteq Bits /\ call[c].mask \subseteq Bits
    BY DEF Calls
  <1>1. CASE WritePortCache(c)
    <2>1. call' \in [Contexts -> Calls]
      BY <1>1, DoneEffect DEF WritePortCache
    <2>2. QED BY <2>1, <1>0, <1>1 DEF WritePortCache, OrBit
  <1>2. CASE WritePortDirty(c)
    <2>1. call' \in [Contexts -> Calls]
      BY <1>2, DoneEffect DEF WritePortDirty
    <2>2. QED BY <2>1, <1>0, <1>2 DEF WritePortDirty, OrBit
  <1>3. CASE WritePortFresh(c)
    <2>1. call' \in [Contexts -> Calls]
      BY <1>3, DoneEffect DEF WritePortFresh
    <2>2. QED BY <2>1, <1>0, <1>3 DEF WritePortFresh, OrBit
  <1>4. CASE ReadPortFresh(c)
    <2> DEFINE new == IF Readable(c)
                        THEN [call[c] EXCEPT !.todo = @ \ {"fresh"}] ELSE NoCall
    <2>1. new \in Calls
      BY DEF Calls
    <2>2. QED BY <2>1, <1>4, BecomesEffect DEF ReadPortFresh
  <1>5. CASE ReadPortCache(c)
    <2> DEFINE new(b) == [call[c] EXCEPT !.bit = b, !.todo = @ \ {"cache"}]
    <2>1. ASSUME NEW b \in BOOLEAN PROVE new(b) \in Calls
      BY DEF Calls
    <2>2. new(call[c].port \in cache) \in Calls
      <3> HIDE DEF new
      <3>1. (call[c].port \in cache) \in BOOLEAN
        OBVIOUS
      <3>2. QED BY <3>1, <2>1, Zenon
    <2>3. Becomes(c, new(call[c].port \in cache))
      BY <1>5, Zenon DEF ReadPortCache
    <2>4. call' \in [Contexts -> Calls]
      <3> HIDE DEF new
      <3>1. QED BY <2>2, <2>3, BecomesEffect
    <2>5. QED BY <2>4, <1>5 DEF ReadPortCache
  <1>6. CASE RefreshIssued(c)
    <2> DEFINE new == [call[c] EXCEPT !.pc = "refresh_read",
                         !.todo = {"cache", "fresh"},
                         !.remaining = {p \in issued : p >= FirstPort}]
    <2>1. new \in Calls
      BY DEF Calls
    <2>2. QED BY <2>1, <1>6, BecomesEffect DEF RefreshIssued
  <1>7. CASE RefreshRead(c)
    <2> DEFINE new(s) ==
          [call[c] EXCEPT !.remaining = Unread(c, s),
                          !.buffer = Loaded(c, s),
                          !.mask = @ \cup (PortRange(s) \cap Bits)]
    <2>1. PICK s \in call[c].remaining : Becomes(c, new(s))
      BY <1>7 DEF RefreshRead
    <2>2. Sensed \subseteq Bits
      BY DEF Sensed
    <2>3. new(s) \in Calls
      BY <2>2 DEF Calls, Unread, Loaded
    <2>4. QED BY <2>1, <2>3, <1>7, BecomesEffect DEF RefreshRead
  <1>8. CASE RefreshReadFails(c) \/ ReadPortReturn(c)
    BY <1>8, BecomesEffect DEF RefreshReadFails, ReadPortReturn, Return
  <1>9. CASE RefreshCache(c)
    <2>1. call' \in [Contexts -> Calls]
      BY <1>9, DoneEffect DEF RefreshCache
    <2>2. QED BY <2>1, <1>0, <1>9 DEF RefreshCache
  <1>10. CASE RefreshFresh(c)
    <2>1. call' \in [Contexts -> Calls]
      BY <1>10, DoneEffect DEF RefreshFresh
    <2>2. QED BY <2>1, <1>0, <1>10 DEF RefreshFresh
  <1>11. CASE WriteBackFresh(c)
    <2>1. [call[c] EXCEPT !.mask = fresh, !.todo = {"cache"}] \in Calls
      BY DEF Calls
    <2>2. QED BY <2>1, <1>11, BecomesEffect DEF WriteBackFresh
  <1>12. CASE WriteBackCache(c)
    <2>1. [call[c] EXCEPT !.buffer = cache, !.todo = {}] \in Calls
      BY DEF Calls
    <2>2. QED BY <2>1, <1>12, BecomesEffect DEF WriteBackCache
  <1>13. CASE WriteBackWrite(c)
    <2> DEFINE new(s) == [call[c] EXCEPT !.remaining = Unwritten(c, s)]
    <2>1. PICK s \in call[c].remaining : Becomes(c, new(s))
      BY <1>13 DEF WriteBackWrite
    <2>2. new(s) \in Calls
      BY DEF Calls, Unwritten
    <2>3. QED BY <2>1, <2>2, <1>13, BecomesEffect DEF WriteBackWrite, Written
  <1>14. CASE WriteBackWriteFails(c)
    BY <1>14, BecomesEffect DEF WriteBackWriteFails, Written, Return
  <1>15. CASE WriteBackDone(c)
    BY <1>15, BecomesEffect DEF WriteBackDone, Return
  <1> QED BY <1>1, <1>2, <1>3, <1>4, <1>5, <1>6, <1>7, <1>8, <1>9, <1>10, <1>11,
             <1>12, <1>13, <1>14, <1>15 DEF Step

\* The words and the locals of every call keep their types, for any number of
\* contexts, any geometry, with or without the client discipline.
THEOREM TypeCorrect == Spec => []TypeOK
  <1>1. TypeOK /\ [Next]_vars => TypeOK'
    <2> SUFFICES ASSUME TypeOK, [Next]_vars PROVE TypeOK'
      OBVIOUS
    <2>1. ASSUME NEW c \in Contexts, Start(c) \/ Step(c) PROVE TypeOK'
      BY <2>1, StartType, StepType
    <2>2. ASSUME NEW p \in Ports \ Outputs, DriveInput(p) PROVE TypeOK'
      BY <2>2 DEF DriveInput, TypeOK, words
    <2>3. CASE UNCHANGED vars
      BY <2>3 DEF vars, words, device, TypeOK
    <2>4. QED BY <2>1, <2>2, <2>3 DEF Next
  <1>2. QED BY TypeInit, <1>1, PTL DEF Spec

-----------------------------------------------------------------------------
(* Preservation of CoherenceInv, one lemma per action. *)

LEMMA NoCallFields ==
  /\ NoCall.pc = "idle" /\ NoCall.todo = {} /\ NoCall.remaining = {}
  /\ NoCall.mask = {} /\ NoCall.buffer = {}
  BY DEF NoCall

\* The locals of c after it is done with a word.
LEMMA DoneFields ==
  ASSUME call \in [Contexts -> Calls], NEW c \in Contexts, NEW w, Done(c, w)
  PROVE  /\ call' \in [Contexts -> Calls]
         /\ \A d \in Contexts : d # c => call'[d] = call[d]
         /\ call[c].todo = {w} =>
              /\ call'[c].pc = "idle" /\ call'[c].todo = {} /\ call'[c].remaining = {}
         /\ call[c].todo # {w} =>
              /\ call'[c].pc = call[c].pc /\ call'[c].port = call[c].port
              /\ call'[c].bit = call[c].bit /\ call'[c].todo = call[c].todo \ {w}
              /\ call'[c].remaining = call[c].remaining
              /\ call'[c].mask = call[c].mask /\ call'[c].buffer = call[c].buffer
              /\ call'[c].strategy = call[c].strategy
  <1>1. CASE call[c].todo = {w}
    BY <1>1, DoneEffect, NoCallFields
  <1>2. CASE call[c].todo # {w}
    <2>1. call'[c] = [call[c] EXCEPT !.todo = @ \ {w}]
      BY <1>2, DoneEffect
    <2>2. call[c] \in Calls
      OBVIOUS
    <2>3. QED BY <1>2, <2>1, <2>2, DoneEffect DEF Calls
  <1>3. QED BY <1>1, <1>2

LEMMA CoherentWritePortCache ==
  ASSUME TypeOK, CoherenceInv, NEW c \in Contexts, WritePortCache(c)
  PROVE  CoherenceInv'
  <1> USE DEF CoherenceInv
  <1>1. /\ call[c].pc = "write_port" /\ "cache" \in call[c].todo
        /\ issued' = issued /\ dirty' = dirty /\ fresh' = fresh
        /\ latch' = latch
        /\ \A p : p # call[c].port => (p \in cache' <=> p \in cache)
        /\ Done(c, "cache")
    BY DEF WritePortCache, OrBit, Access, device
  <1>2. call \in [Contexts -> Calls]
    BY DEF TypeOK
  <1>3. \A d \in Contexts : ~Transferring(d)
    BY <1>1 DEF Exclusive, Idle, Transferring
  <1>4. /\ \A d \in Contexts : d # c => call'[d] = call[d]
        /\ call'[c].pc \in {"write_port", "idle"}
        /\ call'[c].remaining \in {{}, call[c].remaining}
        /\ call'[c].pc = "write_port" =>
             call'[c].port = call[c].port /\ call'[c].todo = call[c].todo \ {"cache"}
        /\ "dirty" \in call[c].todo => call'[c].pc = "write_port"
    BY <1>1, <1>2, DoneFields
  <1>5. PortWords' /\ AddressesValid'
    BY <1>1, <1>4 DEF PortWords, AddressesValid
  <1>6. \A d \in Contexts : ~Transferring(d)'
    BY <1>3, <1>4 DEF Transferring
  <1>7. \A p : BeingSet(p) => BeingSet(p)'
    BY <1>1, <1>4 DEF BeingSet
  <1>8. CacheCoherent'
    BY <1>1, <1>3, <1>4, <1>7 DEF CacheCoherent, BeingSet, Refreshing, Transferring, PinInv
  <1>9. ASSUME NEW d \in Contexts PROVE PinInv(d)' /\ RefreshInv(d)' /\ WriteBackInv(d)'
    <2>1. PinInv(d)'
      BY <1>1, <1>4, <1>7 DEF PinInv
    <2>2. QED BY <2>1, <1>6 DEF RefreshInv, WriteBackInv, Transferring
  <1>10. QED BY <1>5, <1>6, <1>8, <1>9 DEF Exclusive

LEMMA CoherentWritePortDirty ==
  ASSUME TypeOK, CoherenceInv, NEW c \in Contexts, WritePortDirty(c)
  PROVE  CoherenceInv'
  <1> USE DEF CoherenceInv
  <1>1. /\ call[c].pc = "write_port" /\ "dirty" \in call[c].todo
        /\ issued' = issued /\ cache' = cache /\ fresh' = fresh /\ latch' = latch
        /\ dirty' = dirty \cup {call[c].port}
        /\ Done(c, "dirty")
    BY DEF WritePortDirty, OrBit, Access, device
  <1>2. call \in [Contexts -> Calls] /\ call[c].port \in Ports
    BY DEF TypeOK, Calls
  <1>3. \A d \in Contexts : ~Transferring(d)
    BY <1>1 DEF Exclusive, Idle, Transferring
  <1>4. /\ \A d \in Contexts : d # c => call'[d] = call[d]
        /\ call'[c].pc \in {"write_port", "idle"}
        /\ call'[c].remaining \in {{}, call[c].remaining}
        /\ call'[c].pc = "write_port" =>
             call'[c].port = call[c].port /\ call'[c].todo = call[c].todo \ {"dirty"}
    BY <1>1, <1>2, DoneFields
  <1>5. PortWords' /\ AddressesValid'
    BY <1>1, <1>2, <1>4 DEF PortWords, AddressesValid
  <1>6. \A d \in Contexts : ~Transferring(d)'
    BY <1>3, <1>4 DEF Transferring
  <1>7. \A p : BeingSet(p) => BeingSet(p)' \/ p \in dirty'
    BY <1>1, <1>4 DEF BeingSet
  <1>8. CacheCoherent'
    BY <1>1, <1>3, <1>7 DEF CacheCoherent, Refreshing, Transferring
  <1>9. ASSUME NEW d \in Contexts PROVE PinInv(d)' /\ RefreshInv(d)' /\ WriteBackInv(d)'
    <2>1. PinInv(d)'
      BY <1>1, <1>4, <1>7 DEF PinInv
    <2>2. QED BY <2>1, <1>6 DEF RefreshInv, WriteBackInv, Transferring
  <1>10. QED BY <1>5, <1>6, <1>8, <1>9 DEF Exclusive

LEMMA CoherentWritePortFresh ==
  ASSUME TypeOK, CoherenceInv, NEW c \in Contexts, WritePortFresh(c)
  PROVE  CoherenceInv'
  <1> USE DEF CoherenceInv
  <1>1. /\ call[c].pc = "write_port" /\ "fresh" \in call[c].todo
        /\ issued' = issued /\ cache' = cache /\ dirty' = dirty /\ latch' = latch
        /\ fresh' = fresh \cup {call[c].port}
        /\ Done(c, "fresh")
    BY DEF WritePortFresh, OrBit, Access, device
  <1>2. call \in [Contexts -> Calls]
    BY DEF TypeOK
  <1>3. \A d \in Contexts : ~Transferring(d)
    BY <1>1 DEF Exclusive, Idle, Transferring
  <1>4. /\ \A d \in Contexts : d # c => call'[d] = call[d]
        /\ call'[c].pc \in {"write_port", "idle"}
        /\ call'[c].remaining \in {{}, call[c].remaining}
        /\ call'[c].pc = "write_port" =>
             call'[c].port = call[c].port /\ call'[c].todo = call[c].todo \ {"fresh"}
        /\ "dirty" \in call[c].todo => call'[c].pc = "write_port"
    BY <1>1, <1>2, DoneFields
  <1>5. PortWords' /\ AddressesValid'
    BY <1>1, <1>4 DEF PortWords, AddressesValid
  <1>6. \A d \in Contexts : ~Transferring(d)'
    BY <1>3, <1>4 DEF Transferring
  <1>7. \A p : BeingSet(p) => BeingSet(p)'
    BY <1>1, <1>4 DEF BeingSet
  <1>8. \A q : q = call[c].port => q \in dirty' \/ BeingSet(q)'
    BY <1>1, <1>4 DEF PinInv, BeingSet
  <1>9. CacheCoherent'
    BY <1>1, <1>3, <1>7, <1>8 DEF CacheCoherent, Refreshing, Transferring
  <1>10. ASSUME NEW d \in Contexts PROVE PinInv(d)' /\ RefreshInv(d)' /\ WriteBackInv(d)'
    <2>1. PinInv(d)'
      BY <1>1, <1>4, <1>7, <1>8 DEF PinInv
    <2>2. QED BY <2>1, <1>6 DEF RefreshInv, WriteBackInv, Transferring
  <1>11. QED BY <1>5, <1>6, <1>9, <1>10 DEF Exclusive

LEMMA CoherentPortPin ==
  ASSUME TypeOK, CoherenceInv, NEW c \in Contexts, NEW p \in Ports, port_pin(c, p)
  PROVE  CoherenceInv'
  BY DEF CoherenceInv, port_pin, device, PortWords, AddressesValid, Exclusive, Idle,
         Transferring, CacheCoherent, BeingSet, Refreshing, PinInv, RefreshInv, WriteBackInv

LEMMA CoherentStartWritePort ==
  ASSUME TypeOK, CoherenceInv, Bracketed,
         NEW c \in Contexts, NEW p \in Ports, NEW b \in BOOLEAN, write_port(c, p, b)
  PROVE  CoherenceInv'
  <1> USE DEF CoherenceInv
  <1> DEFINE new == [NoCall EXCEPT !.pc = "write_port", !.port = p, !.bit = b,
                                   !.todo = {"cache", "dirty", "fresh"}]
  <1>1. /\ Idle(c) /\ \A d \in Contexts : ~Transferring(d)
        /\ UNCHANGED <<issued, cache, dirty, fresh, latch>>
        /\ Becomes(c, new)
    BY DEF write_port, MayUsePin, words, device
  <1>2. /\ new \in Calls
        /\ new.pc = "write_port" /\ new.todo = {"cache", "dirty", "fresh"}
        /\ new.remaining = {}
    BY NoCallType DEF Calls, NoCall
  <1>3. /\ \A d \in Contexts : d # c => call'[d] = call[d]
        /\ call'[c].pc = "write_port" /\ call'[c].todo = {"cache", "dirty", "fresh"}
        /\ call'[c].remaining = {}
    <2> HIDE DEF new
    <2>1. QED BY <1>1, <1>2, BecomesEffect DEF TypeOK
  <1>4. PortWords' /\ AddressesValid'
    BY <1>1, <1>3 DEF PortWords, AddressesValid
  <1>5. \A d \in Contexts : ~Transferring(d)'
    BY <1>1, <1>3 DEF Transferring
  <1>6. \A q : BeingSet(q) => BeingSet(q)'
    BY <1>1, <1>3 DEF BeingSet, Idle
  <1>7. CacheCoherent'
    BY <1>1, <1>6 DEF CacheCoherent, Refreshing, Transferring
  <1>8. ASSUME NEW d \in Contexts PROVE PinInv(d)' /\ RefreshInv(d)' /\ WriteBackInv(d)'
    <2>1. PinInv(d)'
      BY <1>1, <1>3, <1>6 DEF PinInv
    <2>2. QED BY <2>1, <1>5 DEF RefreshInv, WriteBackInv, Transferring
  <1>9. QED BY <1>4, <1>5, <1>7, <1>8 DEF Exclusive

LEMMA CoherentStartReadPort ==
  ASSUME TypeOK, CoherenceInv, Bracketed,
         NEW c \in Contexts, NEW p \in Ports, read_port(c, p)
  PROVE  CoherenceInv'
  <1> USE DEF CoherenceInv
  <1> DEFINE new == [NoCall EXCEPT !.pc = "read_port", !.port = p,
                                   !.todo = {"fresh", "cache"}]
  <1>1. /\ Idle(c) /\ \A d \in Contexts : ~Transferring(d)
        /\ UNCHANGED <<issued, cache, dirty, fresh, latch>>
        /\ Becomes(c, new)
    BY DEF read_port, MayUsePin, words, device
  <1>2. /\ new \in Calls
        /\ new.pc = "read_port" /\ new.todo = {"fresh", "cache"} /\ new.remaining = {}
    BY NoCallType DEF Calls, NoCall
  <1>3. /\ \A d \in Contexts : d # c => call'[d] = call[d]
        /\ call'[c].pc = "read_port" /\ call'[c].todo = {"fresh", "cache"}
        /\ call'[c].remaining = {}
    <2> HIDE DEF new
    <2>1. QED BY <1>1, <1>2, BecomesEffect DEF TypeOK
  <1>4. PortWords' /\ AddressesValid'
    BY <1>1, <1>3 DEF PortWords, AddressesValid
  <1>5. \A d \in Contexts : ~Transferring(d)'
    BY <1>1, <1>3 DEF Transferring
  <1>6. \A q : BeingSet(q) => BeingSet(q)'
    BY <1>1, <1>3 DEF BeingSet, Idle
  <1>7. CacheCoherent'
    BY <1>1, <1>6 DEF CacheCoherent, Refreshing, Transferring
  <1>8. ASSUME NEW d \in Contexts PROVE PinInv(d)' /\ RefreshInv(d)' /\ WriteBackInv(d)'
    <2>1. PinInv(d)'
      BY <1>1, <1>3, <1>6 DEF PinInv
    <2>2. QED BY <2>1, <1>5 DEF RefreshInv, WriteBackInv, Transferring
  <1>9. QED BY <1>4, <1>5, <1>7, <1>8 DEF Exclusive

LEMMA CoherentReadPortFresh ==
  ASSUME TypeOK, CoherenceInv, NEW c \in Contexts, ReadPortFresh(c)
  PROVE  CoherenceInv'
  <1> USE DEF CoherenceInv
  <1> DEFINE new == IF Readable(c)
                      THEN [call[c] EXCEPT !.todo = @ \ {"fresh"}] ELSE NoCall
  <1>1. /\ call[c].pc = "read_port" /\ "fresh" \in call[c].todo
        /\ UNCHANGED <<issued, cache, dirty, fresh, latch>>
        /\ Becomes(c, new)
    BY DEF ReadPortFresh, Access, words, device
  <1>2. /\ new \in Calls
        /\ new.pc \in {"read_port", "idle"}
        /\ new.remaining \in {{}, call[c].remaining}
        /\ new.pc = "read_port" =>
             /\ call[c].port \in fresh /\ new.port = call[c].port
             /\ new.bit = call[c].bit /\ new.todo = call[c].todo \ {"fresh"}
    <2>1. CASE Readable(c)
      <3>1. new = [call[c] EXCEPT !.todo = @ \ {"fresh"}]
        BY <2>1
      <3>2. call[c] \in Calls
        BY DEF TypeOK
      <3>3. QED BY <1>1, <2>1, <3>1, <3>2 DEF Calls, Readable
    <2>2. CASE ~Readable(c)
      <3>1. new = NoCall
        BY <2>2
      <3>2. QED BY <3>1, NoCallType, NoCallFields
    <2>3. QED BY <2>1, <2>2
  <1>3. /\ \A d \in Contexts : d # c => call'[d] = call[d]
        /\ call'[c].pc \in {"read_port", "idle"}
        /\ call'[c].remaining \in {{}, call[c].remaining}
        /\ call'[c].pc = "read_port" =>
             /\ call[c].port \in fresh /\ call'[c].port = call[c].port
             /\ call'[c].bit = call[c].bit /\ call'[c].todo = call[c].todo \ {"fresh"}
    <2> HIDE DEF new
    <2>1. QED BY <1>1, <1>2, BecomesEffect DEF TypeOK
  <1>4. \A d \in Contexts : ~Transferring(d)
    BY <1>1 DEF Exclusive, Idle, Transferring
  <1>5. PortWords' /\ AddressesValid'
    BY <1>1, <1>3 DEF PortWords, AddressesValid
  <1>6. \A d \in Contexts : ~Transferring(d)'
    BY <1>3, <1>4 DEF Transferring
  <1>7. \A q : BeingSet(q) => BeingSet(q)'
    BY <1>1, <1>3 DEF BeingSet
  <1>8. CacheCoherent'
    BY <1>1, <1>4, <1>7 DEF CacheCoherent, Refreshing, Transferring
  <1>9. ASSUME NEW d \in Contexts PROVE PinInv(d)' /\ RefreshInv(d)' /\ WriteBackInv(d)'
    <2>1. PinInv(d)'
      BY <1>1, <1>3, <1>7 DEF PinInv
    <2>2. QED BY <2>1, <1>6 DEF RefreshInv, WriteBackInv, Transferring
  <1>10. QED BY <1>5, <1>6, <1>8, <1>9 DEF Exclusive

LEMMA CoherentReadPortCache ==
  ASSUME TypeOK, CoherenceInv, NEW c \in Contexts, ReadPortCache(c)
  PROVE  CoherenceInv'
  <1> USE DEF CoherenceInv
  <1>1. /\ call[c].pc = "read_port" /\ "cache" \in call[c].todo
        /\ UNCHANGED <<issued, cache, dirty, fresh, latch>>
    BY DEF ReadPortCache, Access, words, device
  <1>2. /\ call'[c].pc = "read_port" /\ call'[c].port = call[c].port
        /\ call'[c].bit = (call[c].port \in cache)
        /\ call'[c].todo = call[c].todo \ {"cache"}
        /\ call'[c].remaining = call[c].remaining
    BY <1>1, Zenon DEF ReadPortCache, Becomes, TypeOK, Calls
  <1>3. \A d \in Contexts : d # c => call'[d] = call[d]
    BY Zenon DEF ReadPortCache, Becomes, TypeOK
  <1>4. \A d \in Contexts : ~Transferring(d)
    BY <1>1 DEF Exclusive, Idle, Transferring
  <1>5. PortWords' /\ AddressesValid'
    BY <1>1, <1>2, <1>3 DEF PortWords, AddressesValid
  <1>6. \A d \in Contexts : ~Transferring(d)'
    BY <1>2, <1>3, <1>4 DEF Transferring
  <1>7. \A q : BeingSet(q) => BeingSet(q)'
    BY <1>1, <1>2, <1>3 DEF BeingSet
  <1>8. CacheCoherent'
    BY <1>1, <1>4, <1>7 DEF CacheCoherent, Refreshing, Transferring
  <1>9. PinInv(c)'
    BY <1>1, <1>2, <1>4, <1>7 DEF PinInv, CacheCoherent, Refreshing, Transferring
  <1>10. ASSUME NEW d \in Contexts PROVE PinInv(d)' /\ RefreshInv(d)' /\ WriteBackInv(d)'
    <2>1. PinInv(d)'
      BY <1>1, <1>3, <1>7, <1>9 DEF PinInv
    <2>2. QED BY <2>1, <1>6 DEF RefreshInv, WriteBackInv, Transferring
  <1>11. QED BY <1>5, <1>6, <1>8, <1>10 DEF Exclusive

LEMMA CoherentReadPortReturn ==
  ASSUME TypeOK, CoherenceInv, NEW c \in Contexts, ReadPortReturn(c)
  PROVE  CoherenceInv'
  <1> USE DEF CoherenceInv
  <1>1. /\ call[c].pc = "read_port"
        /\ UNCHANGED <<issued, cache, dirty, fresh, latch>>
    BY DEF ReadPortReturn, words, device
  <1>2. /\ \A d \in Contexts : d # c => call'[d] = call[d]
        /\ call'[c].pc = "idle" /\ call'[c].remaining = {}
    BY NoCallType, NoCallFields, BecomesEffect DEF ReadPortReturn, Return, TypeOK
  <1>3. \A d \in Contexts : ~Transferring(d) /\ ~Transferring(d)'
    BY <1>1, <1>2 DEF Exclusive, Idle, Transferring
  <1>4. \A q : BeingSet(q) => BeingSet(q)'
    BY <1>1, <1>2 DEF BeingSet
  <1>5. PortWords' /\ AddressesValid'
    BY <1>1, <1>2 DEF PortWords, AddressesValid
  <1>6. CacheCoherent'
    BY <1>1, <1>3, <1>4 DEF CacheCoherent, Refreshing, Transferring
  <1>7. ASSUME NEW d \in Contexts PROVE PinInv(d)' /\ RefreshInv(d)' /\ WriteBackInv(d)'
    <2>1. PinInv(d)'
      BY <1>1, <1>2, <1>4 DEF PinInv
    <2>2. QED BY <2>1, <1>3 DEF RefreshInv, WriteBackInv, Transferring
  <1>8. QED BY <1>3, <1>5, <1>6, <1>7 DEF Exclusive

LEMMA CoherentDriveInput ==
  ASSUME TypeOK, CoherenceInv, NEW p \in Ports \ Outputs, DriveInput(p)
  PROVE  CoherenceInv'
  BY DEF CoherenceInv, DriveInput, words, PortWords, AddressesValid, Exclusive, Idle,
         Transferring, CacheCoherent, BeingSet, Refreshing, PinInv, RefreshInv, WriteBackInv

LEMMA CoherentStartRefresh ==
  ASSUME TypeOK, CoherenceInv, Bracketed, NEW c \in Contexts, refresh(c)
  PROVE  CoherenceInv'
  <1> USE DEF CoherenceInv
  <1> DEFINE new == [NoCall EXCEPT !.pc = "refresh"]
  <1>1. /\ \A d \in Contexts : Idle(d)
        /\ UNCHANGED <<issued, cache, fresh, latch>> /\ dirty' = {}
        /\ Becomes(c, new)
    BY DEF refresh, MayTransfer, device
  <1>2. /\ new \in Calls
        /\ new.pc = "refresh" /\ new.remaining = {} /\ new.mask = {} /\ new.buffer = {}
    BY NoCallType DEF Calls, NoCall
  <1>3. /\ \A d \in Contexts : d # c => call'[d] = call[d]
        /\ call'[c].pc = "refresh" /\ call'[c].remaining = {}
        /\ call'[c].mask = {} /\ call'[c].buffer = {}
    <2> HIDE DEF new
    <2>1. QED BY <1>1, <1>2, BecomesEffect DEF TypeOK
  <1>4. PortWords' /\ AddressesValid'
    BY <1>1, <1>3 DEF PortWords, AddressesValid
  <1>5. Exclusive' /\ CacheCoherent'
    BY <1>1, <1>3 DEF Exclusive, CacheCoherent, Refreshing, Transferring, Idle
  <1>6. ASSUME NEW d \in Contexts PROVE PinInv(d)' /\ RefreshInv(d)' /\ WriteBackInv(d)'
    BY <1>1, <1>3 DEF PinInv, RefreshInv, WriteBackInv, Idle
  <1>7. QED BY <1>4, <1>5, <1>6

LEMMA CoherentRefreshIssued ==
  ASSUME TypeOK, CoherenceInv, NEW c \in Contexts, RefreshIssued(c)
  PROVE  CoherenceInv'
  <1> USE DEF CoherenceInv
  <1> DEFINE new == [call[c] EXCEPT !.pc = "refresh_read", !.todo = {"cache", "fresh"},
                                    !.remaining = {p \in issued : p >= FirstPort}]
  <1>1. /\ call[c].pc = "refresh"
        /\ UNCHANGED <<issued, cache, dirty, fresh, latch>>
        /\ Becomes(c, new)
    BY DEF RefreshIssued, words, device
  <1>2. /\ new \in Calls
        /\ new.pc = "refresh_read" /\ new.todo = {"cache", "fresh"}
        /\ new.remaining \subseteq issued
        /\ new.mask = {} /\ new.buffer = {}
    <2>1. call[c] \in Calls /\ issued \subseteq Bits
      BY DEF TypeOK
    <2>2. call[c].mask = {} /\ call[c].buffer = {}
      BY <1>1 DEF RefreshInv
    <2>3. QED BY <2>1, <2>2 DEF Calls
  <1>3. /\ \A d \in Contexts : d # c => call'[d] = call[d]
        /\ call'[c].pc = "refresh_read" /\ call'[c].todo = {"cache", "fresh"}
        /\ call'[c].remaining \subseteq issued
        /\ call'[c].mask = {} /\ call'[c].buffer = {}
    <2> HIDE DEF new
    <2>1. QED BY <1>1, <1>2, BecomesEffect DEF TypeOK
  <1>4. \A d \in Contexts : d # c => Idle(d) /\ Idle(d)'
    BY <1>1, <1>3 DEF Exclusive, Transferring, Idle
  <1>5. PortWords' /\ AddressesValid'
    BY <1>1, <1>3 DEF PortWords, AddressesValid
  <1>6. Exclusive' /\ CacheCoherent'
    BY <1>1, <1>3, <1>4 DEF Exclusive, CacheCoherent, Refreshing, Transferring, Idle
  <1>7. ASSUME NEW d \in Contexts PROVE PinInv(d)' /\ RefreshInv(d)' /\ WriteBackInv(d)'
    BY <1>1, <1>3, <1>4 DEF PinInv, RefreshInv, WriteBackInv, Idle
  <1>8. QED BY <1>5, <1>6, <1>7

\* An output reads back its register.
LEMMA SensedOutputs ==
  ASSUME TypeOK
  PROVE  Sensed \subseteq Ports /\ \A p \in Outputs : p \in Sensed <=> p \in latch
  BY GeometryAssumption DEF TypeOK, Sensed

LEMMA CoherentRefreshRead ==
  ASSUME TypeOK, CoherenceInv, NEW c \in Contexts, RefreshRead(c)
  PROVE  CoherenceInv'
  <1> USE DEF CoherenceInv
  <1> DEFINE new(s) ==
        [call[c] EXCEPT !.remaining = Unread(c, s), !.buffer = Loaded(c, s),
                        !.mask = @ \cup (PortRange(s) \cap Bits)]
  <1>1. /\ call[c].pc = "refresh_read" /\ call[c].remaining # {}
        /\ UNCHANGED <<issued, cache, dirty, fresh, latch>>
    BY DEF RefreshRead, words, device
  <1>2. PICK s \in call[c].remaining : Becomes(c, new(s))
    BY DEF RefreshRead
  <1>3. /\ new(s) \in Calls
        /\ new(s).pc = "refresh_read" /\ new(s).todo = call[c].todo
        /\ new(s).remaining \subseteq call[c].remaining
        /\ new(s).buffer = Loaded(c, s)
        /\ new(s).mask = call[c].mask \cup (PortRange(s) \cap Bits)
    <2>1. call[c] \in Calls
      BY DEF TypeOK
    <2>2. /\ Unread(c, s) \subseteq call[c].remaining
          /\ Unread(c, s) \subseteq Bits /\ Loaded(c, s) \subseteq Bits
      BY <2>1, SensedOutputs, PortsAreBits DEF Unread, Loaded, Calls
    <2>3. QED BY <1>1, <2>1, <2>2 DEF Calls
  <1>4. /\ \A d \in Contexts : d # c => call'[d] = call[d]
        /\ call'[c].pc = "refresh_read" /\ call'[c].todo = call[c].todo
        /\ call'[c].remaining \subseteq call[c].remaining
        /\ call'[c].buffer = call[c].buffer \cup (Sensed \cap PortRange(s))
        /\ call'[c].mask = call[c].mask \cup (PortRange(s) \cap Bits)
    <2> HIDE DEF new
    <2>1. QED BY <1>2, <1>3, BecomesEffect DEF TypeOK, Loaded
  <1>5. \A d \in Contexts : d # c => Idle(d) /\ Idle(d)'
    BY <1>1, <1>4 DEF Exclusive, Transferring, Idle
  <1>6. PortWords' /\ AddressesValid'
    BY <1>1, <1>4 DEF PortWords, AddressesValid
  <1>7. Exclusive' /\ CacheCoherent'
    BY <1>1, <1>4, <1>5 DEF Exclusive, CacheCoherent, Refreshing, Transferring, Idle
  <1>8. RefreshInv(c)'
    <2>1. /\ call[c].todo = {"cache", "fresh"} /\ dirty = {}
          /\ call[c].buffer \subseteq call[c].mask
          /\ \A p \in Outputs \cap call[c].mask : p \in call[c].buffer <=> p \in latch
      BY <1>1 DEF RefreshInv
    <2>2. call'[c].buffer \subseteq call'[c].mask
      BY <1>4, <2>1, SensedOutputs, PortsAreBits
    <2>3. \A p \in Outputs \cap call'[c].mask : p \in call'[c].buffer <=> p \in latch'
      BY <1>1, <1>4, <2>1, SensedOutputs
    <2>4. QED BY <1>1, <1>4, <2>1, <2>2, <2>3 DEF RefreshInv
  <1>9. ASSUME NEW d \in Contexts PROVE PinInv(d)' /\ RefreshInv(d)' /\ WriteBackInv(d)'
    BY <1>4, <1>5, <1>8 DEF PinInv, RefreshInv, WriteBackInv, Idle
  <1>10. QED BY <1>6, <1>7, <1>9

LEMMA CoherentRefreshCache ==
  ASSUME TypeOK, CoherenceInv, NEW c \in Contexts, RefreshCache(c)
  PROVE  CoherenceInv'
  <1> USE DEF CoherenceInv
  <1>1. /\ call[c].pc = "refresh_read" /\ call[c].remaining = {}
        /\ "cache" \in call[c].todo
        /\ UNCHANGED <<issued, dirty, fresh, latch>> /\ cache' = call[c].buffer
        /\ Done(c, "cache")
    BY DEF RefreshCache, Access, device
  <1>2. /\ \A d \in Contexts : d # c => call'[d] = call[d]
        /\ call'[c].remaining = {}
        /\ \/ call[c].todo = {"cache"} /\ call'[c].pc = "idle"
           \/ /\ call'[c].pc = "refresh_read" /\ call'[c].todo = call[c].todo \ {"cache"}
              /\ call'[c].buffer = call[c].buffer /\ call'[c].mask = call[c].mask
    BY <1>1, DoneFields DEF TypeOK
  <1>3. \A d \in Contexts : d # c => Idle(d) /\ Idle(d)'
    BY <1>1, <1>2 DEF Exclusive, Transferring, Idle
  <1>4. /\ dirty = {} /\ call[c].buffer \subseteq call[c].mask
        /\ \A p \in Outputs \cap call[c].mask : p \in call[c].buffer <=> p \in latch
        /\ "fresh" \notin call[c].todo => fresh = call[c].mask
    BY <1>1 DEF RefreshInv
  <1>5. PortWords' /\ AddressesValid'
    BY <1>1, <1>2 DEF PortWords, AddressesValid
  <1>6. Exclusive'
    BY <1>2, <1>3 DEF Exclusive, Transferring, Idle
  <1>7. CacheCoherent'
    BY <1>1, <1>2, <1>4 DEF CacheCoherent, Refreshing
  <1>8. ASSUME NEW d \in Contexts PROVE PinInv(d)' /\ RefreshInv(d)' /\ WriteBackInv(d)'
    BY <1>1, <1>2, <1>3, <1>4 DEF PinInv, RefreshInv, WriteBackInv, Idle
  <1>9. QED BY <1>5, <1>6, <1>7, <1>8

LEMMA CoherentRefreshFresh ==
  ASSUME TypeOK, CoherenceInv, NEW c \in Contexts, RefreshFresh(c)
  PROVE  CoherenceInv'
  <1> USE DEF CoherenceInv
  <1>1. /\ call[c].pc = "refresh_read" /\ call[c].remaining = {}
        /\ "fresh" \in call[c].todo
        /\ UNCHANGED <<issued, cache, dirty, latch>> /\ fresh' = call[c].mask
        /\ Done(c, "fresh")
    BY DEF RefreshFresh, Access, device
  <1>2. /\ \A d \in Contexts : d # c => call'[d] = call[d]
        /\ call'[c].remaining = {}
        /\ \/ call[c].todo = {"fresh"} /\ call'[c].pc = "idle"
           \/ /\ call'[c].pc = "refresh_read" /\ call'[c].todo = call[c].todo \ {"fresh"}
              /\ call'[c].buffer = call[c].buffer /\ call'[c].mask = call[c].mask
    BY <1>1, DoneFields DEF TypeOK
  <1>3. \A d \in Contexts : d # c => Idle(d) /\ Idle(d)'
    BY <1>1, <1>2 DEF Exclusive, Transferring, Idle
  <1>4. /\ dirty = {} /\ call[c].buffer \subseteq call[c].mask
        /\ \A p \in Outputs \cap call[c].mask : p \in call[c].buffer <=> p \in latch
        /\ "cache" \notin call[c].todo => cache = call[c].buffer
    BY <1>1 DEF RefreshInv
  <1>5. PortWords' /\ AddressesValid'
    BY <1>1, <1>2 DEF PortWords, AddressesValid
  <1>6. Exclusive'
    BY <1>2, <1>3 DEF Exclusive, Transferring, Idle
  <1>7. CacheCoherent'
    BY <1>1, <1>2, <1>4 DEF CacheCoherent, Refreshing
  <1>8. ASSUME NEW d \in Contexts PROVE PinInv(d)' /\ RefreshInv(d)' /\ WriteBackInv(d)'
    BY <1>1, <1>2, <1>3, <1>4 DEF PinInv, RefreshInv, WriteBackInv, Idle
  <1>9. QED BY <1>5, <1>6, <1>7, <1>8

LEMMA CoherentStartWriteBack ==
  ASSUME TypeOK, CoherenceInv, Bracketed,
         NEW c \in Contexts, NEW s \in Strategies, write_back(c, s)
  PROVE  CoherenceInv'
  <1> USE DEF CoherenceInv
  <1> DEFINE new == [NoCall EXCEPT !.pc = "write_back", !.strategy = s,
                       !.remaining = dirty, !.mask = OkToWrite(s, dirty),
                       !.todo = WordsToLoad(s)]
  <1>1. /\ \A d \in Contexts : Idle(d)
        /\ UNCHANGED <<issued, cache, dirty, fresh, latch>>
        /\ Becomes(c, new)
    BY DEF write_back, MayTransfer, words, device
  <1>2. /\ new \in Calls
        /\ new.pc = "write_back" /\ new.strategy = s
        /\ new.remaining = dirty /\ new.mask = OkToWrite(s, dirty)
        /\ new.todo = WordsToLoad(s)
    <2>1. OkToWrite(s, dirty) \subseteq Bits /\ dirty \subseteq Bits
      BY GeometryAssumption DEF OkToWrite, Bits, TypeOK
    <2>2. WordsToLoad(s) \subseteq {"cache", "dirty", "fresh"}
      BY DEF WordsToLoad
    <2>3. QED BY <2>1, <2>2, NoCallType DEF Calls, NoCall
  <1>3. /\ \A d \in Contexts : d # c => call'[d] = call[d]
        /\ call'[c].pc = "write_back" /\ call'[c].strategy = s
        /\ call'[c].remaining = dirty /\ call'[c].mask = OkToWrite(s, dirty)
        /\ call'[c].todo = WordsToLoad(s)
    <2> HIDE DEF new
    <2>1. QED BY <1>1, <1>2, BecomesEffect DEF TypeOK
  <1>4. PortWords' /\ AddressesValid'
    BY <1>1, <1>3 DEF PortWords, AddressesValid
  <1>5. Exclusive'
    BY <1>1, <1>3 DEF Exclusive, Transferring, Idle
  <1>6. CacheCoherent'
    BY <1>1 DEF CacheCoherent, Refreshing, BeingSet, Idle
  <1>7. WriteBackInv(c)'
    BY <1>1, <1>3 DEF WriteBackInv, WordsToLoad, OkToWrite
  <1>8. ASSUME NEW d \in Contexts PROVE PinInv(d)' /\ RefreshInv(d)' /\ WriteBackInv(d)'
    BY <1>1, <1>3, <1>7 DEF PinInv, RefreshInv, WriteBackInv, Idle
  <1>9. QED BY <1>4, <1>5, <1>6, <1>8

LEMMA CoherentWriteBackLoad ==
  ASSUME TypeOK, CoherenceInv, NEW c \in Contexts,
         WriteBackFresh(c) \/ WriteBackCache(c)
  PROVE  CoherenceInv'
  <1> USE DEF CoherenceInv
  <1>0. call[c] \in Calls /\ cache \subseteq Bits /\ fresh \subseteq Bits
    BY DEF TypeOK
  <1>1. /\ call[c].pc = "write_back"
        /\ UNCHANGED <<issued, cache, dirty, fresh, latch>>
    BY DEF WriteBackFresh, WriteBackCache, words, device
  <1>2. /\ \A d \in Contexts : d # c => call'[d] = call[d]
        /\ call'[c].pc = "write_back" /\ call'[c].strategy = call[c].strategy
        /\ call'[c].remaining = call[c].remaining
        /\ \/ /\ "fresh" \in call[c].todo
              /\ call'[c].mask = fresh /\ call'[c].todo = {"cache"}
           \/ /\ call[c].todo = {"cache"}
              /\ call'[c].mask = call[c].mask
              /\ call'[c].buffer = cache /\ call'[c].todo = {}
    <2>1. CASE WriteBackFresh(c)
      <3> DEFINE new == [call[c] EXCEPT !.mask = fresh, !.todo = {"cache"}]
      <3>1. /\ "fresh" \in call[c].todo /\ Becomes(c, new)
        BY <2>1 DEF WriteBackFresh
      <3>2. /\ new \in Calls
            /\ new.pc = "write_back" /\ new.strategy = call[c].strategy
            /\ new.remaining = call[c].remaining
            /\ new.mask = fresh /\ new.todo = {"cache"}
        BY <1>0, <1>1 DEF Calls
      <3> HIDE DEF new
      <3>3. QED BY <3>1, <3>2, BecomesEffect DEF TypeOK
    <2>2. CASE WriteBackCache(c)
      <3> DEFINE new == [call[c] EXCEPT !.buffer = cache, !.todo = {}]
      <3>1. /\ call[c].todo = {"cache"} /\ Becomes(c, new)
        BY <2>2 DEF WriteBackCache
      <3>2. /\ new \in Calls
            /\ new.pc = "write_back" /\ new.strategy = call[c].strategy
            /\ new.remaining = call[c].remaining /\ new.mask = call[c].mask
            /\ new.buffer = cache /\ new.todo = {}
        BY <1>0, <1>1 DEF Calls
      <3> HIDE DEF new
      <3>3. QED BY <3>1, <3>2, BecomesEffect DEF TypeOK
    <2>3. QED BY <2>1, <2>2
  <1>3. \A d \in Contexts : d # c => Idle(d) /\ Idle(d)'
    BY <1>1, <1>2 DEF Exclusive, Transferring, Idle
  <1>4. PortWords' /\ AddressesValid'
    BY <1>1, <1>2 DEF PortWords, AddressesValid
  <1>5. Exclusive'
    BY <1>2, <1>3 DEF Exclusive, Transferring, Idle
  <1>6. CacheCoherent'
    BY <1>1, <1>3 DEF CacheCoherent, Refreshing, BeingSet, Idle
  <1>7. WriteBackInv(c)'
    BY <1>1, <1>2 DEF WriteBackInv
  <1>8. ASSUME NEW d \in Contexts PROVE PinInv(d)' /\ RefreshInv(d)' /\ WriteBackInv(d)'
    BY <1>2, <1>3, <1>7 DEF PinInv, RefreshInv, WriteBackInv, Idle
  <1>9. QED BY <1>4, <1>5, <1>6, <1>8

\* A write of the ports of S from the cache leaves every one of them coherent,
\* and the registers of the other ports as they were.
LEMMA WrittenFromCache ==
  ASSUME NEW S, latch' = Written(S, cache)
  PROVE  \A p \in Ports : /\ p \in S => (p \in cache <=> p \in latch')
                          /\ p \notin S => (p \in latch <=> p \in latch')
  BY DEF Written

LEMMA CoherentWriteBackWrite ==
  ASSUME TypeOK, CoherenceInv, NEW c \in Contexts, WriteBackWrite(c)
  PROVE  CoherenceInv'
  <1> USE DEF CoherenceInv
  <1> DEFINE new(s) == [call[c] EXCEPT !.remaining = Unwritten(c, s)]
  <1>1. /\ call[c].pc = "write_back" /\ call[c].todo = {} /\ call[c].buffer = cache
        /\ UNCHANGED <<issued, cache, dirty, fresh>>
    BY DEF WriteBackWrite, words, WriteBackInv
  <1>2. PICK s \in call[c].remaining :
          Becomes(c, new(s)) /\ latch' = Written(WriteBackTarget(c, s), cache)
    BY <1>1 DEF WriteBackWrite
  <1>3. /\ new(s) \in Calls
        /\ new(s).pc = "write_back" /\ new(s).todo = {}
        /\ new(s).strategy = call[c].strategy /\ new(s).mask = call[c].mask
        /\ new(s).buffer = call[c].buffer
        /\ new(s).remaining = call[c].remaining \ WriteBackTarget(c, s)
    <2>1. call[c] \in Calls
      BY DEF TypeOK
    <2>2. Unwritten(c, s) \subseteq Bits
      BY <2>1 DEF Unwritten, Calls
    <2>3. QED BY <1>1, <2>1, <2>2 DEF Calls, Unwritten
  <1>4. /\ \A d \in Contexts : d # c => call'[d] = call[d]
        /\ call'[c].pc = "write_back" /\ call'[c].todo = {}
        /\ call'[c].strategy = call[c].strategy /\ call'[c].mask = call[c].mask
        /\ call'[c].buffer = call[c].buffer
        /\ call'[c].remaining = call[c].remaining \ WriteBackTarget(c, s)
    <2> HIDE DEF new
    <2>1. QED BY <1>2, <1>3, BecomesEffect DEF TypeOK
  <1>5. \A d \in Contexts : d # c => Idle(d) /\ Idle(d)'
    BY <1>1, <1>4 DEF Exclusive, Transferring, Idle
  <1>6. PortWords' /\ AddressesValid'
    BY <1>1, <1>4 DEF PortWords, AddressesValid
  <1>7. Exclusive'
    BY <1>4, <1>5 DEF Exclusive, Transferring, Idle
  <1>8. \A p \in Ports :
          (p \in cache <=> p \in latch) => (p \in cache' <=> p \in latch')
    BY <1>1, <1>2, WrittenFromCache
  <1>9. CacheCoherent'
    BY <1>1, <1>5, <1>8, GeometryAssumption
    DEF CacheCoherent, Refreshing, BeingSet, Idle
  <1>10. WriteBackInv(c)'
    <2>1. \A p \in dirty' \ call'[c].remaining : p \in cache' <=> p \in latch'
      <3>1. \A p \in dirty \ call[c].remaining : p \in cache <=> p \in latch
        BY <1>1 DEF WriteBackInv
      <3>2. QED BY <1>1, <1>2, <1>4, <1>8, <3>1, WrittenFromCache DEF PortWords
    <2>2. QED BY <1>1, <1>4, <2>1 DEF WriteBackInv
  <1>11. ASSUME NEW d \in Contexts PROVE PinInv(d)' /\ RefreshInv(d)' /\ WriteBackInv(d)'
    BY <1>4, <1>5, <1>10 DEF PinInv, RefreshInv, WriteBackInv, Idle
  <1>12. QED BY <1>6, <1>7, <1>9, <1>11

LEMMA CoherentWriteBackWriteFails ==
  ASSUME TypeOK, CoherenceInv, NEW c \in Contexts, WriteBackWriteFails(c)
  PROVE  CoherenceInv'
  <1> USE DEF CoherenceInv
  <1>1. /\ call[c].pc = "write_back" /\ call[c].todo = {} /\ call[c].buffer = cache
        /\ UNCHANGED <<issued, cache, dirty, fresh>>
    BY DEF WriteBackWriteFails, words, WriteBackInv
  <1>2. PICK S : latch' = latch \/ latch' = Written(S, cache)
    BY <1>1 DEF WriteBackWriteFails
  <1>3. /\ \A d \in Contexts : d # c => call'[d] = call[d]
        /\ call'[c].pc = "idle" /\ call'[c].remaining = {}
    BY NoCallType, NoCallFields, BecomesEffect DEF WriteBackWriteFails, Return, TypeOK
  <1>4. \A d \in Contexts : (d # c => Idle(d)) /\ Idle(d)'
    BY <1>1, <1>3 DEF Exclusive, Transferring, Idle
  <1>5. PortWords' /\ AddressesValid'
    BY <1>1, <1>3 DEF PortWords, AddressesValid
  <1>6. \A p \in Ports :
          (p \in cache <=> p \in latch) => (p \in cache' <=> p \in latch')
    BY <1>1, <1>2, WrittenFromCache
  <1>7. CacheCoherent'
    BY <1>1, <1>4, <1>6, GeometryAssumption
    DEF CacheCoherent, Refreshing, BeingSet, Idle
  <1>8. ASSUME NEW d \in Contexts PROVE PinInv(d)' /\ RefreshInv(d)' /\ WriteBackInv(d)'
    BY <1>4 DEF PinInv, RefreshInv, WriteBackInv, Idle
  <1>9. QED BY <1>4, <1>5, <1>7, <1>8 DEF Exclusive

LEMMA CoherentWriteBackDone ==
  ASSUME TypeOK, CoherenceInv, NEW c \in Contexts, WriteBackDone(c)
  PROVE  CoherenceInv'
  <1> USE DEF CoherenceInv
  <1>1. /\ call[c].pc = "write_back" /\ call[c].remaining = {}
        /\ UNCHANGED <<issued, cache, fresh, latch>> /\ dirty' = {}
    BY DEF WriteBackDone, device
  <1>2. /\ \A d \in Contexts : d # c => call'[d] = call[d]
        /\ call'[c].pc = "idle" /\ call'[c].remaining = {}
    BY NoCallType, NoCallFields, BecomesEffect DEF WriteBackDone, Return, TypeOK
  <1>3. \A d \in Contexts : (d # c => Idle(d)) /\ Idle(d)'
    BY <1>1, <1>2 DEF Exclusive, Transferring, Idle
  <1>4. PortWords' /\ AddressesValid'
    BY <1>1, <1>2 DEF PortWords, AddressesValid
  <1>5. \A p \in dirty : p \in cache <=> p \in latch
    BY <1>1 DEF WriteBackInv
  <1>6. CacheCoherent'
    BY <1>1, <1>3, <1>5 DEF CacheCoherent, Refreshing, BeingSet, Idle
  <1>7. ASSUME NEW d \in Contexts PROVE PinInv(d)' /\ RefreshInv(d)' /\ WriteBackInv(d)'
    BY <1>3 DEF PinInv, RefreshInv, WriteBackInv, Idle
  <1>8. QED BY <1>3, <1>4, <1>6, <1>7 DEF Exclusive

LEMMA CoherenceInit == Init => CoherenceInv
  BY NoCallFields
  DEF Init, CoherenceInv, PortWords, AddressesValid, Exclusive, Transferring,
      CacheCoherent, PinInv, RefreshInv, WriteBackInv

LEMMA CoherenceStep ==
  ASSUME TypeOK, CoherenceInv, Bracketed, ~ReadsMayFail, [Next]_vars
  PROVE  CoherenceInv'
  <1>1. ASSUME NEW c \in Contexts, Start(c) PROVE CoherenceInv'
    BY <1>1, CoherentPortPin, CoherentStartWritePort, CoherentStartReadPort,
       CoherentStartRefresh, CoherentStartWriteBack DEF Start
  <1>2. ASSUME NEW c \in Contexts, Step(c) PROVE CoherenceInv'
    <2>1. CASE WritePortCache(c) \/ WritePortDirty(c) \/ WritePortFresh(c)
      BY <2>1, CoherentWritePortCache, CoherentWritePortDirty, CoherentWritePortFresh
    <2>2. CASE ReadPortFresh(c) \/ ReadPortCache(c) \/ ReadPortReturn(c)
      BY <2>2, CoherentReadPortFresh, CoherentReadPortCache, CoherentReadPortReturn
    <2>3. CASE RefreshIssued(c) \/ RefreshRead(c) \/ RefreshCache(c) \/ RefreshFresh(c)
      BY <2>3, CoherentRefreshIssued, CoherentRefreshRead, CoherentRefreshCache,
         CoherentRefreshFresh
    <2>4. ~RefreshReadFails(c)
      BY DEF RefreshReadFails
    <2>5. CASE WriteBackFresh(c) \/ WriteBackCache(c)
      BY <2>5, CoherentWriteBackLoad
    <2>6. CASE WriteBackWrite(c) \/ WriteBackWriteFails(c) \/ WriteBackDone(c)
      BY <2>6, CoherentWriteBackWrite, CoherentWriteBackWriteFails, CoherentWriteBackDone
    <2>7. QED BY <1>2, <2>1, <2>2, <2>3, <2>4, <2>5, <2>6 DEF Step
  <1>3. ASSUME NEW p \in Ports \ Outputs, DriveInput(p) PROVE CoherenceInv'
    BY <1>3, CoherentDriveInput
  <1>4. CASE UNCHANGED vars
    BY <1>4 DEF CoherenceInv, vars, words, device, PortWords, AddressesValid, Exclusive,
       Idle, Transferring, CacheCoherent, BeingSet, Refreshing, PinInv, RefreshInv,
       WriteBackInv
  <1>5. QED BY <1>1, <1>2, <1>3, <1>4 DEF Next

\* With refresh and write_back exclusive of the other calls, and reads that do
\* not fail, cache, dirty and fresh stay consistent with the device.
THEOREM Coherence ==
  ASSUME Bracketed, ~ReadsMayFail
  PROVE  Spec => []CoherenceInv
  <1>1. TypeOK /\ CoherenceInv /\ [Next]_vars => CoherenceInv'
    BY CoherenceStep
  <1>2. QED BY CoherenceInit, <1>1, TypeCorrect, PTL DEF Spec

\* The cached value of a fresh output is the one on its pin, unless a set of it
\* is pending or under way, or a refresh is.
THEOREM CacheCoherence ==
  ASSUME Bracketed, ~ReadsMayFail
  PROVE  Spec => []CacheCoherent
  <1>1. CoherenceInv => CacheCoherent
    BY DEF CoherenceInv
  <1>2. QED BY <1>1, Coherence, PTL

\* is_high and is_low answer what the pin of an output carries, unless a set of
\* it is pending or under way.
THEOREM ReadsCorrect ==
  ASSUME Bracketed, ~ReadsMayFail
  PROVE  Spec => []ReadsMatchDevice
  <1>1. TypeOK /\ CoherenceInv => ReadsMatchDevice
    BY DEF TypeOK, CoherenceInv, ReadsMatchDevice, PinInv
  <1>2. QED BY <1>1, Coherence, TypeCorrect, PTL

-----------------------------------------------------------------------------
(* The action properties that follow from CoherenceInv. *)

LEMMA LatchChanges ==
  ASSUME TypeOK, [Next]_vars, latch' # latch
  PROVE  \E c \in Contexts :
           /\ call[c].pc = "write_back" /\ call[c].todo = {}
           /\ \E s \in call[c].remaining :
                latch' = Written(WriteBackTarget(c, s), call[c].buffer)
  <1>1. ASSUME NEW c \in Contexts, Start(c) PROVE latch' = latch
    BY <1>1 DEF Start, port_pin, write_port, read_port, refresh, write_back, device
  <1>2. PICK c \in Contexts : WriteBackWrite(c) \/ WriteBackWriteFails(c)
    BY <1>1 DEF Next, Step, vars, device, WritePortCache, WritePortDirty, WritePortFresh,
       ReadPortFresh, ReadPortCache, ReadPortReturn, RefreshIssued, RefreshRead,
       RefreshReadFails, RefreshCache, RefreshFresh, WriteBackFresh, WriteBackCache,
       WriteBackDone, DriveInput
  <1>3. QED BY <1>2 DEF WriteBackWrite, WriteBackWriteFails

LEMMA OutputChangeStep ==
  ASSUME TypeOK, CoherenceInv, [Next]_vars
  PROVE  OutputChangeAllowed
  <1> SUFFICES ASSUME NEW p \in Outputs, (p \in latch) # (p \in latch'),
                      p \notin dirty
               PROVE  /\ p \notin fresh
                      /\ \E c \in Contexts :
                           call[c].pc = "write_back" /\ call[c].strategy = "StompAny"
    BY DEF OutputChangeAllowed
  <1>1. PICK c \in Contexts :
          /\ call[c].pc = "write_back" /\ call[c].todo = {}
          /\ \E s \in call[c].remaining :
               latch' = Written(WriteBackTarget(c, s), call[c].buffer)
    BY LatchChanges
  <1>2. PICK s \in call[c].remaining : latch' = Written(WriteBackTarget(c, s), cache)
    BY <1>1 DEF CoherenceInv, WriteBackInv
  <1>3. p \in Ports
    BY GeometryAssumption
  <1>4. p \in WriteBackTarget(c, s) /\ ~(p \in cache <=> p \in latch)
    BY <1>2, <1>3, WrittenFromCache
  <1>5. p \notin fresh
    BY <1>1, <1>4 DEF CoherenceInv, CacheCoherent, BeingSet, Refreshing, Exclusive,
       Transferring, Idle
  <1>6. p \in call[c].mask
    <2>1. s \in dirty
      BY <1>1 DEF CoherenceInv, WriteBackInv
    <2>2. QED BY <1>4, <2>1 DEF WriteBackTarget, RangeOk
  <1>7. call[c].strategy = "StompAny"
    BY <1>1, <1>5, <1>6 DEF CoherenceInv, WriteBackInv, TypeOK, Calls, Strategies
  <1>8. QED BY <1>1, <1>5, <1>7

\* However write_back batches, it changes no output that has no pending set,
\* except that StompAny may change one whose value is not fresh.
THEOREM PendingPortsChange ==
  ASSUME Bracketed, ~ReadsMayFail
  PROVE  Spec => OnlyPendingPortsChange
  <1>1. TypeOK /\ CoherenceInv /\ [Next]_vars => [OutputChangeAllowed]_vars
    BY OutputChangeStep
  <1>2. QED BY <1>1, TypeCorrect, Coherence, PTL DEF Spec, OnlyPendingPortsChange

LEMMA PendingStep ==
  ASSUME TypeOK, CoherenceInv, [Next]_vars
  PROVE  PendingResolved
  <1> SUFFICES ASSUME NEW p \in dirty \ dirty', ~ \E c \in Contexts : refresh(c)
               PROVE  p \in cache <=> p \in latch
    BY DEF PendingResolved
  <1>1. ASSUME NEW c \in Contexts, Start(c) PROVE dirty' = dirty
    BY <1>1 DEF Start, port_pin, write_port, read_port, write_back, words
  <1>2. PICK c \in Contexts : WriteBackDone(c)
    BY <1>1 DEF Next, Step, vars, words, WritePortCache, WritePortDirty, WritePortFresh,
       ReadPortFresh, ReadPortCache, ReadPortReturn, RefreshIssued, RefreshRead,
       RefreshReadFails, RefreshCache, RefreshFresh, WriteBackFresh, WriteBackCache,
       WriteBackWrite, WriteBackWriteFails, DriveInput
  <1>3. QED BY <1>2 DEF WriteBackDone, CoherenceInv, WriteBackInv

\* A set that is pending reaches the device unless a refresh discards it.
THEOREM PendingWritten ==
  ASSUME Bracketed, ~ReadsMayFail
  PROVE  Spec => PendingReachesDevice
  <1>1. TypeOK /\ CoherenceInv /\ [Next]_vars => [PendingResolved]_vars
    BY PendingStep
  <1>2. QED BY <1>1, TypeCorrect, Coherence, PTL DEF Spec, PendingReachesDevice

LEMMA PendingValueStep ==
  ASSUME TypeOK, CoherenceInv, [Next]_vars
  PROVE  PendingChangeAllowed
  <1> SUFFICES ASSUME NEW p \in dirty \cap dirty', (p \in cache) # (p \in cache')
               PROVE  \E c \in Contexts : call[c].pc = "write_port" /\ call[c].port = p
    BY DEF PendingChangeAllowed
  <1>1. ASSUME NEW c \in Contexts, Start(c) PROVE cache' = cache
    BY <1>1 DEF Start, port_pin, write_port, read_port, refresh, write_back, words
  <1>2. PICK c \in Contexts : WritePortCache(c) \/ RefreshCache(c)
    BY <1>1 DEF Next, Step, vars, words, WritePortDirty, WritePortFresh,
       ReadPortFresh, ReadPortCache, ReadPortReturn, RefreshIssued, RefreshRead,
       RefreshReadFails, RefreshFresh, WriteBackFresh, WriteBackCache,
       WriteBackWrite, WriteBackWriteFails, WriteBackDone, DriveInput
  <1>3. ~RefreshCache(c)
    BY DEF RefreshCache, CoherenceInv, RefreshInv
  <1>4. QED BY <1>2, <1>3 DEF WritePortCache, OrBit

\* A pending set keeps its value until it is written, discarded or set again: no
\* refresh publishes over it.
THEOREM PendingValueSafe ==
  ASSUME Bracketed, ~ReadsMayFail
  PROVE  Spec => PendingValueKept
  <1>1. TypeOK /\ CoherenceInv /\ [Next]_vars => [PendingChangeAllowed]_vars
    BY PendingValueStep
  <1>2. QED BY <1>1, TypeCorrect, Coherence, PTL DEF Spec, PendingValueKept

-----------------------------------------------------------------------------
(* What holds whatever the callers do: IssuedInv and its consequences.       *)

\* A step by which c goes on with locals r keeps IssuedInv when r respects it.
LEMMA IssuedFrame ==
  ASSUME TypeOK, IssuedInv, NEW c \in Contexts, NEW r \in Calls, Becomes(c, r),
         issued' = issued, dirty' \subseteq issued,
         r.remaining \subseteq issued,
         r.pc = "write_port" => r.port \in issued,
         r.pc = "write_back" =>
           /\ r.strategy = "Exact" => r.mask \subseteq issued
           /\ "fresh" \in r.todo => r.strategy = "StompClean" /\ "cache" \in r.todo
  PROVE  IssuedInv'
  <1>1. /\ call'[c] = r
        /\ \A d \in Contexts : d # c => call'[d] = call[d]
    BY BecomesEffect DEF TypeOK
  <1>2. QED BY <1>1 DEF IssuedInv

LEMMA IssuedReturn ==
  ASSUME TypeOK, IssuedInv, NEW c \in Contexts, Return(c),
         issued' = issued, dirty' \subseteq issued
  PROVE  IssuedInv'
  BY IssuedFrame, NoCallType, NoCallFields DEF Return

LEMMA IssuedDone ==
  ASSUME TypeOK, IssuedInv, NEW c \in Contexts, NEW w, Done(c, w),
         call[c].pc # "write_back", issued' = issued, dirty' \subseteq issued
  PROVE  IssuedInv'
  <1>1. /\ \A d \in Contexts : d # c => call'[d] = call[d]
        /\ call'[c].remaining \in {{}, call[c].remaining}
        /\ \/ call'[c].pc = "idle"
           \/ /\ call'[c].pc = call[c].pc /\ call'[c].port = call[c].port
              /\ call'[c].mask = call[c].mask /\ call'[c].strategy = call[c].strategy
              /\ call'[c].todo \subseteq call[c].todo
    BY DoneFields DEF TypeOK
  <1>2. QED BY <1>1 DEF IssuedInv

LEMMA IssuedStart ==
  ASSUME TypeOK, IssuedInv, NEW c \in Contexts, Start(c)
  PROVE  IssuedInv'
  <1> USE DEF words, device
  <1>1. ASSUME NEW p \in Ports, port_pin(c, p) PROVE IssuedInv'
    BY <1>1 DEF port_pin, IssuedInv
  <1>2. ASSUME NEW p \in Ports, NEW b \in BOOLEAN, write_port(c, p, b)
        PROVE  IssuedInv'
    <2> DEFINE new == [NoCall EXCEPT !.pc = "write_port", !.port = p, !.bit = b,
                                     !.todo = {"cache", "dirty", "fresh"}]
    <2>1. /\ new \in Calls /\ new.pc = "write_port" /\ new.port = p
          /\ new.remaining = {}
      BY NoCallType DEF Calls, NoCall
    <2>2. /\ Becomes(c, new) /\ p \in issued
          /\ issued' = issued /\ dirty' = dirty
      BY <1>2 DEF write_port
    <2> HIDE DEF new
    <2>3. QED BY <2>1, <2>2, IssuedFrame DEF IssuedInv
  <1>3. ASSUME NEW p \in Ports, read_port(c, p) PROVE IssuedInv'
    <2> DEFINE new == [NoCall EXCEPT !.pc = "read_port", !.port = p,
                                     !.todo = {"fresh", "cache"}]
    <2>1. new \in Calls /\ new.pc = "read_port" /\ new.remaining = {}
      BY NoCallType DEF Calls, NoCall
    <2>2. Becomes(c, new) /\ issued' = issued /\ dirty' = dirty
      BY <1>3 DEF read_port
    <2> HIDE DEF new
    <2>3. QED BY <2>1, <2>2, IssuedFrame DEF IssuedInv
  <1>4. CASE refresh(c)
    <2> DEFINE new == [NoCall EXCEPT !.pc = "refresh"]
    <2>1. new \in Calls /\ new.pc = "refresh" /\ new.remaining = {}
      BY NoCallType DEF Calls, NoCall
    <2>2. Becomes(c, new) /\ issued' = issued /\ dirty' = {}
      BY <1>4 DEF refresh
    <2> HIDE DEF new
    <2>3. QED BY <2>1, <2>2, IssuedFrame
  <1>5. ASSUME NEW s \in Strategies, write_back(c, s) PROVE IssuedInv'
    <2> DEFINE new == [NoCall EXCEPT !.pc = "write_back", !.strategy = s,
                         !.remaining = dirty, !.mask = OkToWrite(s, dirty),
                         !.todo = WordsToLoad(s)]
    <2>1. OkToWrite(s, dirty) \subseteq Bits /\ dirty \subseteq Bits
      BY GeometryAssumption DEF OkToWrite, Bits, TypeOK
    <2>2. WordsToLoad(s) \subseteq {"cache", "dirty", "fresh"}
      BY DEF WordsToLoad
    <2>3. /\ new \in Calls /\ new.pc = "write_back" /\ new.strategy = s
          /\ new.remaining = dirty /\ new.mask = OkToWrite(s, dirty)
          /\ new.todo = WordsToLoad(s)
      BY <2>1, <2>2, NoCallType DEF Calls, NoCall
    <2>4. Becomes(c, new) /\ issued' = issued /\ dirty' = dirty
      BY <1>5 DEF write_back
    <2>5. /\ s = "Exact" => OkToWrite(s, dirty) = dirty
          /\ "fresh" \in WordsToLoad(s) => s = "StompClean" /\ "cache" \in WordsToLoad(s)
      BY DEF OkToWrite, WordsToLoad
    <2> HIDE DEF new
    <2>6. QED BY <2>3, <2>4, <2>5, IssuedFrame DEF IssuedInv
  <1>6. QED BY <1>1, <1>2, <1>3, <1>4, <1>5 DEF Start

LEMMA IssuedStep ==
  ASSUME TypeOK, IssuedInv, NEW c \in Contexts, Step(c)
  PROVE  IssuedInv'
  <1> USE DEF words, device
  <1>0. /\ call[c] \in Calls /\ dirty \subseteq issued /\ issued \subseteq Bits
        /\ cache \subseteq Bits /\ fresh \subseteq Bits
    BY PortsAreBits DEF TypeOK, IssuedInv
  <1>1. CASE WritePortCache(c) \/ WritePortFresh(c) \/ RefreshCache(c) \/ RefreshFresh(c)
    BY <1>0, <1>1, IssuedDone
    DEF WritePortCache, WritePortFresh, RefreshCache, RefreshFresh
  <1>2. CASE WritePortDirty(c)
    <2>1. dirty' \subseteq issued /\ issued' = issued
      BY <1>0, <1>2 DEF WritePortDirty, OrBit, IssuedInv
    <2>2. QED BY <2>1, <1>2, IssuedDone DEF WritePortDirty
  <1>3. CASE ReadPortReturn(c) \/ RefreshReadFails(c) \/ WriteBackWriteFails(c)
             \/ WriteBackDone(c)
    BY <1>0, <1>3, IssuedReturn
    DEF ReadPortReturn, RefreshReadFails, WriteBackWriteFails, WriteBackDone
  <1>4. CASE ReadPortFresh(c)
    <2> DEFINE new == [call[c] EXCEPT !.todo = @ \ {"fresh"}]
    <2>1. /\ new \in Calls /\ new.pc = "read_port" /\ new.remaining = call[c].remaining
      BY <1>0, <1>4 DEF ReadPortFresh, Calls
    <2>2. /\ Becomes(c, new) \/ Return(c)
          /\ issued' = issued /\ dirty' = dirty
      BY <1>4 DEF ReadPortFresh, Return
    <2> HIDE DEF new
    <2>3. QED BY <1>0, <2>1, <2>2, IssuedFrame, IssuedReturn DEF IssuedInv
  <1>5. CASE ReadPortCache(c)
    <2>1. /\ call'[c].pc = "read_port" /\ call'[c].remaining = call[c].remaining
          /\ \A d \in Contexts : d # c => call'[d] = call[d]
          /\ issued' = issued /\ dirty' = dirty
      BY <1>5, Zenon DEF ReadPortCache, Becomes, TypeOK, Calls
    <2>2. QED BY <2>1 DEF IssuedInv
  <1>6. CASE RefreshIssued(c)
    <2> DEFINE new == [call[c] EXCEPT !.pc = "refresh_read",
                         !.todo = {"cache", "fresh"},
                         !.remaining = {p \in issued : p >= FirstPort}]
    <2>1. /\ new \in Calls /\ new.pc = "refresh_read" /\ new.remaining \subseteq issued
      BY <1>0 DEF Calls
    <2>2. Becomes(c, new) /\ issued' = issued /\ dirty' = dirty
      BY <1>6 DEF RefreshIssued
    <2> HIDE DEF new
    <2>3. QED BY <1>0, <2>1, <2>2, IssuedFrame
  <1>7. CASE RefreshRead(c)
    <2> DEFINE new(s) ==
          [call[c] EXCEPT !.remaining = Unread(c, s), !.buffer = Loaded(c, s),
                          !.mask = @ \cup (PortRange(s) \cap Bits)]
    <2>1. PICK s \in call[c].remaining : Becomes(c, new(s))
      BY <1>7 DEF RefreshRead
    <2>2. Unread(c, s) \subseteq call[c].remaining /\ Loaded(c, s) \subseteq Bits
      BY <1>0, SensedOutputs, PortsAreBits DEF Unread, Loaded, Calls
    <2>3. /\ new(s) \in Calls /\ new(s).pc = "refresh_read"
          /\ new(s).remaining \subseteq call[c].remaining
      BY <1>0, <1>7, <2>2 DEF Calls, RefreshRead
    <2>4. issued' = issued /\ dirty' = dirty
      BY <1>7 DEF RefreshRead
    <2> HIDE DEF new
    <2>5. QED BY <1>0, <2>1, <2>3, <2>4, IssuedFrame DEF IssuedInv
  <1>8. CASE WriteBackFresh(c)
    <2> DEFINE new == [call[c] EXCEPT !.mask = fresh, !.todo = {"cache"}]
    <2>1. /\ new \in Calls /\ new.pc = "write_back"
          /\ new.strategy = call[c].strategy /\ new.remaining = call[c].remaining
          /\ new.todo = {"cache"}
      BY <1>0, <1>8 DEF Calls, WriteBackFresh
    <2>2. Becomes(c, new) /\ issued' = issued /\ dirty' = dirty
      BY <1>8 DEF WriteBackFresh
    <2>3. call[c].strategy = "StompClean"
      BY <1>8 DEF WriteBackFresh, IssuedInv
    <2> HIDE DEF new
    <2>4. QED BY <1>0, <2>1, <2>2, <2>3, IssuedFrame DEF IssuedInv
  <1>9. CASE WriteBackCache(c)
    <2> DEFINE new == [call[c] EXCEPT !.buffer = cache, !.todo = {}]
    <2>1. /\ new \in Calls /\ new.pc = call[c].pc
          /\ new.mask = call[c].mask /\ new.todo = {}
          /\ new.strategy = call[c].strategy /\ new.remaining = call[c].remaining
          /\ call[c].pc = "write_back"
      BY <1>0, <1>9 DEF Calls, WriteBackCache
    <2>2. Becomes(c, new) /\ issued' = issued /\ dirty' = dirty
      BY <1>9 DEF WriteBackCache
    <2> HIDE DEF new
    <2>3. QED BY <1>0, <2>1, <2>2, IssuedFrame DEF IssuedInv
  <1>10. CASE WriteBackWrite(c)
    <2> DEFINE new(s) == [call[c] EXCEPT !.remaining = Unwritten(c, s)]
    <2>1. PICK s \in call[c].remaining : Becomes(c, new(s))
      BY <1>10 DEF WriteBackWrite
    <2>2. Unwritten(c, s) \subseteq call[c].remaining
      BY DEF Unwritten
    <2>3. /\ new(s) \in Calls /\ new(s).pc = call[c].pc
          /\ new(s).mask = call[c].mask /\ new(s).strategy = call[c].strategy
          /\ new(s).todo = {}
          /\ new(s).remaining \subseteq call[c].remaining
          /\ call[c].pc = "write_back"
      BY <1>0, <1>10, <2>2 DEF Calls, WriteBackWrite
    <2>4. issued' = issued /\ dirty' = dirty
      BY <1>10 DEF WriteBackWrite
    <2> HIDE DEF new
    <2>5. QED BY <1>0, <2>1, <2>3, <2>4, IssuedFrame DEF IssuedInv
  <1>11. QED BY <1>1, <1>2, <1>3, <1>4, <1>5, <1>6, <1>7, <1>8, <1>9, <1>10 DEF Step

\* Whatever the callers do at the same time and whatever fails, refresh and
\* write_back only scan, and Exact only writes, ports that have a pin.
THEOREM OnlyIssuedPorts == Spec => []IssuedInv
  <1>1. Init => IssuedInv
    BY NoCallFields DEF Init, IssuedInv
  <1>2. TypeOK /\ IssuedInv /\ [Next]_vars => IssuedInv'
    <2> SUFFICES ASSUME TypeOK, IssuedInv, [Next]_vars PROVE IssuedInv'
      OBVIOUS
    <2>1. ASSUME NEW c \in Contexts, Start(c) \/ Step(c) PROVE IssuedInv'
      BY <2>1, IssuedStart, IssuedStep
    <2>2. ASSUME NEW p \in Ports \ Outputs, DriveInput(p) PROVE IssuedInv'
      BY <2>2 DEF DriveInput, IssuedInv, words
    <2>3. CASE UNCHANGED vars
      BY <2>3 DEF vars, words, IssuedInv
    <2>4. QED BY <2>1, <2>2, <2>3 DEF Next
  <1>3. QED BY <1>1, <1>2, TypeCorrect, PTL DEF Spec

\* The scanning loops never compute the address of a port the chip lacks.
THEOREM AddressSafety == Spec => []AddressesValid
  <1>1. IssuedInv => AddressesValid
    BY DEF IssuedInv, AddressesValid
  <1>2. QED BY <1>1, OnlyIssuedPorts, PTL

\* A port without a pin changes only under a stomping strategy whose mask has it.
THEOREM UnissuedUntouched == Spec => UnissuedPortsUntouched
  <1>1. TypeOK /\ IssuedInv /\ [Next]_vars => [UnissuedChangeAllowed]_vars
    <2> SUFFICES ASSUME TypeOK, IssuedInv, [Next]_vars,
                        NEW p \in Ports \ issued, (p \in latch) # (p \in latch')
                 PROVE  \E c \in Contexts :
                          /\ call[c].pc = "write_back" /\ call[c].strategy # "Exact"
                          /\ p \in call[c].mask
      BY DEF UnissuedChangeAllowed
    <2>1. PICK c \in Contexts :
            /\ call[c].pc = "write_back" /\ call[c].todo = {}
            /\ \E s \in call[c].remaining :
                 latch' = Written(WriteBackTarget(c, s), call[c].buffer)
      BY LatchChanges
    <2>2. PICK s \in call[c].remaining : p \in WriteBackTarget(c, s)
      BY <2>1 DEF Written
    <2>3. s \in issued
      BY DEF IssuedInv
    <2>4. p \in call[c].mask
      BY <2>2, <2>3 DEF WriteBackTarget, RangeOk
    <2>5. QED BY <2>1, <2>4 DEF IssuedInv
  <1>2. QED BY <1>1, TypeCorrect, OnlyIssuedPorts, PTL DEF Spec, UnissuedPortsUntouched
-----------------------------------------------------------------------------
(* Every step of a call leaves it less to do.                                *)

\* A call that is done with a word it had yet to access.
LEMMA DoneShortens ==
  ASSUME TypeOK, NEW c \in Contexts, NEW w \in call[c].todo, Done(c, w)
  PROVE  Shorter(call'[c], call[c])
  <1>1. call[c] \in Calls /\ call \in [Contexts -> Calls]
    BY DEF TypeOK
  <1>2. call'[c] = IF call[c].todo = {w} THEN NoCall
                   ELSE [call[c] EXCEPT !.todo = @ \ {w}]
    BY <1>1, DoneEffect
  <1>3. CASE call[c].todo = {w}
    BY <1>2, <1>3 DEF NoCall, Shorter
  <1>4. CASE call[c].todo # {w}
    <2>1. /\ call'[c].pc = call[c].pc /\ call'[c].remaining = call[c].remaining
          /\ call'[c].todo = call[c].todo \ {w}
      BY <1>1, <1>2, <1>4 DEF Calls
    <2>2. QED BY <2>1 DEF Shorter
  <1>5. QED BY <1>3, <1>4

\* A call that returns.
LEMMA ReturnShortens ==
  ASSUME TypeOK, NEW c \in Contexts, Return(c)
  PROVE  Shorter(call'[c], call[c])
  BY NoCallType, BecomesEffect DEF TypeOK, Return, NoCall, Shorter

\* A call that goes on with fewer ports to scan.
LEMMA ScanShortens ==
  ASSUME TypeOK, NEW c \in Contexts, NEW s \in call[c].remaining, NEW r \in Calls,
         Becomes(c, r), r.pc = call[c].pc, r.todo = call[c].todo,
         r.remaining \subseteq call[c].remaining, s \notin r.remaining
  PROVE  Shorter(call'[c], call[c])
  <1>1. call'[c] = r
    BY BecomesEffect DEF TypeOK
  <1>2. QED BY <1>1 DEF Shorter

\* A range holds the port it starts from.
LEMMA RangeHoldsStart ==
  ASSUME NEW s \in Bits
  PROVE  s \in PortRange(s)
  BY GeometryAssumption DEF PortRange, Bits

LEMMA StepShortens ==
  ASSUME TypeOK, IssuedInv, NEW c \in Contexts, Step(c)
  PROVE  Shorter(call'[c], call[c])
  <1>0. /\ call \in [Contexts -> Calls] /\ call[c] \in Calls
        /\ call[c].remaining \subseteq Bits
    BY DEF TypeOK, Calls
  <1>1. CASE WritePortCache(c) \/ WritePortDirty(c) \/ WritePortFresh(c)
             \/ RefreshCache(c) \/ RefreshFresh(c)
    <2>1. \E w \in call[c].todo : Done(c, w)
      BY <1>1 DEF WritePortCache, WritePortDirty, WritePortFresh, RefreshCache,
                  RefreshFresh, Access
    <2>2. QED BY <2>1, DoneShortens
  <1>2. CASE ReadPortReturn(c) \/ RefreshReadFails(c) \/ WriteBackWriteFails(c)
             \/ WriteBackDone(c)
    <2>1. Return(c)
      BY <1>2 DEF ReadPortReturn, RefreshReadFails, WriteBackWriteFails, WriteBackDone
    <2>2. QED BY <2>1, ReturnShortens
  <1>3. CASE ReadPortFresh(c)
    <2>1. CASE Readable(c)
      <3> DEFINE r == [call[c] EXCEPT !.todo = @ \ {"fresh"}]
      <3>1. "fresh" \in call[c].todo /\ Becomes(c, r)
        BY <1>3, <2>1 DEF ReadPortFresh, Access
      <3>2. /\ r \in Calls /\ r.pc = call[c].pc /\ r.remaining = call[c].remaining
            /\ r.todo = call[c].todo \ {"fresh"}
        BY <1>0 DEF Calls
      <3> HIDE DEF r
      <3>3. call'[c] = r
        BY <1>0, <3>1, <3>2, BecomesEffect
      <3>4. QED BY <3>1, <3>2, <3>3 DEF Shorter
    <2>2. CASE ~Readable(c)
      <3>1. Return(c)
        BY <1>3, <2>2 DEF ReadPortFresh, Return
      <3>2. QED BY <3>1, ReturnShortens
    <2>3. QED BY <2>1, <2>2
  <1>4. CASE ReadPortCache(c)
    <2> DEFINE r(v) == [call[c] EXCEPT !.bit = v, !.todo = @ \ {"cache"}]
               b == call[c].port \in cache
    <2>1. Becomes(c, r(b))
      BY <1>4, Zenon DEF ReadPortCache
    <2> HIDE DEF b
    <2>2. b \in BOOLEAN
      BY DEF b
    <2>3. "cache" \in call[c].todo
      BY <1>4 DEF ReadPortCache, Access
    <2>4. /\ r(b) \in Calls /\ r(b).pc = call[c].pc
          /\ r(b).remaining = call[c].remaining
          /\ r(b).todo = call[c].todo \ {"cache"}
      BY <1>0, <2>2 DEF Calls
    <2> HIDE DEF r
    <2>5. call'[c] = r(b)
      BY <1>0, <2>1, <2>4, BecomesEffect
    <2>6. QED BY <2>1, <2>3, <2>4, <2>5 DEF Shorter
  <1>5. CASE RefreshIssued(c)
    <2> DEFINE r == [call[c] EXCEPT !.pc = "refresh_read", !.todo = {"cache", "fresh"},
                                    !.remaining = {p \in issued : p >= FirstPort}]
    <2>1. call[c].pc = "refresh" /\ Becomes(c, r)
      BY <1>5 DEF RefreshIssued
    <2>2. r \in Calls /\ r.pc = "refresh_read"
      BY <1>0 DEF Calls, TypeOK
    <2> HIDE DEF r
    <2>3. call'[c] = r
      BY <1>0, <2>1, <2>2, BecomesEffect
    <2>4. QED BY <2>1, <2>2, <2>3 DEF Shorter
  <1>6. CASE RefreshRead(c)
    <2> DEFINE r(s) == [call[c] EXCEPT !.remaining = Unread(c, s),
                                       !.buffer = Loaded(c, s),
                                       !.mask = @ \cup (PortRange(s) \cap Bits)]
    <2>1. PICK s \in call[c].remaining : Becomes(c, r(s))
      BY <1>6 DEF RefreshRead
    <2>2. Loaded(c, s) \subseteq Bits
      BY <1>0, PortsAreBits DEF Loaded, Sensed, TypeOK, Calls
    <2>3. s \in PortRange(s)
      BY <1>0, RangeHoldsStart
    <2>4. /\ r(s) \in Calls /\ r(s).pc = call[c].pc /\ r(s).todo = call[c].todo
          /\ r(s).remaining = call[c].remaining \ PortRange(s)
      BY <1>0, <2>2 DEF Calls, Unread
    <2> HIDE DEF r
    <2>5. QED BY <2>1, <2>3, <2>4, ScanShortens
  <1>7. CASE WriteBackFresh(c)
    <2> DEFINE r == [call[c] EXCEPT !.mask = fresh, !.todo = {"cache"}]
    <2>1. /\ "fresh" \in call[c].todo /\ "cache" \in call[c].todo /\ Becomes(c, r)
      BY <1>7 DEF WriteBackFresh, IssuedInv
    <2>2. /\ r \in Calls /\ r.pc = call[c].pc /\ r.remaining = call[c].remaining
          /\ r.todo = {"cache"}
      BY <1>0 DEF Calls, TypeOK
    <2> HIDE DEF r
    <2>3. call'[c] = r
      BY <1>0, <2>1, <2>2, BecomesEffect
    <2>4. QED BY <2>1, <2>2, <2>3 DEF Shorter
  <1>8. CASE WriteBackCache(c)
    <2> DEFINE r == [call[c] EXCEPT !.buffer = cache, !.todo = {}]
    <2>1. call[c].todo = {"cache"} /\ Becomes(c, r)
      BY <1>8 DEF WriteBackCache
    <2>2. /\ r \in Calls /\ r.pc = call[c].pc /\ r.remaining = call[c].remaining
          /\ r.todo = {}
      BY <1>0 DEF Calls, TypeOK
    <2> HIDE DEF r
    <2>3. call'[c] = r
      BY <1>0, <2>1, <2>2, BecomesEffect
    <2>4. QED BY <2>1, <2>2, <2>3 DEF Shorter
  <1>9. CASE WriteBackWrite(c)
    <2> DEFINE r(s) == [call[c] EXCEPT !.remaining = Unwritten(c, s)]
    <2>1. PICK s \in call[c].remaining : Becomes(c, r(s))
      BY <1>9 DEF WriteBackWrite
    <2>2. s \in WriteBackTarget(c, s)
      BY <1>0, RangeHoldsStart DEF WriteBackTarget
    <2>3. /\ r(s) \in Calls /\ r(s).pc = call[c].pc /\ r(s).todo = call[c].todo
          /\ r(s).remaining = call[c].remaining \ WriteBackTarget(c, s)
      BY <1>0 DEF Calls, Unwritten
    <2> HIDE DEF r
    <2>4. QED BY <2>1, <2>2, <2>3, ScanShortens
  <1>10. QED BY <1>1, <1>2, <1>3, <1>4, <1>5, <1>6, <1>7, <1>8, <1>9 DEF Step

\* However calls race and fail, every step of a call leaves it fewer ports to scan
\* or fewer words to access, so none goes on for ever (transactional.rs, refresh and
\* write_back).
THEOREM CallsGetShorter == Spec => CallsShorten
  <1>1. TypeOK /\ IssuedInv /\ [Next]_vars => [CallShortens]_vars
    BY StepShortens DEF CallShortens
  <1>2. QED BY <1>1, TypeCorrect, OnlyIssuedPorts, PTL DEF Spec, CallsShorten
=============================================================================
