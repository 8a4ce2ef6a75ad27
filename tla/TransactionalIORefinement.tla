--------------------- MODULE TransactionalIORefinement ---------------------
(* TransactionalIO implements PortTransactions, for every value of its       *)
(* constants: each action maps to one of the abstract actions or a stutter.  *)
EXTENDS TransactionalIOProofs

\* What a call that is not on an output, or is none, looks like.
LEMMA OpOfOthers ==
  ASSUME NEW l, ~OnOutput(l), l.pc \in {"idle", "write_port", "read_port"}
  PROVE  OpOf(l) = Transactions!NoOp
  BY DEF OpOf, OnOutput, Transactions!NoOp

LEMMA OpOfNoCall == OpOf(NoCall) = Transactions!NoOp
  BY OpOfOthers, NoCallFields DEF OnOutput

\* The values of Ops.
Operations ==
  [kind : {"idle", "set", "read", "refresh", "load", "write_back"},
   port : SUBSET Outputs, bit : BOOLEAN, done : BOOLEAN, ports : SUBSET Outputs,
   strategy : Strategies]

LEMMA OpOfType ==
  ASSUME NEW l \in Calls
  PROVE  OpOf(l) \in Operations
  <1>1. /\ OpOf(l).kind \in {"idle", "set", "read", "refresh", "load", "write_back"}
        /\ OpOf(l).port \subseteq Outputs /\ OpOf(l).ports \subseteq Outputs
        /\ OpOf(l).strategy \in Strategies
    BY DEF OpOf, OnOutput, Calls, Strategies
  <1>2. OpOf(l).bit \in BOOLEAN
    BY DEF OpOf, Calls
  <1>3. OpOf(l).done \in BOOLEAN
    BY DEF OpOf, Calls
  <1>4. PICK k, p, b, d, q, s : OpOf(l) = [kind |-> k, port |-> p, bit |-> b, done |-> d,
                                           ports |-> q, strategy |-> s]
    BY Zenon DEF OpOf
  <1>5. QED BY <1>1, <1>2, <1>3, <1>4 DEF Operations

LEMMA NoOpFields ==
  /\ Transactions!NoOp \in Operations
  /\ Transactions!NoOp.kind = "idle" /\ Transactions!NoOp.port = {}
  /\ Transactions!NoOp.bit = FALSE /\ Transactions!NoOp.done = FALSE
  /\ Transactions!NoOp.ports = {} /\ Transactions!NoOp.strategy = "Exact"
  BY DEF Transactions!NoOp, Operations, Strategies

\* What a set and a read of an output look like.
LEMMA OpOfSet ==
  ASSUME NEW l, OnOutput(l)
  PROVE  /\ l.pc = "write_port" => OpOf(l).kind = "set"
         /\ l.pc = "read_port" => OpOf(l).kind = "read"
         /\ OpOf(l).port = {l.port} /\ OpOf(l).bit = l.bit
         /\ OpOf(l).done <=> "cache" \notin l.todo
         /\ OpOf(l).ports = {} /\ OpOf(l).strategy = "Exact"
  BY DEF OpOf, OnOutput

\* The kind of an operation tells transfers and idle contexts apart.
LEMMA OpOfKind ==
  ASSUME NEW l, l.pc \notin {"refresh", "refresh_read", "write_back"}
  PROVE  /\ OpOf(l).kind \notin {"refresh", "load", "write_back"}
         /\ l.pc = "idle" => OpOf(l).kind = "idle"
  BY DEF OpOf, OnOutput

\* A step of one context changes its operation alone.
LEMMA OpsEffect ==
  ASSUME NEW c \in Contexts, NEW o, OpOf(call'[c]) = o,
         \A d \in Contexts : d # c => call'[d] = call[d]
  PROVE  /\ Ops' = [Ops EXCEPT ![c] = o]
         /\ o = Ops[c] => Ops' = Ops
  BY DEF Ops

\* What the abstract variables are made of; a set only adds its port to Pending.
LEMMA NoRefresh ==
  ASSUME \A d \in Contexts : ~Transferring(d)
  PROVE  /\ ~Refreshing /\ View = cache \cap Outputs /\ Known = fresh \cap Outputs
         /\ \A d \in Contexts : ~Transactions!Transferring(d)
  BY OpOfKind DEF Transferring, Refreshing, View, Known, Ops, Transactions!Transferring

\* Who transfers is alone: it refreshes, or the cache is in view.
LEMMA Alone ==
  ASSUME CoherenceInv, NEW c \in Contexts, Transferring(c)
  PROVE  /\ \A d \in Contexts : d # c => Idle(d)
         /\ Pending = dirty \cap Outputs
         /\ call[c].pc = "write_back" =>
              View = cache \cap Outputs /\ Known = fresh \cap Outputs
         /\ call[c].pc # "write_back" => Refreshing /\ View = {} /\ Known = {}
  <1>1. \A d \in Contexts : d # c => Idle(d)
    BY DEF CoherenceInv, Exclusive
  <1>2. \A p : ~BeingSet(p)
    BY <1>1 DEF BeingSet, Idle, Transferring
  <1>3. (call[c].pc # "write_back") = Refreshing
    BY <1>1 DEF Refreshing, Idle, Transferring
  <1>4. QED BY <1>1, <1>2, <1>3, GeometryAssumption DEF Pending, View, Known

-----------------------------------------------------------------------------
(* Sets. *)

LEMMA RefineStartWritePort ==
  ASSUME TypeOK, CoherenceInv, Bracketed,
         NEW c \in Contexts, NEW p \in Ports, NEW b \in BOOLEAN, write_port(c, p, b)
  PROVE  Transactions!BeginSet(c) \/ UNCHANGED Transactions!vars
  <1> DEFINE new == [NoCall EXCEPT !.pc = "write_port", !.port = p, !.bit = b,
                                   !.todo = {"cache", "dirty", "fresh"}]
  <1>1. /\ Idle(c) /\ p \in issued
        /\ \A d \in Contexts : ~Transferring(d)
        /\ UNCHANGED <<issued, cache, dirty, fresh, latch>>
        /\ Becomes(c, new)
    BY DEF write_port, MayUsePin, words, device
  <1>2. /\ new \in Calls
        /\ new.pc = "write_port" /\ new.port = p /\ new.bit = b
        /\ new.todo = {"cache", "dirty", "fresh"}
    BY NoCallType DEF Calls, NoCall
  <1>3. /\ \A d \in Contexts : d # c => call'[d] = call[d]
        /\ call'[c] \in Calls
        /\ call'[c].pc = "write_port" /\ call'[c].port = p /\ call'[c].bit = b
        /\ call'[c].todo = {"cache", "dirty", "fresh"}
    <2> HIDE DEF new
    <2>1. QED BY <1>1, <1>2, BecomesEffect DEF TypeOK
  <1>4. \A d \in Contexts : ~Transferring(d)'
    BY <1>1, <1>3 DEF Transferring
  <1>5. View' = View /\ Known' = Known /\ Made' = Made /\ Pins' = Pins
    BY <1>1, <1>4, NoRefresh DEF View, Known, Made, Pins, Refreshing, Transferring
  <1>6. Ops[c] = Transactions!NoOp
    BY <1>1, OpOfOthers DEF Ops, Idle, OnOutput
  <1>7. CASE p \in Outputs
    <2>1. Pending' = Pending \cup {p}
      BY <1>1, <1>3, <1>7 DEF Pending, BeingSet, Idle
    <2>2. OpOf(call'[c]) =
            [Transactions!NoOp EXCEPT !.kind = "set", !.port = {p}, !.bit = b]
      <3> DEFINE o == OpOf(call'[c])
      <3>1. o \in Operations
        BY <1>3, OpOfType
      <3>2. /\ o.kind = "set" /\ o.port = {p} /\ o.bit = b
            /\ o.ports = {} /\ o.strategy = "Exact" /\ ~o.done
        BY <1>3, <1>7, OpOfSet DEF OnOutput
      <3>3. o = [Transactions!NoOp EXCEPT !.kind = "set", !.port = {p}, !.bit = b]
        <4> HIDE DEF o
        <4>1. QED BY <3>1, <3>2, NoOpFields DEF Operations
      <3>4. QED BY <3>3
    <2>3. Transactions!Goes(c,
            [Transactions!NoOp EXCEPT !.kind = "set", !.port = {p}, !.bit = b])
      BY <2>2, <1>3, OpsEffect DEF Transactions!Goes
    <2>4. Transactions!MayUsePin(c)
      BY <1>1, <1>6, NoRefresh
      DEF Transactions!MayUsePin, Transactions!Is, Transactions!NoOp
    <2>5. p \in Made
      BY <1>1, <1>7 DEF Made
    <2>6. QED BY <1>5, <2>1, <2>3, <2>4, <2>5 DEF Transactions!BeginSet
  <1>8. CASE p \notin Outputs
    <2>1. Pending' = Pending
      BY <1>1, <1>3, <1>8 DEF Pending, BeingSet, Idle
    <2>2. OpOf(call'[c]) = Transactions!NoOp
      BY <1>3, <1>8, OpOfOthers DEF OnOutput
    <2>3. QED BY <1>3, <1>5, <1>6, <2>1, <2>2, OpsEffect DEF Transactions!vars
  <1>9. QED BY <1>7, <1>8

\* What a set shows of being done with a word: only the cache changes it, and the
\* last word ends it.
LEMMA SetDone ==
  ASSUME TypeOK, NEW c \in Contexts, NEW w \in call[c].todo, Done(c, w),
         call[c].pc = "write_port"
  PROVE  IF ~OnOutput(call[c]) THEN Ops' = Ops
         ELSE IF call[c].todo = {w} THEN Transactions!Ends(c)
         ELSE IF w = "cache" THEN Transactions!Goes(c, [Ops[c] EXCEPT !.done = TRUE])
         ELSE Ops' = Ops
  <1>1. /\ call \in [Contexts -> Calls] /\ call' \in [Contexts -> Calls]
        /\ \A d \in Contexts : d # c => call'[d] = call[d]
        /\ call[c].todo = {w} => call'[c] = NoCall
        /\ call[c].todo # {w} =>
              /\ call'[c].pc = "write_port" /\ call'[c].port = call[c].port
              /\ call'[c].bit = call[c].bit /\ call'[c].todo = call[c].todo \ {w}
    BY DoneEffect, DoneFields DEF TypeOK
  <1>2. Ops[c] = OpOf(call[c])
    BY DEF Ops
  <1>3. ASSUME ~OnOutput(call[c]) PROVE Ops' = Ops
    <2>1. OpOf(call[c]) = Transactions!NoOp
      BY <1>3, OpOfOthers
    <2>2. CASE call[c].todo = {w}
      BY <1>1, <1>2, <2>1, <2>2, OpOfNoCall, OpsEffect
    <2>3. CASE call[c].todo # {w}
      <3>1. OpOf(call'[c]) = Transactions!NoOp
        BY <1>1, <1>3, <2>3, OpOfOthers DEF OnOutput
      <3>2. QED BY <1>1, <1>2, <2>1, <3>1, OpsEffect
    <2>4. QED BY <2>2, <2>3
  <1>4. ASSUME call[c].todo = {w} PROVE Transactions!Ends(c)
    BY <1>1, <1>4, OpOfNoCall, OpsEffect DEF Transactions!Ends, Transactions!Goes
  <1>5. ASSUME OnOutput(call[c]), call[c].todo # {w}
        PROVE  IF w = "cache" THEN Transactions!Goes(c, [Ops[c] EXCEPT !.done = TRUE])
                              ELSE Ops' = Ops
    <2> DEFINE o == OpOf(call[c])
               r == OpOf(call'[c])
    <2>1. OnOutput(call'[c])
      BY <1>1, <1>5 DEF OnOutput
    <2>2. o \in Operations /\ r \in Operations
      BY <1>1, OpOfType
    <2>3. /\ r.kind = o.kind /\ r.port = o.port /\ r.bit = o.bit
          /\ r.ports = o.ports /\ r.strategy = o.strategy
          /\ r.done <=> "cache" \notin call[c].todo \ {w}
          /\ o.done <=> "cache" \notin call[c].todo
      <3>1. /\ o.kind = "set" /\ o.port = {call[c].port} /\ o.bit = call[c].bit
            /\ o.ports = {} /\ o.strategy = "Exact"
            /\ o.done <=> "cache" \notin call[c].todo
        BY <1>5, OpOfSet
      <3>2. /\ r.kind = "set" /\ r.port = {call'[c].port} /\ r.bit = call'[c].bit
            /\ r.ports = {} /\ r.strategy = "Exact"
            /\ r.done <=> "cache" \notin call'[c].todo
        BY <1>1, <1>5, <2>1, OpOfSet
      <3> HIDE DEF o, r
      <3>3. QED BY <1>1, <1>5, <3>1, <3>2
    <2>4. ASSUME w = "cache" PROVE r = [o EXCEPT !.done = TRUE]
      <3> HIDE DEF o, r
      <3>1. QED BY <2>2, <2>3, <2>4 DEF Operations
    <2>5. ASSUME w # "cache" PROVE r = o
      <3> HIDE DEF o, r
      <3>1. QED BY <2>2, <2>3, <2>5 DEF Operations
    <2>6. QED BY <1>1, <1>2, <2>4, <2>5, OpsEffect DEF Transactions!Goes
  <1>6. QED BY <1>3, <1>4, <1>5

\* A set runs beside no transfer, so the cache is in view, and a step of it other
\* than its first leaves pending what was.
LEMMA SetRuns ==
  ASSUME TypeOK, CoherenceInv, NEW c \in Contexts, NEW w \in call[c].todo, Done(c, w),
         call[c].pc = "write_port", UNCHANGED <<issued, latch>>,
         dirty' = IF w = "dirty" THEN dirty \cup {call[c].port} ELSE dirty
  PROVE  /\ View = cache \cap Outputs /\ View' = cache' \cap Outputs
         /\ Known = fresh \cap Outputs /\ Known' = fresh' \cap Outputs
         /\ Made' = Made /\ Pins' = Pins /\ Pending' = Pending
         /\ OnOutput(call[c]) =>
              /\ Ops[c].kind = "set" /\ Ops[c].port = {call[c].port}
              /\ Ops[c].bit = call[c].bit
              /\ Ops[c].done <=> "cache" \notin call[c].todo
  <1>1. \A d \in Contexts : ~Transferring(d)
    BY DEF CoherenceInv, Exclusive, Idle, Transferring
  <1>2. /\ \A d \in Contexts : d # c => call'[d] = call[d]
        /\ call'[c].pc \in {"write_port", "idle"}
        /\ call[c].todo = {w} => call'[c].pc = "idle"
        /\ call[c].todo # {w} =>
              /\ call'[c].pc = "write_port" /\ call'[c].port = call[c].port
              /\ call'[c].todo = call[c].todo \ {w}
    BY DoneFields DEF TypeOK
  <1>3. ~Refreshing /\ ~Refreshing'
    BY <1>1, <1>2 DEF Refreshing, Transferring
  <1>4. \A p : p \in dirty \/ BeingSet(p) <=> p \in dirty' \/ BeingSet(p)'
    BY <1>2 DEF BeingSet
  <1>5. Pending' = Pending
    BY <1>4 DEF Pending
  <1>6. QED BY <1>3, <1>5, OpOfSet DEF View, Known, Made, Pins, Ops

LEMMA RefineWritePortCache ==
  ASSUME TypeOK, CoherenceInv, NEW c \in Contexts, WritePortCache(c)
  PROVE  Transactions!Assign(c) \/ UNCHANGED Transactions!vars
  <1>1. /\ call[c].pc = "write_port" /\ "cache" \in call[c].todo /\ Done(c, "cache")
        /\ UNCHANGED <<issued, dirty, fresh, latch>>
        /\ cache' = IF call[c].bit THEN cache \cup {call[c].port}
                                   ELSE cache \ {call[c].port}
    BY DEF WritePortCache, OrBit, Access, device
  <1>2. /\ View = cache \cap Outputs /\ View' = cache' \cap Outputs
        /\ Known = fresh \cap Outputs /\ Known' = Known
        /\ Made' = Made /\ Pins' = Pins /\ Pending' = Pending
        /\ OnOutput(call[c]) =>
              /\ Ops[c].kind = "set" /\ Ops[c].port = {call[c].port}
              /\ Ops[c].bit = call[c].bit
              /\ ~Ops[c].done
    BY <1>1, SetRuns
  <1>3. CASE OnOutput(call[c])
    <2>1. View' = IF Ops[c].bit THEN View \cup Ops[c].port ELSE View \ Ops[c].port
      BY <1>1, <1>2, <1>3 DEF OnOutput
    <2>2. call[c].todo = {"cache"} => Ops[c].port \subseteq Known
      BY <1>1, <1>2, <1>3 DEF OnOutput, CoherenceInv, PinInv
    <2>3. QED
      BY <1>1, <1>2, <1>3, <2>1, <2>2, SetDone DEF Transactions!Assign, Transactions!Is
  <1>4. CASE ~OnOutput(call[c])
    <2>1. View' = View
      BY <1>1, <1>2, <1>4 DEF OnOutput
    <2>2. QED BY <1>1, <1>2, <1>4, <2>1, SetDone DEF Transactions!vars
  <1>5. QED BY <1>3, <1>4

LEMMA RefineWritePortDirty ==
  ASSUME TypeOK, CoherenceInv, NEW c \in Contexts, WritePortDirty(c)
  PROVE  Transactions!EndSet(c) \/ UNCHANGED Transactions!vars
  <1>1. /\ call[c].pc = "write_port" /\ "dirty" \in call[c].todo /\ Done(c, "dirty")
        /\ UNCHANGED <<issued, cache, fresh, latch>>
        /\ dirty' = dirty \cup {call[c].port}
    BY DEF WritePortDirty, OrBit, Access, device
  <1>2. /\ View' = View /\ Known = fresh \cap Outputs /\ Known' = Known
        /\ Made' = Made /\ Pins' = Pins /\ Pending' = Pending
        /\ OnOutput(call[c]) =>
              /\ Ops[c].kind = "set" /\ Ops[c].port = {call[c].port}
              /\ Ops[c].done <=> "cache" \notin call[c].todo
    BY <1>1, SetRuns
  <1>3. CASE OnOutput(call[c]) /\ call[c].todo = {"dirty"}
    <2>1. Ops[c].port \subseteq Known
      BY <1>1, <1>2, <1>3 DEF OnOutput, CoherenceInv, PinInv
    <2>2. QED BY <1>1, <1>2, <1>3, <2>1, SetDone DEF Transactions!EndSet, Transactions!Is
  <1>4. CASE ~(OnOutput(call[c]) /\ call[c].todo = {"dirty"})
    BY <1>1, <1>2, <1>4, SetDone DEF Transactions!vars
  <1>5. QED BY <1>3, <1>4

LEMMA RefineWritePortFresh ==
  ASSUME TypeOK, CoherenceInv, NEW c \in Contexts, WritePortFresh(c)
  PROVE  Transactions!Publish(c) \/ UNCHANGED Transactions!vars
  <1>1. /\ call[c].pc = "write_port" /\ "fresh" \in call[c].todo /\ Done(c, "fresh")
        /\ UNCHANGED <<issued, cache, dirty, latch>>
        /\ fresh' = fresh \cup {call[c].port}
    BY DEF WritePortFresh, OrBit, Access, device
  <1>2. /\ View' = View /\ Known = fresh \cap Outputs /\ Known' = fresh' \cap Outputs
        /\ Made' = Made /\ Pins' = Pins /\ Pending' = Pending
        /\ OnOutput(call[c]) =>
              /\ Ops[c].kind = "set" /\ Ops[c].port = {call[c].port}
              /\ Ops[c].done <=> "cache" \notin call[c].todo
    BY <1>1, SetRuns
  <1>3. CASE OnOutput(call[c])
    <2>1. Known' = Known \cup Ops[c].port
      BY <1>1, <1>2, <1>3 DEF OnOutput
    <2>2. ASSUME call[c].todo = {"fresh"} PROVE Ops[c].done /\ Transactions!Ends(c)
      BY <1>1, <1>2, <1>3, <2>2, SetDone
    <2>3. ASSUME call[c].todo # {"fresh"} PROVE Ops' = Ops
      BY <1>1, <1>3, <2>3, SetDone
    <2>4. QED BY <1>2, <1>3, <2>1, <2>2, <2>3 DEF Transactions!Publish, Transactions!Is
  <1>4. CASE ~OnOutput(call[c])
    <2>1. Known' = Known
      BY <1>1, <1>2, <1>4 DEF OnOutput
    <2>2. QED BY <1>1, <1>2, <1>4, <2>1, SetDone DEF Transactions!vars
  <1>5. QED BY <1>3, <1>4

-----------------------------------------------------------------------------
(* Reads. *)

\* A read changes no word and runs beside no transfer: only its own locals show.
LEMMA ReadRuns ==
  ASSUME TypeOK, CoherenceInv, NEW c \in Contexts, call[c].pc = "read_port",
         NEW r \in Calls, Becomes(c, r), r.pc \in {"read_port", "idle"},
         UNCHANGED <<issued, cache, dirty, fresh, latch>>
  PROVE  /\ View = cache \cap Outputs /\ Known = fresh \cap Outputs
         /\ UNCHANGED <<Made, Pins, View, Known, Pending>>
         /\ call'[c] = r
         /\ \A d \in Contexts : d # c => call'[d] = call[d]
         /\ Ops[c] = OpOf(call[c])
  <1>1. \A d \in Contexts : ~Transferring(d)
    BY DEF CoherenceInv, Exclusive, Idle, Transferring
  <1>2. /\ call'[c] = r
        /\ \A d \in Contexts : d # c => call'[d] = call[d]
    BY BecomesEffect DEF TypeOK
  <1>3. ~Refreshing /\ ~Refreshing'
    BY <1>1, <1>2 DEF Refreshing, Transferring
  <1>4. \A p : BeingSet(p) <=> BeingSet(p)'
    BY <1>2 DEF BeingSet
  <1>5. Pending' = Pending
    BY <1>4 DEF Pending
  <1>6. QED BY <1>2, <1>3, <1>5 DEF View, Known, Made, Pins, Ops

LEMMA RefineStartReadPort ==
  ASSUME TypeOK, CoherenceInv, Bracketed,
         NEW c \in Contexts, NEW p \in Ports, read_port(c, p)
  PROVE  Transactions!BeginRead(c) \/ UNCHANGED Transactions!vars
  <1> DEFINE new == [NoCall EXCEPT !.pc = "read_port", !.port = p,
                                   !.todo = {"fresh", "cache"}]
  <1>1. /\ Idle(c) /\ p \in issued
        /\ \A d \in Contexts : ~Transferring(d)
        /\ UNCHANGED <<issued, cache, dirty, fresh, latch>>
        /\ Becomes(c, new)
    BY DEF read_port, MayUsePin, words, device
  <1>2. /\ new \in Calls
        /\ new.pc = "read_port" /\ new.port = p /\ ~new.bit
        /\ new.todo = {"fresh", "cache"}
    BY NoCallType DEF Calls, NoCall
  <1>3. /\ \A d \in Contexts : d # c => call'[d] = call[d]
        /\ call'[c] \in Calls
        /\ call'[c].pc = "read_port" /\ call'[c].port = p /\ ~call'[c].bit
        /\ call'[c].todo = {"fresh", "cache"}
    <2> HIDE DEF new
    <2>1. QED BY <1>1, <1>2, BecomesEffect DEF TypeOK
  <1>4. \A d \in Contexts : ~Transferring(d)'
    BY <1>1, <1>3 DEF Transferring
  <1>5. View' = View /\ Known' = Known /\ Made' = Made /\ Pins' = Pins
    BY <1>1, <1>4, NoRefresh DEF View, Known, Made, Pins, Refreshing, Transferring
  <1>6. Pending' = Pending
    BY <1>1, <1>3 DEF Pending, BeingSet, Idle
  <1>7. Ops[c] = Transactions!NoOp
    BY <1>1, OpOfOthers DEF Ops, Idle, OnOutput
  <1>8. CASE p \in Outputs
    <2>1. OpOf(call'[c]) = [Transactions!NoOp EXCEPT !.kind = "read", !.port = {p}]
      <3> DEFINE o == OpOf(call'[c])
      <3>1. o \in Operations
        BY <1>3, OpOfType
      <3>2. /\ o.kind = "read" /\ o.port = {p} /\ ~o.bit
            /\ o.ports = {} /\ o.strategy = "Exact" /\ ~o.done
        BY <1>3, <1>8, OpOfSet DEF OnOutput
      <3>3. o = [Transactions!NoOp EXCEPT !.kind = "read", !.port = {p}]
        <4> HIDE DEF o
        <4>1. QED BY <3>1, <3>2, NoOpFields DEF Operations
      <3>4. QED BY <3>3
    <2>2. Transactions!Goes(c,
            [Transactions!NoOp EXCEPT !.kind = "read", !.port = {p}])
      BY <2>1, <1>3, OpsEffect DEF Transactions!Goes
    <2>3. Transactions!MayUsePin(c)
      BY <1>1, <1>7, NoRefresh, NoOpFields
      DEF Transactions!MayUsePin, Transactions!Is
    <2>4. p \in Made
      BY <1>1, <1>8 DEF Made
    <2>5. QED BY <1>5, <1>6, <2>2, <2>3, <2>4 DEF Transactions!BeginRead
  <1>9. CASE p \notin Outputs
    <2>1. OpOf(call'[c]) = Transactions!NoOp
      BY <1>3, <1>9, OpOfOthers DEF OnOutput
    <2>2. QED BY <1>3, <1>5, <1>6, <1>7, <2>1, OpsEffect DEF Transactions!vars
  <1>10. QED BY <1>8, <1>9

LEMMA RefineReadPortFresh ==
  ASSUME TypeOK, CoherenceInv, NEW c \in Contexts, ReadPortFresh(c)
  PROVE  Transactions!PortNotRefreshed(c) \/ UNCHANGED Transactions!vars
  <1> DEFINE l == call[c]
             next == [l EXCEPT !.todo = @ \ {"fresh"}]
  <1>1. /\ l.pc = "read_port" /\ "fresh" \in l.todo /\ l \in Calls
        /\ UNCHANGED <<issued, cache, dirty, fresh, latch>>
        /\ Becomes(c, IF Readable(c) THEN next ELSE NoCall)
    BY DEF ReadPortFresh, Access, words, device, TypeOK
  <1>2. /\ next \in Calls /\ next.pc = "read_port" /\ next.port = l.port
        /\ next.bit = l.bit /\ next.todo = l.todo \ {"fresh"}
    BY <1>1 DEF Calls
  <1>3. ASSUME Readable(c) PROVE UNCHANGED Transactions!vars
    <2> HIDE DEF next
    <2>1. OpOf(next) = OpOf(l)
      <3>1. CASE OnOutput(l)
        <4>1. OnOutput(next)
          BY <1>1, <1>2, <3>1 DEF OnOutput
        <4>2. /\ OpOf(next).kind = OpOf(l).kind /\ OpOf(next).port = OpOf(l).port
              /\ OpOf(next).bit = OpOf(l).bit /\ OpOf(next).ports = OpOf(l).ports
              /\ OpOf(next).strategy = OpOf(l).strategy
          BY <1>1, <1>2, <3>1, <4>1, OpOfSet
        <4>3. OpOf(next).done <=> OpOf(l).done
          BY <1>2, <3>1, <4>1, OpOfSet
        <4>4. OpOf(next) \in Operations /\ OpOf(l) \in Operations
          BY <1>1, <1>2, OpOfType
        <4>5. QED BY <4>2, <4>3, <4>4 DEF Operations
      <3>2. CASE ~OnOutput(l)
        BY <1>1, <1>2, <3>2, OpOfOthers DEF OnOutput
      <3>3. QED BY <3>1, <3>2
    <2>2. /\ UNCHANGED <<Made, Pins, View, Known, Pending>>
          /\ call'[c] = next /\ Ops[c] = OpOf(l)
          /\ \A d \in Contexts : d # c => call'[d] = call[d]
      BY <1>1, <1>2, <1>3, ReadRuns
    <2>3. QED BY <2>1, <2>2, OpsEffect DEF Transactions!vars
  <1>4. ASSUME ~Readable(c)
        PROVE  Transactions!PortNotRefreshed(c) \/ UNCHANGED Transactions!vars
    <2>1. /\ UNCHANGED <<Made, Pins, View, Known, Pending>>
          /\ Known = fresh \cap Outputs /\ call'[c] = NoCall /\ Ops[c] = OpOf(l)
          /\ \A d \in Contexts : d # c => call'[d] = call[d]
      BY <1>1, <1>4, NoCallType, NoCallFields, ReadRuns
    <2>2. CASE OnOutput(l)
      <3>1. Transactions!Ends(c)
        BY <2>1, OpOfNoCall, OpsEffect DEF Transactions!Ends, Transactions!Goes
      <3>2. Ops[c].kind = "read" /\ Ops[c].port = {l.port}
        BY <1>1, <2>1, <2>2, OpOfSet
      <3>3. ~(Ops[c].port \subseteq Known)
        BY <1>4, <2>1, <3>2 DEF Readable
      <3>4. QED
        BY <2>1, <3>1, <3>2, <3>3 DEF Transactions!PortNotRefreshed, Transactions!Is
    <2>3. CASE ~OnOutput(l)
      BY <1>1, <2>1, <2>3, OpOfNoCall, OpOfOthers, OpsEffect DEF Transactions!vars
    <2>4. QED BY <2>2, <2>3
  <1>5. QED BY <1>3, <1>4

LEMMA RefineReadPortCache ==
  ASSUME TypeOK, CoherenceInv, NEW c \in Contexts, ReadPortCache(c)
  PROVE  Transactions!Take(c) \/ UNCHANGED Transactions!vars
  <1> DEFINE l == call[c]
  <1>1. /\ l.pc = "read_port" /\ "cache" \in l.todo /\ l \in Calls
        /\ UNCHANGED <<issued, cache, dirty, fresh, latch>>
    BY DEF ReadPortCache, Access, words, device, TypeOK
  <1>2. PICK r \in Calls :
          /\ Becomes(c, r)
          /\ r.pc = "read_port" /\ r.port = l.port
          /\ r.bit <=> l.port \in cache
          /\ r.todo = l.todo \ {"cache"}
    <2> DEFINE new(b) == [l EXCEPT !.bit = b, !.todo = @ \ {"cache"}]
    <2>1. PICK b \in BOOLEAN : b <=> l.port \in cache
      OBVIOUS
    <2>2. /\ new(b) \in Calls /\ new(b).pc = "read_port" /\ new(b).port = l.port
          /\ new(b).bit = b /\ new(b).todo = l.todo \ {"cache"}
      BY <1>1 DEF Calls
    <2>3. Becomes(c, new(b))
      <3>1. b = (l.port \in cache)
        BY <2>1, Zenon
      <3>2. QED BY <3>1, Zenon DEF ReadPortCache
    <2> HIDE DEF new
    <2>4. QED BY <2>1, <2>2, <2>3
  <1>3. /\ View = cache \cap Outputs
        /\ UNCHANGED <<Made, Pins, View, Known, Pending>>
        /\ call'[c] = r /\ Ops[c] = OpOf(l)
        /\ \A d \in Contexts : d # c => call'[d] = call[d]
    BY <1>1, <1>2, ReadRuns
  <1>4. CASE OnOutput(l)
    <2> DEFINE o == OpOf(l)
               q == OpOf(r)
    <2>1. OnOutput(r)
      BY <1>2, <1>4 DEF OnOutput
    <2>2. o \in Operations /\ q \in Operations
      BY <1>1, OpOfType
    <2>3. /\ o.kind = "read" /\ o.port = {l.port} /\ ~o.done
          /\ o.ports = {} /\ o.strategy = "Exact"
      BY <1>1, <1>4, OpOfSet
    <2>4. /\ q.kind = "read" /\ q.port = {l.port} /\ q.done
          /\ q.ports = {} /\ q.strategy = "Exact"
      BY <1>2, <2>1, OpOfSet
    <2>5. q.bit <=> o.port \subseteq View
      <3>1. q.bit = r.bit
        BY <2>1, OpOfSet
      <3>2. l.port \in cache <=> {l.port} \subseteq View
        BY <1>3, <1>4 DEF OnOutput
      <3>3. QED BY <1>2, <2>3, <3>1, <3>2
    <2>6. q = [o EXCEPT !.bit = o.port \subseteq View, !.done = TRUE]
      <3> HIDE DEF o, q
      <3>1. QED BY <2>2, <2>3, <2>4, <2>5 DEF Operations
    <2>7. Transactions!Goes(c, [Ops[c] EXCEPT !.bit = Ops[c].port \subseteq View,
                                              !.done = TRUE])
      BY <1>3, <2>6, OpsEffect DEF Transactions!Goes
    <2>8. QED BY <1>3, <2>3, <2>7 DEF Transactions!Take, Transactions!Is
  <1>5. CASE ~OnOutput(l)
    <2>1. OpOf(r) = Transactions!NoOp
      BY <1>2, <1>5, OpOfOthers, <1>1 DEF OnOutput
    <2>2. QED BY <1>1, <1>3, <1>5, <2>1, OpOfOthers, OpsEffect DEF Transactions!vars
  <1>6. QED BY <1>4, <1>5

LEMMA RefineReadPortReturn ==
  ASSUME TypeOK, CoherenceInv, NEW c \in Contexts, ReadPortReturn(c)
  PROVE  Transactions!Answer(c) \/ UNCHANGED Transactions!vars
  <1>1. /\ call[c].pc = "read_port" /\ call[c].todo = {}
        /\ UNCHANGED <<issued, cache, dirty, fresh, latch>>
        /\ Becomes(c, NoCall)
    BY DEF ReadPortReturn, Return, words, device
  <1>2. /\ UNCHANGED <<Made, Pins, View, Known, Pending>>
        /\ Known = fresh \cap Outputs /\ call'[c] = NoCall /\ Ops[c] = OpOf(call[c])
        /\ \A d \in Contexts : d # c => call'[d] = call[d]
    BY <1>1, NoCallType, NoCallFields, ReadRuns
  <1>3. CASE OnOutput(call[c])
    <2>1. Transactions!Ends(c)
      BY <1>2, OpOfNoCall, OpsEffect DEF Transactions!Ends, Transactions!Goes
    <2>2. Ops[c].kind = "read" /\ Ops[c].port = {call[c].port} /\ Ops[c].done
      BY <1>1, <1>2, <1>3, OpOfSet
    <2>3. Ops[c].port \subseteq Known
      BY <1>1, <1>2, <1>3, <2>2 DEF OnOutput, CoherenceInv, PinInv
    <2>4. QED BY <1>2, <2>1, <2>2, <2>3 DEF Transactions!Answer, Transactions!Is
  <1>4. CASE ~OnOutput(call[c])
    BY <1>1, <1>2, <1>4, OpOfNoCall, OpOfOthers, OpsEffect DEF Transactions!vars
  <1>5. QED BY <1>3, <1>4

-----------------------------------------------------------------------------
(* Refresh. *)

\* What a transfer looks like.
LEMMA OpOfRefresh ==
  ASSUME NEW l, l.pc = "refresh"
  PROVE  /\ OpOf(l).kind = "refresh" /\ OpOf(l).port = {} /\ ~OpOf(l).bit
         /\ ~OpOf(l).done /\ OpOf(l).ports = {} /\ OpOf(l).strategy = "Exact"
  BY DEF OpOf, OnOutput

LEMMA OpOfLoad ==
  ASSUME NEW l, l.pc = "refresh_read"
  PROVE  /\ OpOf(l).kind = "load" /\ OpOf(l).port = {} /\ ~OpOf(l).bit
         /\ ~OpOf(l).done /\ OpOf(l).strategy = "Exact"
         /\ OpOf(l).ports = (l.remaining \cup l.mask) \cap Outputs
  BY DEF OpOf, OnOutput

LEMMA OpOfWriteBack ==
  ASSUME NEW l, l.pc = "write_back"
  PROVE  /\ OpOf(l).kind = "write_back" /\ OpOf(l).port = {} /\ ~OpOf(l).bit
         /\ ~OpOf(l).done /\ OpOf(l).ports = {} /\ OpOf(l).strategy = l.strategy
  BY DEF OpOf, OnOutput

\* While c transfers, the others stay idle, so the abstract state after its step
\* is that of the words and of the locals of c.
LEMMA AloneAfter ==
  ASSUME NEW c \in Contexts, \A d \in Contexts : d # c => Idle(d) /\ call'[d] = call[d]
  PROVE  /\ call'[c].pc # "write_port" => Pending' = dirty' \cap Outputs
         /\ call'[c].pc \in {"refresh", "refresh_read"} => View' = {} /\ Known' = {}
         /\ call'[c].pc \notin {"refresh", "refresh_read"} =>
              View' = cache' \cap Outputs /\ Known' = fresh' \cap Outputs
  <1>1. Refreshing' <=> (call'[c].pc \in {"refresh", "refresh_read"})
    BY DEF Refreshing, Idle
  <1>2. ASSUME call'[c].pc # "write_port" PROVE Pending' = dirty' \cap Outputs
    <2>1. \A p : ~BeingSet(p)'
      BY <1>2 DEF BeingSet, Idle
    <2>2. QED BY <2>1 DEF Pending
  <1>3. QED BY <1>1, <1>2 DEF View, Known

LEMMA RefineStartRefresh ==
  ASSUME TypeOK, Bracketed, NEW c \in Contexts, refresh(c)
  PROVE  Transactions!BeginRefresh(c)
  <1> DEFINE new == [NoCall EXCEPT !.pc = "refresh"]
  <1>1. /\ \A d \in Contexts : Idle(d)
        /\ UNCHANGED <<issued, cache, fresh, latch>> /\ dirty' = {}
        /\ Becomes(c, new)
    BY DEF refresh, MayTransfer, device
  <1>2. new \in Calls /\ new.pc = "refresh"
    BY NoCallType DEF Calls
  <1>3. /\ \A d \in Contexts : d # c => call'[d] = call[d]
        /\ call'[c] \in Calls /\ call'[c].pc = "refresh"
    <2> HIDE DEF new
    <2>1. QED BY <1>1, <1>2, BecomesEffect DEF TypeOK
  <1>4. Pending' = {} /\ View' = {} /\ Known' = {} /\ UNCHANGED <<Made, Pins>>
    BY <1>1, <1>3, AloneAfter DEF Made, Pins
  <1>5. Transactions!MayTransfer
    BY <1>1, OpOfKind DEF Transactions!MayTransfer, Transactions!Is, Ops, Idle
  <1>6. OpOf(call'[c]) = [Transactions!NoOp EXCEPT !.kind = "refresh"]
    <2> DEFINE o == OpOf(call'[c])
    <2>1. /\ o \in Operations /\ o.kind = "refresh" /\ o.port = {} /\ ~o.bit
          /\ ~o.done /\ o.ports = {} /\ o.strategy = "Exact"
      BY <1>3, OpOfType, OpOfRefresh
    <2>2. o = [Transactions!NoOp EXCEPT !.kind = "refresh"]
      <3> HIDE DEF o
      <3>1. QED BY <2>1, NoOpFields DEF Operations
    <2>3. QED BY <2>2
  <1>7. Transactions!Goes(c, [Transactions!NoOp EXCEPT !.kind = "refresh"])
    BY <1>3, <1>6, OpsEffect DEF Transactions!Goes
  <1>8. QED BY <1>4, <1>5, <1>7 DEF Transactions!BeginRefresh

LEMMA RefineRefreshIssued ==
  ASSUME TypeOK, CoherenceInv, NEW c \in Contexts, RefreshIssued(c)
  PROVE  Transactions!Scan(c)
  <1> DEFINE l == call[c]
             new == [l EXCEPT !.pc = "refresh_read", !.todo = {"cache", "fresh"},
                              !.remaining = {p \in issued : p >= FirstPort}]
  <1>1. /\ l.pc = "refresh" /\ l \in Calls /\ l.mask = {}
        /\ UNCHANGED <<issued, cache, dirty, fresh, latch>>
        /\ Becomes(c, new)
    BY DEF RefreshIssued, words, device, TypeOK, CoherenceInv, RefreshInv
  <1>2. /\ new \in Calls /\ new.pc = "refresh_read"
        /\ new.remaining = {p \in issued : p >= FirstPort} /\ new.mask = {}
    BY <1>1 DEF TypeOK, Calls
  <1>3. /\ \A d \in Contexts : d # c => call'[d] = call[d]
        /\ call'[c] \in Calls /\ call'[c].pc = "refresh_read"
        /\ call'[c].remaining = {p \in issued : p >= FirstPort} /\ call'[c].mask = {}
    <2> HIDE DEF new
    <2>1. QED BY <1>1, <1>2, BecomesEffect DEF TypeOK
  <1>4. UNCHANGED <<Made, Pins, View, Known, Pending>>
    BY <1>1, <1>3, Alone, AloneAfter DEF Transferring, Made, Pins
  <1>5. {p \in issued : p >= FirstPort} \cap Outputs = Made
    <2>1. \A p \in Outputs : p >= FirstPort
      BY GeometryAssumption DEF Ports
    <2>2. QED BY <2>1 DEF Made
  <1>6. Ops[c] = OpOf(l)
    BY DEF Ops
  <1>7. OpOf(call'[c]) = [OpOf(l) EXCEPT !.kind = "load", !.ports = Made]
    <2> DEFINE o == OpOf(l)
               q == OpOf(call'[c])
    <2>1. /\ o \in Operations /\ o.port = {} /\ ~o.bit /\ ~o.done
          /\ o.strategy = "Exact"
      BY <1>1, OpOfType, OpOfRefresh
    <2>2. /\ q \in Operations /\ q.kind = "load" /\ q.port = {} /\ ~q.bit /\ ~q.done
          /\ q.strategy = "Exact"
      BY <1>3, OpOfType, OpOfLoad
    <2>3. q.ports = Made
      BY <1>3, <1>5, OpOfLoad
    <2>4. q = [o EXCEPT !.kind = "load", !.ports = Made]
      <3> HIDE DEF o, q
      <3>1. QED BY <2>1, <2>2, <2>3 DEF Operations
    <2>5. QED BY <2>4
  <1>8. Transactions!Goes(c, [Ops[c] EXCEPT !.kind = "load", !.ports = Made])
    BY <1>3, <1>6, <1>7, OpsEffect DEF Transactions!Goes
  <1>9. Ops[c].kind = "refresh"
    BY <1>1, <1>6, OpOfRefresh
  <1>10. QED BY <1>4, <1>8, <1>9 DEF Transactions!Scan, Transactions!Is

LEMMA RefineRefreshRead ==
  ASSUME TypeOK, CoherenceInv, NEW c \in Contexts, RefreshRead(c)
  PROVE  Transactions!Widen(c)
  <1> DEFINE l == call[c]
             new(s) == [l EXCEPT !.remaining = Unread(c, s), !.buffer = Loaded(c, s),
                                 !.mask = @ \cup (PortRange(s) \cap Bits)]
  <1>1. /\ l.pc = "refresh_read" /\ l \in Calls
        /\ UNCHANGED <<issued, cache, dirty, fresh, latch>>
    BY DEF RefreshRead, words, device, TypeOK
  <1>2. PICK s \in l.remaining : Becomes(c, new(s))
    BY DEF RefreshRead
  <1>3. /\ new(s) \in Calls /\ new(s).pc = "refresh_read"
        /\ new(s).remaining = l.remaining \ PortRange(s)
        /\ new(s).mask = l.mask \cup (PortRange(s) \cap Bits)
    <2>1. Unread(c, s) = l.remaining \ PortRange(s) /\ Loaded(c, s) \subseteq Bits
      BY <1>1, SensedOutputs, PortsAreBits DEF Unread, Loaded, Calls
    <2>2. QED BY <1>1, <2>1 DEF Calls
  <1>4. /\ \A d \in Contexts : d # c => call'[d] = call[d]
        /\ call'[c] \in Calls /\ call'[c].pc = "refresh_read"
        /\ call'[c].remaining = l.remaining \ PortRange(s)
        /\ call'[c].mask = l.mask \cup (PortRange(s) \cap Bits)
    <2> HIDE DEF new
    <2>1. QED BY <1>2, <1>3, BecomesEffect DEF TypeOK
  <1>5. UNCHANGED <<Made, Pins, View, Known, Pending>>
    BY <1>1, <1>4, Alone, AloneAfter DEF Transferring, Made, Pins
  <1> DEFINE o == OpOf(l)
             q == OpOf(call'[c])
  <1>6. /\ o \in Operations /\ o.kind = "load" /\ o.port = {} /\ ~o.bit /\ ~o.done
        /\ o.strategy = "Exact" /\ o.ports = (l.remaining \cup l.mask) \cap Outputs
    BY <1>1, OpOfType, OpOfLoad
  <1>7. /\ q \in Operations /\ q.kind = "load" /\ q.port = {} /\ ~q.bit /\ ~q.done
        /\ q.strategy = "Exact"
        /\ q.ports = (call'[c].remaining \cup call'[c].mask) \cap Outputs
    BY <1>4, OpOfType, OpOfLoad
  <1>8. o.ports \subseteq q.ports /\ q.ports \in SUBSET Outputs
    BY <1>4, <1>6, <1>7, PortsAreBits, GeometryAssumption
  <1>9. q = [o EXCEPT !.ports = q.ports]
    <2> HIDE DEF o, q
    <2>1. QED BY <1>6, <1>7 DEF Operations
  <1>10. Ops[c] = o
    BY DEF Ops
  <1>11. Transactions!Goes(c, [Ops[c] EXCEPT !.ports = q.ports])
    BY <1>4, <1>9, <1>10, OpsEffect DEF Transactions!Goes
  <1> HIDE DEF o, q
  <1>12. QED BY <1>5, <1>6, <1>8, <1>10, <1>11 DEF Transactions!Widen, Transactions!Is

\* The second of the two stores that publish what was read ends the refresh; the
\* first is hidden with the rest of it.
LEMMA RefineRefreshStore ==
  ASSUME TypeOK, CoherenceInv, NEW c \in Contexts, NEW w \in {"cache", "fresh"},
         call[c].pc = "refresh_read", call[c].remaining = {}, w \in call[c].todo,
         Done(c, w), UNCHANGED <<issued, dirty, latch>>,
         cache' = IF w = "cache" THEN call[c].buffer ELSE cache,
         fresh' = IF w = "fresh" THEN call[c].mask ELSE fresh
  PROVE  Transactions!EndRefresh(c) \/ UNCHANGED Transactions!vars
  <1> DEFINE l == call[c]
  <1>1. /\ \A d \in Contexts : d # c => call'[d] = call[d]
        /\ l \in Calls /\ call'[c] \in Calls
        /\ l.todo = {w} => call'[c] = NoCall /\ call'[c].pc = "idle"
        /\ l.todo # {w} =>
              /\ call'[c].pc = "refresh_read"
              /\ call'[c].remaining = l.remaining /\ call'[c].mask = l.mask
    BY DoneEffect, DoneFields, NoCallFields DEF TypeOK
  <1>2. /\ \A d \in Contexts : d # c => Idle(d)
        /\ Pending = dirty \cap Outputs /\ View = {} /\ Known = {}
    BY Alone DEF Transferring
  <1>3. Pending' = Pending /\ UNCHANGED <<Made, Pins>>
    BY <1>1, <1>2, AloneAfter DEF Made, Pins
  <1>4. Ops[c] = OpOf(l)
    BY DEF Ops
  <1>5. CASE l.todo = {w}
    <2>1. /\ l.buffer \subseteq l.mask
          /\ \A p \in Outputs \cap l.mask : p \in l.buffer <=> p \in latch
          /\ "cache" \notin l.todo => cache = l.buffer
          /\ "fresh" \notin l.todo => fresh = l.mask
      BY DEF CoherenceInv, RefreshInv
    <2>2. cache' = l.buffer /\ fresh' = l.mask
      BY <1>5, <2>1
    <2>3. View' = l.buffer \cap Outputs /\ Known' = l.mask \cap Outputs
      BY <1>1, <1>2, <1>5, <2>2, AloneAfter
    <2>4. Ops[c].kind = "load" /\ Ops[c].ports = l.mask \cap Outputs
      BY <1>4, OpOfLoad
    <2>5. View' = Pins \cap Known'
      BY <2>1, <2>3 DEF Pins
    <2>6. Transactions!Ends(c)
      BY <1>1, <1>5, OpOfNoCall, OpsEffect DEF Transactions!Ends, Transactions!Goes
    <2>7. QED
      BY <1>3, <2>3, <2>4, <2>5, <2>6 DEF Transactions!EndRefresh, Transactions!Is
  <1>6. CASE l.todo # {w}
    <2>1. View' = View /\ Known' = Known
      BY <1>1, <1>2, <1>6, AloneAfter
    <2> DEFINE o == OpOf(l)
               q == OpOf(call'[c])
    <2>2. /\ o \in Operations /\ o.kind = "load" /\ o.port = {} /\ ~o.bit /\ ~o.done
          /\ o.strategy = "Exact" /\ o.ports = (l.remaining \cup l.mask) \cap Outputs
      BY <1>1, OpOfType, OpOfLoad
    <2>3. /\ q \in Operations /\ q.kind = "load" /\ q.port = {} /\ ~q.bit /\ ~q.done
          /\ q.strategy = "Exact"
          /\ q.ports = (call'[c].remaining \cup call'[c].mask) \cap Outputs
      BY <1>1, <1>6, OpOfType, OpOfLoad
    <2>4. q = o
      <3> HIDE DEF o, q
      <3>1. QED BY <1>1, <1>6, <2>2, <2>3 DEF Operations
    <2>5. QED BY <1>1, <1>3, <1>4, <2>1, <2>4, OpsEffect DEF Transactions!vars
  <1>7. QED BY <1>5, <1>6

LEMMA RefineRefreshCache ==
  ASSUME TypeOK, CoherenceInv, NEW c \in Contexts, RefreshCache(c)
  PROVE  Transactions!EndRefresh(c) \/ UNCHANGED Transactions!vars
  <1>1. /\ call[c].pc = "refresh_read" /\ call[c].remaining = {}
        /\ "cache" \in call[c].todo /\ Done(c, "cache")
        /\ UNCHANGED <<issued, dirty, fresh, latch>> /\ cache' = call[c].buffer
    BY DEF RefreshCache, Access, device
  <1>2. QED BY <1>1, RefineRefreshStore

LEMMA RefineRefreshFresh ==
  ASSUME TypeOK, CoherenceInv, NEW c \in Contexts, RefreshFresh(c)
  PROVE  Transactions!EndRefresh(c) \/ UNCHANGED Transactions!vars
  <1>1. /\ call[c].pc = "refresh_read" /\ call[c].remaining = {}
        /\ "fresh" \in call[c].todo /\ Done(c, "fresh")
        /\ UNCHANGED <<issued, cache, dirty, latch>> /\ fresh' = call[c].mask
    BY DEF RefreshFresh, Access, device
  <1>2. QED BY <1>1, RefineRefreshStore

-----------------------------------------------------------------------------
(* Write back. *)

LEMMA RefineStartWriteBack ==
  ASSUME TypeOK, Bracketed, NEW c \in Contexts, NEW s \in Strategies, write_back(c, s)
  PROVE  Transactions!BeginWriteBack(c)
  <1> DEFINE new == [NoCall EXCEPT !.pc = "write_back", !.strategy = s,
                       !.remaining = dirty, !.mask = OkToWrite(s, dirty),
                       !.todo = WordsToLoad(s)]
  <1>1. /\ \A d \in Contexts : Idle(d)
        /\ UNCHANGED <<issued, cache, dirty, fresh, latch>>
        /\ Becomes(c, new)
    BY DEF write_back, MayTransfer, words, device
  <1>2. new \in Calls /\ new.pc = "write_back" /\ new.strategy = s
    <2>1. OkToWrite(s, dirty) \subseteq Bits /\ dirty \subseteq Bits
      BY GeometryAssumption DEF OkToWrite, Bits, TypeOK
    <2>2. WordsToLoad(s) \subseteq {"cache", "dirty", "fresh"}
      BY DEF WordsToLoad
    <2>3. QED BY <2>1, <2>2, NoCallType DEF Calls
  <1>3. /\ \A d \in Contexts : d # c => call'[d] = call[d]
        /\ call'[c] \in Calls /\ call'[c].pc = "write_back" /\ call'[c].strategy = s
    <2> HIDE DEF new
    <2>1. QED BY <1>1, <1>2, BecomesEffect DEF TypeOK
  <1>4. UNCHANGED <<Made, Pins, View, Known, Pending>>
    <2>1. \A d \in Contexts : ~Transferring(d) /\ \A p : ~BeingSet(p)
      BY <1>1 DEF Idle, Transferring, BeingSet
    <2>2. /\ View = cache \cap Outputs /\ Known = fresh \cap Outputs
          /\ Pending = dirty \cap Outputs
      BY <1>1, <2>1, NoRefresh, GeometryAssumption DEF Pending, BeingSet, Idle
    <2>3. QED BY <1>1, <1>3, <2>2, AloneAfter DEF Made, Pins
  <1>5. Transactions!MayTransfer
    BY <1>1, OpOfKind DEF Transactions!MayTransfer, Transactions!Is, Ops, Idle
  <1>6. OpOf(call'[c]) = [Transactions!NoOp EXCEPT !.kind = "write_back", !.strategy = s]
    <2> DEFINE o == OpOf(call'[c])
    <2>1. /\ o \in Operations /\ o.kind = "write_back" /\ o.port = {} /\ ~o.bit
          /\ ~o.done /\ o.ports = {} /\ o.strategy = s
      BY <1>3, OpOfType, OpOfWriteBack
    <2>2. o = [Transactions!NoOp EXCEPT !.kind = "write_back", !.strategy = s]
      <3> HIDE DEF o
      <3>1. QED BY <2>1, NoOpFields DEF Operations
    <2>3. QED BY <2>2
  <1>7. Transactions!Goes(c, [Transactions!NoOp EXCEPT !.kind = "write_back",
                                                       !.strategy = s])
    BY <1>3, <1>6, OpsEffect DEF Transactions!Goes
  <1>8. s \in Transactions!Strategies
    BY DEF Strategies, Transactions!Strategies
  <1>9. QED BY <1>4, <1>5, <1>7, <1>8 DEF Transactions!BeginWriteBack

\* What a write_back has yet to do besides writing does not show: a step that
\* leaves the words and the latch alone is a stutter.
LEMMA WriteBackRuns ==
  ASSUME TypeOK, CoherenceInv, NEW c \in Contexts, call[c].pc = "write_back",
         NEW r \in Calls, Becomes(c, r), r.pc = "write_back",
         r.strategy = call[c].strategy,
         UNCHANGED <<issued, cache, dirty, fresh>>
  PROVE  UNCHANGED <<Made, View, Known, Pending, Ops>>
  <1>1. /\ \A d \in Contexts : d # c => call'[d] = call[d]
        /\ call'[c] = r /\ call[c] \in Calls
    BY BecomesEffect DEF TypeOK
  <1>2. UNCHANGED <<Made, View, Known, Pending>>
    BY <1>1, Alone, AloneAfter DEF Transferring, Made
  <1> DEFINE o == OpOf(call[c])
             q == OpOf(r)
  <1>3. /\ o \in Operations /\ o.kind = "write_back" /\ o.port = {} /\ ~o.bit
        /\ ~o.done /\ o.ports = {} /\ o.strategy = call[c].strategy
    BY <1>1, OpOfType, OpOfWriteBack
  <1>4. /\ q \in Operations /\ q.kind = "write_back" /\ q.port = {} /\ ~q.bit
        /\ ~q.done /\ q.ports = {} /\ q.strategy = r.strategy
    BY OpOfType, OpOfWriteBack
  <1>5. q = o
    <2> HIDE DEF o, q
    <2>1. QED BY <1>3, <1>4 DEF Operations
  <1>6. o = Ops[c]
    BY DEF Ops
  <1>7. Ops' = Ops
    BY <1>1, <1>5, <1>6, OpsEffect
  <1>8. QED BY <1>2, <1>7

LEMMA RefineWriteBackLoad ==
  ASSUME TypeOK, CoherenceInv, NEW c \in Contexts,
         WriteBackFresh(c) \/ WriteBackCache(c)
  PROVE  UNCHANGED Transactions!vars
  <1>0. call[c] \in Calls /\ cache \subseteq Bits /\ fresh \subseteq Bits
    BY DEF TypeOK
  <1>1. /\ call[c].pc = "write_back"
        /\ UNCHANGED <<issued, cache, dirty, fresh, latch>>
    BY DEF WriteBackFresh, WriteBackCache, words, device
  <1>2. PICK r \in Calls :
          Becomes(c, r) /\ r.pc = "write_back" /\ r.strategy = call[c].strategy
    <2>1. CASE WriteBackFresh(c)
      <3> DEFINE new == [call[c] EXCEPT !.mask = fresh, !.todo = {"cache"}]
      <3>1. new \in Calls /\ new.pc = "write_back" /\ new.strategy = call[c].strategy
        BY <1>0, <1>1 DEF Calls
      <3>2. Becomes(c, new)
        BY <2>1 DEF WriteBackFresh
      <3> HIDE DEF new
      <3>3. QED BY <3>1, <3>2
    <2>2. CASE WriteBackCache(c)
      <3> DEFINE new == [call[c] EXCEPT !.buffer = cache, !.todo = {}]
      <3>1. new \in Calls /\ new.pc = "write_back" /\ new.strategy = call[c].strategy
        BY <1>0, <1>1 DEF Calls
      <3>2. Becomes(c, new)
        BY <2>2 DEF WriteBackCache
      <3> HIDE DEF new
      <3>3. QED BY <3>1, <3>2
    <2>3. QED BY <2>1, <2>2
  <1>3. UNCHANGED <<Made, View, Known, Pending, Ops>>
    BY <1>1, <1>2, WriteBackRuns
  <1>4. QED BY <1>1, <1>3 DEF Transactions!vars, Pins

\* What a write of write_back changes of the pins follows the view, and is pending
\* or, under StompAny, was never read.
LEMMA WriteCarries ==
  ASSUME TypeOK, CoherenceInv, [Next]_vars, NEW c \in Contexts,
         call[c].pc = "write_back", call[c].todo = {}, NEW s \in call[c].remaining,
         latch' \in {latch, Written(WriteBackTarget(c, s), call[c].buffer)}
  PROVE  Transactions!Carries(c)
  <1>1. /\ \A d \in Contexts : d # c => Idle(d)
        /\ Pending = dirty \cap Outputs
        /\ View = cache \cap Outputs /\ Known = fresh \cap Outputs
    BY Alone DEF Transferring
  <1>2. Ops[c].strategy = call[c].strategy
    BY OpOfWriteBack DEF Ops
  <1>3. ASSUME NEW p \in Outputs, (p \in Pins') # (p \in Pins)
        PROVE  /\ p \in Pins' <=> p \in View
               /\ p \in Pending \/ (p \notin Known /\ Ops[c].strategy = "StompAny")
    <2>1. (p \in latch) # (p \in latch')
      BY <1>3 DEF Pins
    <2>2. latch' = Written(WriteBackTarget(c, s), cache)
      BY <2>1 DEF CoherenceInv, WriteBackInv
    <2>3. p \in latch' <=> p \in cache
      BY <2>1, <2>2, WrittenFromCache, GeometryAssumption
    <2>4. p \in dirty \/ (p \notin fresh /\ call[c].strategy = "StompAny")
      <3>1. \/ p \in dirty
            \/ p \notin fresh /\ \E d \in Contexts :
                 call[d].pc = "write_back" /\ call[d].strategy = "StompAny"
        BY <2>1, OutputChangeStep DEF OutputChangeAllowed
      <3>2. QED BY <1>1, <3>1 DEF Idle
    <2>5. QED BY <1>1, <1>2, <2>3, <2>4 DEF Pins
  <1>4. Pins' \in SUBSET Outputs
    BY DEF Pins
  <1>5. QED BY <1>3, <1>4 DEF Transactions!Carries

LEMMA RefineWriteBackWrite ==
  ASSUME TypeOK, CoherenceInv, [Next]_vars, NEW c \in Contexts, WriteBackWrite(c)
  PROVE  Transactions!WriteSome(c)
  <1> DEFINE new(s) == [call[c] EXCEPT !.remaining = Unwritten(c, s)]
  <1>1. /\ call[c] \in Calls /\ call[c].pc = "write_back" /\ call[c].todo = {}
        /\ UNCHANGED <<issued, cache, dirty, fresh>>
    BY DEF WriteBackWrite, words, TypeOK
  <1>2. PICK s \in call[c].remaining :
          latch' = Written(WriteBackTarget(c, s), call[c].buffer) /\ Becomes(c, new(s))
    BY DEF WriteBackWrite
  <1>3. new(s) \in Calls /\ new(s).pc = "write_back" /\ new(s).strategy = call[c].strategy
    BY <1>1 DEF Calls, Unwritten
  <1>4. UNCHANGED <<Made, View, Known, Pending, Ops>>
    <2> HIDE DEF new
    <2>1. QED BY <1>1, <1>2, <1>3, WriteBackRuns
  <1>5. Transactions!Carries(c)
    BY <1>1, <1>2, WriteCarries
  <1>6. Ops[c].kind = "write_back"
    BY <1>1, OpOfWriteBack DEF Ops
  <1>7. QED BY <1>4, <1>5, <1>6 DEF Transactions!WriteSome, Transactions!Is

\* A write_back that returns: the cache stays in view.
LEMMA WriteBackReturns ==
  ASSUME TypeOK, CoherenceInv, NEW c \in Contexts, call[c].pc = "write_back", Return(c),
         UNCHANGED <<issued, cache, fresh>>
  PROVE  /\ UNCHANGED <<Made, View, Known>> /\ Pending' = dirty' \cap Outputs
         /\ Transactions!Is(c, "write_back") /\ Transactions!Ends(c)
  <1>1. /\ \A d \in Contexts : d # c => call'[d] = call[d]
        /\ call'[c] = NoCall /\ call'[c].pc = "idle"
    BY NoCallType, NoCallFields, BecomesEffect DEF TypeOK, Return
  <1>2. UNCHANGED <<Made, View, Known>> /\ Pending' = dirty' \cap Outputs
    BY <1>1, Alone, AloneAfter DEF Transferring, Made
  <1>3. Transactions!Ends(c)
    BY <1>1, OpOfNoCall, OpsEffect DEF Transactions!Ends, Transactions!Goes
  <1>4. Ops[c].kind = "write_back"
    BY OpOfWriteBack DEF Ops
  <1>5. QED BY <1>2, <1>3, <1>4 DEF Transactions!Is

LEMMA RefineWriteBackWriteFails ==
  ASSUME TypeOK, CoherenceInv, [Next]_vars, NEW c \in Contexts, WriteBackWriteFails(c)
  PROVE  Transactions!FailWriteBack(c)
  <1>1. /\ call[c].pc = "write_back" /\ call[c].todo = {} /\ Return(c)
        /\ UNCHANGED <<issued, cache, dirty, fresh>>
    BY DEF WriteBackWriteFails, words
  <1>2. Transactions!Carries(c)
    BY <1>1, WriteCarries DEF WriteBackWriteFails
  <1>3. Pending' = Pending
    BY <1>1, WriteBackReturns, Alone DEF Transferring
  <1>4. QED BY <1>1, <1>2, <1>3, WriteBackReturns DEF Transactions!FailWriteBack

LEMMA RefineWriteBackDone ==
  ASSUME TypeOK, CoherenceInv, NEW c \in Contexts, WriteBackDone(c)
  PROVE  Transactions!EndWriteBack(c)
  <1>1. /\ call[c].pc = "write_back" /\ call[c].remaining = {} /\ Return(c)
        /\ UNCHANGED <<issued, cache, fresh, latch>> /\ dirty' = {}
    BY DEF WriteBackDone, device
  <1>2. \A p \in dirty : p \in cache <=> p \in latch
    BY <1>1 DEF CoherenceInv, WriteBackInv
  <1>3. Pending \cap Pins = Pending \cap View
    BY <1>1, <1>2, Alone DEF Transferring, Pins
  <1>4. Pending' = {} /\ Pins' = Pins
    BY <1>1, WriteBackReturns DEF Pins
  <1>5. QED BY <1>1, <1>3, <1>4, WriteBackReturns DEF Transactions!EndWriteBack

-----------------------------------------------------------------------------
(* The theorem. *)

LEMMA RefineInit == Init => Transactions!Init
  <1> SUFFICES ASSUME Init PROVE Transactions!Init
    OBVIOUS
  <1>1. \A c \in Contexts : call[c] = NoCall /\ call[c].pc = "idle"
    BY NoCallFields DEF Init
  <1>2. Ops = [c \in Contexts |-> Transactions!NoOp]
    BY <1>1, OpOfNoCall DEF Ops
  <1>3. Pins \in SUBSET Outputs /\ Made = {} /\ View = {} /\ Known = {}
    BY DEF Init, Pins, Made, View, Known
  <1>4. Pending = {}
    BY <1>1 DEF Init, Pending, BeingSet
  <1>5. QED BY <1>2, <1>3, <1>4 DEF Transactions!Init

\* A step that changes neither the calls nor the words but issued, nor the latch.
LEMMA RefineSameCalls ==
  ASSUME UNCHANGED <<cache, dirty, fresh, latch, call>>
  PROVE  UNCHANGED <<Pins, View, Known, Pending, Ops>>
  BY DEF Pins, View, Known, Refreshing, Pending, BeingSet, Ops

LEMMA RefinePortPin ==
  ASSUME NEW c \in Contexts, NEW p \in Ports, port_pin(c, p)
  PROVE  (p \in Outputs /\ Transactions!Pin(p)) \/ UNCHANGED Transactions!vars
  <1>1. UNCHANGED <<Pins, View, Known, Pending, Ops>>
    BY RefineSameCalls DEF port_pin, device
  <1>2. Made' = IF p \in Outputs THEN Made \cup {p} ELSE Made
    BY DEF port_pin, Made
  <1>3. QED BY <1>1, <1>2 DEF Transactions!Pin, Transactions!vars

LEMMA RefineStart ==
  ASSUME TypeOK, CoherenceInv, Bracketed, NEW c \in Contexts, Start(c)
  PROVE  [Transactions!Next]_(Transactions!vars)
  <1>1. ASSUME NEW p \in Ports, port_pin(c, p)
        PROVE  [Transactions!Next]_(Transactions!vars)
    BY <1>1, RefinePortPin DEF Transactions!Next
  <1>2. ASSUME NEW p \in Ports, NEW b \in BOOLEAN, write_port(c, p, b)
        PROVE  [Transactions!Next]_(Transactions!vars)
    BY <1>2, RefineStartWritePort DEF Transactions!Next
  <1>3. ASSUME NEW p \in Ports, read_port(c, p)
        PROVE  [Transactions!Next]_(Transactions!vars)
    BY <1>3, RefineStartReadPort DEF Transactions!Next
  <1>4. CASE refresh(c)
    BY <1>4, RefineStartRefresh DEF Transactions!Next
  <1>5. ASSUME NEW s \in Strategies, write_back(c, s)
        PROVE  [Transactions!Next]_(Transactions!vars)
    BY <1>5, RefineStartWriteBack DEF Transactions!Next
  <1>6. QED BY <1>1, <1>2, <1>3, <1>4, <1>5 DEF Start

LEMMA RefineStep ==
  ASSUME TypeOK, CoherenceInv, ~ReadsMayFail, [Next]_vars, NEW c \in Contexts, Step(c)
  PROVE  [Transactions!Next]_(Transactions!vars)
  <1>1. CASE WritePortCache(c)
    BY <1>1, RefineWritePortCache DEF Transactions!Next
  <1>2. CASE WritePortDirty(c)
    BY <1>2, RefineWritePortDirty DEF Transactions!Next
  <1>3. CASE WritePortFresh(c)
    BY <1>3, RefineWritePortFresh DEF Transactions!Next
  <1>4. CASE ReadPortFresh(c)
    BY <1>4, RefineReadPortFresh DEF Transactions!Next
  <1>5. CASE ReadPortCache(c)
    BY <1>5, RefineReadPortCache DEF Transactions!Next
  <1>6. CASE ReadPortReturn(c)
    BY <1>6, RefineReadPortReturn DEF Transactions!Next
  <1>7. CASE RefreshIssued(c)
    BY <1>7, RefineRefreshIssued DEF Transactions!Next
  <1>8. CASE RefreshRead(c)
    BY <1>8, RefineRefreshRead DEF Transactions!Next
  <1>9. CASE RefreshReadFails(c)
    BY <1>9 DEF RefreshReadFails
  <1>10. CASE RefreshCache(c)
    BY <1>10, RefineRefreshCache DEF Transactions!Next
  <1>11. CASE RefreshFresh(c)
    BY <1>11, RefineRefreshFresh DEF Transactions!Next
  <1>12. CASE WriteBackFresh(c) \/ WriteBackCache(c)
    BY <1>12, RefineWriteBackLoad
  <1>13. CASE WriteBackWrite(c)
    BY <1>13, RefineWriteBackWrite DEF Transactions!Next
  <1>14. CASE WriteBackWriteFails(c)
    BY <1>14, RefineWriteBackWriteFails DEF Transactions!Next
  <1>15. CASE WriteBackDone(c)
    BY <1>15, RefineWriteBackDone DEF Transactions!Next
  <1>16. QED
    BY <1>1, <1>2, <1>3, <1>4, <1>5, <1>6, <1>7, <1>8, <1>9, <1>10, <1>11, <1>12,
       <1>13, <1>14, <1>15 DEF Step

\* Callers that bracket their transfers, on an interface whose reads do not fail,
\* use PortTransactions: whatever the number of contexts, the geometry, the
\* outputs, the reordering of the words and the failures of writes, the four words
\* and the batches of the strategies cannot be told from one view of the pins.
THEOREM Implementation ==
  ASSUME Bracketed, ~ReadsMayFail
  PROVE  Spec => ImplementsPortTransactions
  <1>1. TypeOK /\ CoherenceInv /\ [Next]_vars => [Transactions!Next]_(Transactions!vars)
    <2> SUFFICES ASSUME TypeOK, CoherenceInv, [Next]_vars
                 PROVE  [Transactions!Next]_(Transactions!vars)
      OBVIOUS
    <2>1. ASSUME NEW c \in Contexts, Start(c)
          PROVE  [Transactions!Next]_(Transactions!vars)
      BY <2>1, RefineStart
    <2>2. ASSUME NEW c \in Contexts, Step(c)
          PROVE  [Transactions!Next]_(Transactions!vars)
      BY <2>2, RefineStep
    <2>3. ASSUME NEW p \in Ports \ Outputs, DriveInput(p)
          PROVE  UNCHANGED Transactions!vars
      BY <2>3, RefineSameCalls DEF DriveInput, words, Made, Transactions!vars
    <2>4. CASE UNCHANGED vars
      BY <2>4, RefineSameCalls DEF vars, words, device, Made, Transactions!vars
    <2>5. QED BY <2>1, <2>2, <2>3, <2>4 DEF Next
  <1>2. QED
    BY <1>1, RefineInit, TypeCorrect, Coherence, PTL
    DEF Spec, ImplementsPortTransactions, Transactions!Spec
=============================================================================
