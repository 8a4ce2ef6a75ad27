---------------------------- MODULE AtomicMemory ----------------------------
(***************************************************************************)
(* What register accesses promise, on a bus where each takes several       *)
(* frames: a memory of cells.  An access takes effect at one moment        *)
(* between its start and its return; one that fails may have had its       *)
(* effect or not, and may have spoiled one cell on a bus that garbles.     *)
(***************************************************************************)
CONSTANTS
  Contexts,
  Cells,
  Values,
  Driven,      \* cells that the world outside sets; writes do not show there
  ResetValue,  \* what a cell holds after a reset
  MayReset,    \* the memory may be reset at any time
  MayGarble    \* a failed access may change another cell, or write another value

VARIABLES
  mem,  \* the values of the cells
  op    \* the access each context is in, or its last one

vars == <<mem, op>>

\* An access is "taken" once it has had its effect, or a read has its value;
\* "ok", "error" and "panic" are the ways it ends.
Ops ==
  [kind : {"read", "write"}, cell : Cells, value : Values,
   state : {"called", "taken", "ok", "error", "panic"}]

TypeOK == mem \in [Cells -> Values] /\ op \in [Contexts -> Ops]

Over(c) == op[c].state \in {"ok", "error", "panic"}

Init ==
  /\ mem \in [Cells -> Values]
  /\ op \in [Contexts -> {o \in Ops : o.state = "ok"}]

\* The access of c goes on to state s with value v.
Goes(c, v, s) ==
  op' = [op EXCEPT ![c] = [kind |-> @.kind, cell |-> @.cell, value |-> v, state |-> s]]

Call(c) ==
  /\ Over(c)
  /\ op'[c].state = "called"
  /\ op' = [op EXCEPT ![c] = op'[c]]
  /\ UNCHANGED mem

Applied(c) ==
  IF op[c].cell \in Driven THEN mem ELSE [mem EXCEPT ![op[c].cell] = op[c].value]

WriteOk(c) ==
  /\ op[c].kind = "write" /\ op[c].state = "called"
  /\ mem' = Applied(c)
  /\ Goes(c, op[c].value, "ok")

ReadTaken(c) ==
  /\ op[c].kind = "read" /\ op[c].state = "called"
  /\ Goes(c, mem[op[c].cell], "taken")
  /\ UNCHANGED mem

\* A read loses its value; it can only succeed if it takes one again.
ReadLost(c) ==
  /\ op[c].kind = "read" /\ ~Over(c)
  /\ Goes(c, op'[c].value, "called")
  /\ UNCHANGED mem

TakenOk(c) ==
  /\ op[c].state = "taken"
  /\ Goes(c, op[c].value, "ok")
  /\ UNCHANGED mem

\* What a failed access may leave: nothing, its effect, or one cell spoiled.
Leavings(c) ==
  \/ UNCHANGED mem
  \/ op[c].kind = "write" /\ mem' = Applied(c)
  \/ MayGarble /\ \E a \in Cells, v \in Values : mem' = [mem EXCEPT ![a] = v]

Fails(c) ==
  /\ ~Over(c)
  /\ op'[c].state \in {"error", "panic"}
  /\ Goes(c, op'[c].value, op'[c].state)
  /\ Leavings(c)

Drive(a) ==
  /\ a \in Driven
  /\ mem' = [mem EXCEPT ![a] = mem'[a]]
  /\ UNCHANGED op

\* An access under way is either still to come, or came just before.
Reset ==
  /\ MayReset
  /\ mem' = [a \in Cells |-> ResetValue]
  /\ \/ UNCHANGED op
     \/ \E c \in Contexts :
          \/ /\ op[c].kind = "write" /\ op[c].state = "called"
             /\ Goes(c, op[c].value, "taken")
          \/ /\ op[c].kind = "read" /\ ~Over(c)
             /\ Goes(c, op'[c].value, "called")

Next ==
  \/ \E c \in Contexts :
       Call(c) \/ WriteOk(c) \/ ReadTaken(c) \/ ReadLost(c) \/ TakenOk(c) \/ Fails(c)
  \/ \E a \in Cells : Drive(a)
  \/ Reset

Spec == Init /\ [][Next /\ TypeOK']_vars
=============================================================================
