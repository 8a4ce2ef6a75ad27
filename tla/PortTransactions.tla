-------------------------- MODULE PortTransactions --------------------------
(***************************************************************************)
(* What the transactional adapter promises of output ports, to callers     *)
(* that bracket their use of pins between refreshes and write_backs: a     *)
(* view of the pins that refresh loads, sets change and reads answer from, *)
(* and that write_back carries to the pins, of all pending ports and, but  *)
(* for StompAny, of no other.                                              *)
(***************************************************************************)
CONSTANTS Contexts, Outputs

VARIABLES
  made,     \* ports for which a PortPin was made
  pin,      \* ports whose pin is high
  view,     \* ports whose value is high, as callers see it
  known,    \* ports that callers may read
  pending,  \* ports set since the last transfer
  op        \* the call each context is in

vars == <<made, pin, view, known, pending, op>>

Strategies == {"Exact", "StompClean", "StompAny"}

\* done: the set has changed the view, or the read has its answer in bit.
\* ports: what the refresh covers.
NoOp == [kind |-> "idle", port |-> {}, bit |-> FALSE, done |-> FALSE, ports |-> {},
         strategy |-> "Exact"]

Init ==
  /\ pin \in SUBSET Outputs
  /\ made = {} /\ view = {} /\ known = {} /\ pending = {}
  /\ op = [c \in Contexts |-> NoOp]

Is(c, kind) == op[c].kind = kind
Goes(c, o) == op' = [op EXCEPT ![c] = o]
Ends(c) == Goes(c, NoOp)

Transferring(c) == op[c].kind \in {"refresh", "load", "write_back"}
MayUsePin(c) == Is(c, "idle") /\ \A d \in Contexts : ~Transferring(d)
MayTransfer == \A d \in Contexts : Is(d, "idle")

Pin(p) ==
  /\ made' = made \cup {p}
  /\ UNCHANGED <<pin, view, known, pending, op>>

-----------------------------------------------------------------------------
(* Sets: pending from the start, in the view some time before the return.    *)

BeginSet(c) ==
  /\ MayUsePin(c)
  /\ \E p \in made, b \in BOOLEAN :
       /\ pending' = pending \cup {p}
       /\ Goes(c, [NoOp EXCEPT !.kind = "set", !.port = {p}, !.bit = b])
  /\ UNCHANGED <<made, pin, view, known>>

Assign(c) ==
  /\ Is(c, "set") /\ ~op[c].done
  /\ view' = IF op[c].bit THEN view \cup op[c].port ELSE view \ op[c].port
  /\ \/ Goes(c, [op[c] EXCEPT !.done = TRUE])
     \/ /\ op[c].port \subseteq known
        /\ Ends(c)
  /\ UNCHANGED <<made, pin, known, pending>>

Publish(c) ==
  /\ Is(c, "set")
  /\ known' = known \cup op[c].port
  /\ \/ UNCHANGED op
     \/ op[c].done /\ Ends(c)
  /\ UNCHANGED <<made, pin, view, pending>>

EndSet(c) ==
  /\ Is(c, "set") /\ op[c].done /\ op[c].port \subseteq known
  /\ Ends(c)
  /\ UNCHANGED <<made, pin, view, known, pending>>

-----------------------------------------------------------------------------
(* Reads: answered from the view at some moment of the call.  A read that    *)
(* runs while its port becomes known may answer with what the view held just *)
(* before: the loads of fresh and cache are not ordered.                     *)

BeginRead(c) ==
  /\ MayUsePin(c)
  /\ \E p \in made : Goes(c, [NoOp EXCEPT !.kind = "read", !.port = {p}])
  /\ UNCHANGED <<made, pin, view, known, pending>>

Take(c) ==
  /\ Is(c, "read") /\ ~op[c].done
  /\ Goes(c, [op[c] EXCEPT !.bit = op[c].port \subseteq view, !.done = TRUE])
  /\ UNCHANGED <<made, pin, view, known, pending>>

Answer(c) ==
  /\ Is(c, "read") /\ op[c].done /\ op[c].port \subseteq known
  /\ Ends(c)
  /\ UNCHANGED <<made, pin, view, known, pending>>

PortNotRefreshed(c) ==
  /\ Is(c, "read") /\ ~(op[c].port \subseteq known)
  /\ Ends(c)
  /\ UNCHANGED <<made, pin, view, known, pending>>

-----------------------------------------------------------------------------
(* Refresh: forgets what was pending, covers at least the ports that have a  *)
(* pin at some moment, and leaves the view as the pins are.                  *)

BeginRefresh(c) ==
  /\ MayTransfer
  /\ pending' = {} /\ known' = {} /\ view' = {}
  /\ Goes(c, [NoOp EXCEPT !.kind = "refresh"])
  /\ UNCHANGED <<made, pin>>

Scan(c) ==
  /\ Is(c, "refresh")
  /\ Goes(c, [op[c] EXCEPT !.kind = "load", !.ports = made])
  /\ UNCHANGED <<made, pin, view, known, pending>>

Widen(c) ==
  /\ Is(c, "load")
  /\ \E S \in SUBSET Outputs :
       op[c].ports \subseteq S /\ Goes(c, [op[c] EXCEPT !.ports = S])
  /\ UNCHANGED <<made, pin, view, known, pending>>

EndRefresh(c) ==
  /\ Is(c, "load")
  /\ known' = op[c].ports
  /\ view' = pin \cap known'
  /\ Ends(c)
  /\ UNCHANGED <<made, pin, pending>>

-----------------------------------------------------------------------------
(* Write back, batch by batch; an error leaves everything pending.           *)

BeginWriteBack(c) ==
  /\ MayTransfer
  /\ \E s \in Strategies : Goes(c, [NoOp EXCEPT !.kind = "write_back", !.strategy = s])
  /\ UNCHANGED <<made, pin, view, known, pending>>

\* The ports whose pin changes follow the view, and are pending; or StompAny
\* overwrites ports that nobody read.
Carries(c) ==
  /\ pin' \in SUBSET Outputs
  /\ \A p \in Outputs :
       (p \in pin') # (p \in pin) =>
         /\ p \in pin' <=> p \in view
         /\ p \in pending \/ (p \notin known /\ op[c].strategy = "StompAny")

WriteSome(c) ==
  /\ Is(c, "write_back")
  /\ Carries(c)
  /\ UNCHANGED op
  /\ UNCHANGED <<made, view, known, pending>>

FailWriteBack(c) ==
  /\ Is(c, "write_back")
  /\ Carries(c)
  /\ Ends(c)
  /\ UNCHANGED <<made, view, known, pending>>

EndWriteBack(c) ==
  /\ Is(c, "write_back")
  /\ pending \cap pin = pending \cap view
  /\ pending' = {}
  /\ Ends(c)
  /\ UNCHANGED <<made, pin, view, known>>

Next ==
  \/ \E p \in Outputs : Pin(p)
  \/ \E c \in Contexts :
       \/ BeginSet(c) \/ Assign(c) \/ Publish(c) \/ EndSet(c)
       \/ BeginRead(c) \/ Take(c) \/ Answer(c) \/ PortNotRefreshed(c)
       \/ BeginRefresh(c) \/ Scan(c) \/ Widen(c) \/ EndRefresh(c)
       \/ BeginWriteBack(c) \/ WriteSome(c) \/ FailWriteBack(c) \/ EndWriteBack(c)

Spec == Init /\ [][Next]_vars
=============================================================================
