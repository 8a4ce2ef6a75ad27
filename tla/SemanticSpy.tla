---------------------------- MODULE SemanticSpy ----------------------------
(***************************************************************************)
(* SemanticTestSpyInterface: the device the property tests of the adapter  *)
(* run against.  It decodes the address of every access and keeps, for     *)
(* each port, its value and whether the driver read it before writing it.  *)
(* A byte is the set of its one bits.                                      *)
(***************************************************************************)
EXTENDS RegisterMap

CONSTANT Window  \* ports of a PortRange register: 8

TestPort == [status : {"Reset", "Read", "BlindWrite", "ReadWrite"}, bit : BOOLEAN]

\* The first port that an access to address a covers; the spy ignores accesses
\* to other registers.
Start(a) == IF a >= PortRangeBase + FirstPort THEN a - PortRangeBase ELSE a - SinglePortBase

Covered(a) ==
  CASE a \in (SinglePortBase + FirstPort)..(SinglePortBase + LastPort) -> {Start(a)}
    [] a \in (PortRangeBase + FirstPort)..(PortRangeBase + LastPort) ->
         {p \in Ports : p \in Start(a)..(Start(a) + Window - 1)}
    [] OTHER -> {}

BitOf(value, n) == n \in value

PortWritten(tp, b) ==
  [status |-> IF tp.status \in {"Reset", "BlindWrite"} THEN "BlindWrite" ELSE "ReadWrite",
   bit |-> b]

PortRead(tp) == [tp EXCEPT !.status = IF @ = "Reset" THEN "Read" ELSE @]

\* The ports after a write of value to address a, or after a read of it.
write_register(ports, a, value) ==
  [p \in Ports |-> IF p \in Covered(a) THEN PortWritten(ports[p], BitOf(value, p - Start(a)))
                                       ELSE ports[p]]

read_register(ports, a) ==
  [p \in Ports |-> IF p \in Covered(a) THEN PortRead(ports[p]) ELSE ports[p]]

\* The value that a read of address a returns.
ReadValue(ports, a) == {p - Start(a) : p \in {q \in Covered(a) : ports[q].bit}}

\* peek_all: reads do not count.
peek_all(ports) ==
  [p \in Ports |-> [ports[p] EXCEPT !.status = IF @ = "Read" THEN "Reset" ELSE @]]
=============================================================================
