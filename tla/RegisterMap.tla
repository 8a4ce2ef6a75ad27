---------------------------- MODULE RegisterMap ----------------------------
(***************************************************************************)
(* The registers of the chip and their addresses.  The ports and banks     *)
(* are constants so that small chips can be checked; the rest of the map   *)
(* is laid out around them as on the device.                               *)
(***************************************************************************)
EXTENDS Integers

CONSTANTS
  FirstPort,       \* 4 on the device
  LastPort,        \* 31
  LastBank,        \* 6
  BankConfigBase,  \* 0x09
  SinglePortBase,  \* 0x20
  PortRangeBase    \* 0x40

Ports == FirstPort..LastPort

ASSUME MapAssumption ==
  /\ {FirstPort, LastPort, LastBank} \subseteq Nat
  /\ {BankConfigBase, SinglePortBase, PortRangeBase} \subseteq Nat
  /\ 6 < BankConfigBase
  /\ BankConfigBase + LastBank < SinglePortBase + FirstPort
  /\ SinglePortBase + LastPort < PortRangeBase + FirstPort

\* A register with its argument, in the range valid_bank or valid_port accepts.
Register ==
       [name : {"Noop", "Configuration", "TransitionDetectMask"}, arg : {0}]
  \cup [name : {"BankConfig"}, arg : 0..LastBank]
  \cup [name : {"SinglePort", "PortRange"}, arg : Ports]

SinglePort(p) == [name |-> "SinglePort", arg |-> p]
PortRange(p) == [name |-> "PortRange", arg |-> p]

RegisterAddress(r) ==
  CASE r.name = "Noop" -> 0
    [] r.name = "Configuration" -> 4
    [] r.name = "TransitionDetectMask" -> 6
    [] r.name = "BankConfig" -> BankConfigBase + r.arg
    [] r.name = "SinglePort" -> SinglePortBase + r.arg
    [] r.name = "PortRange" -> PortRangeBase + r.arg

\* The addresses that TestSpyInterface does not forbid: an access anywhere else
\* panics in the tests, and is undefined on the chip.
Accessible ==
       {0, 4, 6} \cup (BankConfigBase..(BankConfigBase + LastBank))
  \cup (SinglePortBase..(PortRangeBase + LastPort))
=============================================================================
