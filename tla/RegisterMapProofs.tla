------------------------- MODULE RegisterMapProofs -------------------------
(* Theorems about RegisterMap, for every map that is laid out in order. *)
EXTENDS RegisterMap, TLAPS

\* The five blocks of addresses, in order.
Block(r) ==
  CASE r.name \in {"Noop", "Configuration", "TransitionDetectMask"} -> 0..6
    [] r.name = "BankConfig" -> BankConfigBase..(BankConfigBase + LastBank)
    [] r.name = "SinglePort" -> (SinglePortBase + FirstPort)..(SinglePortBase + LastPort)
    [] r.name = "PortRange" -> (PortRangeBase + FirstPort)..(PortRangeBase + LastPort)

LEMMA RegisterCases ==
  ASSUME NEW r \in Register
  PROVE  \/ r = [name |-> "Noop", arg |-> 0]
         \/ r = [name |-> "Configuration", arg |-> 0]
         \/ r = [name |-> "TransitionDetectMask", arg |-> 0]
         \/ \E b \in 0..LastBank : r = [name |-> "BankConfig", arg |-> b]
         \/ \E p \in Ports : r = SinglePort(p)
         \/ \E p \in Ports : r = PortRange(p)
  BY DEF Register, SinglePort, PortRange

\* The conversion of Register into RegisterAddress puts each kind of register in
\* its block.
LEMMA AddressInBlock ==
  ASSUME NEW r \in Register
  PROVE  RegisterAddress(r) \in Block(r)
  <1>1. CASE r.name \in {"Noop", "Configuration", "TransitionDetectMask"}
    BY <1>1 DEF RegisterAddress, Block
  <1>2. CASE \E b \in 0..LastBank : r = [name |-> "BankConfig", arg |-> b]
    BY <1>2, MapAssumption DEF RegisterAddress, Block
  <1>3. CASE \E p \in Ports : r = SinglePort(p)
    BY <1>3, MapAssumption DEF RegisterAddress, Block, SinglePort, Ports
  <1>4. CASE \E p \in Ports : r = PortRange(p)
    BY <1>4, MapAssumption DEF RegisterAddress, Block, PortRange, Ports
  <1>5. QED BY <1>1, <1>2, <1>3, <1>4, RegisterCases

\* No two registers share an address: an access meant for one never reaches
\* another, however the chip is dimensioned.
THEOREM AddressesDiffer ==
  \A r, s \in Register : RegisterAddress(r) = RegisterAddress(s) => r = s
  <1> SUFFICES ASSUME NEW r \in Register, NEW s \in Register,
                      RegisterAddress(r) = RegisterAddress(s)
               PROVE  r = s
    OBVIOUS
  <1>1. PICK a \in Int : a = RegisterAddress(r) /\ a = RegisterAddress(s)
    <2>1. Block(r) \subseteq Int
      BY RegisterCases, MapAssumption DEF Block, SinglePort, PortRange, Ports
    <2>2. QED BY <2>1, AddressInBlock
  <1>2. a \in Block(r) /\ a \in Block(s)
    BY <1>1, AddressInBlock
  <1>3. CASE \E b \in 0..LastBank : r = [name |-> "BankConfig", arg |-> b]
    <2>1. s.name = "BankConfig"
      BY <1>2, <1>3, RegisterCases, MapAssumption DEF Block, SinglePort, PortRange, Ports
    <2>2. QED BY <2>1, <1>1, <1>3, RegisterCases, MapAssumption
              DEF RegisterAddress, SinglePort, PortRange
  <1>4. CASE \E p \in Ports : r = SinglePort(p)
    <2>1. s.name = "SinglePort"
      BY <1>2, <1>4, RegisterCases, MapAssumption DEF Block, SinglePort, PortRange, Ports
    <2>2. QED BY <2>1, <1>1, <1>4, RegisterCases, MapAssumption
              DEF RegisterAddress, SinglePort, PortRange, Ports
  <1>5. CASE \E p \in Ports : r = PortRange(p)
    <2>1. s.name = "PortRange"
      BY <1>2, <1>5, RegisterCases, MapAssumption DEF Block, SinglePort, PortRange, Ports
    <2>2. QED BY <2>1, <1>1, <1>5, RegisterCases, MapAssumption
              DEF RegisterAddress, SinglePort, PortRange, Ports
  <1>6. CASE r.name \in {"Noop", "Configuration", "TransitionDetectMask"}
    <2>1. s.name \in {"Noop", "Configuration", "TransitionDetectMask"}
      BY <1>2, <1>6, RegisterCases, MapAssumption DEF Block, SinglePort, PortRange, Ports
    <2>2. QED BY <2>1, <1>1, <1>6, RegisterCases
              DEF RegisterAddress, SinglePort, PortRange
  <1>7. QED BY <1>3, <1>4, <1>5, <1>6, RegisterCases

\* Every address that the driver computes is one that the tests' spy does not
\* forbid (TestSpyInterface), so no test passes for want of an access.
THEOREM AddressesAccessible == \A r \in Register : RegisterAddress(r) \in Accessible
  <1> SUFFICES ASSUME NEW r \in Register PROVE RegisterAddress(r) \in Accessible
    OBVIOUS
  <1>1. CASE r.name \in {"Noop", "Configuration", "TransitionDetectMask"}
    BY <1>1 DEF RegisterAddress, Accessible
  <1>2. CASE \E b \in 0..LastBank : r = [name |-> "BankConfig", arg |-> b]
    BY <1>2, MapAssumption DEF RegisterAddress, Accessible
  <1>3. CASE \E p \in Ports : r = SinglePort(p)
    BY <1>3, MapAssumption DEF RegisterAddress, Accessible, SinglePort, Ports
  <1>4. CASE \E p \in Ports : r = PortRange(p)
    BY <1>4, MapAssumption DEF RegisterAddress, Accessible, PortRange, Ports
  <1>5. QED BY <1>1, <1>2, <1>3, <1>4, RegisterCases
=============================================================================
