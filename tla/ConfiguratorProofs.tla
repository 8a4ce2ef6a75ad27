------------------------- MODULE ConfiguratorProofs -------------------------
(* Theorems about Configurator, for every value of its constants. *)
EXTENDS Configurator, TLAPS

LEMMA ConsumedType ==
  ASSUME TypeOK, Consumed
  PROVE  /\ phase' = "none" /\ banks' \in [Banks -> [Offsets -> {Unset} \cup Modes]]
         /\ dirty' = FALSE /\ asked' = {} /\ bank' = 0 /\ bank' \in 0..(LastBank + 1)
         /\ current' \in [Offsets -> PortMode]
  BY ChipAssumption
  DEF Consumed, NoBanks, NoChange, PowerOnBank, PortMode

\* Masking out and setting a field gives the mode, whatever was there.
LEMMA SetFieldIsMode ==
  ASSUME NEW f \in Field, NEW m \in Modes
  PROVE  SetField(f, m) = m
  BY DEF SetField, Field

LEMMA FieldsAreModes == ASSUME NEW m \in Modes PROVE m \in PortMode /\ m # Unset
  BY ChipAssumption DEF PortMode, Unset

\* A bank with every field set is written as it is.
LEMMA OverwriteIsComplete ==
  ASSUME NEW cfg, Status(cfg) = "Overwrite"
  PROVE  \A o \in Offsets : cfg[o] # Unset
  BY DEF Status, KeepMask

LEMMA UnchangedIsEmpty ==
  ASSUME NEW cfg, Status(cfg) = "Unchanged"
  PROVE  \A o \in Offsets : cfg[o] = Unset
  BY DEF Status, KeepMask

\* A merge takes the fields that are set, and keeps the others.
LEMMA MergeEffect ==
  ASSUME NEW cfg \in [Offsets -> {Unset} \cup Modes], NEW cur \in [Offsets -> PortMode]
  PROVE  /\ Merge(cfg, cur) \in [Offsets -> PortMode]
         /\ \A o \in Offsets :
              Merge(cfg, cur)[o] = IF cfg[o] = Unset THEN cur[o] ELSE cfg[o]
  <1>1. ASSUME NEW o \in Offsets
        PROVE  /\ Merge(cfg, cur)[o] = IF cfg[o] = Unset THEN cur[o] ELSE cfg[o]
               /\ Merge(cfg, cur)[o] \in PortMode
    <2>1. cur[o] \in PortMode
      OBVIOUS
    <2>2. cfg[o] = Unset \/ cfg[o] \in PortMode
      BY FieldsAreModes
    <2>3. CASE cfg[o] = Unset
      BY <2>1, <2>3 DEF Merge, KeepMask, Unset, PortMode
    <2>4. CASE cfg[o] # Unset
      BY <2>2, <2>4 DEF Merge, KeepMask, Unset
    <2>5. QED BY <2>3, <2>4
  <1>2. QED BY <1>1 DEF Merge

\* What commit writes to the bank it is at.
LEMMA BankValueEffect ==
  ASSUME TypeOK, CommitInv, AtBank("Overwrite") \/ phase = "merge"
  PROVE  /\ bank \in Banks
         /\ BankValue \in [Offsets -> PortMode]
         /\ \A o \in Offsets :
              BankValue[o] = IF banks[bank][o] = Unset THEN registers[bank][o]
                                                       ELSE banks[bank][o]
  <1>1. bank \in Banks
    BY DEF AtBank, CommitInv
  <1>2. banks[bank] \in [Offsets -> {Unset} \cup Modes]
    BY <1>1 DEF TypeOK
  <1>3. CASE phase = "merge"
    <2>1. BankValue = Merge(banks[bank], current) /\ current = registers[bank]
      BY <1>3 DEF BankValue, CommitInv
    <2>2. current \in [Offsets -> PortMode]
      BY DEF TypeOK
    <2>3. QED BY <1>1, <1>2, <2>1, <2>2, MergeEffect
  <1>4. CASE phase # "merge"
    <2>1. BankValue = banks[bank] /\ Status(banks[bank]) = "Overwrite"
      BY <1>4 DEF BankValue, AtBank
    <2>2. \A o \in Offsets : banks[bank][o] # Unset /\ banks[bank][o] \in PortMode
      BY <1>2, <2>1, OverwriteIsComplete, FieldsAreModes
    <2>3. QED BY <1>1, <1>2, <2>1, <2>2
  <1>5. QED BY <1>3, <1>4

LEMMA WrittenBanksEffect ==
  ASSUME TypeOK, CommitInv, AtBank("Overwrite") \/ phase = "merge"
  PROVE  /\ WrittenBanks \in [Banks -> [Offsets -> PortMode]]
         /\ \A b \in Banks, o \in Offsets :
              WrittenBanks[b][o] = IF b # bank \/ banks[b][o] = Unset
                                     THEN registers[b][o] ELSE banks[b][o]
  BY BankValueEffect DEF WrittenBanks, TypeOK

\* The chip reads the configuration byte as the configuration it was made from.
LEMMA ConfigByteMeaning ==
  ASSUME NEW cfg \in Controls
  PROVE  ConfigByte(cfg) \in SUBSET {0, 7} /\ Meaning(ConfigByte(cfg)) = cfg
  <1>1. ConfigByte(cfg) \in SUBSET {0, 7}
    BY DEF ConfigByte
  <1>2. 0 \notin ConfigByte(cfg) <=> cfg.shutdown
    BY DEF ConfigByte
  <1>3. 7 \in ConfigByte(cfg) <=> cfg.transition_detect
    BY DEF ConfigByte
  <1>4. QED BY <1>1, <1>2, <1>3 DEF Meaning, Controls

-----------------------------------------------------------------------------
(* TypeOK and CommitInv are inductive together. *)

Inv == TypeOK /\ CommitInv

LEMMA InitInv == Init => Inv
  <1> SUFFICES ASSUME Init PROVE Inv
    OBVIOUS
  <1>1. registers \in [Banks -> [Offsets -> PortMode]]
    BY ChipAssumption DEF Init
  <1>2. config \in Controls
    BY DEF Init, DefaultConfig, Controls
  <1>3. banks \in [Banks -> [Offsets -> {Unset} \cup Modes]]
    BY DEF Init, NoBanks, NoChange
  <1>4. current \in [Offsets -> PortMode]
    BY DEF Init, PowerOnBank, PortMode
  <1>5. TypeOK
    <2>1. 0 \in 0..(LastBank + 1)
      BY ChipAssumption
    <2>2. control \in SUBSET {0, 7} /\ stray \in SUBSET ControlBits
      BY DEF Init, PowerOnControl
    <2>3. QED BY <1>1, <1>2, <1>3, <1>4, <2>1, <2>2, Zenon DEF Init, TypeOK
  <1>6. QED BY <1>5, ChipAssumption DEF Init, Inv, CommitInv, Banks

LEMMA BuildInv ==
  ASSUME Inv, \/ configure \/ drop \/ commit
              \/ \E S \in SUBSET Ports, m \in Modes : ports(S, m)
              \/ \E b \in BOOLEAN : SetControl("shutdown", b)
              \/ \E b \in BOOLEAN : SetControl("transition_detect", b)
  PROVE  Inv'
  <1> USE DEF Inv, chip
  <1>1. CASE configure
    BY <1>1 DEF configure, TypeOK, CommitInv
  <1>2. CASE drop
    BY <1>2, ConsumedType DEF drop, Abandoned, TypeOK, CommitInv
  <1>3. CASE commit
    BY <1>3, ChipAssumption DEF commit, TypeOK, CommitInv, Banks
  <1>4. ASSUME NEW S \in SUBSET Ports, NEW m \in Modes, ports(S, m) PROVE Inv'
    <2>1. banks' \in [Banks -> [Offsets -> {Unset} \cup Modes]]
      <3>1. ASSUME NEW b \in Banks, NEW o \in Offsets
            PROVE  SetField(banks[b][o], m) \in Modes
        <4>1. banks[b][o] \in Field
          <5>1. banks[b][o] = {} \/ banks[b][o] \in PortMode
            BY ChipAssumption DEF TypeOK, Unset
          <5>2. \A f \in PortMode : f \subseteq {0, 1}
            BY DEF PortMode
          <5>3. QED BY <5>1, <5>2 DEF Field
        <4>2. QED BY <4>1, SetFieldIsMode
      <3>2. QED BY <3>1, <1>4 DEF ports, TypeOK
    <2>2. QED BY <2>1, <1>4 DEF ports, TypeOK, CommitInv
  <1>5. ASSUME NEW bit \in ControlBits, NEW b \in BOOLEAN, SetControl(bit, b)
        PROVE  Inv'
    <2>1. config' \in Controls
      BY <1>5 DEF SetControl, TypeOK, Controls, ControlBits
    <2>2. QED BY <2>1, <1>5 DEF SetControl, TypeOK, CommitInv
  <1>6. QED BY <1>1, <1>2, <1>3, <1>4, <1>5 DEF ControlBits

LEMMA CommitStepInv ==
  ASSUME Inv, SkipBank \/ ReadBank \/ WriteBank \/ Finish
  PROVE  Inv'
  <1> USE ChipAssumption DEF Inv, chip
  <1>1. CASE SkipBank
    <2>1. \A o \in Offsets : banks[bank][o] = Unset
      BY <1>1, UnchangedIsEmpty DEF SkipBank, AtBank
    <2>2. QED BY <2>1, <1>1 DEF SkipBank, AtBank, TypeOK, CommitInv, Banks
  <1>2. CASE ReadBank
    BY <1>2 DEF ReadBank, AtBank, TypeOK, CommitInv
  <1>3. CASE WriteBank
    <2>1. /\ bank \in Banks
          /\ registers' \in [Banks -> [Offsets -> PortMode]]
          /\ \A b \in Banks, o \in Offsets :
               registers'[b][o] = IF b # bank \/ banks[b][o] = Unset
                                    THEN registers[b][o] ELSE banks[b][o]
      BY <1>3, BankValueEffect, WrittenBanksEffect DEF WriteBank
    <2>2. TypeOK'
      BY <2>1, <1>3 DEF WriteBank, TypeOK, Banks
    <2>3. phase \in {"commit", "merge"}
      BY <1>3 DEF WriteBank, AtBank
    <2>4. CommitInv'
      BY <2>1, <2>3, <1>3 DEF WriteBank, CommitInv, Banks
    <2>5. QED BY <2>2, <2>4
  <1>4. CASE Finish
    <2>1. control' \in SUBSET {0, 7} /\ stray' \in SUBSET ControlBits
      BY <1>4, ConfigByteMeaning DEF Finish, TypeOK
    <2>2. QED BY <2>1, <1>4, ConsumedType DEF Finish, TypeOK, CommitInv
  <1>5. QED BY <1>1, <1>2, <1>3, <1>4

LEMMA AbortInv ==
  ASSUME Inv, FailRead \/ FailWriteBank \/ FailWriteConfig \/ Restart
  PROVE  Inv'
  <1> USE DEF Inv, chip
  <1>1. /\ config' \in Controls /\ control' \in SUBSET {0, 7}
        /\ stray' \in SUBSET ControlBits
    <2>1. DefaultConfig \in Controls
      BY DEF DefaultConfig, Controls
    <2>2. QED BY <2>1, ConfigByteMeaning
              DEF FailRead, FailWriteBank, FailWriteConfig, Restart, Abandoned, TypeOK
  <1>2. registers' \in [Banks -> [Offsets -> PortMode]]
    BY WrittenBanksEffect DEF FailRead, FailWriteBank, FailWriteConfig, Restart, TypeOK
  <1>3. Consumed
    BY DEF FailRead, FailWriteBank, FailWriteConfig, Restart, Abandoned
  <1>4. QED BY <1>1, <1>2, <1>3, ConsumedType DEF TypeOK, CommitInv

LEMMA NextInv == ASSUME Inv, [Next]_vars PROVE Inv'
  <1>1. CASE UNCHANGED vars
    BY <1>1 DEF vars, driver, chip, Inv, TypeOK, CommitInv
  <1>2. QED BY <1>1, BuildInv, CommitStepInv, AbortInv DEF Next

\* Types hold, and a commit has applied the banks it went past and has the
\* chip's own value in hand when it merges.
THEOREM CommitInvariant == Spec => [](TypeOK /\ CommitInv)
  BY InitInv, NextInv, PTL DEF Spec, Inv

\* Builder, shadow and registers keep their types; every field of a bank
\* register is the encoding of a PortMode, so 00 is never written to the chip.
THEOREM TypeCorrect == Spec => []TypeOK
  BY CommitInvariant, PTL

-----------------------------------------------------------------------------
(* The chip changes only as asked. *)

LEMMA PortChangeStep == ASSUME Inv, [Next]_vars PROVE PortChangeAllowed
  <1> USE DEF Inv
  <1>1. CASE registers' = registers
    BY <1>1 DEF PortChangeAllowed
  <1>2. CASE WriteBank \/ FailWriteBank
    <2>1. registers' = registers \/ registers' = WrittenBanks
      BY <1>2 DEF WriteBank, FailWriteBank
    <2>2. AtBank("Overwrite") \/ phase = "merge"
      BY <1>2 DEF WriteBank, FailWriteBank
    <2>3. phase \in {"commit", "merge"}
      BY <2>2 DEF AtBank
    <2>4. QED BY <2>1, <2>2, <2>3, WrittenBanksEffect DEF PortChangeAllowed
  <1>3. QED BY <1>1, <1>2 DEF Next, vars, chip, configure, ports, SetControl, drop, commit,
               SkipBank, ReadBank, Finish, FailRead, FailWriteConfig, Restart

\* No commit, complete or cut short, changes the mode of a port it was not asked
\* to, or to another mode than it was asked.
THEOREM RequestedOnly == Spec => OnlyRequestedPortsChange
  <1>1. Inv /\ [Next]_vars => [PortChangeAllowed]_vars
    BY PortChangeStep
  <1>2. QED BY <1>1, CommitInvariant, PTL DEF Spec, Inv, OnlyRequestedPortsChange

\* commit returns Ok only with everything asked for on the chip.
THEOREM CommitComplete == Spec => CommitAppliesAll
  <1>1. Inv => [AllApplied]_vars
    <2> SUFFICES ASSUME Inv, Finish PROVE AllApplied
      BY DEF AllApplied
    <2>1. \A b \in Banks : b < bank
      BY ChipAssumption DEF Finish, Banks
    <2>2. \A b \in Banks, o \in Offsets :
            banks[b][o] # Unset => registers[b][o] = banks[b][o]
      BY <2>1 DEF Finish, Inv, CommitInv
    <2>3. dirty => Meaning(control') = config
      BY ConfigByteMeaning DEF Finish, Inv, TypeOK
    <2>4. QED BY <2>2, <2>3 DEF Finish, AllApplied
  <1>2. QED BY <1>1, CommitInvariant, PTL DEF Inv, CommitAppliesAll

-----------------------------------------------------------------------------
(* The shadow of the configuration register. *)

LEMMA ShadowInit == Init => ShadowInSync
  <1> SUFFICES ASSUME Init PROVE ShadowInSync
    OBVIOUS
  <1>1. CASE MayRestart
    <2>1. stray = ControlBits
      BY <1>1 DEF Init
    <2>2. QED BY <2>1 DEF ShadowInSync
  <1>2. CASE ~MayRestart
    <2>1. (0 \notin control) = TRUE /\ (7 \in control) = FALSE
      BY <1>2 DEF Init, PowerOnControl
    <2>2. Meaning(control) = [shutdown |-> TRUE, transition_detect |-> FALSE]
      BY <2>1, Zenon DEF Meaning
    <2>3. Meaning(control) = config
      BY <2>2 DEF Init, DefaultConfig
    <2>4. QED BY <2>3 DEF ShadowInSync
  <1>3. QED BY <1>1, <1>2

BitChangesAllowed == \A bit \in ControlBits : BitChanges(bit) => bit \in asked \cup stray

LEMMA ShadowStep ==
  ASSUME Inv, ShadowInSync, [Next]_vars
  PROVE  ShadowInSync' /\ BitChangesAllowed
  <1> USE DEF Inv, ShadowInSync, BitChangesAllowed, BitChanges
  <1>1. CASE UNCHANGED <<config, control, asked, stray>>
    BY <1>1
  <1>2. ASSUME NEW bit \in ControlBits, NEW b \in BOOLEAN, SetControl(bit, b)
        PROVE  ShadowInSync' /\ BitChangesAllowed
    <2>1. \A other \in ControlBits \ {bit} : config'[other] = config[other]
      BY <1>2 DEF SetControl, TypeOK, Controls, ControlBits
    <2>2. QED BY <2>1, <1>2 DEF SetControl, chip
  <1>3. CASE Finish
    <2>1. CASE dirty
      <3>1. Meaning(control') = config /\ config' = config
        BY <2>1, <1>3, ConfigByteMeaning DEF Finish, TypeOK
      <3>2. QED BY <3>1
    <2>2. CASE ~dirty
      BY <2>2, <1>3 DEF Finish, Consumed, CommitInv
    <2>3. QED BY <2>1, <2>2
  <1>4. CASE drop \/ FailRead \/ FailWriteBank
    BY <1>4 DEF drop, FailRead, FailWriteBank, Abandoned, Consumed, chip
  <1>5. CASE FailWriteConfig
    <2>1. control' = control \/ Meaning(control') = config
      BY <1>5, ConfigByteMeaning DEF FailWriteConfig, TypeOK
    <2>2. config' = config /\ asked' = {} /\ stray' = stray \cup asked
      BY <1>5 DEF FailWriteConfig, Abandoned, Consumed
    <2>3. QED BY <2>1, <2>2
  <1>6. CASE Restart
    BY <1>6 DEF Restart, Consumed, chip
  <1>7. CASE \/ configure \/ commit \/ SkipBank \/ ReadBank \/ WriteBank
             \/ \E S \in SUBSET Ports, m \in Modes : ports(S, m)
    BY <1>1, <1>7 DEF configure, commit, SkipBank, ReadBank, WriteBank, ports, chip
  <1>8. CASE UNCHANGED vars
    BY <1>1, <1>8 DEF vars, driver, chip
  <1>9. QED BY <1>2, <1>3, <1>4, <1>5, <1>6, <1>7, <1>8 DEF Next, ControlBits

\* Whatever is dropped, fails or restarts, the shadow is the chip's register but
\* for the bits set for the next commit and the stray ones.
THEOREM ShadowSound == Spec => []ShadowInSync
  <1>1. Inv /\ ShadowInSync /\ [Next]_vars => ShadowInSync'
    BY ShadowStep
  <1>2. QED BY ShadowInit, <1>1, CommitInvariant, PTL DEF Spec, Inv

\* A commit changes only the configuration bits that its Configurator was told
\* to set and the stray ones.
THEOREM AskedOrStrayBitsOnly == Spec => OnlyAskedOrStrayBitsChange
  <1>1. Inv /\ ShadowInSync /\ [Next]_vars => [BitChangesAllowed]_vars
    BY ShadowStep
  <1>2. QED BY <1>1, ShadowSound, CommitInvariant, PTL
            DEF Spec, Inv, OnlyAskedOrStrayBitsChange, BitChangesAllowed

-----------------------------------------------------------------------------
(* Where nothing is dropped, fails or restarts, no bit is stray. *)

LEMMA NothingStray ==
  ASSUME ~MayDrop, ~BusMayFail, ~MayRestart
  PROVE  Spec => [](stray = {})
  <1>1. Init => stray = {}
    BY DEF Init
  <1>2. stray = {} /\ [Next]_vars => (stray = {})'
    BY DEF Next, vars, driver, configure, ports, SetControl, drop, commit, SkipBank, ReadBank,
           WriteBank, Finish, FailRead, FailWriteBank, FailWriteConfig, Restart
  <1>3. QED BY <1>1, <1>2, PTL DEF Spec

\* Without drops, bus errors and restarts commit changes only the configuration
\* bits that its Configurator was told to set.
THEOREM AskedBitsOnly ==
  ASSUME ~MayDrop, ~BusMayFail, ~MayRestart
  PROVE  Spec => OnlyAskedBitsChange
  <1>1. BitChangesAllowed /\ stray = {} =>
          \A bit \in ControlBits : BitChanges(bit) => bit \in asked
    BY DEF BitChangesAllowed
  <1>2. Inv /\ ShadowInSync /\ stray = {} /\ [Next]_vars =>
          [\A bit \in ControlBits : BitChanges(bit) => bit \in asked]_vars
    BY <1>1, ShadowStep
  <1>3. QED BY <1>2, ShadowSound, NothingStray, CommitInvariant, PTL
            DEF Spec, Inv, OnlyAskedBitsChange
=============================================================================
