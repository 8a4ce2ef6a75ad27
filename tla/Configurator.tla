---------------------------- MODULE Configurator ----------------------------
(***************************************************************************)
(* Configuring the chip: the shadow of the configuration register kept in  *)
(* Expander, the Configurator that borrows it, and commit, which reads and *)
(* writes the chip's registers one bus transaction at a time.              *)
(*                                                                         *)
(* A bank register is a function from the offsets of its ports to two-bit  *)
(* fields, a field the set of its one bits.  The Configurator borrows the  *)
(* expander mutably, so the driver is sequential; what may come between    *)
(* two transactions is a bus error or a restart of the program.            *)
(***************************************************************************)
EXTENDS Integers

CONSTANTS
  BankSize,     \* ports configured by one bank register: 4
  LastBank,     \* 6 on the device
  Modes,        \* port modes in use, a subset of PortMode
  MayDrop,      \* a Configurator may be dropped without a commit
  BusMayFail,   \* a bus transaction may return an error
  MayRestart    \* the program may restart while the chip keeps its registers

Banks == 0..LastBank
Offsets == 0..(BankSize - 1)
Ports == BankSize..(BankSize * (LastBank + 2) - 1)

\* The two-bit encodings: Output 01, InputFloating 10, InputPullup 11.
Field == SUBSET {0, 1}
Unset == {}
PortMode == {{0}, {1}, {0, 1}}

ASSUME ChipAssumption ==
  /\ BankSize \in Nat \ {0}
  /\ LastBank \in Nat
  /\ Modes \subseteq PortMode

ASSUME EnvironmentAssumption == {MayDrop, BusMayFail, MayRestart} \subseteq BOOLEAN

VARIABLES
  config,    \* Expander::config, the shadow of the configuration register
  phase,     \* of the Configurator
  banks,     \* Configurator::banks
  dirty,     \* Configurator::expander_config_dirty
  asked,     \* observer: the configuration bits this Configurator was told to set
  stray,     \* observer: bits that an earlier Configurator, dropped or failed, left in
             \* the shadow, or that the program does not know since it started
  bank,      \* commit: the bank it is at
  current,   \* commit: the bank register, as read by read_modify_bank_config
  registers, \* chip: the bank registers
  control    \* chip: the configuration register

driver == <<config, phase, banks, dirty, asked, stray, bank, current>>
chip == <<registers, control>>
vars == <<driver, chip>>

ControlBits == {"shutdown", "transition_detect"}
Controls == [shutdown : BOOLEAN, transition_detect : BOOLEAN]
NoChange == [o \in Offsets |-> Unset]
NoBanks == [b \in Banks |-> NoChange]

\* What the chip powers up with: shut down, every port an input.
PowerOnControl == {}
PowerOnBank == [o \in Offsets |-> {1}]

\* ExpanderConfig::default.
DefaultConfig == [shutdown |-> TRUE, transition_detect |-> FALSE]

\* The shadow, the builder, the locals of commit and the registers have their
\* types; a bank register always holds a valid mode for each of its ports.
TypeOK ==
  /\ config \in Controls
  /\ phase \in {"none", "building", "commit", "merge"}
  /\ banks \in [Banks -> [Offsets -> {Unset} \cup Modes]]
  /\ dirty \in BOOLEAN
  /\ asked \in SUBSET ControlBits
  /\ stray \in SUBSET ControlBits
  /\ bank \in 0..(LastBank + 1)
  /\ current \in [Offsets -> PortMode]
  /\ registers \in [Banks -> [Offsets -> PortMode]]
  /\ control \in SUBSET {0, 7}

\* The program finds the chip as it powers up, or, when it can restart alone,
\* as an earlier run left it.
Init ==
  /\ config = DefaultConfig
  /\ phase = "none" /\ banks = NoBanks /\ dirty = FALSE /\ asked = {}
  /\ bank = 0 /\ current = PowerOnBank
  /\ registers \in [Banks -> [Offsets -> Modes]]
  /\ IF MayRestart THEN control \in SUBSET {0, 7} /\ stray = ControlBits
                   ELSE control = PowerOnControl /\ stray = {}

-----------------------------------------------------------------------------
(* Bank registers. *)

Bank(p) == p \div BankSize - 1
Offset(p) == p % BankSize

\* Variant: the old bits of the field are not masked out first.
SetFieldOr(f, m) == f \cup m

\* BankConfig::set_port on one field: mask, then or.
SetField(f, m) == (f \ {0, 1}) \cup m

\* Variant: the mask keeps the fields that were set.
KeepMaskInverted(cfg, o) == IF cfg[o] = Unset THEN {} ELSE {0, 1}

\* The bits of the field at o that a merge keeps.
KeepMask(cfg, o) == IF cfg[o] = Unset THEN {0, 1} ELSE {}

\* Variant: one set field is enough to overwrite.
StatusEager(cfg) ==
  IF \A o \in Offsets : KeepMask(cfg, o) = {0, 1} THEN "Unchanged" ELSE "Overwrite"

Status(cfg) ==
  IF \A o \in Offsets : KeepMask(cfg, o) = {0, 1} THEN "Unchanged"
  ELSE IF \A o \in Offsets : KeepMask(cfg, o) = {} THEN "Overwrite"
  ELSE "ReadModify"

Merge(cfg, cur) == [o \in Offsets |-> (cur[o] \cap KeepMask(cfg, o)) \cup cfg[o]]

(* The configuration register, as the set of its one bits. *)

\* Variant: bit 0 is taken for the shutdown bit itself.
ConfigByteShutdown(cfg) ==
  (IF cfg.shutdown THEN {0} ELSE {}) \cup (IF cfg.transition_detect THEN {7} ELSE {})

\* The conversion of ExpanderConfig: bit 0 is normal operation.
ConfigByte(cfg) ==
  (IF cfg.shutdown THEN {} ELSE {0}) \cup (IF cfg.transition_detect THEN {7} ELSE {})

\* What a value of the register means to the chip.
Meaning(c) == [shutdown |-> 0 \notin c, transition_detect |-> 7 \in c]

-----------------------------------------------------------------------------
(* Building. *)

configure ==
  /\ phase = "none" /\ phase' = "building"
  /\ UNCHANGED <<config, banks, dirty, asked, stray, bank, current, chip>>

\* The Configurator is consumed, by a commit or a drop.
Consumed ==
  /\ phase' = "none" /\ banks' = NoBanks /\ dirty' = FALSE /\ asked' = {}
  /\ bank' = 0 /\ current' = PowerOnBank

\* ... and what it set in the shadow stays there, unwritten.
Abandoned == Consumed /\ stray' = stray \cup asked

\* port and ports; a number that is no port panics and drops the Configurator.
ports(S, m) ==
  /\ phase = "building"
  /\ banks' = [b \in Banks |-> [o \in Offsets |->
       IF \E p \in S : Bank(p) = b /\ Offset(p) = o
         THEN SetField(banks[b][o], m) ELSE banks[b][o]]]
  /\ UNCHANGED <<config, phase, dirty, asked, stray, bank, current, chip>>

\* Variant: the bit is set in a default configuration, not in the shadow.
SetControlFromDefault(bit, b) ==
  /\ phase = "building"
  /\ config' = [DefaultConfig EXCEPT ![bit] = b]
  /\ dirty' = TRUE /\ asked' = asked \cup {bit}
  /\ UNCHANGED <<phase, banks, stray, bank, current, chip>>

\* shutdown and detect_transitions: they write the shadow at once.
SetControl(bit, b) ==
  /\ phase = "building"
  /\ config' = [config EXCEPT ![bit] = b]
  /\ dirty' = TRUE /\ asked' = asked \cup {bit}
  /\ UNCHANGED <<phase, banks, stray, bank, current, chip>>

drop ==
  /\ MayDrop
  /\ phase = "building"
  /\ Abandoned
  /\ UNCHANGED <<config, chip>>

-----------------------------------------------------------------------------
(* Committing. *)

commit ==
  /\ phase = "building" /\ phase' = "commit"
  /\ UNCHANGED <<config, banks, dirty, asked, stray, bank, current, chip>>

AtBank(status) ==
  /\ phase = "commit" /\ bank \in Banks
  /\ Status(banks[bank]) = status

SkipBank ==
  /\ AtBank("Unchanged")
  /\ bank' = bank + 1
  /\ UNCHANGED <<config, phase, banks, dirty, asked, stray, current, chip>>

\* The read of read_modify_bank_config.
ReadBank ==
  /\ AtBank("ReadModify")
  /\ phase' = "merge" /\ current' = registers[bank]
  /\ UNCHANGED <<config, banks, dirty, asked, stray, bank, chip>>

\* What commit writes to the register of the bank it is at.
BankValue == IF phase = "merge" THEN Merge(banks[bank], current) ELSE banks[bank]

\* Variant: the write goes to the next bank.
WrittenBanksNext == [registers EXCEPT ![(bank + 1) % (LastBank + 1)] = BankValue]

WrittenBanks == [registers EXCEPT ![bank] = BankValue]

\* write_bank_config, or the write of read_modify_bank_config.
WriteBank ==
  /\ AtBank("Overwrite") \/ phase = "merge"
  /\ registers' = WrittenBanks
  /\ phase' = "commit" /\ bank' = bank + 1
  /\ UNCHANGED <<config, banks, dirty, asked, stray, current, control>>

\* After the last bank: write_config if a bit was set, and commit returns Ok.
Finish ==
  /\ phase = "commit" /\ bank = LastBank + 1
  /\ control' = IF dirty THEN ConfigByte(config) ELSE control
  /\ stray' = IF dirty THEN {} ELSE stray
  /\ Consumed
  /\ UNCHANGED <<config, registers>>

\* A transaction fails and commit returns its error; a write may have reached
\* the chip all the same.
FailRead ==
  /\ BusMayFail
  /\ AtBank("ReadModify")
  /\ Abandoned
  /\ UNCHANGED <<config, chip>>

FailWriteBank ==
  /\ BusMayFail
  /\ AtBank("Overwrite") \/ phase = "merge"
  /\ registers' \in {registers, WrittenBanks}
  /\ Abandoned
  /\ UNCHANGED <<config, control>>

FailWriteConfig ==
  /\ BusMayFail
  /\ phase = "commit" /\ bank = LastBank + 1 /\ dirty
  /\ control' \in {control, ConfigByte(config)}
  /\ Abandoned
  /\ UNCHANGED <<config, registers>>

\* The program restarts at any point and makes a new Expander.
Restart ==
  /\ MayRestart
  /\ config' = DefaultConfig /\ stray' = ControlBits
  /\ Consumed
  /\ UNCHANGED chip

Next ==
  \/ configure
  \/ \E S \in SUBSET Ports, m \in Modes : ports(S, m)
  \/ \E b \in BOOLEAN : SetControl("shutdown", b) \/ SetControl("transition_detect", b)
  \/ drop \/ commit
  \/ SkipBank \/ ReadBank \/ WriteBank \/ Finish
  \/ FailRead \/ FailWriteBank \/ FailWriteConfig
  \/ Restart

Spec == Init /\ [][Next]_vars

-----------------------------------------------------------------------------
(* Properties. *)

PortChangeAllowed ==
  \A b \in Banks, o \in Offsets :
    registers'[b][o] # registers[b][o] =>
      /\ phase \in {"commit", "merge"}
      /\ banks[b][o] # Unset /\ registers'[b][o] = banks[b][o]

AllApplied ==
  Finish =>
    /\ \A b \in Banks, o \in Offsets :
         banks[b][o] # Unset => registers'[b][o] = banks[b][o]
    /\ dirty => Meaning(control') = config

BitChanges(bit) == Meaning(control')[bit] # Meaning(control)[bit]

\* A port changes mode only while a commit runs, and to the mode asked for it:
\* neither the read-modify-write of its neighbours nor a commit cut short by an
\* error or a restart touches it otherwise.
OnlyRequestedPortsChange == [][PortChangeAllowed]_vars

\* When commit returns Ok, every port asked for has its mode and the chip's
\* configuration register is the shadow if a bit of it was asked for.
CommitAppliesAll == [][AllApplied]_vars

\* A configuration bit changes on the chip only by a commit of a Configurator
\* that was told to set it ("not applied unless committed", config.rs).
OnlyAskedBitsChange == [][\A bit \in ControlBits : BitChanges(bit) => bit \in asked]_vars

\* The shadow differs from the chip's configuration register only in bits that
\* the Configurator in use was told to set, or that went stray; whatever failed
\* or restarted before, one commit that sets a bit and returns Ok ends that.
ShadowInSync ==
  \A bit \in ControlBits : config[bit] # Meaning(control)[bit] => bit \in asked \cup stray

\* A configuration bit changes on the chip only if it was asked for or was stray:
\* a failed or dropped Configurator leaks the bits it set, and no others.
OnlyAskedOrStrayBitsChange ==
  [][\A bit \in ControlBits : BitChanges(bit) => bit \in asked \cup stray]_vars

-----------------------------------------------------------------------------
(* The inductive invariant. *)

\* A read-modify-write has the chip's value in hand, and holds for a bank that
\* is only partly set; the banks before it have their modes.
CommitInv ==
  /\ phase \in {"none", "building"} => bank = 0
  /\ phase = "merge" => bank \in Banks /\ current = registers[bank]
  /\ phase \in {"commit", "merge"} =>
       \A b \in Banks, o \in Offsets :
         b < bank /\ banks[b][o] # Unset => registers[b][o] = banks[b][o]
  /\ phase = "none" => dirty = FALSE /\ asked = {}
  /\ asked # {} => dirty
=============================================================================
