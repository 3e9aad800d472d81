----------------------------- MODULE Registers -----------------------------
(***************************************************************************)
(* Registers behind a bus that may fail.                                   *)
(*  - mii_ethtool_set_link_ksettings() and                                 *)
(*    mii_ethtool_get_link_ksettings() (compat/backport-4.10.c,            *)
(*    backport-include/linux/mii.h) on a PHY that negotiates by itself.    *)
(*    Registers are sets of the names of bits.                             *)
(*  - The accessors of the PCI Express capability (compat/compat-3.7.c):   *)
(*    which registers a function has follows from its flags register, and  *)
(*    each access of the hardware may fail.  A word is a set of bits; the  *)
(*    positions are the offsets of words, and a dword is two of them.      *)
(*  - The interrupt vectors of a PCI function (compat/backport-4.8.c,      *)
(*    compat/backport-3.14.c) and the count of its virtual functions that  *)
(*    guests use (compat/backport-3.10.c), while others do the same.       *)
(*  - Register maps over I2C (compat/compat-3.4.c) with broken transfers.  *)
(***************************************************************************)
EXTENDS Integers, FiniteSets, Sequences

CONSTANTS LinkCmds,     \* the link settings that are asked for
          Abilities,    \* sets of modes, each of which a partner may have
          PciTasks, MaxPciCalls,
          PciTargets,   \* sets of offsets, one of which the tasks change
          MaxVecs,
          MaxVfs,       \* devices with the ID of the virtual functions
          I2cRegs, I2cValues

ASSUME RegistersAssumption ==
    /\ MaxVecs \in Nat /\ MaxVfs \in Nat
    /\ PciTargets \subseteq SUBSET Int
    /\ I2cValues \subseteq [1 .. 2 -> Int]

VARIABLE mii    \* [supports_gmii, advertise, ctrl1000, bmcr, lpa, stat1000, complete: the PHY and its registers;
                \*  full_duplex, force_media, advertising: the driver's struct; read: what get has read so far;
                \*  ret; asked: the last settings taken; got: the last ones answered; quiet: the PHY has not changed since]

(* The bits of the registers that stand for link modes and the like, by    *)
(* their names, as linux/mii.h converts them.                              *)
AdvBits ==
    [ADVERTISED_10baseT_Half |-> "ADVERTISE_10HALF", ADVERTISED_10baseT_Full |-> "ADVERTISE_10FULL",
     ADVERTISED_100baseT_Half |-> "ADVERTISE_100HALF", ADVERTISED_100baseT_Full |-> "ADVERTISE_100FULL",
     ADVERTISED_Pause |-> "ADVERTISE_PAUSE_CAP", ADVERTISED_Asym_Pause |-> "ADVERTISE_PAUSE_ASYM"]
Ctrl1000Bits == [ADVERTISED_1000baseT_Half |-> "ADVERTISE_1000HALF", ADVERTISED_1000baseT_Full |-> "ADVERTISE_1000FULL"]
Stat1000Bits == [ADVERTISED_1000baseT_Half |-> "LPA_1000HALF", ADVERTISED_1000baseT_Full |-> "LPA_1000FULL"]
ToBits(bits, names) == {bits[n] : n \in names \cap DOMAIN bits}
ToNames(bits, reg) == {n \in DOMAIN bits : bits[n] \in reg}
ethtool_adv_to_mii_adv_t(ethadv) == ToBits(AdvBits, ethadv)
mii_adv_to_ethtool_adv_t(adv) == ToNames(AdvBits, adv)
ethtool_adv_to_mii_ctrl1000_t(ethadv) == ToBits(Ctrl1000Bits, ethadv)
mii_ctrl1000_to_ethtool_adv_t(adv) == ToNames(Ctrl1000Bits, adv)
mii_lpa_to_ethtool_lpa_t(lpa) == mii_adv_to_ethtool_adv_t(lpa) \cup IF "LPA_LPACK" \in lpa THEN {"ADVERTISED_Autoneg"} ELSE {}
mii_stat1000_to_ethtool_lpa_t(lpa) == ToNames(Stat1000Bits, lpa)
mii_get_an(reg) == mii_lpa_to_ethtool_lpa_t(reg)

\* Modes past bit 31 get lost, and nobody looks at the answer that says so.
PastBit31 == {"ETHTOOL_LINK_MODE_100000baseKR4_Full"}
ethtool_convert_link_mode_to_legacy_u32(src) == src \ PastBit31

Modes ==
    [ADVERTISED_10baseT_Half |-> <<10, "HALF">>, ADVERTISED_10baseT_Full |-> <<10, "FULL">>,
     ADVERTISED_100baseT_Half |-> <<100, "HALF">>, ADVERTISED_100baseT_Full |-> <<100, "FULL">>,
     ADVERTISED_1000baseT_Half |-> <<1000, "HALF">>, ADVERTISED_1000baseT_Full |-> <<1000, "FULL">>]
FastModes == DOMAIN Ctrl1000Bits
SlowModes == DOMAIN Modes \ FastModes
\* Bits that are none of these functions' business.
Other == {"other"}

-----------------------------------------------------------------------------
MiiStart(gmii) ==
    [supports_gmii |-> gmii, advertise |-> ToBits(AdvBits, SlowModes) \cup Other \cup {"ADVERTISE_100BASE4"},
     ctrl1000 |-> ToBits(Ctrl1000Bits, FastModes) \cup Other, bmcr |-> {"BMCR_ANENABLE"} \cup Other,
     lpa |-> {}, stat1000 |-> {}, complete |-> FALSE, full_duplex |-> FALSE, force_media |-> FALSE,
     advertising |-> ToBits(AdvBits, SlowModes) \cup Other \cup {"ADVERTISE_100BASE4"},
     read |-> <<>>, ret |-> "none", asked |-> <<>>, got |-> <<>>, quiet |-> FALSE]
MiiInit == \E gmii \in BOOLEAN : mii = MiiStart(gmii)

\* Anything else is answered with -EINVAL.
Valid(cmd) ==
    /\ cmd.speed \in {10, 100, 1000} /\ cmd.duplex \in {"HALF", "FULL"} /\ cmd.port = "PORT_MII" /\ cmd.phy_address = "phy_id"
    /\ cmd.autoneg \in {"ENABLE", "DISABLE"} /\ (cmd.speed = 1000 => mii.supports_gmii)
    /\ cmd.autoneg = "ENABLE" => ethtool_convert_link_mode_to_legacy_u32(cmd.advertising) \cap DOMAIN Modes # {}
\* BMCR_ANRESTART clears itself: the PHY has not completed any more.
SetAutoneg(cmd) ==
    LET advertising == ethtool_convert_link_mode_to_legacy_u32(cmd.advertising)
        tmp == (mii.advertise \ (ToBits(AdvBits, SlowModes) \cup {"ADVERTISE_100BASE4"})) \cup ethtool_adv_to_mii_adv_t(advertising)
        tmp2 == (mii.ctrl1000 \ ToBits(Ctrl1000Bits, FastModes)) \cup ethtool_adv_to_mii_ctrl1000_t(advertising)
    IN  [mii EXCEPT !.advertise = tmp, !.advertising = IF mii.advertise # tmp THEN tmp ELSE @,
                    !.ctrl1000 = IF mii.supports_gmii THEN tmp2 ELSE @,
                    !.bmcr = @ \cup {"BMCR_ANENABLE"}, !.complete = FALSE, !.force_media = FALSE]
SpeedBits(cmd) ==
    CASE cmd.speed = 1000 -> {"BMCR_SPEED1000"} [] cmd.speed = 100 -> {"BMCR_SPEED100"} [] OTHER -> {}
DuplexBits(cmd) == IF cmd.duplex = "FULL" THEN {"BMCR_FULLDPLX"} ELSE {}
\* Bug: the bit of 1000 Mbit/s stays.
SetForcedKeepsSpeed(cmd) ==
    [mii EXCEPT !.bmcr = (@ \ {"BMCR_ANENABLE", "BMCR_SPEED100", "BMCR_FULLDPLX"}) \cup SpeedBits(cmd) \cup DuplexBits(cmd),
                !.full_duplex = (cmd.duplex = "FULL"), !.force_media = TRUE, !.complete = FALSE]
SetForced(cmd) ==
    [mii EXCEPT !.bmcr = (@ \ {"BMCR_ANENABLE", "BMCR_SPEED100", "BMCR_SPEED1000", "BMCR_FULLDPLX"})
                            \cup SpeedBits(cmd) \cup DuplexBits(cmd),
                !.full_duplex = (cmd.duplex = "FULL"), !.force_media = TRUE, !.complete = FALSE]
\* ethtool calls this and get under the RTNL: one of them at a time.
mii_ethtool_set_link_ksettings(cmd) ==
    /\ mii.read = <<>>
    /\ mii' = IF ~Valid(cmd) THEN [mii EXCEPT !.ret = "EINVAL"]
              ELSE [(IF cmd.autoneg = "ENABLE" THEN SetAutoneg(cmd) ELSE SetForced(cmd)) EXCEPT
                        !.ret = "ok", !.asked = <<cmd>>, !.got = <<>>, !.quiet = FALSE]

-----------------------------------------------------------------------------
(* get reads BMCR, BMSR and with GMII CTRL1000 and STAT1000, and then, if  *)
(* they say so, the abilities that have been exchanged.                    *)
GetControl ==
    /\ mii.read = <<>>
    /\ mii' = [mii EXCEPT !.read = <<[bmcr |-> mii.bmcr, complete |-> mii.complete,
                                    ctrl1000 |-> IF mii.supports_gmii THEN mii.ctrl1000 ELSE {},
                                    stat1000 |-> IF mii.supports_gmii THEN mii.stat1000 ELSE {}]>>, !.quiet = TRUE]
Supported ==
    SlowModes \cup {"ADVERTISED_Autoneg", "ADVERTISED_TP", "ADVERTISED_MII"} \cup IF mii.supports_gmii THEN FastModes ELSE {}
Advertising(r) ==
    {"ADVERTISED_TP", "ADVERTISED_MII"}
    \cup IF "BMCR_ANENABLE" \notin r.bmcr THEN {}
         ELSE {"ADVERTISED_Autoneg"} \cup mii_get_an(mii.advertise)
              \cup IF mii.supports_gmii THEN mii_ctrl1000_to_ethtool_adv_t(r.ctrl1000) ELSE {}
LpAdvertising(r) ==
    IF "BMCR_ANENABLE" \in r.bmcr /\ r.complete
    THEN mii_get_an(mii.lpa) \cup mii_stat1000_to_ethtool_lpa_t(r.stat1000) ELSE {}
Best(nego) ==
    LET duplex(full) == IF full \in nego THEN "FULL" ELSE "HALF"
    IN  IF nego \cap FastModes # {} THEN <<1000, duplex("ADVERTISED_1000baseT_Full")>>
        ELSE IF nego \cap {"ADVERTISED_100baseT_Full", "ADVERTISED_100baseT_Half"} # {}
        THEN <<100, duplex("ADVERTISED_100baseT_Full")>> ELSE <<10, duplex("ADVERTISED_10baseT_Full")>>
ForcedMode(bmcr) ==
    <<IF "BMCR_SPEED1000" \in bmcr /\ "BMCR_SPEED100" \notin bmcr THEN 1000 ELSE IF "BMCR_SPEED100" \in bmcr THEN 100 ELSE 10,
      IF "BMCR_FULLDPLX" \in bmcr THEN "FULL" ELSE "HALF">>
\* Nothing is said below of the mixture that get answers when the PHY changes
\* its registers between the reads.
mii_ethtool_get_link_ksettings ==
    /\ mii.read # <<>>
    /\ LET r == mii.read[1]
           auto == "BMCR_ANENABLE" \in r.bmcr
           mode == IF auto THEN Best(Advertising(r) \cap LpAdvertising(r)) ELSE ForcedMode(r.bmcr)
       IN  mii' = [mii EXCEPT !.read = <<>>, !.full_duplex = (mode[2] = "FULL"),
                              !.got = <<[autoneg |-> IF auto THEN "ENABLE" ELSE "DISABLE", mode |-> mode, supported |-> Supported,
                                         advertising |-> Advertising(r), lp_advertising |-> LpAdvertising(r)]>>]

\* The PHY finds out what the partner can, or loses the link.
Change ==
    \/ \E partner \in Abilities :
          /\ "BMCR_ANENABLE" \in mii.bmcr /\ ~mii.complete
          /\ mii' = [mii EXCEPT !.lpa = ToBits(AdvBits, partner) \cup {"LPA_LPACK"},
                                !.stat1000 = ToBits(Stat1000Bits, partner), !.complete = TRUE, !.quiet = FALSE]
    \/ mii.complete /\ mii' = [mii EXCEPT !.complete = FALSE, !.quiet = FALSE]

MiiNext ==
    \/ \E cmd \in LinkCmds : mii_ethtool_set_link_ksettings(cmd)
    \/ GetControl \/ mii_ethtool_get_link_ksettings \/ Change

-----------------------------------------------------------------------------
Faster(m, n) == m[1] > n[1] \/ (m[1] = n[1] /\ m[2] = "FULL" /\ n[2] = "HALF")
Pauses == {"ADVERTISED_Pause", "ADVERTISED_Asym_Pause"}
(* Settings that were taken come back: a forced speed and duplex as they   *)
(* were asked for, whatever had been set before, and with autonegotiation  *)
(* the modes that the PHY knows, of which the fastest that the partner has *)
(* too is the answer once they have agreed.  The struct agrees with the    *)
(* answer and the registers, and no unrelated bit of the PHY is lost.      *)
MiiSettingsComeBack ==
    /\ Other \subseteq mii.bmcr \cap mii.advertise \cap mii.ctrl1000 /\ mii.advertising = mii.advertise
    /\ mii.read = <<>> /\ mii.quiet /\ mii.got # <<>> /\ mii.asked # <<>> =>
        LET got == mii.got[1]
            asked == mii.asked[1]
        IN  /\ got.autoneg = asked.autoneg /\ mii.force_media = (asked.autoneg = "DISABLE")
            /\ mii.full_duplex = (got.mode[2] = "FULL")
            /\ asked.autoneg = "DISABLE" => got.mode = <<asked.speed, asked.duplex>> /\ got.lp_advertising = {}
            /\ asked.autoneg = "ENABLE" =>
                /\ got.advertising \cap DOMAIN Modes = asked.advertising \cap got.supported \cap DOMAIN Modes
                /\ asked.advertising \cap Pauses \subseteq got.advertising
                /\ LET common == {Modes[m] : m \in got.advertising \cap got.lp_advertising \cap DOMAIN Modes}
                   IN  common # {} => got.mode \in common /\ \A m \in common : ~Faster(m, got.mode)
                /\ mii.complete => ToNames(AdvBits, mii.lpa) \subseteq got.lp_advertising

-----------------------------------------------------------------------------
VARIABLE pcie   \* [type, version, slot: the flags register ("none": no capability); flaky: reading it fails too;
                \*  regs: the words; task: per task what it has read and will write; ret, got: the last answer;
                \*  asked: what callers asked for; calls; targets: the offsets they change]

Ones == {0, 1}          \* 0xFFFF
PDS == {0}              \* PCI_EXP_SLTSTA_PDS
DEVCTL == 8
LNKCTL == 16
SLTCTL == 24
SLTSTA == 26
RTCTL == 28
DEVCTL2 == 40
FLAGS_TYPE == 240       \* PCI_EXP_FLAGS_TYPE, a mask
Words == {DEVCTL, DEVCTL + 2, LNKCTL, LNKCTL + 2, SLTCTL, SLTSTA, RTCTL, RTCTL + 2, DEVCTL2, DEVCTL2 + 2}

-----------------------------------------------------------------------------
\* What a read of the flags register may give: 0 without the capability; when
\* the read fails, all bits set or none, as the bus left them.
pcie_flags_reg ==
    LET zero == [type |-> "endpoint", version |-> 0, slot |-> FALSE]
        ones == [type |-> "none", version |-> 15, slot |-> TRUE]
    IN  IF pcie.type = "none" THEN {zero}
        ELSE {[type |-> pcie.type, version |-> pcie.version, slot |-> pcie.slot]} \cup IF pcie.flaky THEN {zero, ones} ELSE {}
pci_pcie_type == {f.type : f \in pcie_flags_reg}
pcie_cap_version == {f.version : f \in pcie_flags_reg}
pcie_cap_has_lnkctl == {v > 1 \/ t \in {"root", "endpoint", "legacy"} : t \in pci_pcie_type, v \in pcie_cap_version}
pcie_cap_has_sltctl ==
    {v > 1 \/ t = "root" \/ (t = "downstream" /\ f.slot) : t \in pci_pcie_type, v \in pcie_cap_version, f \in pcie_flags_reg}
pcie_cap_has_rtctl == {v > 1 \/ t \in {"root", "collector"} : t \in pci_pcie_type, v \in pcie_cap_version}
pci_is_pcie == pcie.type # "none"
\* The answers that it may give.  The flags register itself is not in the list:
\* the case label is the mask of the type in it.
pcie_capability_reg_implemented(pos) ==
    IF ~pci_is_pcie THEN {FALSE}
    ELSE CASE pos = FLAGS_TYPE -> {TRUE}
           [] pos \in {4, DEVCTL, DEVCTL + 2} -> {TRUE}
           [] pos \in {12, LNKCTL, LNKCTL + 2} -> pcie_cap_has_lnkctl
           [] pos \in {20, SLTCTL, SLTSTA} -> pcie_cap_has_sltctl
           [] pos \in {RTCTL, 30, 32} -> pcie_cap_has_rtctl
           [] pos \in {36, DEVCTL2, 44, 48, 50} -> {v > 1 : v \in pcie_cap_version}
           [] OTHER -> {FALSE}

\* pci_read_config_word() and _dword(): the words, or an error with all bits set.
Word(pos) == IF pos \in Words THEN pcie.regs[pos] ELSE {}
pci_read_config(span) == {[ret |-> 0, val |-> [p \in span |-> Word(p)]], [ret |-> 1, val |-> [p \in span |-> Ones]]}
pci_write_config(val) ==
    {[pcie EXCEPT !.ret = 1], [pcie EXCEPT !.ret = 0, !.regs = [w \in Words |-> IF w \in DOMAIN val THEN val[w] ELSE @[w]]]}
Zeros(span) == [p \in span |-> {}]
EINVAL(span) == {[ret |-> 22, val |-> Zeros(span)]}
\* An error of the hardware, after which 0 is answered.
ReadImplemented(span) == {IF r.ret = 0 THEN r ELSE [r EXCEPT !.val = Zeros(span)] : r \in pci_read_config(span)}
\* The presence detect state of a downstream port; in a dword it is put into the
\* lower half, where the slot control register is.
ReadHardwired(span, pos, slot_pos) ==
    {[ret |-> 0, val |-> IF pci_is_pcie /\ pos = slot_pos /\ t = "downstream" THEN [Zeros(span) EXCEPT ![pos] = PDS] ELSE Zeros(span)] :
        t \in pci_pcie_type}

Span2(pos) == {pos}
Span4(pos) == {pos, pos + 2}
pcie_capability_read_word(pos) ==
    IF pos % 2 # 0 THEN EINVAL(Span2(pos))
    ELSE UNION {IF impl THEN ReadImplemented(Span2(pos)) ELSE ReadHardwired(Span2(pos), pos, SLTSTA) :
                   impl \in pcie_capability_reg_implemented(pos)}
pcie_capability_read_dword(pos) ==
    IF pos % 4 # 0 THEN EINVAL(Span4(pos))
    ELSE UNION {IF impl THEN ReadImplemented(Span4(pos)) ELSE ReadHardwired(Span4(pos), pos, SLTCTL) :
                   impl \in pcie_capability_reg_implemented(pos)}
\* Nothing is written where the function has no register.
pcie_capability_write_word(pos, val) ==
    IF pos % 2 # 0 THEN {[pcie EXCEPT !.ret = 22]}
    ELSE UNION {IF impl THEN pci_write_config(val) ELSE {[pcie EXCEPT !.ret = 0]} : impl \in pcie_capability_reg_implemented(pos)}
pcie_capability_write_dword(pos, val) ==
    IF pos % 4 # 0 THEN {[pcie EXCEPT !.ret = 22]}
    ELSE UNION {IF impl THEN pci_write_config(val) ELSE {[pcie EXCEPT !.ret = 0]} : impl \in pcie_capability_reg_implemented(pos)}

-----------------------------------------------------------------------------
PciStart(type, version, slot, flaky, targets) ==
    [type |-> type, version |-> version, slot |-> slot, flaky |-> flaky, regs |-> [p \in Words |-> {1}],
     task |-> [t \in PciTasks |-> <<>>], ret |-> 0, got |-> <<>>, asked |-> {}, calls |-> 0, targets |-> targets]
PciInit ==
    \E type \in {"none", "endpoint", "root", "downstream", "collector"}, version \in {1, 2}, slot, flaky \in BOOLEAN, targets \in PciTargets :
        (slot => type = "downstream") /\ pcie = PciStart(type, version, slot, flaky, targets)

Reads(pos, answers) ==
    /\ pcie.asked = {} /\ pcie.got = <<>>                              \* a read changes nothing
    /\ \E r \in answers : pcie' = [pcie EXCEPT !.ret = r.ret, !.got = <<pos, r.val>>]

(* The accessors that change a register: another task may write it between *)
(* the read and the write.  clear and set are per word of the register.    *)
Modified(val, clear, set) == [p \in DOMAIN val |-> (val[p] \ clear[p]) \cup set[p]]
Asks(clear, set) == {<<p, "clear", 1>> : p \in {q \in DOMAIN clear : 1 \in clear[q]}} \cup {<<p, "set", 0>> : p \in {q \in DOMAIN set : 0 \in set[q]}}
ClearAndSet(t, pos, answers, clear, set) ==
    /\ pcie.task[t] = <<>> /\ pcie.calls < MaxPciCalls
    /\ \E r \in answers :
          pcie' = IF r.ret = 0
                  THEN [pcie EXCEPT !.calls = @ + 1, !.task[t] = <<[pos |-> pos, val |-> Modified(r.val, clear, set)]>>,
                                    !.got = <<>>, !.asked = @ \cup Asks(clear, set)]
                  ELSE [pcie EXCEPT !.calls = @ + 1, !.ret = r.ret, !.got = <<pos, r.val>>]
pcie_capability_clear_and_set_word(t, pos, clear, set) == ClearAndSet(t, pos, pcie_capability_read_word(pos), clear, set)
pcie_capability_clear_and_set_dword(t, pos, clear, set) == ClearAndSet(t, pos, pcie_capability_read_dword(pos), clear, set)
WriteBack(t, after) == \E p \in after : pcie' = [p EXCEPT !.task[t] = <<>>, !.got = <<>>]
WriteWord(t) ==
    /\ pcie.task[t] # <<>> /\ Cardinality(DOMAIN pcie.task[t][1].val) = 1
    /\ WriteBack(t, pcie_capability_write_word(pcie.task[t][1].pos, pcie.task[t][1].val))
WriteDword(t) ==
    /\ pcie.task[t] # <<>> /\ Cardinality(DOMAIN pcie.task[t][1].val) = 2
    /\ WriteBack(t, pcie_capability_write_dword(pcie.task[t][1].pos, pcie.task[t][1].val))

\* One bit is set, or one is cleared.
OneBit(span) ==
    {<<Zeros(span), [Zeros(span) EXCEPT ![p] = {0}]>> : p \in span} \cup {<<[Zeros(span) EXCEPT ![p] = {1}], Zeros(span)>> : p \in span}
PciNext ==
    \/ \E pos \in {2, 7} \cup Words \cup {FLAGS_TYPE} : Reads(pos, pcie_capability_read_word(pos)) \/ Reads(pos, pcie_capability_read_dword(pos))
    \/ \E t \in PciTasks, pos \in pcie.targets :
          \/ \E c \in OneBit(Span2(pos)) : pcie_capability_clear_and_set_word(t, pos, c[1], c[2])
          \/ \E c \in OneBit(Span4(pos)) : pcie_capability_clear_and_set_dword(t, pos, c[1], c[2])
    \/ \E t \in PciTasks : WriteWord(t) \/ WriteDword(t)

-----------------------------------------------------------------------------
(* Callers of the accessors may lose each other's change, but as long as   *)
(* the flags register can be read no bit of the capability changes that    *)
(* nobody asked to change, in the other half of a dword or after a read    *)
(* that failed, and registers that the function does not implement are not *)
(* written.  (With flags that are misread between the read and the write a *)
(* register is cleared.)  A read that fails answers 0, never the ones that *)
(* the bus left.                                                           *)
PcieBitsAsAsked ==
    /\ ~pcie.flaky => \A p \in Words :
        /\ 0 \in pcie.regs[p] => <<p, "set", 0>> \in pcie.asked
        /\ 1 \notin pcie.regs[p] => <<p, "clear", 1>> \in pcie.asked
        /\ (\A q \in {p, p - 2} : TRUE \notin pcie_capability_reg_implemented(q)) => pcie.regs[p] = {1}
    /\ pcie.got # <<>> /\ (pcie.ret # 0 \/ TRUE \notin pcie_capability_reg_implemented(pcie.got[1])) =>
        \A p \in DOMAIN pcie.got[2] : pcie.got[2][p] \in {{}, IF pcie.ret = 0 THEN PDS ELSE {}}

-----------------------------------------------------------------------------
(* Interrupt vectors: other devices take and give back vectors between the *)
(* tries of one allocation.                                                *)
VARIABLE irq    \* [free: vectors per kind; min_vecs, max_vecs, flags: the arguments; pc; nvec: the next try;
                \*  vecs: the answer so far (negative: an error); mode, enabled: of the function]

IrqStart(free, min, max, flags) ==
    [free |-> free, min_vecs |-> min, max_vecs |-> max, flags |-> flags, pc |-> "msix", nvec |-> max, vecs |-> -28,
     mode |-> "none", enabled |-> 0]
IrqInit ==
    \E x, m \in 0 .. MaxVecs, min, max \in 1 .. MaxVecs, flags \in SUBSET {"msix", "msi", "legacy"} :
        irq = IrqStart([msix |-> x, msi |-> m], min, max, flags)

\* pci_enable_msix() and pci_enable_msi_block() answer 0, an error (of MSI-X
\* always, in kernels that want the entries), or how many vectors there are.
EnableAnswers(kind) ==
    {-1} \cup IF irq.free[kind] >= irq.nvec THEN {0} ELSE IF irq.free[kind] > 0 THEN {irq.free[kind]} ELSE {}
\* vecs is not positive: the next kind of interrupts is tried.
Following == [msix |-> "msi", msi |-> "legacy"]
Failed(kind, vecs) == [irq EXCEPT !.pc = Following[kind], !.nvec = irq.max_vecs, !.vecs = vecs]
Granted(kind) ==
    [irq EXCEPT !.pc = "done", !.vecs = irq.nvec, !.mode = kind, !.enabled = irq.nvec, !.free[kind] = @ - irq.nvec]
\* One round of the loop; -ERANGE before the first.
Round(kind) ==
    \/ irq.max_vecs < irq.min_vecs /\ irq' = Failed(kind, -34)
    \/ /\ irq.max_vecs >= irq.min_vecs
       /\ \E rc \in EnableAnswers(kind) :
             irq' = CASE rc < 0 -> Failed(kind, rc)
                      [] rc > 0 /\ rc < irq.min_vecs -> Failed(kind, -28)
                      [] rc > 0 /\ rc >= irq.min_vecs -> [irq EXCEPT !.nvec = rc]
                      [] rc = 0 -> Granted(kind)
pci_enable_msix_range == irq.pc = "msix" /\ "msix" \in irq.flags /\ Round("msix")
pci_enable_msi_range == irq.pc = "msi" /\ "msi" \in irq.flags /\ Round("msi")
\* What pci_alloc_irq_vectors() does apart from its calls of the two.
pci_alloc_irq_vectors ==
    \/ /\ irq.pc \in {"msix", "msi"} /\ irq.pc \notin irq.flags
       /\ irq' = [irq EXCEPT !.pc = Following[irq.pc]]
    \/ /\ irq.pc = "legacy"
       /\ irq' = IF "legacy" \in irq.flags /\ irq.min_vecs = 1
                 THEN [irq EXCEPT !.pc = "done", !.vecs = 1, !.mode = "intx", !.enabled = 1]
                 ELSE [irq EXCEPT !.pc = "done"]
OtherDevice ==
    /\ irq.pc # "done"
    /\ \E kind \in {"msix", "msi"}, n \in 0 .. MaxVecs : irq' = [irq EXCEPT !.free[kind] = n]

IrqNext == pci_enable_msix_range \/ pci_enable_msi_range \/ pci_alloc_irq_vectors \/ OtherDevice

(* Whatever other devices do meanwhile, an answer that is not an error is  *)
(* the number of vectors that are enabled, of one kind that the driver     *)
(* allowed, within the bounds it gave; after an error nothing is enabled.  *)
VectorsAsAnswered ==
    irq.pc = "done" =>
        /\ irq.vecs > 0 => irq.enabled = irq.vecs /\ irq.vecs \in irq.min_vecs .. irq.max_vecs
        /\ irq.vecs > 0 => irq.mode \in irq.flags \cup {"intx"} /\ (irq.mode = "intx" => "legacy" \in irq.flags)
        /\ irq.vecs < 0 => irq.enabled = 0 /\ irq.mode = "none"

-----------------------------------------------------------------------------
(* pci_vfs_assigned(): a walk over the virtual functions with a reference  *)
(* to the one it is at, while guests take and give back others.            *)
VARIABLE vf     \* [physfn; devs: per device with the ID of its virtual functions [ours: it is one, assigned]; last: of
                \*  the walk; at: the device held, 0 at the start; refs: per device; count; pc; ever, always: assigned
                \*  at some, at every time of the walk]

VfStart(devs, physfn) ==
    [physfn |-> physfn, devs |-> devs, last |-> 0, at |-> 0, refs |-> [d \in DOMAIN devs |-> 0], count |-> 0, pc |-> "start",
     ever |-> {d \in DOMAIN devs : devs[d].assigned}, always |-> {d \in DOMAIN devs : devs[d].assigned}]
VfInit == \E devs \in [1 .. MaxVfs -> [ours : BOOLEAN, assigned : BOOLEAN]], physfn \in BOOLEAN : vf = VfStart(devs, physfn)
\* pci_get_device() gives back the reference to the device before.
pci_get_device(v) ==
    LET put == [d \in DOMAIN v.refs |-> IF d = v.at THEN v.refs[d] - 1 ELSE v.refs[d]]
        next == v.at + 1
    IN  IF next > v.last THEN [v EXCEPT !.refs = put, !.pc = "done"]
        ELSE [v EXCEPT !.refs = [put EXCEPT ![next] = @ + 1], !.at = next, !.pc = "walk"]
\* The ID of the functions is read from the device; the read may fail, and then
\* no device has what is taken for the ID.
FirstVf ==
    /\ vf.pc = "start"
    /\ IF ~vf.physfn THEN vf' = [vf EXCEPT !.pc = "done"]
       ELSE \E last \in {0, Len(vf.devs)} : vf' = pci_get_device([vf EXCEPT !.last = last])
pci_vfs_assigned ==
    /\ vf.pc = "walk"
    /\ vf' = pci_get_device([vf EXCEPT !.count = IF vf.devs[vf.at].ours /\ vf.devs[vf.at].assigned THEN @ + 1 ELSE @])
Guest(d) ==
    /\ vf.pc = "walk"
    /\ LET now == ~vf.devs[d].assigned
       IN  vf' = [vf EXCEPT !.devs[d].assigned = now, !.ever = IF now THEN @ \cup {d} ELSE @,
                            !.always = IF now THEN @ ELSE @ \ {d}]
VfNext == FirstVf \/ pci_vfs_assigned \/ \E d \in DOMAIN vf.devs : Guest(d)

(* The count takes in every function that a guest had during the whole     *)
(* walk, unless their ID could not be read, and none that no guest had,    *)
(* and no reference is left behind.                                        *)
VfsCounted ==
    LET ours(S) == Cardinality({d \in S : vf.devs[d].ours})
    IN  vf.pc = "done" =>
           /\ vf.count <= ours(vf.ever) /\ (vf.last # 0 => vf.count >= ours(vf.always))
           /\ \A d \in DOMAIN vf.refs : vf.refs[d] = 0

-----------------------------------------------------------------------------
(* regmap_i2c: the device takes the register's number and then two bytes   *)
(* of a value; a transfer may stop anywhere.                               *)
VARIABLE i2c    \* [nostart: the adapter can gather; regs; pc; reg, val: of the call; ret: its answer; read: what it read]

I2cStart(nostart) ==
    [nostart |-> nostart, regs |-> [r \in I2cRegs |-> <<0, 0>>], pc |-> "idle", reg |-> 0, val |-> <<>>, ret |-> "none", read |-> <<>>]
I2cInit == \E nostart \in BOOLEAN : i2c = I2cStart(nostart)

TransferAnswer(ret, want) == IF ret = want THEN "ok" ELSE IF ret < 0 THEN "error" ELSE "EIO"
\* The first n bytes of the value arrived.
Stored(n) == [i2c.regs EXCEPT ![i2c.reg] = [b \in 1 .. 2 |-> IF b <= n THEN i2c.val[b] ELSE @[b]]]
\* The core asks for a write in two parts, and writes one part if it must.
RegWrite(r, v) ==
    /\ i2c.pc = "idle"
    /\ i2c' = [i2c EXCEPT !.pc = "gather", !.reg = r, !.val = v, !.ret = "none", !.read = <<>>]
regmap_i2c_gather_write ==
    /\ i2c.pc = "gather"
    /\ \/ ~i2c.nostart /\ i2c' = [i2c EXCEPT !.pc = "linear"]          \* -ENOTSUPP
       \/ \E ret \in -1 .. 2, n \in 0 .. 2 :                           \* messages done, bytes of the value
             /\ i2c.nostart /\ (ret = 2 => n = 2) /\ (ret = 0 => n = 0)
             /\ i2c' = [i2c EXCEPT !.pc = "idle", !.regs = Stored(n), !.ret = TransferAnswer(ret, 2)]
regmap_i2c_write ==
    /\ i2c.pc = "linear"
    /\ \E ret \in -1 .. 3, n \in 0 .. 2 :                              \* bytes sent, with the register's number
          /\ ret >= 0 => n = IF ret = 0 THEN 0 ELSE ret - 1
          /\ i2c' = [i2c EXCEPT !.pc = "idle", !.regs = Stored(n), !.ret = TransferAnswer(ret, 3)]
regmap_i2c_read(r) ==
    /\ i2c.pc = "idle"
    /\ \E ret \in -1 .. 2 :
          i2c' = [i2c EXCEPT !.reg = r, !.val = <<>>, !.ret = TransferAnswer(ret, 2),
                             !.read = IF ret = 2 THEN i2c.regs[r] ELSE <<>>]
I2cNext ==
    \/ \E r \in I2cRegs : regmap_i2c_read(r) \/ \E v \in I2cValues : RegWrite(r, v)
    \/ regmap_i2c_gather_write \/ regmap_i2c_write

(* A register map that reports success did what was asked: the register    *)
(* holds the whole value written, in whichever of the two ways it went     *)
(* out, and a read has the register's value.                               *)
I2cDoneIfOk ==
    i2c.pc = "idle" /\ i2c.ret = "ok" =>
        i2c.regs[i2c.reg] = IF i2c.val = <<>> THEN i2c.read ELSE i2c.val
=============================================================================
